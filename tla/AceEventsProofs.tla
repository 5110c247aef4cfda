-------------------------- MODULE AceEventsProofs ---------------------------
(***************************************************************************)
(* Proofs about AceEvents, for any number of concurrent handlers,          *)
(* opportunities, events and submissions, and whatever fails; and, at the  *)
(* end, what holds as long as nothing does: whom the on-call hears about,  *)
(* and what the deal shows.                                                *)
(***************************************************************************)
EXTENDS AceEvents, SequenceTheorems, TLAPS

(* The types, by the side they are on.                                     *)

AwsOK ==
    /\ opps \in Seq(Opp) /\ Len(opps) <= MaxOpps
    /\ bus \in Seq(Event) /\ Len(bus) <= MaxEvents
    /\ \A e \in DOMAIN bus : bus[e].opp \in DOMAIN opps
    /\ seen \subseteq DOMAIN bus

RowOK ==
    /\ row \in [token : 0..MaxSubmits, opp : 0..MaxOpps, deal : BOOLEAN, inv : 0..MaxOpps]
    /\ index \subseteq Opps /\ torn \in BOOLEAN

DealOK ==
    deal \in [stage : Labels, by : Writers, status : ReviewStatus \cup Closings \cup {"none"},
              cosell : 0..MaxOpps, archived : BOOLEAN]

CountsOK ==
    submits \in 0..MaxSubmits /\ efaults \in 0..MaxFaults /\ alerts \in [Events -> Nat]

JobOK == job \in [Jobs -> Job]

\* An invocation knows its event, submit_to_ace its opportunity from the
\* moment there is one.
Named == {"persist", "cosell", "start", "task", "index"}
RefsInv ==
    /\ \A h \in Handlers : job[h].pc # "idle" => job[h].ev \in DOMAIN bus
    /\ job["submit"].pc \in Named => job["submit"].opp \in DOMAIN opps
    /\ row.opp \in DOMAIN opps \cup {0}

\* An event is marked before it is worked on, by one invocation at a time, and
\* has alerted nobody until that invocation is through with it.
AlertInv ==
    /\ \A h \in Handlers : job[h].pc # "idle" =>
          /\ job[h].ev \in seen
          /\ job[h].ev \in Events => alerts[job[h].ev] = 0
          /\ \A g \in Handlers \ {h} : job[g].pc # "idle" => job[g].ev # job[h].ev
    /\ \A e \in Events : alerts[e] = 0 \/ (alerts[e] = 1 /\ e \in seen)

Typed    == AwsOK /\ RowOK /\ DealOK /\ CountsOK /\ JobOK
EventInv == Typed /\ RefsInv /\ AlertInv /\ IndexFollowsRow

-----------------------------------------------------------------------------
(* Types.                                                                  *)

\* The bounds, as the provers need them.
LEMMA EventConstants ==
    /\ MaxOpps \in Nat /\ MaxEvents \in Nat /\ MaxSubmits \in Nat /\ MaxFaults \in Nat
    /\ MaxOpps > 0 /\ "submit" \notin Handlers
  BY EventAssumption

\* The parts are the whole.
LEMMA TypedParts == Typed <=> EventTypeOK
  BY DEF Typed, AwsOK, RowOK, DealOK, CountsOK, JobOK, EventTypeOK

\* Opportunities and events as sequences.
LEMMA SequencesTyped ==
    ASSUME AwsOK
    PROVE  /\ Len(opps) \in Nat /\ DOMAIN opps = 1..Len(opps) /\ DOMAIN opps \subseteq Opps
           /\ \A o \in DOMAIN opps : opps[o] \in Opp
           /\ Len(bus) \in Nat /\ DOMAIN bus = 1..Len(bus) /\ DOMAIN bus \subseteq Events
           /\ \A e \in DOMAIN bus : bus[e] \in Event
<1>1. /\ opps \in Seq(Opp) /\ Len(opps) <= MaxOpps
      /\ bus \in Seq(Event) /\ Len(bus) <= MaxEvents
  BY DEF AwsOK
<1>2. /\ Len(opps) \in Nat /\ DOMAIN opps = 1..Len(opps) /\ \A o \in DOMAIN opps : opps[o] \in Opp
  BY <1>1, LenProperties, ElementOfSeq
<1>3. /\ Len(bus) \in Nat /\ DOMAIN bus = 1..Len(bus) /\ \A e \in DOMAIN bus : bus[e] \in Event
  BY <1>1, LenProperties, ElementOfSeq
<1>4. DOMAIN opps \subseteq Opps
  BY <1>1, <1>2, EventConstants, SMT DEF Opps
<1>5. DOMAIN bus \subseteq Events
  BY <1>1, <1>3, EventConstants, SMT DEF Events
<1> QED
  BY <1>2, <1>3, <1>4, <1>5

\* A new opportunity, and a job without one.
LEMMA NewTyped ==
    /\ \A t \in 0..MaxSubmits : NewOpp(t) \in Opp
    /\ NoJob \in Job /\ NoJob.pc = "idle" /\ [NoJob EXCEPT !.pc = "reserve"] \in Job
<1>1. 0 \in 0..MaxSubmits /\ 0 \in 0..MaxEvents /\ 0 \in 0..MaxOpps
  BY EventConstants, SMT
<1>2. \A t \in 0..MaxSubmits : NewOpp(t) \in Opp
  BY DEF NewOpp, Opp, ReviewStatus
<1>3. NewOpp(0) \in Opp
  BY <1>1, <1>2
<1>4. NoJob \in Job /\ NoJob.pc = "idle"
  BY <1>1, <1>3 DEF NoJob, Job, Steps
<1>5. [NoJob EXCEPT !.pc = "reserve"] \in Job
  BY <1>4 DEF Job, Steps
<1> QED
  BY <1>2, <1>4, <1>5

\* A failure counts against the bound.
LEMMA EventFaultTyped == ASSUME CountsOK, NEW kind, Fault(kind) PROVE efaults' \in 0..MaxFaults
  BY EventConstants, SMT DEF CountsOK, Fault

\* The initial states: nothing is submitted, or an opportunity made by hand is there.
LEMMA InitEventInv == EventInit => EventInv
<1> SUFFICES ASSUME EventInit PROVE EventInv
  OBVIOUS
<1>1. 0 \in 0..MaxSubmits /\ 0 \in 0..MaxEvents /\ 0 \in 0..MaxOpps /\ 0 \in 0..MaxFaults
  BY EventConstants, SMT
<1>2. bus \in Seq(Event) /\ Len(bus) = 0 /\ DOMAIN bus = {} /\ Len(bus) <= MaxEvents
  BY <1>1, EventConstants, SMT DEF EventInit
<1>3. opps \in Seq(Opp) /\ Len(opps) <= MaxOpps
  <2>1. MadeByHand \in Opp
    <3>1. NewOpp(0) \in Opp
      BY <1>1, NewTyped
    <3> QED
      BY <3>1 DEF MadeByHand, Opp, ReviewStatus
  <2>2. CASE opps = << >>
    BY <2>2, EventConstants, SMT
  <2>3. CASE opps = <<MadeByHand>>
    BY <2>1, <2>3, EventConstants, SMT
  <2> QED
    BY <2>2, <2>3 DEF EventInit
<1>4. AwsOK
  BY <1>2, <1>3 DEF AwsOK, EventInit
<1>5. RowOK /\ DealOK /\ CountsOK
  BY <1>1 DEF RowOK, DealOK, CountsOK, EventInit, NoRow, Labels, Writers
<1>6. \A x \in Jobs : job[x] = NoJob
  BY DEF EventInit
<1>7. JobOK
  BY NewTyped DEF JobOK, EventInit
<1>8. Handlers \subseteq Jobs /\ "submit" \in Jobs
  BY DEF Jobs
<1>9. RefsInv /\ AlertInv
  BY <1>6, <1>8, NewTyped DEF RefsInv, AlertInv, Named, EventInit, NoRow
<1>10. IndexFollowsRow
  BY DEF IndexFollowsRow, EventInit, NoRow
<1> QED
  BY <1>4, <1>5, <1>7, <1>9, <1>10 DEF EventInv, Typed

-----------------------------------------------------------------------------
(* What changes at AWS.                                                    *)

\* The bus keeps its events and what they are about.
SameEvents ==
    /\ bus' \in Seq(Event) /\ Len(bus') <= MaxEvents /\ DOMAIN bus' = DOMAIN bus
    /\ \A e \in DOMAIN bus : bus'[e].opp = bus[e].opp

\* One event is delivered, done, or to be delivered again.
LEMMA EventMoves ==
    ASSUME AwsOK, NEW e \in DOMAIN bus, NEW state \in {"pending", "running", "gone"},
           bus' = [bus EXCEPT ![e].state = state]
    PROVE  SameEvents
<1> DEFINE n == [bus[e] EXCEPT !.state = state]
<1>1. bus \in Seq(Event) /\ e \in 1..Len(bus) /\ bus[e] \in Event /\ Len(bus) <= MaxEvents
  BY SequencesTyped DEF AwsOK
<1>2. n \in Event /\ n.opp = bus[e].opp
  BY <1>1 DEF Event
<1>3. bus' = [bus EXCEPT ![e] = n]
  OBVIOUS
<1> HIDE DEF n
<1>4. /\ bus' \in Seq(Event) /\ Len(bus') = Len(bus)
      /\ \A i \in 1..Len(bus) : bus'[i] = IF i = e THEN n ELSE bus[i]
  BY <1>1, <1>2, <1>3, ExceptSeq
<1>5. DOMAIN bus' = 1..Len(bus) /\ DOMAIN bus = 1..Len(bus)
  BY <1>1, <1>4, LenProperties
<1> QED
  BY <1>1, <1>2, <1>4, <1>5 DEF SameEvents

\* The types of AWS after such a move.
LEMMA MovedOK ==
    ASSUME AwsOK, SameEvents, UNCHANGED opps, seen' \subseteq DOMAIN bus PROVE AwsOK'
  BY DEF AwsOK, SameEvents

\* The bus grows, by events about opportunities that are there.
Grows ==
    /\ bus' \in Seq(Event) /\ Len(bus') <= MaxEvents /\ DOMAIN bus \subseteq DOMAIN bus'
    /\ \A e \in DOMAIN bus' : bus'[e].opp \in DOMAIN opps'

\* One event is announced.
LEMMA OneAnnounced ==
    ASSUME AwsOK, Room(1), NEW kind \in EventKinds, NEW o \in Opps, o \in DOMAIN opps',
           bus' = Append(bus, Announce(kind, o)), DOMAIN opps \subseteq DOMAIN opps'
    PROVE  Grows
<1> DEFINE a == Announce(kind, o)
<1>1. a \in Event /\ a.opp = o
  BY DEF Announce, Event
<1> HIDE DEF a
<1>2. bus \in Seq(Event) /\ Len(bus) \in Nat /\ DOMAIN bus = 1..Len(bus)
  BY SequencesTyped DEF AwsOK
<1>3. bus' = Append(bus, a)
  BY DEF a
<1>4. /\ bus' \in Seq(Event) /\ Len(bus') = Len(bus) + 1
      /\ \A i \in 1..Len(bus) : bus'[i] = bus[i]
      /\ bus'[Len(bus) + 1] = a
  BY <1>1, <1>2, <1>3, AppendProperties
<1>5. DOMAIN bus' = 1..(Len(bus) + 1)
  BY <1>4, LenProperties
<1>6. 1..(Len(bus) + 1) = (1..Len(bus)) \cup {Len(bus) + 1}
  BY <1>2, SMT
<1>7. Len(bus') <= MaxEvents
  BY <1>4 DEF Room
<1> QED
  BY <1>1, <1>2, <1>4, <1>5, <1>6, <1>7 DEF Grows, AwsOK

\* Two events are announced.
LEMMA TwoAnnounced ==
    ASSUME AwsOK, Room(2), NEW k1 \in EventKinds, NEW k2 \in EventKinds, NEW o \in Opps,
           o \in DOMAIN opps', bus' = bus \o <<Announce(k1, o), Announce(k2, o)>>,
           DOMAIN opps \subseteq DOMAIN opps'
    PROVE  Grows
<1> DEFINE a == Announce(k1, o)
           b == Announce(k2, o)
<1>1. a \in Event /\ b \in Event /\ a.opp = o /\ b.opp = o
  BY DEF Announce, Event
<1> HIDE DEF a, b
<1>2. bus \in Seq(Event) /\ Len(bus) \in Nat /\ DOMAIN bus = 1..Len(bus)
  BY SequencesTyped DEF AwsOK
<1>3. bus' = bus \o <<a, b>>
  BY DEF a, b
<1>4. <<a, b>> \in Seq(Event) /\ Len(<<a, b>>) = 2
  BY <1>1, SMT
<1>5. /\ bus' \in Seq(Event) /\ Len(bus') = Len(bus) + 2
      /\ \A i \in 1..(Len(bus) + 2) : bus'[i] =
            IF i <= Len(bus) THEN bus[i] ELSE <<a, b>>[i - Len(bus)]
  BY <1>2, <1>3, <1>4, ConcatProperties
<1>6. DOMAIN bus' = 1..(Len(bus) + 2)
  BY <1>5, LenProperties
<1>7. \A i \in 1..(Len(bus) + 2) : i \in 1..Len(bus) \/ i - Len(bus) \in {1, 2}
  BY <1>2, SMT
<1>8. \A i \in 1..Len(bus) : i \in 1..(Len(bus) + 2) /\ i <= Len(bus)
  BY <1>2, SMT
<1>9. ASSUME NEW i \in 1..(Len(bus) + 2) PROVE bus'[i].opp \in DOMAIN opps'
  <2>1. CASE i \in 1..Len(bus)
    BY <1>2, <1>5, <1>8, <2>1 DEF AwsOK
  <2>2. CASE i \notin 1..Len(bus)
    <3>1. i - Len(bus) \in {1, 2} /\ ~(i <= Len(bus))
      BY <1>2, <1>7, <2>2, SMT
    <3>2. bus'[i] = <<a, b>>[i - Len(bus)]
      BY <1>5, <3>1
    <3>3. bus'[i] \in {a, b}
      BY <3>1, <3>2
    <3> QED
      BY <1>1, <3>3
  <2> QED
    BY <2>1, <2>2
<1>10. Len(bus') <= MaxEvents
  BY <1>5 DEF Room
<1> QED
  BY <1>2, <1>5, <1>6, <1>8, <1>9, <1>10 DEF Grows

\* The types of AWS after the bus has grown.
LEMMA GrownOK ==
    ASSUME AwsOK, Grows, UNCHANGED seen, opps' \in Seq(Opp), Len(opps') <= MaxOpps PROVE AwsOK'
  BY DEF AwsOK, Grows

\* An opportunity changes.
LEMMA OppChanges ==
    ASSUME AwsOK, NEW o \in DOMAIN opps, NEW n \in Opp, opps' = [opps EXCEPT ![o] = n]
    PROVE  opps' \in Seq(Opp) /\ Len(opps') <= MaxOpps /\ DOMAIN opps' = DOMAIN opps
<1>1. opps \in Seq(Opp) /\ o \in 1..Len(opps) /\ Len(opps) <= MaxOpps
  BY SequencesTyped DEF AwsOK
<1>2. opps' \in Seq(Opp) /\ Len(opps') = Len(opps)
  BY <1>1, ExceptSeq
<1> QED
  BY <1>1, <1>2, LenProperties

-----------------------------------------------------------------------------
(* What a step leaves alone.                                               *)

\* Nothing more is known of invocations and row.
LEMMA RefsStay ==
    ASSUME RefsInv, DOMAIN bus \subseteq DOMAIN bus', DOMAIN opps \subseteq DOMAIN opps',
           UNCHANGED <<row, job>>
    PROVE  RefsInv'
  BY DEF RefsInv

\* No invocation takes up an event and nobody is alerted.
LEMMA AlertStays ==
    ASSUME AlertInv, UNCHANGED alerts, seen \subseteq seen',
           \A h \in Handlers : \/ job'[h].pc = "idle"
                               \/ job[h].pc # "idle" /\ job'[h].ev = job[h].ev
    PROVE  AlertInv'
  BY DEF AlertInv

\* The row and its index are the same, and submit_to_ace has not left the INV#
\* row behind.
LEMMA IndexStays ==
    ASSUME IndexFollowsRow, UNCHANGED <<row, index, torn>>,
           job["submit"].pc = "index" => job'["submit"].pc = "index"
    PROVE  IndexFollowsRow'
  BY DEF IndexFollowsRow, At

\* No invocation takes a step.
LEMMA NobodyMoves ==
    ASSUME EventInv, AwsOK', DealOK', CountsOK', DOMAIN bus \subseteq DOMAIN bus',
           DOMAIN opps \subseteq DOMAIN opps', UNCHANGED <<seen, row, index, torn, job, alerts>>
    PROVE  EventInv'
<1> USE DEF EventInv
<1>1. RowOK' /\ JobOK'
  BY DEF Typed, RowOK, JobOK
<1>2. RefsInv'
  BY RefsStay
<1>3. AlertInv'
  BY DEF AlertInv
<1>4. IndexFollowsRow'
  BY DEF IndexFollowsRow, At
<1> QED
  BY <1>1, <1>2, <1>3, <1>4 DEF Typed

\* No other invocation moves.
Sole(x) == job' \in [Jobs -> Job] /\ \A y \in Jobs \ {x} : job'[y] = job[y]

\* An invocation takes another place.
LEMMA OneJob ==
    ASSUME JobOK, NEW x \in Jobs, NEW n \in Job, job' = [job EXCEPT ![x] = n]
    PROVE  Sole(x) /\ job'[x] = n
  BY DEF JobOK, Sole

\* An invocation goes on.
LEMMA OneGoes ==
    ASSUME JobOK, NEW x \in Jobs, NEW step \in Steps, Goto(x, step)
    PROVE  /\ Sole(x) /\ job'[x].pc = step /\ job'[x].ev = job[x].ev
           /\ job'[x].opp = job[x].opp
<1> DEFINE n == [job[x] EXCEPT !.pc = step]
<1>1. job[x] \in Job
  BY DEF JobOK
<1>2. n \in Job /\ n.pc = step /\ n.ev = job[x].ev /\ n.opp = job[x].opp
  BY <1>1 DEF Job
<1>3. job' = [job EXCEPT ![x] = n]
  BY DEF Goto
<1> HIDE DEF n
<1>4. Sole(x) /\ job'[x] = n
  BY <1>2, <1>3, OneJob
<1> QED
  BY <1>2, <1>4

\* A step of submit_to_ace, which handlers do not notice.
LEMMA SubmitMoves ==
    ASSUME EventInv, AwsOK', RowOK', DealOK', CountsOK', DOMAIN bus \subseteq DOMAIN bus',
           DOMAIN opps \subseteq DOMAIN opps', UNCHANGED <<seen, alerts>>, Sole("submit"),
           job'["submit"].pc \in Named => job'["submit"].opp \in DOMAIN opps',
           row'.opp \in DOMAIN opps' \cup {0},
           IndexFollowsRow'
    PROVE  EventInv'
<1> USE DEF EventInv
<1>1. Handlers \subseteq Jobs /\ "submit" \in Jobs
  BY DEF Jobs
<1>2. job' \in [Jobs -> Job] /\ \A h \in Handlers : job'[h] = job[h]
  BY <1>1, EventConstants DEF Sole
<1>3. RefsInv'
  BY <1>2 DEF RefsInv
<1>4. AlertInv'
  BY <1>2 DEF AlertInv
<1> QED
  BY <1>2, <1>3, <1>4 DEF Typed, JobOK

\* A step of a handler, or its end, that alerts nobody.
LEMMA HandlerMoves ==
    ASSUME EventInv, AwsOK', RowOK', DealOK', CountsOK', SameEvents,
           UNCHANGED <<opps, seen, alerts>>,
           NEW h \in Handlers, job[h].pc # "idle", Sole(h),
           job'[h].pc = "idle" \/ job'[h].ev = job[h].ev, row'.opp = row.opp, IndexFollowsRow'
    PROVE  EventInv'
<1> USE DEF EventInv
<1>1. Handlers \subseteq Jobs /\ "submit" \in Jobs
  BY DEF Jobs
<1>2. /\ job' \in [Jobs -> Job] /\ job'["submit"] = job["submit"]
      /\ \A g \in Handlers : g # h => job'[g] = job[g]
  BY <1>1, EventConstants DEF Sole
<1>3. RefsInv'
  BY <1>2 DEF RefsInv, SameEvents
<1>4. AlertInv'
  <2>1. \A g \in Handlers : \/ job'[g].pc = "idle"
                            \/ job[g].pc # "idle" /\ job'[g].ev = job[g].ev
    BY <1>2
  <2> QED
    BY <2>1, AlertStays
<1> QED
  BY <1>2, <1>3, <1>4 DEF Typed, JobOK

-----------------------------------------------------------------------------
(* The environment.                                                        *)

\* AWS moves the review on.
LEMMA StepReview ==
    ASSUME EventInv, NEW o \in DOMAIN opps, NEW status \in ReviewStatus, Review(o, status)
    PROVE  EventInv'
<1> USE DEF EventInv, Typed
<1> DEFINE n == [opps[o] EXCEPT !.review = status]
<1>1. /\ Room(1) /\ opps' = [opps EXCEPT ![o] = n] /\ bus' = Append(bus, Announce("updated", o))
      /\ UNCHANGED <<seen, row, index, torn, deal, job, submits, alerts, efaults>>
  BY DEF Review, mapping
<1>2. opps[o] \in Opp /\ o \in Opps
  BY SequencesTyped
<1>3. n \in Opp
  BY <1>2 DEF Opp
<1> HIDE DEF n
<1>4. opps' \in Seq(Opp) /\ Len(opps') <= MaxOpps /\ DOMAIN opps' = DOMAIN opps
  BY <1>1, <1>3, OppChanges
<1>5. Grows
  BY <1>1, <1>2, <1>4, OneAnnounced DEF EventKinds
<1>6. AwsOK' /\ DealOK' /\ CountsOK' /\ DOMAIN bus \subseteq DOMAIN bus'
  BY <1>1, <1>4, <1>5, GrownOK DEF DealOK, CountsOK, Grows
<1> HIDE DEF EventInv
<1> QED
  BY <1>1, <1>4, <1>6, NobodyMoves

\* AWS answers the invitation.
LEMMA StepRespond ==
    ASSUME EventInv, NEW o \in DOMAIN opps, NEW accepts \in BOOLEAN, Respond(o, accepts)
    PROVE  EventInv'
<1> USE DEF EventInv, Typed
<1> DEFINE n == [opps[o] EXCEPT !.review = IF accepts THEN "Approved" ELSE "Rejected"]
           k == IF accepts THEN "accepted" ELSE "declined"
<1>1. /\ Room(2) /\ opps' = [opps EXCEPT ![o] = n]
      /\ bus' = bus \o <<Announce(k, o), Announce("updated", o)>>
      /\ UNCHANGED <<seen, row, index, torn, deal, job, submits, alerts, efaults>>
  BY DEF Respond, mapping
<1>2. opps[o] \in Opp /\ o \in Opps
  BY SequencesTyped
<1>3. n \in Opp /\ k \in EventKinds /\ "updated" \in EventKinds
  BY <1>2 DEF Opp, ReviewStatus, EventKinds
<1> HIDE DEF n, k
<1>4. opps' \in Seq(Opp) /\ Len(opps') <= MaxOpps /\ DOMAIN opps' = DOMAIN opps
  BY <1>1, <1>3, OppChanges
<1>5. Grows
  BY <1>1, <1>2, <1>3, <1>4, TwoAnnounced
<1>6. AwsOK' /\ DealOK' /\ CountsOK' /\ DOMAIN bus \subseteq DOMAIN bus'
  BY <1>1, <1>4, <1>5, GrownOK DEF DealOK, CountsOK, Grows
<1> HIDE DEF EventInv
<1> QED
  BY <1>1, <1>4, <1>6, NobodyMoves

\* The opportunity is closed.
LEMMA StepClose ==
    ASSUME EventInv, NEW o \in DOMAIN opps, NEW how \in Closings, Close(o, how)
    PROVE  EventInv'
<1> USE DEF EventInv, Typed
<1> DEFINE n == [opps[o] EXCEPT !.closed = how]
<1>1. /\ Room(1) /\ opps' = [opps EXCEPT ![o] = n] /\ bus' = Append(bus, Announce("updated", o))
      /\ UNCHANGED <<seen, row, index, torn, deal, job, submits, alerts, efaults>>
  BY DEF Close, mapping
<1>2. opps[o] \in Opp /\ o \in Opps
  BY SequencesTyped
<1>3. n \in Opp
  BY <1>2 DEF Opp
<1> HIDE DEF n
<1>4. opps' \in Seq(Opp) /\ Len(opps') <= MaxOpps /\ DOMAIN opps' = DOMAIN opps
  BY <1>1, <1>3, OppChanges
<1>5. Grows
  BY <1>1, <1>2, <1>4, OneAnnounced DEF EventKinds
<1>6. AwsOK' /\ DealOK' /\ CountsOK' /\ DOMAIN bus \subseteq DOMAIN bus'
  BY <1>1, <1>4, <1>5, GrownOK DEF DealOK, CountsOK, Grows
<1> HIDE DEF EventInv
<1> QED
  BY <1>1, <1>4, <1>6, NobodyMoves

\* The sync writes the deal, BD archives it.
LEMMA StepDeal == ASSUME EventInv, Sync \/ Archive PROVE EventInv'
<1>1. /\ UNCHANGED <<opps, bus, seen, row, index, torn, job, submits, alerts, efaults>>
      /\ \/ deal' = [deal EXCEPT !.stage = "GovWin", !.by = "sync"]
         \/ deal' = [deal EXCEPT !.archived = TRUE]
  BY DEF Sync, Archive, aws, mapping
<1>2. AwsOK' /\ DealOK' /\ CountsOK'
  BY <1>1 DEF EventInv, Typed, AwsOK, DealOK, CountsOK, Labels, Writers
<1> QED
  BY <1>1, <1>2, NobodyMoves

\* An event comes once more.
LEMMA StepRedeliver == ASSUME EventInv, NEW e \in DOMAIN bus, Redeliver(e) PROVE EventInv'
<1> USE DEF EventInv, Typed
<1>1. /\ bus' = [bus EXCEPT ![e].state = "pending"] /\ Fault("duplicate")
      /\ UNCHANGED <<opps, seen, row, index, torn, deal, job, submits, alerts>>
  BY DEF Redeliver, mapping
<1>2. SameEvents
  BY <1>1, EventMoves
<1>3. AwsOK'
  BY <1>1, <1>2, MovedOK DEF AwsOK
<1>4. DealOK' /\ CountsOK'
  BY <1>1, EventFaultTyped DEF DealOK, CountsOK
<1> HIDE DEF EventInv
<1> QED
  BY <1>1, <1>2, <1>3, <1>4, NobodyMoves DEF SameEvents

-----------------------------------------------------------------------------
(* submit_to_ace.                                                          *)

\* BD submits.
LEMMA StepTrigger == ASSUME EventInv, Trigger PROVE EventInv'
<1> USE DEF EventInv, Typed
<1>1. /\ submits < MaxSubmits /\ submits' = submits + 1 /\ Goto("submit", "reserve")
      /\ deal' = [deal EXCEPT !.stage = "Submit to AWS", !.by = "bd"] /\ At("submit", "idle")
      /\ UNCHANGED <<opps, bus, seen, row, index, torn, alerts, efaults>>
  BY DEF Trigger, aws, mapping
<1>2. AwsOK' /\ RowOK' /\ DealOK'
  BY <1>1 DEF AwsOK, RowOK, DealOK, Labels, Writers
<1>3. CountsOK'
  BY <1>1, EventConstants, SMT DEF CountsOK
<1>4. Sole("submit") /\ job'["submit"].pc = "reserve"
  BY <1>1, OneGoes DEF Jobs, Steps
<1>5. IndexFollowsRow'
  BY <1>1, IndexStays DEF At
<1>6. row'.opp \in DOMAIN opps' \cup {0}
  BY <1>1 DEF RefsInv
<1> HIDE DEF EventInv
<1> QED
  BY <1>1, <1>2, <1>3, <1>4, <1>5, <1>6, SubmitMoves DEF Named

\* The token is reserved.
LEMMA StepReserve == ASSUME EventInv, Reserve PROVE EventInv'
<1> USE DEF EventInv, Typed
<1>1. /\ At("submit", "reserve") /\ Goto("submit", "load")
      /\ row' = IF row.token = 0 THEN [NoRow EXCEPT !.token = submits] ELSE row
      /\ UNCHANGED <<opps, bus, seen, index, torn, deal, submits, alerts, efaults>>
  BY DEF Reserve, aws
<1>2. AwsOK' /\ DealOK' /\ CountsOK'
  BY <1>1 DEF AwsOK, DealOK, CountsOK
<1>3. CASE row' = row
  <2>1. RowOK' /\ row'.opp \in DOMAIN opps' \cup {0}
    BY <1>1, <1>3 DEF RowOK, RefsInv
  <2>2. Sole("submit") /\ job'["submit"].pc = "load"
    BY <1>1, OneGoes DEF Jobs, Steps
  <2>3. IndexFollowsRow'
    BY <1>1, <1>3, IndexStays DEF At
  <2> HIDE DEF EventInv
  <2> QED
    BY <1>1, <1>2, <2>1, <2>2, <2>3, SubmitMoves DEF Named
<1>4. CASE row' = [NoRow EXCEPT !.token = submits]
  <2>1. row'.opp = 0 /\ row'.inv = 0 /\ 0 \in 0..MaxOpps
    BY <1>4, EventConstants, SMT DEF NoRow
  <2>2. RowOK'
    BY <1>1, <1>4, <2>1 DEF RowOK, NoRow, CountsOK
  <2>3. Sole("submit") /\ job'["submit"].pc = "load"
    BY <1>1, OneGoes DEF Jobs, Steps
  <2>4. IndexFollowsRow'
    BY <2>1 DEF IndexFollowsRow
  <2>5. row'.opp \in DOMAIN opps' \cup {0}
    BY <2>1
  <2> HIDE DEF EventInv
  <2> QED
    BY <1>1, <1>2, <2>2, <2>3, <2>4, <2>5, SubmitMoves DEF Named
<1> QED
  BY <1>1, <1>3, <1>4

\* What the row holds is taken up again.
LEMMA StepLoad == ASSUME EventInv, Load PROVE EventInv'
<1> USE DEF EventInv, Typed
<1> DEFINE n == [job["submit"] EXCEPT !.opp = row.opp, !.pc =
                   IF row.opp = 0 THEN "create" ELSE IF row.inv = 0 THEN "start" ELSE "idle"]
<1>1. /\ At("submit", "load") /\ job' = [job EXCEPT !["submit"] = n]
      /\ UNCHANGED <<opps, bus, seen, row, index, torn, deal, submits, alerts, efaults>>
  BY DEF Load, aws, mapping
<1>2. job["submit"] \in Job /\ row.opp \in 0..MaxOpps /\ "submit" \in Jobs
  BY DEF JobOK, RowOK, Jobs
<1>3. /\ n \in Job /\ n.opp = row.opp /\ n.pc \in {"create", "start", "idle"}
      /\ n.pc = "start" => row.opp # 0
  BY <1>2 DEF Job, Steps
<1> HIDE DEF n
<1>4. Sole("submit") /\ job'["submit"] = n
  BY <1>1, <1>2, <1>3, OneJob
<1>5. AwsOK' /\ RowOK' /\ DealOK' /\ CountsOK'
  BY <1>1 DEF AwsOK, RowOK, DealOK, CountsOK
<1>6. /\ job'["submit"].pc \in Named => job'["submit"].opp \in DOMAIN opps'
      /\ row'.opp \in DOMAIN opps' \cup {0}
  BY <1>1, <1>3, <1>4 DEF RefsInv, Named
<1>7. IndexFollowsRow'
  BY <1>1, IndexStays DEF At
<1> HIDE DEF EventInv
<1> QED
  BY <1>1, <1>4, <1>5, <1>6, <1>7, SubmitMoves

\* The opportunity is created, or found by its token.
LEMMA StepCreate == ASSUME EventInv, Create PROVE EventInv'
<1> USE DEF EventInv, Typed
<1>1. /\ At("submit", "create")
      /\ UNCHANGED <<seen, row, index, torn, deal, submits, alerts, efaults>>
  BY DEF Create, mapping
<1>2. "submit" \in Jobs /\ job["submit"] \in Job
  BY DEF Jobs, JobOK
<1>3. RowOK' /\ DealOK' /\ CountsOK'
  BY <1>1 DEF RowOK, DealOK, CountsOK
<1>4. IndexFollowsRow'
  BY <1>1, IndexStays DEF At
<1>5. ASSUME NEW o \in Opps, job' = [job EXCEPT !["submit"].opp = o, !["submit"].pc = "persist"]
      PROVE  Sole("submit") /\ job'["submit"].opp = o
  <2> DEFINE n == [job["submit"] EXCEPT !.opp = o, !.pc = "persist"]
  <2>0. o \in 0..MaxOpps
    BY EventConstants, SMT DEF Opps
  <2>1. n \in Job /\ n.opp = o
    BY <1>2, <2>0 DEF Job, Steps
  <2>2. job' = [job EXCEPT !["submit"] = n]
    BY <1>5
  <2> HIDE DEF n
  <2> QED
    BY <1>2, <2>1, <2>2, OneJob
<1>6. CASE UNCHANGED <<opps, bus>> /\ \E o \in DOMAIN opps :
              job' = [job EXCEPT !["submit"].opp = o, !["submit"].pc = "persist"]
  <2>1. PICK o \in DOMAIN opps :
           job' = [job EXCEPT !["submit"].opp = o, !["submit"].pc = "persist"]
    BY <1>6
  <2>2. o \in Opps
    BY SequencesTyped
  <2>3. Sole("submit") /\ job'["submit"].opp = o
    BY <1>5, <2>1, <2>2
  <2>4. /\ AwsOK' /\ row'.opp \in DOMAIN opps' \cup {0} /\ job'["submit"].opp \in DOMAIN opps'
        /\ DOMAIN bus \subseteq DOMAIN bus' /\ DOMAIN opps \subseteq DOMAIN opps'
    BY <1>1, <1>6, <2>3 DEF AwsOK, RefsInv
  <2> HIDE DEF EventInv
  <2> QED
    BY <1>1, <1>3, <1>4, <2>3, <2>4, SubmitMoves
<1>7. CASE /\ Len(opps) < MaxOpps /\ Room(1)
           /\ opps' = Append(opps, NewOpp(row.token))
           /\ bus' = Append(bus, Announce("updated", Len(opps) + 1))
           /\ job' = [job EXCEPT !["submit"].opp = Len(opps) + 1, !["submit"].pc = "persist"]
  <2>1. NewOpp(row.token) \in Opp
    BY NewTyped DEF RowOK
  <2>2. PICK o : o = Len(opps) + 1
    OBVIOUS
  <2>3. opps \in Seq(Opp) /\ Len(opps) \in Nat /\ DOMAIN opps = 1..Len(opps)
    BY SequencesTyped DEF AwsOK
  <2>4. o \in Opps
    BY <1>7, <2>2, <2>3, EventConstants, SMT DEF Opps
  <2>5. opps' \in Seq(Opp) /\ Len(opps') = o
    BY <1>7, <2>1, <2>2, <2>3, AppendProperties
  <2>6. DOMAIN opps' = 1..o /\ Len(opps') <= MaxOpps
    BY <1>7, <2>2, <2>3, <2>5, LenProperties, EventConstants, SMT
  <2>7. DOMAIN opps \subseteq DOMAIN opps' /\ o \in DOMAIN opps'
    BY <2>2, <2>3, <2>6, SMT
  <2>8. Grows
    BY <1>7, <2>2, <2>4, <2>7, OneAnnounced DEF EventKinds
  <2>9. AwsOK' /\ DOMAIN bus \subseteq DOMAIN bus'
    BY <1>1, <2>5, <2>6, <2>8, GrownOK DEF Grows
  <2>10. Sole("submit") /\ job'["submit"].opp = o
    BY <1>5, <1>7, <2>2, <2>4
  <2>11. row'.opp \in DOMAIN opps' \cup {0}
    BY <1>1, <2>7 DEF RefsInv
  <2> HIDE DEF EventInv
  <2> QED
    BY <1>1, <1>3, <1>4, <2>7, <2>9, <2>10, <2>11, SubmitMoves
<1> QED
  BY <1>6, <1>7 DEF Create, aws

\* The opportunity goes to the row.
LEMMA StepPersist == ASSUME EventInv, Persist PROVE EventInv'
<1> USE DEF EventInv, Typed
<1>1. /\ At("submit", "persist") /\ Goto("submit", "cosell")
      /\ row' = [row EXCEPT !.opp = job["submit"].opp, !.deal = TRUE]
      /\ UNCHANGED <<opps, bus, seen, index, torn, deal, submits, alerts, efaults>>
  BY DEF Persist, aws
<1>2. job["submit"].opp \in DOMAIN opps /\ job["submit"].opp \in 0..MaxOpps /\ "submit" \in Jobs
  BY <1>1 DEF RefsInv, At, Named, JobOK, Job, Jobs
<1>3. AwsOK' /\ RowOK' /\ DealOK' /\ CountsOK'
  BY <1>1, <1>2 DEF AwsOK, RowOK, DealOK, CountsOK
<1>4. Sole("submit") /\ job'["submit"].opp = job["submit"].opp
  BY <1>1, OneGoes DEF Jobs, Steps
<1>5. row'.opp = job["submit"].opp /\ row'.inv = row.inv
  BY <1>1 DEF RowOK
<1>6. IndexFollowsRow'
  BY <1>1, <1>5 DEF IndexFollowsRow, At
<1>7. /\ row'.opp \in DOMAIN opps' \cup {0}
      /\ job'["submit"].pc \in Named => job'["submit"].opp \in DOMAIN opps'
  BY <1>1, <1>2, <1>4, <1>5
<1> HIDE DEF EventInv
<1> QED
  BY <1>1, <1>3, <1>4, <1>6, <1>7, SubmitMoves

\* The identifiers go to the deal.
LEMMA StepCosell == ASSUME EventInv, Cosell PROVE EventInv'
<1> USE DEF EventInv, Typed
<1>1. /\ At("submit", "cosell") /\ Goto("submit", "start")
      /\ \/ /\ deal' = [deal EXCEPT !.cosell = job["submit"].opp, !.status = "Pending Submission"]
            /\ UNCHANGED efaults
         \/ Fault("no_write") /\ UNCHANGED deal
      /\ UNCHANGED <<opps, bus, seen, row, index, torn, submits, alerts>>
  BY DEF Cosell, aws, mapping
<1>2. job["submit"].opp \in DOMAIN opps /\ job["submit"].opp \in 0..MaxOpps /\ "submit" \in Jobs
  BY <1>1 DEF RefsInv, At, Named, JobOK, Job, Jobs
<1>3. DealOK'
  BY <1>1, <1>2 DEF DealOK, ReviewStatus
<1>4. CountsOK'
  BY <1>1, EventFaultTyped DEF CountsOK
<1>5. AwsOK' /\ RowOK'
  BY <1>1 DEF AwsOK, RowOK
<1>6. Sole("submit") /\ job'["submit"].opp = job["submit"].opp /\ job'["submit"].pc = "start"
  BY <1>1, OneGoes DEF Jobs, Steps
<1>7. IndexFollowsRow'
  BY <1>1, IndexStays DEF At
<1>8. /\ row'.opp \in DOMAIN opps' \cup {0}
      /\ job'["submit"].pc \in Named => job'["submit"].opp \in DOMAIN opps'
  BY <1>1, <1>2, <1>6 DEF RefsInv
<1> HIDE DEF EventInv
<1> QED
  BY <1>1, <1>3, <1>4, <1>5, <1>6, <1>7, <1>8, SubmitMoves

\* The review starts.
LEMMA StepStart == ASSUME EventInv, Start PROVE EventInv'
<1> USE DEF EventInv, Typed
<1>1. PICK o : o = job["submit"].opp
  OBVIOUS
<1> DEFINE n == [opps[o] EXCEPT !.invited = TRUE, !.review = "In review"]
<1>2. /\ At("submit", "start") /\ Goto("submit", "task")
      /\ \/ UNCHANGED <<opps, bus>>
         \/ /\ Room(2) /\ opps' = [opps EXCEPT ![o] = n]
            /\ bus' = bus \o <<Announce("invited", o), Announce("updated", o)>>
      /\ UNCHANGED <<seen, row, index, torn, deal, submits, alerts, efaults>>
  BY <1>1 DEF Start, aws, mapping
<1>3. o \in DOMAIN opps
  BY <1>1, <1>2 DEF RefsInv, At, Named
<1>4. o \in Opps /\ opps[o] \in Opp
  BY <1>3, SequencesTyped
<1>5. n \in Opp
  BY <1>4 DEF Opp, ReviewStatus
<1> HIDE DEF n
<1>6. AwsOK' /\ DOMAIN bus \subseteq DOMAIN bus' /\ DOMAIN opps' = DOMAIN opps
  <2>1. CASE UNCHANGED <<opps, bus>>
    BY <1>2, <2>1 DEF AwsOK
  <2>2. CASE /\ Room(2) /\ opps' = [opps EXCEPT ![o] = n]
             /\ bus' = bus \o <<Announce("invited", o), Announce("updated", o)>>
    <3>1. opps' \in Seq(Opp) /\ Len(opps') <= MaxOpps /\ DOMAIN opps' = DOMAIN opps
      BY <1>3, <1>5, <2>2, OppChanges
    <3>2. Grows
      BY <1>3, <1>4, <2>2, <3>1, TwoAnnounced DEF EventKinds
    <3> QED
      BY <1>2, <3>1, <3>2, GrownOK DEF Grows
  <2> QED
    BY <1>2, <2>1, <2>2
<1>7. RowOK' /\ DealOK' /\ CountsOK'
  BY <1>2 DEF RowOK, DealOK, CountsOK
<1>8. Sole("submit") /\ job'["submit"].opp = o /\ job'["submit"].pc = "task"
  BY <1>1, <1>2, OneGoes DEF Jobs, Steps
<1>9. IndexFollowsRow'
  BY <1>2, IndexStays DEF At
<1>10. /\ row'.opp \in DOMAIN opps' \cup {0} /\ job'["submit"].opp \in DOMAIN opps'
       /\ DOMAIN opps \subseteq DOMAIN opps'
  BY <1>2, <1>3, <1>6, <1>8 DEF RefsInv
<1> HIDE DEF EventInv
<1> QED
  BY <1>2, <1>6, <1>7, <1>8, <1>9, <1>10, SubmitMoves

\* The invitation goes to the row; its own row is written next.
LEMMA StepTask == ASSUME EventInv, Task PROVE EventInv'
<1> USE DEF EventInv, Typed
<1>1. /\ At("submit", "task") /\ Goto("submit", "index")
      /\ row' = [row EXCEPT !.inv = job["submit"].opp, !.deal = TRUE]
      /\ UNCHANGED <<opps, bus, seen, index, torn, deal, submits, alerts, efaults>>
  BY DEF Task, aws
<1>2. job["submit"].opp \in DOMAIN opps /\ job["submit"].opp \in 0..MaxOpps
  BY <1>1 DEF RefsInv, At, Named, JobOK, Job, Jobs
<1>3. AwsOK' /\ RowOK' /\ DealOK' /\ CountsOK'
  BY <1>1, <1>2 DEF AwsOK, RowOK, DealOK, CountsOK
<1>4. Sole("submit") /\ job'["submit"].opp = job["submit"].opp /\ job'["submit"].pc = "index"
  BY <1>1, OneGoes DEF Jobs, Steps
<1>5. row'.opp = row.opp
  BY <1>1 DEF RowOK
<1>6. IndexFollowsRow'
  BY <1>4 DEF IndexFollowsRow, At
<1>7. row'.opp \in DOMAIN opps' \cup {0} /\ job'["submit"].opp \in DOMAIN opps'
  BY <1>1, <1>2, <1>4, <1>5 DEF RefsInv
<1> HIDE DEF EventInv
<1> QED
  BY <1>1, <1>3, <1>4, <1>6, <1>7, SubmitMoves

\* Whoever updates the row puts the INV# row as well, or has failed to read it
\* and leaves it torn.
LEMMA IndexRefreshed ==
    ASSUME EventInv, NEW x, NEW known \in SUBSET Opps, RefreshIndex(x, known), UNCHANGED row
    PROVE  RowOK' /\ IndexFollowsRow' /\ efaults' \in 0..MaxFaults
<1> USE DEF EventInv, Typed
<1>1. row.inv \in 0..MaxOpps
  BY DEF RowOK
<1>2. {row.inv} \ {0} \subseteq Opps
  BY <1>1, EventConstants, SMT DEF Opps
<1>3. CASE /\ index' = index \cup known \cup ({row.inv} \ {0}) /\ torn' = FALSE
           /\ UNCHANGED efaults
  <2>1. index' \subseteq Opps /\ torn' \in BOOLEAN
    BY <1>2, <1>3 DEF RowOK
  <2> QED
    BY <1>3, <2>1 DEF RowOK, CountsOK, IndexFollowsRow
<1>4. CASE /\ Fault("no_read") /\ index' = index \cup known
           /\ torn' = (torn \/ row.inv \notin index' \cup {0})
  <2>1. index' \subseteq Opps /\ torn' \in BOOLEAN
    BY <1>4 DEF RowOK
  <2>2. efaults' \in 0..MaxFaults
    BY <1>4, EventFaultTyped
  <2>3. IndexFollowsRow'
    BY <1>4 DEF IndexFollowsRow
  <2> QED
    BY <2>1, <2>2, <2>3 DEF RowOK
<1> QED
  BY <1>3, <1>4 DEF RefreshIndex

\* The INV# row of the submission is put.
LEMMA StepTaskIndex == ASSUME EventInv, TaskIndex PROVE EventInv'
<1> USE DEF EventInv, Typed
<1>1. PICK known : known = {job["submit"].opp}
  OBVIOUS
<1>2. /\ At("submit", "index") /\ RefreshIndex("submit", known)
      /\ job' = [job EXCEPT !["submit"] = NoJob]
      /\ UNCHANGED <<opps, bus, seen, row, deal, submits, alerts>>
  BY <1>1 DEF TaskIndex, aws
<1>3. known \in SUBSET Opps
  <2>1. job["submit"].opp \in DOMAIN opps
    BY <1>2 DEF RefsInv, At, Named
  <2> QED
    BY <1>1, <2>1, SequencesTyped
<1>4. RowOK' /\ IndexFollowsRow' /\ efaults' \in 0..MaxFaults
  BY <1>2, <1>3, IndexRefreshed
<1>5. AwsOK' /\ DealOK' /\ CountsOK'
  BY <1>2, <1>4 DEF AwsOK, DealOK, CountsOK
<1>6. Sole("submit") /\ job'["submit"] = NoJob
  BY <1>2, NewTyped, OneJob DEF Jobs
<1>7. row'.opp \in DOMAIN opps' \cup {0} /\ job'["submit"].pc \notin Named
  BY <1>2, <1>6, NewTyped DEF RefsInv, Named
<1> HIDE DEF EventInv
<1> QED
  BY <1>2, <1>4, <1>5, <1>6, <1>7, SubmitMoves

-----------------------------------------------------------------------------
(* handle_ace_event.                                                       *)

\* A handler takes another step of its event.
LEMMA Goes ==
    ASSUME EventInv, NEW h \in Handlers, NEW step \in Steps, Goto(h, step),
           UNCHANGED <<opps, bus, seen>>
    PROVE  /\ AwsOK' /\ SameEvents /\ Sole(h) /\ job'[h].ev = job[h].ev
           /\ job'["submit"].pc = job["submit"].pc
<1> USE DEF EventInv, Typed
<1>1. AwsOK' /\ SameEvents
  BY DEF AwsOK, SameEvents
<1>2. h \in Jobs /\ "submit" \in Jobs /\ h # "submit"
  BY EventConstants DEF Jobs
<1>3. Sole(h) /\ job'[h].ev = job[h].ev
  BY <1>2, OneGoes
<1> QED
  BY <1>1, <1>2, <1>3 DEF Sole

\* A handler is through with its event.
LEMMA Ends ==
    ASSUME EventInv, NEW h \in Handlers, job[h].pc # "idle", Done(h), UNCHANGED <<opps, seen>>
    PROVE  /\ AwsOK' /\ SameEvents /\ Sole(h) /\ job'[h] = NoJob
           /\ job'["submit"].pc = job["submit"].pc
<1> USE DEF EventInv, Typed
<1>1. PICK e : e = job[h].ev
  OBVIOUS
<1>2. /\ e \in DOMAIN bus /\ bus' = [bus EXCEPT ![e].state = "gone"]
      /\ job' = [job EXCEPT ![h] = NoJob]
  BY <1>1 DEF RefsInv, Done
<1>3. SameEvents
  BY <1>2, EventMoves
<1>4. AwsOK'
  BY <1>3, MovedOK DEF AwsOK
<1>5. h \in Jobs /\ "submit" \in Jobs /\ h # "submit"
  BY EventConstants DEF Jobs
<1>6. Sole(h) /\ job'[h] = NoJob
  BY <1>2, <1>5, NewTyped, OneJob
<1> QED
  BY <1>3, <1>4, <1>5, <1>6 DEF Sole

\* A step of a handler that leaves row and index alone and alerts nobody.
LEMMA HandlerSteps ==
    ASSUME EventInv, NEW h \in Handlers, job[h].pc # "idle", DealOK', efaults' \in 0..MaxFaults,
           UNCHANGED <<opps, seen, row, index, torn, submits, alerts>>,
           \/ Done(h)
           \/ UNCHANGED bus /\ \E step \in Steps : Goto(h, step)
    PROVE  EventInv'
<1>1. /\ AwsOK' /\ SameEvents /\ Sole(h) /\ job'["submit"].pc = job["submit"].pc
      /\ job'[h].pc = "idle" \/ job'[h].ev = job[h].ev
  <2>1. CASE Done(h)
    BY <2>1, Ends, NewTyped
  <2>2. CASE UNCHANGED bus /\ \E step \in Steps : Goto(h, step)
    <3>1. PICK step \in Steps : Goto(h, step)
      BY <2>2
    <3> QED
      BY <2>2, <3>1, Goes
  <2> QED
    BY <2>1, <2>2
<1>2. RowOK' /\ CountsOK'
  BY DEF EventInv, Typed, RowOK, CountsOK
<1>3. IndexFollowsRow'
  BY <1>1, IndexStays DEF EventInv
<1> QED
  BY <1>1, <1>2, <1>3, HandlerMoves

\* A handler ends with an alert.
LEMMA HandlerAlerts ==
    ASSUME EventInv, NEW h \in Handlers, job[h].pc # "idle", efaults' \in 0..MaxFaults,
           UNCHANGED <<opps, seen, row, index, torn, deal, submits>>, Done(h), Alert(h)
    PROVE  EventInv'
<1>1. /\ AwsOK' /\ SameEvents /\ Sole(h) /\ job'[h] = NoJob
      /\ job'["submit"].pc = job["submit"].pc
  BY Ends
<1>2. PICK e : e = job[h].ev
  OBVIOUS
<1>3. /\ e \in DOMAIN bus /\ e \in Events /\ e \in seen /\ alerts[e] = 0
      /\ \A g \in Handlers \ {h} : job[g].pc # "idle" => job[g].ev # e
  <2>1. e \in DOMAIN bus
    BY <1>2 DEF EventInv, RefsInv
  <2>2. e \in Events
    BY <2>1, SequencesTyped DEF EventInv, Typed
  <2> QED
    BY <1>2, <2>1, <2>2 DEF EventInv, AlertInv
<1>4. alerts' = [alerts EXCEPT ![e] = @ + 1] /\ alerts \in [Events -> Nat]
  BY <1>2 DEF Alert, EventInv, Typed, CountsOK
<1>5. /\ alerts' \in [Events -> Nat] /\ alerts'[e] = 1
      /\ \A d \in Events \ {e} : alerts'[d] = alerts[d]
  BY <1>3, <1>4, SMT
<1>6. RowOK' /\ DealOK' /\ CountsOK' /\ JobOK'
  BY <1>1, <1>5 DEF EventInv, Typed, RowOK, DealOK, CountsOK, JobOK, Sole
<1>7. IndexFollowsRow'
  BY <1>1, IndexStays DEF EventInv
<1>8. Handlers \subseteq Jobs /\ "submit" \in Jobs /\ "submit" \notin Handlers
  BY EventConstants DEF Jobs
<1>9. /\ \A g \in Handlers \ {h} : job'[g] = job[g]
      /\ job'["submit"] = job["submit"] /\ job'[h].pc = "idle"
  BY <1>1, <1>8, NewTyped DEF Sole
<1>10. RefsInv'
  BY <1>1, <1>9 DEF EventInv, RefsInv, SameEvents
<1>11. AlertInv'
  <2>1. ASSUME NEW g \in Handlers, job'[g].pc # "idle"
        PROVE  /\ g # h /\ job[g].pc # "idle" /\ job'[g].ev = job[g].ev /\ job[g].ev # e
               /\ job'[g].ev \in seen' /\ (job'[g].ev \in Events => alerts'[job'[g].ev] = 0)
    <3>1. g # h /\ job'[g] = job[g]
      BY <1>9, <2>1
    <3>2. job[g].pc # "idle" /\ job[g].ev # e
      BY <1>3, <2>1, <3>1
    <3>3. job[g].ev \in seen /\ (job[g].ev \in Events => alerts[job[g].ev] = 0)
      BY <3>2 DEF EventInv, AlertInv
    <3> QED
      BY <1>5, <3>1, <3>2, <3>3
  <2>2. ASSUME NEW g \in Handlers, job'[g].pc # "idle", NEW f \in Handlers \ {g},
               job'[f].pc # "idle"
        PROVE  job'[f].ev # job'[g].ev
    BY <2>1, <2>2 DEF EventInv, AlertInv
  <2>3. ASSUME NEW d \in Events PROVE alerts'[d] = 0 \/ (alerts'[d] = 1 /\ d \in seen')
    BY <1>3, <1>5 DEF EventInv, AlertInv
  <2> QED
    BY <2>1, <2>2, <2>3 DEF AlertInv
<1> QED
  BY <1>1, <1>6, <1>7, <1>10, <1>11 DEF EventInv, Typed

\* The opportunity is read, or the event skipped.
LEMMA StepGet == ASSUME EventInv, NEW h \in Handlers, Get(h) PROVE EventInv'
<1> USE DEF EventInv, Typed
<1>1. /\ At(h, "get") /\ UNCHANGED <<opps, seen, row, index, torn, deal, submits, alerts>>
      /\ \/ /\ job' = [job EXCEPT ![h].pc = "map", ![h].opp = Ev(h).opp,
                                  ![h].read = opps[Ev(h).opp]]
            /\ UNCHANGED <<bus, efaults>>
         \/ Fault("no_get") /\ Done(h)
  BY DEF Get, mapping
<1>2. DealOK' /\ job[h].pc # "idle" /\ h \in Jobs /\ "submit" \in Jobs /\ h # "submit"
  BY <1>1, EventConstants DEF DealOK, At, Jobs
<1>3. CASE Fault("no_get") /\ Done(h)
  <2>1. efaults' \in 0..MaxFaults
    BY <1>3, EventFaultTyped
  <2> HIDE DEF EventInv
  <2> QED
    BY <1>1, <1>2, <1>3, <2>1, HandlerSteps
<1>4. CASE /\ job' = [job EXCEPT ![h].pc = "map", ![h].opp = Ev(h).opp,
                                 ![h].read = opps[Ev(h).opp]]
           /\ UNCHANGED <<bus, efaults>>
  <2>1. PICK o : o = Ev(h).opp
    OBVIOUS
  <2> DEFINE n == [job[h] EXCEPT !.pc = "map", !.opp = o, !.read = opps[o]]
  <2>2. o \in DOMAIN opps
    BY <1>2, <2>1 DEF Ev, RefsInv, AwsOK
  <2>3. opps[o] \in Opp /\ o \in Opps
    BY <2>2, SequencesTyped
  <2>4. o \in 0..MaxOpps
    BY <2>3, EventConstants, SMT DEF Opps
  <2>5. job[h] \in Job
    BY <1>2 DEF JobOK
  <2>6. n \in Job /\ n.ev = job[h].ev
    BY <2>3, <2>4, <2>5 DEF Job, Steps
  <2>7. job' = [job EXCEPT ![h] = n]
    BY <1>4, <2>1
  <2> HIDE DEF n
  <2>8. Sole(h) /\ job'[h].ev = job[h].ev
    BY <1>2, <2>6, <2>7, OneJob
  <2>9. job'["submit"].pc = job["submit"].pc
    BY <1>2, <2>8 DEF Sole
  <2>10. AwsOK' /\ SameEvents /\ RowOK' /\ CountsOK' /\ row'.opp = row.opp
    BY <1>1, <1>4 DEF AwsOK, SameEvents, RowOK, CountsOK
  <2>11. IndexFollowsRow'
    BY <1>1, <2>9, IndexStays
  <2> HIDE DEF EventInv
  <2> QED
    BY <1>1, <1>2, <2>8, <2>10, <2>11, HandlerMoves
<1> QED
  BY <1>1, <1>3, <1>4

\* The row of the invitation is looked up.
LEMMA StepFind == ASSUME EventInv, NEW h \in Handlers, Find(h) PROVE EventInv'
<1>1. /\ At(h, "find") /\ UNCHANGED <<opps, seen, row, index, torn, deal, submits>>
      /\ \/ Goto(h, "map") /\ UNCHANGED <<bus, alerts, efaults>>
         \/ Done(h) /\ Alert(h) /\ UNCHANGED efaults
         \/ Fault("no_read") /\ Done(h) /\ Alert(h)
  BY DEF Find, mapping
<1>2. DealOK' /\ job[h].pc # "idle" /\ "map" \in Steps
  BY <1>1 DEF EventInv, Typed, DealOK, At, Steps
<1>3. efaults' \in 0..MaxFaults
  BY <1>1, EventFaultTyped DEF EventInv, Typed, CountsOK
<1> QED
  BY <1>1, <1>2, <1>3, HandlerSteps, HandlerAlerts

\* The deal is looked up in the row.
LEMMA StepMap == ASSUME EventInv, NEW h \in Handlers, Map(h) PROVE EventInv'
<1>1. /\ At(h, "map") /\ UNCHANGED <<opps, bus, seen, row, index, torn, deal, submits, alerts>>
      /\ \/ Goto(h, IF row.deal THEN Resolved(h) ELSE "search") /\ UNCHANGED efaults
         \/ Fault("no_read") /\ Goto(h, "search")
  BY DEF Map, aws, mapping
<1>2. DealOK' /\ job[h].pc # "idle"
  BY <1>1 DEF EventInv, Typed, DealOK, At
<1>3. Resolved(h) \in Steps /\ "search" \in Steps
  BY DEF Resolved, Steps
<1>4. \E step \in Steps : Goto(h, step)
  BY <1>1, <1>3
<1>5. efaults' \in 0..MaxFaults
  BY <1>1, EventFaultTyped DEF EventInv, Typed, CountsOK
<1> QED
  BY <1>1, <1>2, <1>4, <1>5, HandlerSteps

\* The deal is searched.
LEMMA StepSearch == ASSUME EventInv, NEW h \in Handlers, Search(h) PROVE EventInv'
<1>1. /\ At(h, "search") /\ UNCHANGED <<opps, seen, row, index, torn, deal, submits>>
      /\ \/ Goto(h, "heal") /\ UNCHANGED <<bus, alerts, efaults>>
         \/ Done(h) /\ Alert(h) /\ UNCHANGED efaults
         \/ Fault("no_read") /\ Done(h) /\ Alert(h)
  BY DEF Search, mapping
<1>2. DealOK' /\ job[h].pc # "idle" /\ "heal" \in Steps
  BY <1>1 DEF EventInv, Typed, DealOK, At, Steps
<1>3. efaults' \in 0..MaxFaults
  BY <1>1, EventFaultTyped DEF EventInv, Typed, CountsOK
<1> QED
  BY <1>1, <1>2, <1>3, HandlerSteps, HandlerAlerts

\* The deal found goes to the row.
LEMMA StepHeal == ASSUME EventInv, NEW h \in Handlers, Heal(h) PROVE EventInv'
<1>1. /\ At(h, "heal") /\ UNCHANGED <<opps, bus, seen, index, torn, deal, submits, alerts>>
      /\ \/ row' = [row EXCEPT !.deal = TRUE] /\ Goto(h, "healed") /\ UNCHANGED efaults
         \/ Fault("no_write") /\ Goto(h, Resolved(h)) /\ UNCHANGED row
  BY DEF Heal, aws
<1>2. DealOK' /\ job[h].pc # "idle"
  BY <1>1 DEF EventInv, Typed, DealOK, At
<1>3. Resolved(h) \in Steps /\ "healed" \in Steps
  BY DEF Resolved, Steps
<1>4. CASE Fault("no_write") /\ Goto(h, Resolved(h)) /\ UNCHANGED row
  <2>1. efaults' \in 0..MaxFaults
    BY <1>4, EventFaultTyped DEF EventInv, Typed
  <2> QED
    BY <1>1, <1>2, <1>3, <1>4, <2>1, HandlerSteps
<1>5. CASE row' = [row EXCEPT !.deal = TRUE] /\ Goto(h, "healed") /\ UNCHANGED efaults
  <2>1. /\ AwsOK' /\ SameEvents /\ Sole(h) /\ job'[h].ev = job[h].ev
        /\ job'["submit"].pc = job["submit"].pc
    BY <1>1, <1>3, <1>5, Goes
  <2>2. RowOK' /\ row'.opp = row.opp /\ row'.inv = row.inv
    BY <1>1, <1>5 DEF EventInv, Typed, RowOK
  <2>3. CountsOK'
    BY <1>1, <1>5 DEF EventInv, Typed, CountsOK
  <2>4. IndexFollowsRow'
    BY <1>1, <2>1, <2>2 DEF EventInv, IndexFollowsRow, At
  <2> QED
    BY <1>1, <1>2, <2>1, <2>2, <2>3, <2>4, HandlerMoves
<1> QED
  BY <1>1, <1>4, <1>5

\* The INV# row after the healing.
LEMMA StepHealIndex == ASSUME EventInv, NEW h \in Handlers, HealIndex(h) PROVE EventInv'
<1>1. PICK known : known = {}
  OBVIOUS
<1>2. /\ At(h, "healed") /\ RefreshIndex(h, known) /\ Goto(h, Resolved(h))
      /\ UNCHANGED <<opps, bus, seen, row, deal, submits, alerts>>
  BY <1>1 DEF HealIndex, aws
<1>3. known \in SUBSET Opps
  BY <1>1
<1>4. RowOK' /\ IndexFollowsRow' /\ efaults' \in 0..MaxFaults
  BY <1>2, <1>3, IndexRefreshed
<1>5. DealOK' /\ CountsOK' /\ job[h].pc # "idle"
  BY <1>2, <1>4 DEF EventInv, Typed, DealOK, CountsOK, At
<1>6. Resolved(h) \in Steps
  BY DEF Resolved, Steps
<1>7. AwsOK' /\ SameEvents /\ Sole(h) /\ job'[h].ev = job[h].ev
  BY <1>2, <1>6, Goes
<1> QED
  BY <1>2, <1>4, <1>5, <1>7, HandlerMoves

\* An archived deal is left alone.
LEMMA StepCheckArchive == ASSUME EventInv, NEW h \in Handlers, CheckArchive(h) PROVE EventInv'
<1>1. /\ At(h, "archive") /\ UNCHANGED <<opps, seen, row, index, torn, deal, submits, alerts>>
      /\ \/ Done(h) /\ UNCHANGED efaults
         \/ Goto(h, "patch") /\ UNCHANGED <<bus, efaults>>
         \/ Fault("no_read") /\ Done(h)
  BY DEF CheckArchive, mapping
<1>2. DealOK' /\ job[h].pc # "idle" /\ "patch" \in Steps
  BY <1>1 DEF EventInv, Typed, DealOK, At, Steps
<1>3. efaults' \in 0..MaxFaults
  BY <1>1, EventFaultTyped DEF EventInv, Typed, CountsOK
<1> QED
  BY <1>1, <1>2, <1>3, HandlerSteps

\* What is shown of an opportunity are labels of the deal.
LEMMA Shown ==
    ASSUME NEW o \in Opp
    PROVE  StageOf(o) \in Labels \cup {"none"} /\ Status(o) \in ReviewStatus \cup Closings
  BY DEF Opp, StageOf, Status, Labels, ReviewStatus, Closings

\* The PATCH.
LEMMA StepPatch == ASSUME EventInv, NEW h \in Handlers, Patch(h) PROVE EventInv'
<1> USE DEF EventInv, Typed
<1>1. PICK o, stage : o = job[h].read /\ stage = StageOf(job[h].read)
  OBVIOUS
<1>2. /\ At(h, "patch") /\ UNCHANGED <<opps, seen, row, index, torn, submits, alerts>>
      /\ \/ /\ deal' = [deal EXCEPT !.cosell = job[h].opp, !.status = Status(o),
                                    !.stage = IF stage = "none" THEN @ ELSE stage,
                                    !.by = IF stage = "none" THEN @ ELSE "event"]
            /\ UNCHANGED efaults
         \/ UNCHANGED <<deal, efaults>>
         \/ Fault("no_write") /\ UNCHANGED deal
      /\ \/ Done(h)
         \/ Goto(h, "record") /\ UNCHANGED bus
  BY <1>1 DEF Patch, mapping
<1>3. job[h].pc # "idle" /\ "record" \in Steps
  BY <1>2 DEF At, Steps
<1>4. o \in Opp /\ job[h].opp \in 0..MaxOpps
  BY <1>1 DEF JobOK, Job, Jobs
<1>5. stage \in Labels \cup {"none"} /\ Status(o) \in ReviewStatus \cup Closings
  BY <1>1, <1>4, Shown
<1>6. DealOK'
  <2>1. CASE stage = "none"
    BY <1>2, <1>4, <1>5, <2>1 DEF DealOK
  <2>2. CASE stage # "none"
    BY <1>2, <1>4, <1>5, <2>2 DEF DealOK, Writers
  <2> QED
    BY <2>1, <2>2
<1>7. efaults' \in 0..MaxFaults
  BY <1>2, EventFaultTyped DEF CountsOK
<1> HIDE DEF EventInv
<1> QED
  BY <1>2, <1>3, <1>6, <1>7, HandlerSteps

\* The note in the row.
LEMMA StepRecord == ASSUME EventInv, NEW h \in Handlers, Record(h) PROVE EventInv'
<1>1. /\ At(h, "record") /\ Goto(h, "index")
      /\ UNCHANGED <<opps, bus, seen, row, index, torn, deal, submits, alerts, efaults>>
  BY DEF Record, aws, mapping
<1>2. DealOK' /\ efaults' \in 0..MaxFaults /\ job[h].pc # "idle" /\ "index" \in Steps
  BY <1>1 DEF EventInv, Typed, DealOK, CountsOK, At, Steps
<1> QED
  BY <1>1, <1>2, HandlerSteps

\* The INV# row after the note.
LEMMA StepRecordIndex == ASSUME EventInv, NEW h \in Handlers, RecordIndex(h) PROVE EventInv'
<1>1. PICK known : known = {}
  OBVIOUS
<1>2. /\ At(h, "index") /\ RefreshIndex(h, known) /\ Done(h)
      /\ UNCHANGED <<opps, seen, row, deal, submits, alerts>>
  BY <1>1 DEF RecordIndex
<1>3. known \in SUBSET Opps
  BY <1>1
<1>4. RowOK' /\ IndexFollowsRow' /\ efaults' \in 0..MaxFaults
  BY <1>2, <1>3, IndexRefreshed
<1>5. DealOK' /\ CountsOK' /\ job[h].pc # "idle"
  BY <1>2, <1>4 DEF EventInv, Typed, DealOK, CountsOK, At
<1>6. AwsOK' /\ SameEvents /\ Sole(h) /\ job'[h].pc = "idle"
  BY <1>2, <1>5, Ends, NewTyped
<1> QED
  BY <1>2, <1>4, <1>5, <1>6, HandlerMoves

\* The answer to the invitation sets the stage.
LEMMA StepSetStage == ASSUME EventInv, NEW h \in Handlers, SetStage(h) PROVE EventInv'
<1>1. /\ At(h, "stage") /\ Done(h)
      /\ UNCHANGED <<opps, seen, row, index, torn, submits, alerts, efaults>>
      /\ \/ UNCHANGED deal
         \/ \E label \in {"Approved by AWS", "Closed Lost"} :
               deal' = [deal EXCEPT !.by = "invitation", !.stage = label]
  BY DEF SetStage, mapping
<1>2. DealOK' /\ efaults' \in 0..MaxFaults /\ job[h].pc # "idle"
  BY <1>1 DEF EventInv, Typed, DealOK, CountsOK, At, Labels, Writers
<1> QED
  BY <1>1, <1>2, HandlerSteps

\* An event is marked, and taken up when it was not before.
LEMMA StepReceive ==
    ASSUME EventInv, NEW h \in Handlers, NEW e \in DOMAIN bus, Receive(h, e) PROVE EventInv'
<1> USE DEF EventInv, Typed
<1>1. /\ At(h, "idle") /\ seen' = seen \cup {e}
      /\ UNCHANGED <<opps, row, index, torn, deal, submits, alerts, efaults>>
      /\ \/ bus' = [bus EXCEPT ![e].state = "gone"] /\ UNCHANGED job
         \/ /\ bus' = [bus EXCEPT ![e].state = "running"] /\ e \notin seen
            /\ \E step \in {"get", "find"} :
                  job' = [job EXCEPT ![h].ev = e, ![h].pc = step]
  BY DEF Receive, mapping
<1>2. SameEvents
  BY <1>1, EventMoves
<1>3. AwsOK'
  BY <1>1, <1>2, MovedOK DEF AwsOK
<1>4. RowOK' /\ DealOK' /\ CountsOK'
  BY <1>1 DEF RowOK, DealOK, CountsOK
<1>5. CASE UNCHANGED job
  <2>1. JobOK' /\ RefsInv'
    BY <1>1, <1>2, <1>5 DEF JobOK, RefsInv, SameEvents
  <2>2. AlertInv'
    BY <1>1, <1>5, AlertStays
  <2>3. IndexFollowsRow'
    BY <1>1, <1>5, IndexStays
  <2> QED
    BY <1>3, <1>4, <2>1, <2>2, <2>3
<1>6. CASE /\ e \notin seen
           /\ \E step \in {"get", "find"} : job' = [job EXCEPT ![h].ev = e, ![h].pc = step]
  <2>1. PICK step \in {"get", "find"} : job' = [job EXCEPT ![h].ev = e, ![h].pc = step]
    BY <1>6
  <2> DEFINE n == [job[h] EXCEPT !.ev = e, !.pc = step]
  <2>2. h \in Jobs /\ "submit" \in Jobs /\ h # "submit" /\ Handlers \subseteq Jobs
    BY EventConstants DEF Jobs
  <2>3. e \in Events /\ job[h] \in Job
    BY <2>2, SequencesTyped DEF JobOK
  <2>4. e \in 0..MaxEvents
    BY <2>3, EventConstants, SMT DEF Events
  <2>5. n \in Job /\ n.ev = e
    BY <2>3, <2>4 DEF Job, Steps
  <2>6. job' = [job EXCEPT ![h] = n]
    BY <2>1
  <2> HIDE DEF n
  <2>7. Sole(h) /\ job'[h].ev = e
    BY <2>2, <2>5, <2>6, OneJob
  <2>8. /\ job' \in [Jobs -> Job] /\ job'["submit"] = job["submit"]
        /\ \A g \in Handlers \ {h} : job'[g] = job[g]
    BY <2>2, <2>7 DEF Sole
  <2>9. RefsInv'
    BY <1>1, <1>2, <2>7, <2>8 DEF RefsInv, SameEvents
  <2>10. alerts[e] = 0 /\ \A g \in Handlers : job[g].pc # "idle" => job[g].ev # e
    BY <1>6, <2>3 DEF AlertInv
  <2>11. AlertInv'
    <3>1. ASSUME NEW g \in Handlers, job'[g].pc # "idle"
          PROVE  /\ job'[g].ev \in seen' /\ (job'[g].ev \in Events => alerts'[job'[g].ev] = 0)
                 /\ g = h \/ (job[g].pc # "idle" /\ job'[g].ev = job[g].ev /\ job[g].ev # e)
      <4>1. CASE g = h
        BY <1>1, <2>7, <2>10, <4>1
      <4>2. CASE g # h
        BY <1>1, <2>8, <2>10, <3>1, <4>2 DEF AlertInv
      <4> QED
        BY <4>1, <4>2
    <3>2. ASSUME NEW g \in Handlers, job'[g].pc # "idle", NEW f \in Handlers \ {g},
                 job'[f].pc # "idle"
          PROVE  job'[f].ev # job'[g].ev
      BY <2>7, <3>1, <3>2 DEF AlertInv
    <3>3. \A d \in Events : alerts'[d] = 0 \/ (alerts'[d] = 1 /\ d \in seen')
      BY <1>1 DEF AlertInv
    <3> QED
      BY <3>1, <3>2, <3>3 DEF AlertInv
  <2>12. IndexFollowsRow'
    BY <1>1, <2>8, IndexStays
  <2> QED
    BY <1>3, <1>4, <2>8, <2>9, <2>11, <2>12 DEF JobOK
<1> QED
  BY <1>1, <1>5, <1>6

-----------------------------------------------------------------------------

\* An invocation dies; if it leaves the INV# row behind, it is torn.
LEMMA StepCrash == ASSUME EventInv, NEW x \in Jobs, Crash(x) PROVE EventInv'
<1> USE DEF EventInv, Typed
<1>1. /\ job[x].pc # "idle" /\ Fault("crash") /\ torn' = (torn \/ row.inv \notin index \cup {0})
      /\ UNCHANGED <<opps, seen, row, index, deal, submits, alerts>>
  BY DEF Crash, At
<1>2. RowOK' /\ DealOK' /\ IndexFollowsRow' /\ row'.opp = row.opp
  BY <1>1 DEF RowOK, DealOK, IndexFollowsRow
<1>3. CountsOK'
  BY <1>1, EventFaultTyped DEF CountsOK
<1>4. CASE x = "submit"
  <2>1. UNCHANGED bus /\ job' = [job EXCEPT ![x] = [NoJob EXCEPT !.pc = "reserve"]]
    BY <1>4 DEF Crash
  <2>2. [NoJob EXCEPT !.pc = "reserve"] \in Job /\ [NoJob EXCEPT !.pc = "reserve"].pc = "reserve"
    BY NewTyped DEF Job, NoJob
  <2>3. Sole("submit") /\ job'["submit"].pc = "reserve"
    BY <1>4, <2>1, <2>2, OneJob
  <2>4. AwsOK' /\ row'.opp \in DOMAIN opps' \cup {0} /\ job'["submit"].pc \notin Named
    BY <1>1, <2>1, <2>3 DEF AwsOK, RefsInv, Named
  <2>5. DOMAIN bus \subseteq DOMAIN bus' /\ DOMAIN opps \subseteq DOMAIN opps'
    BY <1>1, <2>1
  <2> HIDE DEF EventInv
  <2> QED
    BY <1>1, <1>2, <1>3, <2>3, <2>4, <2>5, SubmitMoves
<1>5. CASE x # "submit"
  <2>1. PICK e : e = job[x].ev
    OBVIOUS
  <2>2. x \in Handlers
    BY <1>5 DEF Jobs
  <2>3. /\ e \in DOMAIN bus /\ bus' = [bus EXCEPT ![e].state = "pending"]
        /\ job' = [job EXCEPT ![x] = NoJob]
    BY <1>1, <1>5, <2>1, <2>2 DEF Crash, RefsInv
  <2>4. SameEvents
    BY <2>3, EventMoves
  <2>5. AwsOK'
    BY <1>1, <2>4, MovedOK DEF AwsOK
  <2>6. Sole(x) /\ job'[x].pc = "idle"
    BY <2>3, NewTyped, OneJob
  <2> HIDE DEF EventInv
  <2> QED
    BY <1>1, <1>2, <1>3, <2>2, <2>4, <2>5, <2>6, HandlerMoves
<1> QED
  BY <1>4, <1>5

\* Every step preserves the invariant.
LEMMA NextEventInv == EventInv /\ [EventNext]_evars => EventInv'
<1> SUFFICES ASSUME EventInv, [EventNext]_evars PROVE EventInv'
  OBVIOUS
<1>1. CASE UNCHANGED evars
  <2>1. UNCHANGED <<opps, bus, seen, row, index, torn, deal, job, submits, alerts, efaults>>
    BY <1>1 DEF evars, aws, mapping
  <2>2. AwsOK' /\ DealOK' /\ CountsOK'
    BY <2>1 DEF EventInv, Typed, AwsOK, DealOK, CountsOK
  <2> QED
    BY <2>1, <2>2, NobodyMoves
<1>2. ASSUME NEW o \in DOMAIN opps,
             \/ \E status \in ReviewStatus : Review(o, status)
             \/ \E accepts \in BOOLEAN : Respond(o, accepts)
             \/ \E how \in Closings : Close(o, how)
      PROVE  EventInv'
  BY <1>2, StepReview, StepRespond, StepClose
<1>3. CASE Submit
  BY <1>3, StepReserve, StepLoad, StepCreate, StepPersist, StepCosell, StepStart, StepTask,
     StepTaskIndex DEF Submit
<1>4. ASSUME NEW h \in Handlers, Handle(h) PROVE EventInv'
  BY <1>4, StepGet, StepFind, StepMap, StepSearch, StepHeal, StepHealIndex, StepCheckArchive,
     StepPatch, StepRecord, StepRecordIndex, StepSetStage DEF Handle
<1>5. ASSUME NEW h \in Handlers, NEW e \in DOMAIN bus, Receive(h, e) PROVE EventInv'
  BY <1>5, StepReceive
<1>6. CASE Sync \/ Archive \/ Trigger
  BY <1>6, StepDeal, StepTrigger
<1>7. ASSUME NEW e \in DOMAIN bus, Redeliver(e) PROVE EventInv'
  BY <1>7, StepRedeliver
<1>8. ASSUME NEW x \in Jobs, Crash(x) PROVE EventInv'
  BY <1>8, StepCrash
<1> QED
  BY <1>1, <1>2, <1>3, <1>4, <1>5, <1>6, <1>7, <1>8 DEF EventNext

-----------------------------------------------------------------------------
(* Theorems.                                                               *)

\* The inductive invariant: who works on what, what the row leads to, and
\* which events have alerted somebody.
THEOREM EventInvariant == EventSpec => []EventInv
<1> QED
  BY InitEventInv, NextEventInv, PTL DEF EventSpec

\* The types of both cloud accounts, of the deal and of the handlers.
THEOREM EventsTyped == EventSpec => []EventTypeOK
<1>1. EventInv => EventTypeOK
  BY TypedParts DEF EventInv
<1> QED
  BY <1>1, EventInvariant, PTL

\* handle_ace_event alerts the on-call at most once of an event: it is marked
\* as seen before it is worked on, and only one invocation finds it unmarked.
THEOREM OneAlert == EventSpec => []AlertsOnce
<1>1. EventInv => AlertsOnce
  <2> SUFFICES ASSUME EventInv, NEW e \in Events PROVE alerts[e] <= 1
    BY DEF AlertsOnce
  <2>1. alerts[e] = 0 \/ alerts[e] = 1
    BY DEF EventInv, AlertInv
  <2> QED
    BY <2>1, SMT
<1> QED
  BY <1>1, EventInvariant, PTL

\* An INV# row is missing only while submit_to_ace is about to put it, or after
\* a writer died or read nothing in between and nobody has written since.
THEOREM IndexBehindRow == EventSpec => []IndexFollowsRow
<1>1. EventInv => IndexFollowsRow
  BY DEF EventInv
<1> QED
  BY <1>1, EventInvariant, PTL

-----------------------------------------------------------------------------
(* While nothing fails.                                                    *)

NothingFails == efaults = 0 /\ efaults' = 0

\* Failures are never taken back.
LEMMA FaultsStay == ASSUME EventInv, EventNext, efaults' = 0 PROVE NothingFails
<1>1. efaults \in Nat
  BY EventConstants, SMT DEF EventInv, Typed, CountsOK
<1>2. efaults' = efaults \/ efaults' = efaults + 1
  BY DEF EventNext, Review, Respond, Close, Sync, Archive, Trigger, Submit, Reserve, Load, Create,
     Persist, Cosell, Start, Task, TaskIndex, RefreshIndex, Handle, Receive, Get, Find, Map,
     Search, Heal, HealIndex, CheckArchive, Patch, Record, RecordIndex, SetStage, Redeliver,
     Crash, Fault
<1> QED
  BY <1>1, <1>2, SMT DEF NothingFails

\* So no step takes the branch of a failure.
LEMMA NoFault == ASSUME NothingFails, NEW kind PROVE ~Fault(kind)
  BY SMT DEF NothingFails, Fault

\* Events that are new on the bus, all about one opportunity.
NewEvents(kinds, o) ==
    /\ DOMAIN bus \subseteq DOMAIN bus' /\ \A e \in DOMAIN bus : bus'[e] = bus[e]
    /\ \A e \in DOMAIN bus' \ DOMAIN bus :
          bus'[e].kind \in kinds /\ bus'[e].opp = o /\ bus'[e].state = "pending"
    /\ \E e \in DOMAIN bus' \ DOMAIN bus : bus'[e].kind = "updated"

\* An update is announced.
LEMMA OneNew ==
    ASSUME AwsOK, NEW o \in Opps, bus' = Append(bus, Announce("updated", o))
    PROVE  NewEvents({"updated"}, o)
<1> DEFINE a == Announce("updated", o)
<1>1. a \in Event /\ a.opp = o /\ a.kind = "updated" /\ a.state = "pending"
  BY DEF Announce, Event, EventKinds
<1> HIDE DEF a
<1>2. bus \in Seq(Event) /\ Len(bus) \in Nat /\ DOMAIN bus = 1..Len(bus)
  BY SequencesTyped DEF AwsOK
<1>3. bus' = Append(bus, a)
  BY DEF a
<1>4. /\ bus' \in Seq(Event) /\ Len(bus') = Len(bus) + 1
      /\ \A i \in 1..Len(bus) : bus'[i] = bus[i]
      /\ bus'[Len(bus) + 1] = a
  BY <1>1, <1>2, <1>3, AppendProperties
<1>5. DOMAIN bus' = 1..(Len(bus) + 1)
  BY <1>4, LenProperties
<1>6. 1..(Len(bus) + 1) = (1..Len(bus)) \cup {Len(bus) + 1} /\ Len(bus) + 1 \notin 1..Len(bus)
  BY <1>2, SMT
<1> QED
  BY <1>1, <1>2, <1>4, <1>5, <1>6 DEF NewEvents

\* An update is announced with an event of another kind.
LEMMA TwoNew ==
    ASSUME AwsOK, NEW k \in EventKinds, NEW o \in Opps,
           bus' = bus \o <<Announce(k, o), Announce("updated", o)>>
    PROVE  NewEvents({k, "updated"}, o)
<1> DEFINE a == Announce(k, o)
           b == Announce("updated", o)
<1>1. /\ a \in Event /\ b \in Event /\ a.opp = o /\ b.opp = o /\ a.kind = k /\ b.kind = "updated"
      /\ a.state = "pending" /\ b.state = "pending"
  BY DEF Announce, Event, EventKinds
<1> HIDE DEF a, b
<1>2. bus \in Seq(Event) /\ Len(bus) \in Nat /\ DOMAIN bus = 1..Len(bus)
  BY SequencesTyped DEF AwsOK
<1>3. bus' = bus \o <<a, b>>
  BY DEF a, b
<1>4. <<a, b>> \in Seq(Event) /\ Len(<<a, b>>) = 2
  BY <1>1, SMT
<1>5. /\ bus' \in Seq(Event) /\ Len(bus') = Len(bus) + 2
      /\ \A i \in 1..(Len(bus) + 2) : bus'[i] =
            IF i <= Len(bus) THEN bus[i] ELSE <<a, b>>[i - Len(bus)]
  BY <1>2, <1>3, <1>4, ConcatProperties
<1>6. DOMAIN bus' = 1..(Len(bus) + 2)
  BY <1>5, LenProperties
<1>7. \A i \in 1..Len(bus) : i \in 1..(Len(bus) + 2) /\ i <= Len(bus)
  BY <1>2, SMT
<1>8. PICK n, m : n = Len(bus) + 1 /\ m = Len(bus) + 2
  OBVIOUS
<1>9. /\ n \in 1..(Len(bus) + 2) /\ m \in 1..(Len(bus) + 2) /\ ~(n <= Len(bus)) /\ ~(m <= Len(bus))
      /\ n - Len(bus) = 1 /\ m - Len(bus) = 2 /\ n \notin 1..Len(bus) /\ m \notin 1..Len(bus)
      /\ \A i \in 1..(Len(bus) + 2) : i \notin 1..Len(bus) => i = n \/ i = m
  BY <1>2, <1>8, SMT
<1>10. bus'[n] = a /\ bus'[m] = b /\ \A i \in 1..Len(bus) : bus'[i] = bus[i]
  BY <1>5, <1>7, <1>9
<1> QED
  BY <1>1, <1>2, <1>6, <1>7, <1>9, <1>10 DEF NewEvents

\* The delivery of one event is another, the events are the same.
BusMoves(e, state) ==
    /\ DOMAIN bus' = DOMAIN bus
    /\ \A i \in DOMAIN bus \ {e} : bus'[i] = bus[i]
    /\ \A i \in DOMAIN bus :
          /\ bus'[i].kind = bus[i].kind /\ bus'[i].opp = bus[i].opp
          /\ bus'[i].state = IF i = e THEN state ELSE bus[i].state

\* That is what putting an event into another state does.
LEMMA EventDelivery ==
    ASSUME AwsOK, NEW e \in DOMAIN bus, NEW state \in {"pending", "running", "gone"},
           bus' = [bus EXCEPT ![e].state = state]
    PROVE  BusMoves(e, state)
<1>1. \A i \in DOMAIN bus : bus[i] \in Event
  BY SequencesTyped
<1>2. DOMAIN bus' = DOMAIN bus /\ \A i \in DOMAIN bus \ {e} : bus'[i] = bus[i]
  OBVIOUS
<1>3. bus'[e] = [bus[e] EXCEPT !.state = state]
  OBVIOUS
<1>4. bus'[e].kind = bus[e].kind /\ bus'[e].opp = bus[e].opp /\ bus'[e].state = state
  BY <1>1, <1>3 DEF Event
<1> QED
  BY <1>2, <1>4 DEF BusMoves

\* What a handler that is not idle works on.
LEMMA WorksOn ==
    ASSUME EventInv, NEW h \in Handlers, job[h].pc # "idle"
    PROVE  /\ job[h].ev \in DOMAIN bus /\ Ev(h) = bus[job[h].ev] /\ Ev(h) \in Event
           /\ Ev(h).opp \in DOMAIN opps /\ h \in Jobs /\ h # "submit"
  BY SequencesTyped, EventConstants DEF EventInv, RefsInv, Ev, Typed, AwsOK, Jobs

-----------------------------------------------------------------------------
(* Whom the on-call hears about.                                           *)

\* An opportunity of ours that AWS was asked to review has its INV# row, or
\* submit_to_ace is about to put it; and it is put before AWS answers.
InvitedInv ==
    \A o \in DOMAIN opps : opps[o].invited /\ opps[o].token # 0
        => o \in index \/ (job["submit"].pc \in {"task", "index"} /\ job["submit"].opp = o)
AnsweredInv ==
    \A e \in DOMAIN bus : bus[e].kind \in {"accepted", "declined"}
        => opps[bus[e].opp].token = 0 \/ bus[e].opp \in index
FindInv ==
    \A h \in Handlers : job[h].pc = "find" => Ev(h).kind \in {"accepted", "declined"}
ForeignInv ==
    \A e \in DOMAIN bus : alerts[e] > 0 => opps[bus[e].opp].token = 0
Orphans   == InvitedInv /\ AnsweredInv /\ FindInv /\ ForeignInv
OrphanInv == efaults = 0 => Orphans

\* A step that neither invites, answers, alerts nor takes up an answer.
LEMMA OrphansStay ==
    ASSUME EventInv, Orphans, UNCHANGED alerts, index \subseteq index',
           DOMAIN opps \subseteq DOMAIN opps',
           \A o \in DOMAIN opps :
              opps'[o].token = opps[o].token /\ opps'[o].invited = opps[o].invited,
           \A o \in DOMAIN opps' \ DOMAIN opps : ~opps'[o].invited,
           DOMAIN bus \subseteq DOMAIN bus',
           \A e \in DOMAIN bus : bus'[e].kind = bus[e].kind /\ bus'[e].opp = bus[e].opp,
           \A e \in DOMAIN bus' \ DOMAIN bus : e \in Events /\ bus'[e].kind = "updated",
           \A h \in Handlers : job'[h].pc = "find" => job[h].pc = "find" /\ job'[h].ev = job[h].ev,
           \A o \in DOMAIN opps :
              job["submit"].pc \in {"task", "index"} /\ job["submit"].opp = o
                => \/ o \in index'
                   \/ (job'["submit"].pc \in {"task", "index"} /\ job'["submit"].opp = o)
    PROVE  Orphans'
<1> USE DEF Orphans
<1>1. \A e \in DOMAIN bus : bus[e].opp \in DOMAIN opps
  BY DEF EventInv, Typed, AwsOK
<1>2. InvitedInv'
  BY DEF InvitedInv
<1>3. AnsweredInv'
  BY <1>1 DEF AnsweredInv
<1>4. FindInv'
  <2>1. \A h \in Handlers : job[h].pc # "idle" => job[h].ev \in DOMAIN bus
    BY DEF EventInv, RefsInv
  <2> QED
    BY <2>1 DEF FindInv, Ev
<1>5. ForeignInv'
  <2>1. \A e \in Events : e \notin DOMAIN bus => alerts[e] = 0
    BY DEF EventInv, AlertInv, Typed, AwsOK
  <2> QED
    BY <1>1, <2>1, SMT DEF ForeignInv
<1> QED
  BY <1>2, <1>3, <1>4, <1>5

\* The bus holds no more events than its bound.
LEMMA BusBound == ASSUME EventInv' PROVE DOMAIN bus' \subseteq Events
<1>1. AwsOK'
  BY DEF EventInv, Typed
<1>2. (AwsOK => DOMAIN bus \subseteq Events)'
  BY SequencesTyped, PTL
<1> QED
  BY <1>1, <1>2

\* AWS reviews an opportunity it was asked to review, or closes it.
LEMMA AwsMoves ==
    ASSUME EventInv, NEW o \in DOMAIN opps,
           \/ \E status \in ReviewStatus : Review(o, status)
           \/ \E accepts \in BOOLEAN : Respond(o, accepts)
           \/ \E how \in Closings : Close(o, how)
    PROVE  /\ DOMAIN opps' = DOMAIN opps /\ \A i \in DOMAIN opps \ {o} : opps'[i] = opps[i]
           /\ opps'[o] \in Opp /\ opps'[o].token = opps[o].token
           /\ opps'[o].invited = opps[o].invited
           /\ (opps[o].invited \/ opps[o].review = "Approved")
           /\ \/ <<opps[o].review, opps'[o].review>> \in Reviews
              \/ opps'[o].review \in {"Approved", "Rejected"}
           /\ UNCHANGED <<seen, row, index, torn, deal, job, alerts>>
           /\ \E k \in EventKinds :
                 /\ NewEvents({k, "updated"}, o)
                 /\ (k = "updated" \/ (At("submit", "idle") /\ opps[o].invited))
<1> USE DEF mapping
<1>0. AwsOK /\ o \in Opps /\ opps[o] \in Opp
  BY SequencesTyped DEF EventInv, Typed
<1> DEFINE Moves ==
             /\ DOMAIN opps' = DOMAIN opps /\ \A i \in DOMAIN opps \ {o} : opps'[i] = opps[i]
             /\ opps'[o] \in Opp /\ opps'[o].token = opps[o].token
             /\ opps'[o].invited = opps[o].invited
<1>1. ASSUME NEW n \in Opp, opps' = [opps EXCEPT ![o] = n], n.token = opps[o].token,
             n.invited = opps[o].invited
      PROVE  Moves /\ opps'[o] = n
  BY <1>1
<1>2. ASSUME bus' = Append(bus, Announce("updated", o))
      PROVE  \E k \in EventKinds : NewEvents({k, "updated"}, o) /\ k = "updated"
  <2>1. NewEvents({"updated", "updated"}, o) /\ "updated" \in EventKinds
    BY <1>0, <1>2, OneNew DEF NewEvents, EventKinds
  <2> QED
    BY <2>1
<1>3. ASSUME NEW status \in ReviewStatus, Review(o, status)
      PROVE  /\ Moves /\ opps[o].invited /\ <<opps[o].review, opps'[o].review>> \in Reviews
             /\ UNCHANGED <<seen, row, index, torn, deal, job, alerts>>
             /\ bus' = Append(bus, Announce("updated", o))
  <2> DEFINE n == [opps[o] EXCEPT !.review = status]
  <2>1. /\ n \in Opp /\ n.token = opps[o].token /\ n.invited = opps[o].invited
        /\ n.review = status
    BY <1>0 DEF Opp
  <2>2. opps' = [opps EXCEPT ![o] = n]
    BY <1>3 DEF Review
  <2> HIDE DEF n
  <2>3. Moves /\ opps'[o] = n
    BY <1>1, <2>1, <2>2
  <2> QED
    BY <1>3, <2>1, <2>3 DEF Review
<1>4. ASSUME NEW accepts \in BOOLEAN, Respond(o, accepts)
      PROVE  /\ Moves /\ opps[o].invited /\ opps'[o].review \in {"Approved", "Rejected"}
             /\ UNCHANGED <<seen, row, index, torn, deal, job, alerts>> /\ At("submit", "idle")
             /\ \E k \in EventKinds : NewEvents({k, "updated"}, o)
  <2> DEFINE n == [opps[o] EXCEPT !.review = IF accepts THEN "Approved" ELSE "Rejected"]
             k == IF accepts THEN "accepted" ELSE "declined"
  <2>1. /\ n \in Opp /\ n.token = opps[o].token /\ n.invited = opps[o].invited
        /\ n.review \in {"Approved", "Rejected"}
    BY <1>0 DEF Opp, ReviewStatus
  <2>2. opps' = [opps EXCEPT ![o] = n] /\ bus' = bus \o <<Announce(k, o), Announce("updated", o)>>
    BY <1>4 DEF Respond
  <2>3. k \in EventKinds
    BY DEF EventKinds
  <2> HIDE DEF n, k
  <2>4. Moves /\ opps'[o] = n
    BY <1>1, <2>1, <2>2
  <2>5. NewEvents({k, "updated"}, o)
    BY <1>0, <2>2, <2>3, TwoNew
  <2> QED
    BY <1>4, <2>1, <2>3, <2>4, <2>5 DEF Respond
<1>5. ASSUME NEW how \in Closings, Close(o, how)
      PROVE  /\ Moves /\ opps[o].review = "Approved" /\ opps'[o].review = "Approved"
             /\ UNCHANGED <<seen, row, index, torn, deal, job, alerts>>
             /\ bus' = Append(bus, Announce("updated", o))
  <2> DEFINE n == [opps[o] EXCEPT !.closed = how]
  <2>1. /\ n \in Opp /\ n.token = opps[o].token /\ n.invited = opps[o].invited
        /\ n.review = opps[o].review
    BY <1>0 DEF Opp
  <2>2. opps' = [opps EXCEPT ![o] = n]
    BY <1>5 DEF Close
  <2> HIDE DEF n
  <2>3. Moves /\ opps'[o] = n
    BY <1>1, <2>1, <2>2
  <2> QED
    BY <1>5, <2>1, <2>3 DEF Close
<1> HIDE DEF Moves
<1>6. /\ Moves
      /\ (opps[o].invited \/ opps[o].review = "Approved")
      /\ \/ <<opps[o].review, opps'[o].review>> \in Reviews
         \/ opps'[o].review \in {"Approved", "Rejected"}
      /\ UNCHANGED <<seen, row, index, torn, deal, job, alerts>>
      /\ \E k \in EventKinds :
            /\ NewEvents({k, "updated"}, o)
            /\ (k = "updated" \/ (At("submit", "idle") /\ opps[o].invited))
  BY <1>2, <1>3, <1>4, <1>5
<1> QED
  BY <1>6 DEF Moves

\* AWS moves on.
LEMMA AwsOrphans ==
    ASSUME EventInv, EventInv', Orphans, NEW o \in DOMAIN opps,
           \/ \E status \in ReviewStatus : Review(o, status)
           \/ \E accepts \in BOOLEAN : Respond(o, accepts)
           \/ \E how \in Closings : Close(o, how)
    PROVE  Orphans'
<1> USE DEF Orphans
<1>1. PICK k \in EventKinds :
         /\ NewEvents({k, "updated"}, o)
         /\ (k = "updated" \/ (At("submit", "idle") /\ opps[o].invited))
  BY AwsMoves
<1>2. /\ DOMAIN opps' = DOMAIN opps
      /\ \A i \in DOMAIN opps : opps'[i].token = opps[i].token /\ opps'[i].invited = opps[i].invited
      /\ UNCHANGED <<seen, index, job, alerts>>
  BY AwsMoves
<1>3. \A e \in DOMAIN bus : bus[e].opp \in DOMAIN opps
  BY DEF EventInv, Typed, AwsOK
<1>4. InvitedInv'
  BY <1>2 DEF InvitedInv
<1>5. AnsweredInv'
  <2>1. ASSUME NEW e \in DOMAIN bus, bus[e].kind \in {"accepted", "declined"}
        PROVE  (opps[bus[e].opp].token = 0 \/ bus[e].opp \in index)'
    BY <1>1, <1>2, <1>3, <2>1 DEF AnsweredInv, NewEvents
  <2>2. ASSUME NEW e \in DOMAIN bus' \ DOMAIN bus, bus'[e].kind \in {"accepted", "declined"}
        PROVE  opps[o].token = 0 \/ o \in index
    <3>1. At("submit", "idle") /\ opps[o].invited
      BY <1>1, <2>2 DEF NewEvents
    <3> QED
      BY <3>1 DEF InvitedInv, At
  <2> QED
    BY <1>1, <1>2, <2>1, <2>2 DEF AnsweredInv, NewEvents
<1>6. FindInv'
  <2>1. \A h \in Handlers : job[h].pc # "idle" => job[h].ev \in DOMAIN bus
    BY DEF EventInv, RefsInv
  <2> QED
    BY <1>1, <1>2, <2>1 DEF FindInv, Ev, NewEvents
<1>7. ForeignInv'
  <2>1. \A e \in Events : e \notin DOMAIN bus => alerts[e] = 0
    BY DEF EventInv, AlertInv, Typed, AwsOK
  <2>2. DOMAIN bus' \subseteq Events
    BY BusBound
  <2>3. ~(0 > 0)
    BY SMT
  <2> QED
    BY <1>1, <1>2, <1>3, <2>1, <2>2, <2>3 DEF ForeignInv, NewEvents
<1> QED
  BY <1>4, <1>5, <1>6, <1>7

\* A step that leaves AWS alone, and after which submit_to_ace is about to put
\* the same INV# row or has put it.
LEMMA OrphansSame ==
    ASSUME EventInv, Orphans, UNCHANGED <<opps, alerts>>, index \subseteq index',
           DOMAIN bus' = DOMAIN bus,
           \A e \in DOMAIN bus : bus'[e].kind = bus[e].kind /\ bus'[e].opp = bus[e].opp,
           \A h \in Handlers : job'[h].pc = "find" => job[h].pc = "find" /\ job'[h].ev = job[h].ev,
           \A o \in DOMAIN opps :
              job["submit"].pc \in {"task", "index"} /\ job["submit"].opp = o
                => \/ o \in index'
                   \/ (job'["submit"].pc \in {"task", "index"} /\ job'["submit"].opp = o)
    PROVE  Orphans'
  BY OrphansStay

\* A step of submit_to_ace that AWS does not notice.
LEMMA SubmitSame ==
    ASSUME EventInv, Orphans, UNCHANGED <<opps, bus, alerts>>, index \subseteq index',
           Sole("submit"),
           \A o \in DOMAIN opps :
              job["submit"].pc \in {"task", "index"} /\ job["submit"].opp = o
                => \/ o \in index'
                   \/ (job'["submit"].pc \in {"task", "index"} /\ job'["submit"].opp = o)
    PROVE  Orphans'
<1>1. \A h \in Handlers : job'[h] = job[h]
  BY EventConstants DEF Sole, Jobs
<1> QED
  BY <1>1, OrphansSame

\* BD and the sync write the deal.
LEMMA DealOrphans == ASSUME EventInv, Orphans, Sync \/ Archive \/ Trigger PROVE Orphans'
<1> USE DEF aws, mapping
<1>1. CASE Sync \/ Archive
  BY <1>1, OrphansSame DEF Sync, Archive
<1>2. CASE Trigger
  <2>1. Sole("submit")
    BY <1>2, OneGoes DEF EventInv, Typed, Trigger, Jobs, Steps
  <2> QED
    BY <1>2, <2>1, SubmitSame DEF Trigger, At
<1> QED
  BY <1>1, <1>2

\* submit_to_ace before the opportunity is there, and its writes to row and deal.
LEMMA WriteOrphans ==
    ASSUME EventInv, Orphans, Reserve \/ Load \/ Persist \/ Cosell \/ Task PROVE Orphans'
<1> USE DEF aws, mapping
<1>0. JobOK /\ "submit" \in Jobs
  BY DEF EventInv, Typed, Jobs
<1>1. CASE Load
  <2>1. Sole("submit")
    <3> DEFINE n == [job["submit"] EXCEPT !.opp = row.opp, !.pc =
                   IF row.opp = 0 THEN "create" ELSE IF row.inv = 0 THEN "start" ELSE "idle"]
    <3>1. n \in Job
      BY <1>0 DEF EventInv, Typed, RowOK, JobOK, Job, Steps
    <3>2. job' = [job EXCEPT !["submit"] = n]
      BY <1>1 DEF Load
    <3> HIDE DEF n
    <3> QED
      BY <1>0, <3>1, <3>2, OneJob
  <2> QED
    BY <1>1, <2>1, SubmitSame DEF Load, At
<1>2. CASE Reserve \/ Persist \/ Cosell \/ Task
  <2>1. PICK step \in Steps : /\ Goto("submit", step)
                              /\ job["submit"].pc = "task" => step = "index"
                              /\ job["submit"].pc # "index"
    BY <1>2 DEF Reserve, Persist, Cosell, Task, At, Steps
  <2>2. Sole("submit") /\ job'["submit"].pc = step /\ job'["submit"].opp = job["submit"].opp
    BY <1>0, <2>1, OneGoes
  <2>3. UNCHANGED <<opps, bus, alerts, index>>
    BY <1>2 DEF Reserve, Persist, Cosell, Task
  <2> QED
    BY <2>1, <2>2, <2>3, SubmitSame
<1> QED
  BY <1>1, <1>2

\* The INV# row is put.
LEMMA IndexOrphans == ASSUME EventInv, NothingFails, Orphans, TaskIndex PROVE Orphans'
<1>1. PICK known : known = {job["submit"].opp}
  OBVIOUS
<1>2. /\ RefreshIndex("submit", known) /\ job' = [job EXCEPT !["submit"] = NoJob]
      /\ UNCHANGED <<opps, bus, alerts>>
  BY <1>1 DEF TaskIndex, aws
<1>3. index \cup known \subseteq index'
  BY <1>2, NoFault DEF RefreshIndex
<1>4. Sole("submit")
  BY <1>2, NewTyped, OneJob DEF EventInv, Typed, Jobs
<1> QED
  BY <1>1, <1>2, <1>3, <1>4, SubmitSame

\* A new opportunity is one nobody was invited to.
LEMMA CreateEffect ==
    ASSUME EventInv, Create
    PROVE  /\ UNCHANGED <<seen, row, index, torn, deal, submits, alerts, efaults>>
           /\ At("submit", "create") /\ Sole("submit") /\ job'["submit"].pc = "persist"
           /\ \/ /\ UNCHANGED <<opps, bus>> /\ \E o \in DOMAIN opps : opps[o].token = row.token
              \/ \E o \in Opps :
                    /\ o = Len(opps) + 1
                    /\ DOMAIN opps' = DOMAIN opps \cup {o} /\ o \notin DOMAIN opps
                    /\ \A i \in DOMAIN opps : opps'[i] = opps[i]
                    /\ opps'[o] = NewOpp(row.token) /\ NewEvents({"updated"}, o)
<1> USE DEF EventInv, Typed
<1>1. "submit" \in Jobs /\ job["submit"] \in Job
  BY DEF Jobs, JobOK
<1>2. ASSUME NEW o \in Opps, job' = [job EXCEPT !["submit"].opp = o, !["submit"].pc = "persist"]
      PROVE  Sole("submit") /\ job'["submit"].pc = "persist"
  <2> DEFINE n == [job["submit"] EXCEPT !.opp = o, !.pc = "persist"]
  <2>0. o \in 0..MaxOpps
    BY EventConstants, SMT DEF Opps
  <2>1. n \in Job /\ n.pc = "persist"
    BY <1>1, <2>0 DEF Job, Steps
  <2>2. job' = [job EXCEPT !["submit"] = n]
    BY <1>2
  <2> HIDE DEF n
  <2> QED
    BY <1>1, <2>1, <2>2, OneJob
<1>3. CASE UNCHANGED <<opps, bus>> /\ \E o \in DOMAIN opps : opps[o].token = row.token
              /\ job' = [job EXCEPT !["submit"].opp = o, !["submit"].pc = "persist"]
  <2>1. PICK o \in DOMAIN opps : opps[o].token = row.token
              /\ job' = [job EXCEPT !["submit"].opp = o, !["submit"].pc = "persist"]
    BY <1>3
  <2>2. Sole("submit") /\ job'["submit"].pc = "persist"
    BY <1>2, <2>1, SequencesTyped
  <2> QED
    BY <1>3, <2>2 DEF Create, mapping
<1>4. CASE /\ Len(opps) < MaxOpps
           /\ opps' = Append(opps, NewOpp(row.token))
           /\ bus' = Append(bus, Announce("updated", Len(opps) + 1))
           /\ job' = [job EXCEPT !["submit"].opp = Len(opps) + 1, !["submit"].pc = "persist"]
  <2>1. NewOpp(row.token) \in Opp
    BY NewTyped DEF RowOK
  <2>2. PICK o : o = Len(opps) + 1
    OBVIOUS
  <2>3. opps \in Seq(Opp) /\ Len(opps) \in Nat /\ DOMAIN opps = 1..Len(opps)
    BY SequencesTyped DEF AwsOK
  <2>4. o \in Opps
    BY <1>4, <2>2, <2>3, EventConstants, SMT DEF Opps
  <2>5. /\ opps' \in Seq(Opp) /\ Len(opps') = o /\ opps'[o] = NewOpp(row.token)
        /\ \A i \in 1..Len(opps) : opps'[i] = opps[i]
    BY <1>4, <2>1, <2>2, <2>3, AppendProperties
  <2>6. DOMAIN opps' = 1..o
    BY <2>5, LenProperties
  <2>7. 1..o = (1..Len(opps)) \cup {o} /\ o \notin 1..Len(opps)
    BY <2>2, <2>3, SMT
  <2>8. NewEvents({"updated"}, o)
    BY <1>4, <2>2, <2>4, OneNew
  <2>9. Sole("submit") /\ job'["submit"].pc = "persist"
    BY <1>2, <1>4, <2>2, <2>4
  <2>10. /\ At("submit", "create")
         /\ UNCHANGED <<seen, row, index, torn, deal, submits, alerts, efaults>>
    BY DEF Create, mapping
  <2> QED
    BY <2>2, <2>3, <2>4, <2>5, <2>6, <2>7, <2>8, <2>9, <2>10
<1> QED
  BY <1>3, <1>4 DEF Create, aws

\* The opportunity is created.
LEMMA CreateOrphans == ASSUME EventInv, EventInv', Orphans, Create PROVE Orphans'
<1>1. /\ Sole("submit") /\ UNCHANGED <<index, alerts>> /\ At("submit", "create")
      /\ \/ UNCHANGED <<opps, bus>>
         \/ \E o \in Opps :
               /\ DOMAIN opps' = DOMAIN opps \cup {o} /\ o \notin DOMAIN opps
               /\ \A i \in DOMAIN opps : opps'[i] = opps[i]
               /\ opps'[o] = NewOpp(row.token) /\ NewEvents({"updated"}, o)
  BY CreateEffect
<1>2. \A h \in Handlers : job'[h] = job[h]
  BY <1>1, EventConstants DEF Sole, Jobs
<1>3. CASE UNCHANGED <<opps, bus>>
  BY <1>1, <1>3, SubmitSame DEF At
<1>4. ASSUME NEW o \in Opps, DOMAIN opps' = DOMAIN opps \cup {o}, o \notin DOMAIN opps,
             \A i \in DOMAIN opps : opps'[i] = opps[i], opps'[o] = NewOpp(row.token),
             NewEvents({"updated"}, o)
      PROVE  Orphans'
  <2>1. \A i \in DOMAIN opps' \ DOMAIN opps : ~opps'[i].invited
    <3>1. NewOpp(row.token).invited = FALSE
      BY DEF NewOpp
    <3> QED
      BY <1>4, <3>1
  <2>2. \A e \in DOMAIN bus' \ DOMAIN bus : e \in Events /\ bus'[e].kind = "updated"
    BY <1>4, BusBound DEF NewEvents
  <2>3. /\ DOMAIN bus \subseteq DOMAIN bus'
        /\ \A e \in DOMAIN bus : bus'[e].kind = bus[e].kind /\ bus'[e].opp = bus[e].opp
    BY <1>4 DEF NewEvents
  <2> QED
    BY <1>1, <1>2, <1>4, <2>1, <2>2, <2>3, OrphansStay DEF At
<1> QED
  BY <1>1, <1>3, <1>4

\* The review starts: the invitation goes out, and its INV# row is next.
LEMMA StartEffect ==
    ASSUME EventInv, Start, NEW o, o = job["submit"].opp
    PROVE  /\ At("submit", "start") /\ Sole("submit") /\ o \in DOMAIN opps
           /\ job'["submit"].pc = "task" /\ job'["submit"].opp = o
           /\ UNCHANGED <<seen, row, index, torn, deal, submits, alerts, efaults>>
           /\ \/ opps[o].invited /\ UNCHANGED <<opps, bus>>
              \/ /\ DOMAIN opps' = DOMAIN opps /\ \A i \in DOMAIN opps \ {o} : opps'[i] = opps[i]
                 /\ opps'[o] = [opps[o] EXCEPT !.invited = TRUE, !.review = "In review"]
                 /\ opps'[o].token = opps[o].token /\ opps'[o].invited
                 /\ opps'[o].review = "In review"
                 /\ NewEvents({"invited", "updated"}, o)
<1> DEFINE n == [opps[o] EXCEPT !.invited = TRUE, !.review = "In review"]
<1>1. /\ At("submit", "start") /\ Goto("submit", "task")
      /\ \/ opps[o].invited /\ UNCHANGED <<opps, bus>>
         \/ /\ opps' = [opps EXCEPT ![o] = n]
            /\ bus' = bus \o <<Announce("invited", o), Announce("updated", o)>>
      /\ UNCHANGED <<seen, row, index, torn, deal, submits, alerts, efaults>>
  BY DEF Start, aws, mapping
<1>2. o \in DOMAIN opps
  BY <1>1 DEF EventInv, RefsInv, At, Named
<1>3. o \in Opps /\ opps[o] \in Opp
  BY <1>2, SequencesTyped DEF EventInv, Typed
<1>4. n.token = opps[o].token /\ n.invited = TRUE /\ n.review = "In review"
  BY <1>3 DEF Opp
<1>5. Sole("submit") /\ job'["submit"].pc = "task" /\ job'["submit"].opp = o
  BY <1>1, OneGoes DEF Jobs, Steps, EventInv, Typed
<1>6. ASSUME opps' = [opps EXCEPT ![o] = n]
      PROVE  /\ DOMAIN opps' = DOMAIN opps /\ \A i \in DOMAIN opps \ {o} : opps'[i] = opps[i]
             /\ opps'[o] = n
  BY <1>2, <1>6
<1>7. ASSUME bus' = bus \o <<Announce("invited", o), Announce("updated", o)>>
      PROVE  NewEvents({"invited", "updated"}, o)
  BY <1>3, <1>7, TwoNew DEF EventKinds, EventInv, Typed
<1> QED
  BY <1>1, <1>2, <1>4, <1>5, <1>6, <1>7

\* submit_to_ace starts the review.
LEMMA StartOrphans == ASSUME EventInv, EventInv', Orphans, Start PROVE Orphans'
<1> USE DEF Orphans
<1>0. PICK o : o = job["submit"].opp
  OBVIOUS
<1>1. /\ Sole("submit") /\ UNCHANGED <<index, alerts>> /\ o \in DOMAIN opps
      /\ job'["submit"].pc = "task" /\ job'["submit"].opp = o /\ At("submit", "start")
      /\ \/ UNCHANGED <<opps, bus>>
         \/ /\ DOMAIN opps' = DOMAIN opps /\ \A i \in DOMAIN opps \ {o} : opps'[i] = opps[i]
            /\ opps'[o].token = opps[o].token
            /\ NewEvents({"invited", "updated"}, o)
  BY <1>0, StartEffect
<1>2. \A h \in Handlers : job'[h] = job[h]
  BY <1>1, EventConstants DEF Sole, Jobs
<1>3. CASE UNCHANGED <<opps, bus>>
  BY <1>1, <1>3, SubmitSame DEF At
<1>4. CASE /\ DOMAIN opps' = DOMAIN opps /\ \A i \in DOMAIN opps \ {o} : opps'[i] = opps[i]
           /\ opps'[o].token = opps[o].token
           /\ NewEvents({"invited", "updated"}, o)
  <2>1. \A i \in DOMAIN opps : opps'[i].token = opps[i].token
    BY <1>4
  <2>2. \A e \in DOMAIN bus : bus[e].opp \in DOMAIN opps
    BY DEF EventInv, Typed, AwsOK
  <2>3. InvitedInv'
    BY <1>1, <1>4 DEF InvitedInv, At
  <2>4. AnsweredInv'
    BY <1>1, <1>4, <2>1, <2>2 DEF AnsweredInv, NewEvents
  <2>5. FindInv'
    <3>1. \A h \in Handlers : job[h].pc # "idle" => job[h].ev \in DOMAIN bus
      BY DEF EventInv, RefsInv
    <3> QED
      BY <1>2, <1>4, <3>1 DEF FindInv, Ev, NewEvents
  <2>6. ForeignInv'
    <3>1. \A e \in Events : e \notin DOMAIN bus => alerts[e] = 0
      BY DEF EventInv, AlertInv, Typed, AwsOK
    <3>2. DOMAIN bus' \subseteq Events
      BY BusBound
    <3>3. ~(0 > 0)
      BY SMT
    <3> QED
      BY <1>1, <1>4, <2>1, <2>2, <3>1, <3>2, <3>3 DEF ForeignInv, NewEvents
  <2> QED
    BY <2>3, <2>4, <2>5, <2>6
<1> QED
  BY <1>1, <1>3, <1>4

\* What a handler does to the bus, to the mapping and to its own locals.
LEMMA HandleEffect ==
    ASSUME EventInv, NEW h \in Handlers, Handle(h)
    PROVE  /\ job[h].pc # "idle" /\ Sole(h) /\ UNCHANGED <<opps, seen>>
           /\ job'[h].pc # "find" /\ (job'[h].pc = "idle" \/ job'[h].ev = job[h].ev)
           /\ \/ UNCHANGED bus
              \/ job'[h].pc = "idle" /\ BusMoves(job[h].ev, "gone")
           /\ index \subseteq index' /\ row'.opp = row.opp /\ (row.deal => row'.deal)
<1> USE DEF aws, mapping
<1>1. /\ job[h].pc # "idle" /\ UNCHANGED <<opps, seen>>
      /\ \/ Done(h)
         \/ UNCHANGED bus /\ \E step \in Steps \ {"find"} : Goto(h, step)
         \/ /\ UNCHANGED bus /\ At(h, "get")
            /\ job' = [job EXCEPT ![h].pc = "map", ![h].opp = Ev(h).opp,
                                  ![h].read = opps[Ev(h).opp]]
  BY DEF Handle, Get, Find, Map, Search, Heal, HealIndex, CheckArchive, Patch, Record, RecordIndex,
     SetStage, At, Resolved, Steps
<1>2. index \subseteq index' /\ row'.opp = row.opp /\ (row.deal => row'.deal)
  <2>1. row \in [token : 0..MaxSubmits, opp : 0..MaxOpps, deal : BOOLEAN, inv : 0..MaxOpps]
    BY DEF EventInv, Typed, RowOK
  <2> QED
    BY <2>1 DEF Handle, Get, Find, Map, Search, Heal, HealIndex, CheckArchive, Patch, Record,
       RecordIndex, SetStage, RefreshIndex
<1>3. h \in Jobs /\ h # "submit" /\ AwsOK /\ JobOK
  BY EventConstants DEF EventInv, Typed, Jobs
<1>4. CASE Done(h)
  <2>1. PICK e : e = job[h].ev
    OBVIOUS
  <2>2. Sole(h) /\ job'[h] = NoJob
    BY <1>1, <1>4, Ends
  <2>3. bus' = [bus EXCEPT ![e].state = "gone"] /\ e \in DOMAIN bus
    BY <1>1, <1>4, <2>1, WorksOn DEF Done
  <2>4. BusMoves(e, "gone")
    BY <1>3, <2>3, EventDelivery
  <2> QED
    BY <1>1, <1>2, <2>1, <2>2, <2>4, NewTyped
<1>5. CASE UNCHANGED bus /\ \E step \in Steps \ {"find"} : Goto(h, step)
  BY <1>1, <1>2, <1>3, <1>5, OneGoes
<1>6. CASE /\ UNCHANGED bus
           /\ job' = [job EXCEPT ![h].pc = "map", ![h].opp = Ev(h).opp,
                                 ![h].read = opps[Ev(h).opp]]
  <2> DEFINE n == [job[h] EXCEPT !.pc = "map", !.opp = Ev(h).opp, !.read = opps[Ev(h).opp]]
  <2>1. Ev(h).opp \in Opps /\ opps[Ev(h).opp] \in Opp
    BY <1>1, <1>3, WorksOn, SequencesTyped
  <2>2. Ev(h).opp \in 0..MaxOpps
    BY <2>1, EventConstants, SMT DEF Opps
  <2>3. n \in Job /\ n.pc = "map" /\ n.ev = job[h].ev
    BY <1>3, <2>1, <2>2 DEF JobOK, Job, Steps
  <2>4. job' = [job EXCEPT ![h] = n]
    BY <1>6
  <2> HIDE DEF n
  <2>5. Sole(h) /\ job'[h] = n
    BY <1>3, <2>3, <2>4, OneJob
  <2> QED
    BY <1>1, <1>2, <1>6, <2>3, <2>5
<1> QED
  BY <1>1, <1>4, <1>5, <1>6

\* A handler alerts of an answer whose opportunity has no INV# row, and, while
\* every deal can be found, of nothing else.
LEMMA HandleOrphans ==
    ASSUME Findable, EventInv, NothingFails, Orphans, NEW h \in Handlers, Handle(h)
    PROVE  Orphans'
<1>1. /\ job[h].pc # "idle" /\ Sole(h) /\ UNCHANGED opps
      /\ job'[h].pc # "find" /\ index \subseteq index'
      /\ \/ UNCHANGED bus
         \/ BusMoves(job[h].ev, "gone")
  BY HandleEffect
<1>2. h # "submit" /\ "submit" \in Jobs /\ job'["submit"] = job["submit"]
      /\ \A g \in Handlers \ {h} : job'[g] = job[g]
  BY <1>1, WorksOn DEF Sole, Jobs
<1>3. /\ DOMAIN bus' = DOMAIN bus
      /\ \A e \in DOMAIN bus : bus'[e].kind = bus[e].kind /\ bus'[e].opp = bus[e].opp
  BY <1>1 DEF BusMoves
<1>4. CASE UNCHANGED alerts
  BY <1>1, <1>2, <1>3, <1>4, OrphansSame
<1>5. CASE alerts' # alerts
  <2>1. PICK e : e = job[h].ev
    OBVIOUS
  <2>2. At(h, "find") /\ Ev(h).opp \notin index /\ Alert(h)
    BY <1>5, NoFault DEF Handle, Get, Find, Map, Search, Heal, HealIndex, CheckArchive, Patch,
       Record, RecordIndex, SetStage
  <2>3. e \in DOMAIN bus /\ Ev(h) = bus[e]
    BY <1>1, <2>1, WorksOn
  <2>4. opps[bus[e].opp].token = 0
    BY <2>2, <2>3 DEF Orphans, FindInv, AnsweredInv, At
  <2>5. \A i \in DOMAIN bus \ {e} : alerts'[i] = alerts[i]
    <3>1. DOMAIN bus \subseteq Events /\ alerts \in [Events -> Nat]
      BY SequencesTyped DEF EventInv, Typed, CountsOK
    <3> QED
      BY <2>1, <2>2, <3>1 DEF Alert
  <2>6. ForeignInv'
    BY <1>1, <1>3, <2>4, <2>5 DEF Orphans, ForeignInv
  <2>7. InvitedInv' /\ AnsweredInv'
    BY <1>1, <1>2, <1>3 DEF Orphans, InvitedInv, AnsweredInv, EventInv, Typed, AwsOK
  <2>8. FindInv'
    <3>1. \A g \in Handlers : job[g].pc # "idle" => job[g].ev \in DOMAIN bus
      BY DEF EventInv, RefsInv
    <3> QED
      BY <1>1, <1>2, <1>3, <3>1 DEF Orphans, FindInv, Ev
  <2> QED
    BY <2>6, <2>7, <2>8 DEF Orphans
<1> QED
  BY <1>4, <1>5

\* A handler takes up an event.
LEMMA ReceiveEffect ==
    ASSUME EventInv, NEW h \in Handlers, NEW e \in DOMAIN bus, Receive(h, e)
    PROVE  /\ job[h].pc = "idle" /\ bus[e].state = "pending"
           /\ UNCHANGED <<opps, row, index, torn, deal, submits, alerts, efaults>>
           /\ seen' = seen \cup {e}
           /\ job'["submit"] = job["submit"] /\ \A g \in Handlers \ {h} : job'[g] = job[g]
           /\ \/ /\ e \in seen \/ bus[e].kind = "invited"
                 /\ BusMoves(e, "gone") /\ UNCHANGED job
              \/ /\ e \notin seen /\ bus[e].kind # "invited"
                 /\ BusMoves(e, "running") /\ job'[h].ev = e
                 /\ job'[h].pc = IF bus[e].kind = "updated" THEN "get" ELSE "find"
<1> USE DEF mapping
<1>0. AwsOK /\ JobOK /\ h \in Jobs /\ "submit" \in Jobs /\ h # "submit" /\ Handlers \subseteq Jobs
  BY EventConstants DEF EventInv, Typed, Jobs
<1>1. /\ job[h].pc = "idle" /\ bus[e].state = "pending" /\ seen' = seen \cup {e}
      /\ UNCHANGED <<opps, row, index, torn, deal, submits, alerts, efaults>>
  BY DEF Receive, At
<1>2. CASE e \in seen \/ bus[e].kind = "invited"
  <2>1. bus' = [bus EXCEPT ![e].state = "gone"] /\ UNCHANGED job
    BY <1>2 DEF Receive
  <2>2. BusMoves(e, "gone")
    BY <1>0, <2>1, EventDelivery
  <2> QED
    BY <1>1, <1>2, <2>1, <2>2
<1>3. CASE e \notin seen /\ bus[e].kind # "invited"
  <2>1. PICK step \in Steps : step = IF bus[e].kind = "updated" THEN "get" ELSE "find"
    BY DEF Steps
  <2> DEFINE n == [job[h] EXCEPT !.ev = e, !.pc = step]
  <2>2. /\ bus' = [bus EXCEPT ![e].state = "running"] /\ job' = [job EXCEPT ![h] = n]
    BY <1>3, <2>1 DEF Receive
  <2>3. e \in Events
    BY <1>0, SequencesTyped
  <2>4. e \in 0..MaxEvents
    BY <2>3, EventConstants, SMT DEF Events
  <2>5. n \in Job /\ n.pc = step /\ n.ev = e
    BY <1>0, <2>4 DEF JobOK, Job
  <2> HIDE DEF n
  <2>6. Sole(h) /\ job'[h] = n
    BY <1>0, <2>2, <2>5, OneJob
  <2>7. BusMoves(e, "running")
    BY <1>0, <2>2, EventDelivery
  <2> QED
    BY <1>0, <1>1, <1>3, <2>1, <2>5, <2>6, <2>7 DEF Sole
<1> QED
  BY <1>2, <1>3

\* That alerts nobody, and the event of an answer says whose it is.
LEMMA ReceiveOrphans ==
    ASSUME EventInv, Orphans, NEW h \in Handlers, NEW e \in DOMAIN bus, Receive(h, e)
    PROVE  Orphans'
<1>1. /\ UNCHANGED <<opps, index, alerts>> /\ DOMAIN bus' = DOMAIN bus
      /\ \A i \in DOMAIN bus : bus'[i].kind = bus[i].kind /\ bus'[i].opp = bus[i].opp
      /\ job'["submit"] = job["submit"]
  BY ReceiveEffect DEF BusMoves
<1>2. InvitedInv' /\ AnsweredInv' /\ ForeignInv'
  BY <1>1 DEF Orphans, InvitedInv, AnsweredInv, ForeignInv, EventInv, Typed, AwsOK
<1>3. ASSUME NEW g \in Handlers, job'[g].pc = "find"
      PROVE  bus'[job'[g].ev].kind \in {"accepted", "declined"}
  <2>1. CASE job'[g] = job[g]
    <3>1. job[g].ev \in DOMAIN bus
      BY <1>3, <2>1 DEF EventInv, RefsInv
    <3> QED
      BY <1>1, <1>3, <2>1, <3>1 DEF Orphans, FindInv, Ev
  <2>2. CASE job'[g] # job[g]
    <3>1. g = h /\ job'[h].ev = e /\ bus[e].kind \notin {"invited", "updated"}
      BY <1>3, <2>2, ReceiveEffect
    <3>2. bus[e].kind \in EventKinds
      BY SequencesTyped DEF Event, EventInv, Typed
    <3> QED
      BY <1>1, <3>1, <3>2 DEF EventKinds
  <2> QED
    BY <2>1, <2>2
<1>4. FindInv'
  BY <1>3 DEF FindInv, Ev
<1> QED
  BY <1>2, <1>4 DEF Orphans

\* Every step, as long as nothing fails.
LEMMA NextOrphans ==
    ASSUME Findable, EventInv, EventInv', OrphanInv, [EventNext]_evars PROVE OrphanInv'
<1> SUFFICES ASSUME efaults' = 0 PROVE Orphans'
  BY DEF OrphanInv
<1>1. CASE UNCHANGED evars
  BY <1>1 DEF evars, aws, mapping, OrphanInv, Orphans, InvitedInv, AnsweredInv, FindInv, ForeignInv,
     Ev
<1>2. CASE EventNext
  <2>1. NothingFails /\ Orphans
    BY <1>2, FaultsStay DEF OrphanInv, NothingFails
  <2>2. ASSUME NEW o \in DOMAIN opps,
               \/ \E status \in ReviewStatus : Review(o, status)
               \/ \E accepts \in BOOLEAN : Respond(o, accepts)
               \/ \E how \in Closings : Close(o, how)
        PROVE  Orphans'
    BY <2>1, <2>2, AwsOrphans
  <2>3. CASE Sync \/ Archive \/ Trigger
    BY <2>1, <2>3, DealOrphans
  <2>4. CASE Submit
    BY <2>1, <2>4, WriteOrphans, IndexOrphans, CreateOrphans, StartOrphans DEF Submit
  <2>5. ASSUME NEW h \in Handlers, Handle(h) PROVE Orphans'
    BY <2>1, <2>5, HandleOrphans
  <2>6. ASSUME NEW h \in Handlers, NEW e \in DOMAIN bus, Receive(h, e) PROVE Orphans'
    BY <2>1, <2>6, ReceiveOrphans
  <2>7. ASSUME NEW e \in DOMAIN bus, Redeliver(e) PROVE FALSE
    BY <2>1, <2>7, NoFault DEF Redeliver
  <2>8. ASSUME NEW x \in Jobs, Crash(x) PROVE FALSE
    BY <2>1, <2>8, NoFault DEF Crash
  <2> QED
    BY <1>2, <2>2, <2>3, <2>4, <2>5, <2>6, <2>7, <2>8 DEF EventNext
<1> QED
  BY <1>1, <1>2

\* While nothing fails, and the deal can be found by its GovWin id, the on-call
\* hears of opportunities made by hand only, however many handlers run beside
\* submit_to_ace and whatever it has written so far.
THEOREM OrphansForeign == ASSUME Findable PROVE EventSpec => []OrphansAreForeign
<1>1. EventInit => OrphanInv
  <2> SUFFICES ASSUME EventInit PROVE Orphans
    BY DEF OrphanInv
  <2>1. DOMAIN bus = {} /\ \A h \in Handlers : job[h].pc = "idle"
    BY NewTyped DEF EventInit, Jobs
  <2>2. \A o \in DOMAIN opps : opps[o].token = 0
    <3>1. MadeByHand.token = 0
      BY DEF MadeByHand, NewOpp
    <3> QED
      BY <3>1 DEF EventInit
  <2> QED
    BY <2>1, <2>2 DEF Orphans, InvitedInv, AnsweredInv, FindInv, ForeignInv
<1>2. OrphanInv => OrphansAreForeign
  BY DEF OrphanInv, Orphans, ForeignInv, OrphansAreForeign
<1> QED
  BY <1>1, <1>2, NextOrphans, EventInvariant, PTL DEF EventSpec

-----------------------------------------------------------------------------
(* What the deal shows.                                                    *)

ReviewStarted == \A r \in Reviews : r[2] # "Pending Submission"
Reading == {"map", "search", "heal", "healed", "archive", "patch"}

\* No two handlers are between GetOpportunity and the PATCH of the deal at once:
\* where they are, the one that read first may write last.
Mirrors(h) == job[h].pc \in Reading /\ Ev(h).kind = "updated"
ReadsApart == \A g, h \in Handlers : Mirrors(g) /\ Mirrors(h) => g = h

\* An update nobody has taken up yet; one AWS has not been asked about yet.
Waiting == \E e \in DOMAIN bus : bus[e].kind = "updated" /\ bus[e].state = "pending"
Due     == Waiting \/ \E h \in Handlers : At(h, "get")
Found   == row.deal \/ Findable

\* There is one opportunity, ours or one made by hand, and submit_to_ace is at
\* the point that the row, the opportunity and the deal show.
OneOpp == \A o \in DOMAIN opps : o = 1
SubmitPhases ==
    /\ job["submit"].pc \in {"reserve", "load", "create"} => DOMAIN opps = {}
    /\ job["submit"].pc \in {"persist", "cosell"} => \A o \in DOMAIN opps : ~opps[o].invited
    /\ job["submit"].pc \in {"cosell", "start", "task", "index"} => row.deal /\ row.opp # 0
    /\ job["submit"].pc = "idle" => \A o \in DOMAIN opps : opps[o].token # 0 => row.opp # 0
Reviewed ==
    /\ \A o \in DOMAIN opps : opps[o].invited => opps[o].review # "Pending Submission"
    /\ \A o \in DOMAIN opps : ~opps[o].invited =>
          opps[o].review = "Pending Submission" /\ opps[o].closed = "open" /\ deal.by # "event"
    /\ DOMAIN opps = {} => deal.by # "event" /\ deal.cosell = 0
Unseen == \A e \in DOMAIN bus : bus[e].state = "pending" => e \notin seen

\* What the handler has read of an opportunity is how AWS has it, or an update
\* is due.
Reads(h) ==
    /\ job[h].pc # "idle" => Ev(h).state = "running"
    /\ job[h].pc \in {"get", "archive", "patch", "record", "index"} => Ev(h).kind = "updated"
    /\ job[h].pc \in {"find", "stage"} => Ev(h).kind # "updated"
    /\ job[h].pc \in Reading /\ Ev(h).kind = "updated" =>
         /\ job[h].opp = Ev(h).opp
         /\ job[h].read = opps[job[h].opp] \/ (Due /\ opps[job[h].opp].invited)
    /\ job[h].pc \in {"heal", "healed"} => Findable
    /\ job[h].pc \in {"archive", "patch"} => Found

\* The handler is about to write what it has read to the deal.
Coming(h) ==
    /\ job[h].pc \in Reading \cup {"get"} /\ Ev(h).kind = "updated"
    /\ job[h].pc = "search" => Findable

Current ==
    /\ deal.status = Status(opps[deal.cosell])
    /\ deal.by = "event" => deal.stage = StageOf(opps[deal.cosell])

\* The deal shows what AWS has, or an update is on its way to it.
Behind ==
    deal.cosell # 0 =>
        /\ deal.cosell \in DOMAIN opps /\ Found
        /\ deal.archived \/ Current \/ Waiting \/ \E h \in Handlers : Coming(h)

KeepsUp ==
    /\ OneOpp /\ SubmitPhases /\ Reviewed /\ Unseen /\ Behind
    /\ \A h \in Handlers : Reads(h)
FollowInv == efaults = 0 => KeepsUp

\* Without an opportunity there are no events, and the handlers are idle.
LEMMA NoOpps ==
    ASSUME EventInv, DOMAIN opps = {}
    PROVE  DOMAIN bus = {} /\ \A h \in Handlers : job[h].pc = "idle"
  BY DEF EventInv, Typed, AwsOK, RefsInv

\* A number is the first one or there is no opportunity.
LEMMA FirstOpp == ASSUME AwsOK, DOMAIN opps = {} PROVE Len(opps) + 1 = 1
<1>1. Len(opps) \in Nat /\ 1..Len(opps) = {}
  BY SequencesTyped
<1>2. 1 \notin 1..Len(opps)
  BY <1>1
<1> QED
  BY <1>1, <1>2, SMT

\* An update that is announced waits; nothing that is on the bus changes.
LEMMA Announced ==
    ASSUME EventInv, Unseen, UNCHANGED seen, NEW kinds, NEW o, NewEvents(kinds, o)
    PROVE  Waiting' /\ Unseen' /\ \A e \in DOMAIN bus : bus'[e] = bus[e]
  BY DEF Waiting, Unseen, NewEvents, EventInv, Typed, AwsOK

\* AWS moves on.
LEMMA AwsFollows ==
    ASSUME ReviewStarted, EventInv, KeepsUp, NEW o \in DOMAIN opps,
           \/ \E status \in ReviewStatus : Review(o, status)
           \/ \E accepts \in BOOLEAN : Respond(o, accepts)
           \/ \E how \in Closings : Close(o, how)
    PROVE  KeepsUp'
<1> USE DEF KeepsUp
<1>1. /\ DOMAIN opps' = DOMAIN opps /\ \A i \in DOMAIN opps \ {o} : opps'[i] = opps[i]
      /\ opps'[o] \in Opp /\ opps'[o].token = opps[o].token
      /\ opps'[o].invited = opps[o].invited
      /\ (opps[o].invited \/ opps[o].review = "Approved")
      /\ \/ <<opps[o].review, opps'[o].review>> \in Reviews
         \/ opps'[o].review \in {"Approved", "Rejected"}
      /\ UNCHANGED <<seen, row, index, torn, deal, job, alerts>>
  BY AwsMoves
<1>2. PICK k \in EventKinds : NewEvents({k, "updated"}, o)
  BY AwsMoves
<1>3. Waiting' /\ Unseen' /\ \A e \in DOMAIN bus : bus'[e] = bus[e]
  BY <1>1, <1>2, Announced
<1>4. OneOpp' /\ SubmitPhases'
  BY <1>1 DEF OneOpp, SubmitPhases
<1>5. opps[o].invited /\ opps'[o].review # "Pending Submission"
  BY <1>1 DEF Reviewed, ReviewStarted
<1>6. Reviewed'
  BY <1>1, <1>5 DEF Reviewed
<1>7. Behind'
  BY <1>1, <1>3 DEF Behind, Found
<1>8. ASSUME NEW h \in Handlers PROVE Reads(h)'
  <2>1. CASE job[h].pc = "idle"
    BY <1>1, <2>1 DEF Reads, Reading
  <2>2. CASE job[h].pc # "idle"
    <3>1. Ev(h)' = Ev(h) /\ Ev(h).opp = o
      BY <1>1, <1>3, <2>2, WorksOn DEF Ev, OneOpp
    <3>2. job'[h] = job[h] /\ Found' = Found
      BY <1>1 DEF Found
    <3>3. Reads(h)
      OBVIOUS
    <3> QED
      BY <1>1, <1>3, <1>5, <3>1, <3>2, <3>3 DEF Reads, Due
  <2> QED
    BY <2>1, <2>2
<1> QED
  BY <1>3, <1>4, <1>6, <1>7, <1>8

\* A step that leaves AWS and the handlers alone, and at which the row still
\* leads to the deal.
LEMMA FollowsSame ==
    ASSUME EventInv, KeepsUp, UNCHANGED <<opps, bus, seen>>,
           \A h \in Handlers : job'[h] = job[h], Found => Found',
           SubmitPhases', Reviewed', Behind'
    PROVE  KeepsUp'
<1>1. OneOpp' /\ Unseen'
  BY DEF KeepsUp, OneOpp, Unseen
<1>2. ASSUME NEW h \in Handlers PROVE Reads(h)'
  <2>1. Ev(h)' = Ev(h) /\ Waiting' = Waiting /\ job'[h] = job[h]
    BY DEF Ev, Waiting
  <2>2. Reads(h) /\ Due' = Due
    BY <2>1 DEF KeepsUp, Due, At
  <2> QED
    BY <2>1, <2>2 DEF Reads
<1> QED
  BY <1>1, <1>2 DEF KeepsUp

\* The sync writes the stage, BD archives the deal.
LEMMA DealFollows == ASSUME EventInv, KeepsUp, Sync \/ Archive PROVE KeepsUp'
<1>1. UNCHANGED <<opps, bus, seen, row, job>>
  BY DEF Sync, Archive, aws, mapping
<1>2. /\ deal'.cosell = deal.cosell /\ deal'.status = deal.status
      /\ \/ deal'.by = "sync" /\ deal'.archived = deal.archived
         \/ deal'.archived /\ deal'.by = deal.by
  BY DEF Sync, Archive, EventInv, Typed, DealOK
<1>3. SubmitPhases' /\ Reviewed'
  BY <1>1, <1>2 DEF KeepsUp, SubmitPhases, Reviewed
<1>4. \A h \in Handlers : Coming(h)' = Coming(h)
  BY <1>1 DEF Coming, Ev
<1>5. Waiting' = Waiting /\ Found' = Found
  BY <1>1 DEF Waiting, Found
<1>6. Behind'
  BY <1>1, <1>2, <1>4, <1>5 DEF KeepsUp, Behind, Current
<1> QED
  BY <1>1, <1>3, <1>5, <1>6, FollowsSame

\* BD submits: there is no opportunity yet.
LEMMA TriggerFollows == ASSUME EventInv, KeepsUp, Trigger PROVE KeepsUp'
<1>1. /\ UNCHANGED <<opps, bus, seen, row>> /\ deal.cosell = 0 /\ row.opp = 0
      /\ job["submit"].pc = "idle" /\ \A o \in DOMAIN opps : opps[o].token # 0
  BY DEF Trigger, aws, mapping, At
<1>2. deal'.cosell = 0 /\ deal'.by = "bd"
  BY <1>1 DEF Trigger, EventInv, Typed, DealOK
<1>3. DOMAIN opps = {}
  BY <1>1 DEF KeepsUp, SubmitPhases
<1>4. Sole("submit") /\ job'["submit"].pc = "reserve"
  BY OneGoes DEF EventInv, Typed, Trigger, Jobs, Steps
<1>5. \A h \in Handlers : job'[h] = job[h]
  BY <1>4, EventConstants DEF Sole, Jobs
<1>6. SubmitPhases' /\ Reviewed' /\ Behind'
  BY <1>1, <1>2, <1>3, <1>4 DEF SubmitPhases, Reviewed, Behind
<1>7. Found' = Found
  BY <1>1 DEF Found
<1> QED
  BY <1>1, <1>5, <1>6, <1>7, FollowsSame

\* The token is reserved, the row is read: still no opportunity.
LEMMA ReserveFollows == ASSUME EventInv, KeepsUp, Reserve \/ Load PROVE KeepsUp'
<1> USE DEF aws, mapping
<1>1. /\ UNCHANGED <<opps, bus, seen, deal>> /\ job["submit"].pc \in {"reserve", "load"}
  BY DEF Reserve, Load, At
<1>2. DOMAIN opps = {} /\ deal.cosell = 0 /\ deal.by # "event"
  BY <1>1 DEF KeepsUp, SubmitPhases, Reviewed
<1>3. row.opp = 0 /\ JobOK /\ "submit" \in Jobs /\ job["submit"] \in Job
  BY <1>2 DEF EventInv, RefsInv, Typed, JobOK, Jobs
<1>4. Sole("submit") /\ job'["submit"].pc \in {"load", "create"}
  <2>1. CASE Reserve
    BY <1>3, <2>1, OneGoes DEF Reserve, Steps
  <2>2. CASE Load
    <3> DEFINE n == [job["submit"] EXCEPT !.opp = row.opp, !.pc = "create"]
    <3>1. n \in Job /\ n.pc = "create"
      BY <1>3 DEF Job, Steps, EventInv, Typed, RowOK
    <3>2. job' = [job EXCEPT !["submit"] = n]
      BY <1>3, <2>2 DEF Load
    <3> HIDE DEF n
    <3> QED
      BY <1>3, <3>1, <3>2, OneJob
  <2> QED
    BY <2>1, <2>2
<1>5. \A h \in Handlers : job'[h] = job[h] /\ job[h].pc = "idle"
  BY <1>2, <1>4, EventConstants, NoOpps DEF Sole, Jobs
<1>6. SubmitPhases' /\ Reviewed' /\ Behind'
  BY <1>1, <1>2, <1>4 DEF SubmitPhases, Reviewed, Behind
<1>7. OneOpp' /\ Unseen'
  BY <1>1 DEF KeepsUp, OneOpp, Unseen
<1>8. \A h \in Handlers : Reads(h)'
  BY <1>5 DEF Reads, Reading
<1> QED
  BY <1>6, <1>7, <1>8 DEF KeepsUp

\* The first opportunity.
LEMMA CreateFollows == ASSUME EventInv, KeepsUp, Create PROVE KeepsUp'
<1>1. /\ UNCHANGED <<seen, row, deal>> /\ At("submit", "create") /\ Sole("submit")
      /\ job'["submit"].pc = "persist"
  BY CreateEffect
<1>2. DOMAIN opps = {} /\ deal.cosell = 0 /\ deal.by # "event"
  BY <1>1 DEF KeepsUp, SubmitPhases, Reviewed, At
<1>3. PICK o \in Opps :
         /\ o = Len(opps) + 1
         /\ DOMAIN opps' = DOMAIN opps \cup {o} /\ opps'[o] = NewOpp(row.token)
         /\ NewEvents({"updated"}, o)
  BY <1>2, CreateEffect
<1>4. o = 1 /\ DOMAIN opps' = {o}
  BY <1>2, <1>3, FirstOpp DEF EventInv, Typed
<1>5. ~opps'[o].invited /\ opps'[o].review = "Pending Submission" /\ opps'[o].closed = "open"
  <2>1. \A t : /\ NewOpp(t).invited = FALSE /\ NewOpp(t).review = "Pending Submission"
               /\ NewOpp(t).closed = "open"
    BY DEF NewOpp
  <2> QED
    BY <1>3, <2>1
<1>6. \A h \in Handlers : job'[h] = job[h] /\ job[h].pc = "idle"
  BY <1>1, <1>2, EventConstants, NoOpps DEF Sole, Jobs
<1>7. OneOpp' /\ SubmitPhases' /\ Reviewed' /\ Behind'
  BY <1>1, <1>2, <1>4, <1>5 DEF OneOpp, SubmitPhases, Reviewed, Behind
<1>8. Unseen'
  BY <1>1, <1>3, Announced DEF KeepsUp
<1>9. \A h \in Handlers : Reads(h)'
  BY <1>6 DEF Reads, Reading
<1> QED
  BY <1>7, <1>8, <1>9 DEF KeepsUp

\* The row names the opportunity, and later the invitation.
LEMMA PersistFollows == ASSUME EventInv, KeepsUp, Persist \/ Task PROVE KeepsUp'
<1> USE DEF aws, mapping
<1>1. UNCHANGED <<opps, bus, seen, deal>>
  BY DEF Persist, Task
<1>2. /\ Sole("submit") /\ job["submit"].opp # 0
      /\ \/ job["submit"].pc = "persist" /\ job'["submit"].pc = "cosell"
         \/ job["submit"].pc = "task" /\ job'["submit"].pc = "index"
  <2>1. Sole("submit") /\ \/ job["submit"].pc = "persist" /\ job'["submit"].pc = "cosell"
                          \/ job["submit"].pc = "task" /\ job'["submit"].pc = "index"
    BY OneGoes DEF EventInv, Typed, Persist, Task, Jobs, Steps, At
  <2>2. job["submit"].opp \in DOMAIN opps
    BY <2>1 DEF EventInv, RefsInv, Named
  <2>3. job["submit"].opp = 1
    BY <2>2 DEF KeepsUp, OneOpp
  <2> QED
    BY <2>1, <2>3
<1>3. /\ row'.deal
      /\ row'.opp # 0
  BY <1>2 DEF Persist, Task, EventInv, Typed, RowOK, KeepsUp, SubmitPhases, At
<1>4. \A h \in Handlers : job'[h] = job[h]
  BY <1>2, EventConstants DEF Sole, Jobs
<1>5. SubmitPhases' /\ Reviewed'
  BY <1>1, <1>2, <1>3 DEF KeepsUp, SubmitPhases, Reviewed
<1>6. Found'
  BY <1>3 DEF Found
<1>7. Behind'
  <2>1. \A h \in Handlers : Coming(h)' = Coming(h)
    BY <1>1, <1>4 DEF Coming, Ev
  <2>2. Waiting' = Waiting
    BY <1>1 DEF Waiting
  <2> QED
    BY <1>1, <1>6, <2>1, <2>2 DEF KeepsUp, Behind, Current
<1> QED
  BY <1>1, <1>4, <1>5, <1>6, <1>7, FollowsSame

\* The identifiers go to the deal while AWS has not begun its review.
LEMMA CosellFollows == ASSUME EventInv, NothingFails, KeepsUp, Cosell PROVE KeepsUp'
<1> USE DEF aws, mapping
<1>0. PICK o : o = job["submit"].opp
  OBVIOUS
<1>1. UNCHANGED <<opps, bus, seen, row>> /\ job["submit"].pc = "cosell"
      /\ deal' = [deal EXCEPT !.cosell = o, !.status = "Pending Submission"]
  BY <1>0, NoFault DEF Cosell, At
<1>2. Sole("submit") /\ job'["submit"].pc = "start"
  BY OneGoes DEF EventInv, Typed, Cosell, Jobs, Steps
<1>3. o \in DOMAIN opps /\ ~opps[o].invited /\ row.deal /\ row.opp # 0
  BY <1>0, <1>1 DEF EventInv, RefsInv, Named, KeepsUp, SubmitPhases
<1>4. opps[o].review = "Pending Submission" /\ opps[o].closed = "open" /\ deal.by # "event"
  BY <1>3 DEF KeepsUp, Reviewed
<1>5. /\ deal'.cosell = o /\ deal'.status = "Pending Submission" /\ deal'.by = deal.by
  BY <1>1 DEF EventInv, Typed, DealOK
<1>6. \A h \in Handlers : job'[h] = job[h]
  BY <1>2, EventConstants DEF Sole, Jobs
<1>7. SubmitPhases' /\ Reviewed'
  BY <1>1, <1>2, <1>3, <1>5 DEF KeepsUp, SubmitPhases, Reviewed
<1>8. Found'
  BY <1>1, <1>3 DEF Found
<1>9. Current'
  BY <1>1, <1>4, <1>5 DEF Current, Status
<1>10. Behind'
  BY <1>1, <1>3, <1>5, <1>8, <1>9 DEF Behind
<1> QED
  BY <1>1, <1>6, <1>7, <1>8, <1>10, FollowsSame

\* The review starts, which is announced.
LEMMA StartFollows == ASSUME EventInv, KeepsUp, Start PROVE KeepsUp'
<1> USE DEF KeepsUp
<1>0. PICK o : o = job["submit"].opp
  OBVIOUS
<1>1. /\ At("submit", "start") /\ Sole("submit") /\ o \in DOMAIN opps
      /\ job'["submit"].pc = "task" /\ job'["submit"].opp = o
      /\ UNCHANGED <<seen, row, deal>>
      /\ \/ opps[o].invited /\ UNCHANGED <<opps, bus>>
         \/ /\ DOMAIN opps' = DOMAIN opps /\ \A i \in DOMAIN opps \ {o} : opps'[i] = opps[i]
            /\ opps'[o].token = opps[o].token /\ opps'[o].invited
            /\ opps'[o].review = "In review"
            /\ NewEvents({"invited", "updated"}, o)
  BY <1>0, StartEffect
<1>2. \A h \in Handlers : job'[h] = job[h]
  BY <1>1, EventConstants DEF Sole, Jobs
<1>3. CASE UNCHANGED <<opps, bus>>
  <2>1. SubmitPhases' /\ Reviewed'
    BY <1>1, <1>3 DEF SubmitPhases, Reviewed, At
  <2>2. Found' = Found /\ Waiting' = Waiting /\ \A h \in Handlers : Coming(h)' = Coming(h)
    BY <1>1, <1>2, <1>3 DEF Found, Waiting, Coming, Ev
  <2>3. Behind'
    BY <1>1, <1>3, <2>2 DEF Behind, Current
  <2> QED
    BY <1>1, <1>2, <1>3, <2>1, <2>2, <2>3, FollowsSame
<1>4. CASE /\ DOMAIN opps' = DOMAIN opps /\ \A i \in DOMAIN opps \ {o} : opps'[i] = opps[i]
           /\ opps'[o].token = opps[o].token /\ opps'[o].invited
           /\ opps'[o].review = "In review"
           /\ NewEvents({"invited", "updated"}, o)
  <2>1. Waiting' /\ Unseen' /\ \A e \in DOMAIN bus : bus'[e] = bus[e]
    BY <1>1, <1>4, Announced
  <2>2. OneOpp' /\ SubmitPhases'
    BY <1>1, <1>4 DEF OneOpp, SubmitPhases, At
  <2>3. Reviewed'
    <3>1. ASSUME NEW i \in DOMAIN opps, i # o
          PROVE  /\ opps'[i].invited => opps'[i].review # "Pending Submission"
                 /\ ~opps'[i].invited => /\ opps'[i].review = "Pending Submission"
                                         /\ opps'[i].closed = "open" /\ deal'.by # "event"
      BY <1>1, <1>4, <3>1 DEF Reviewed
    <3>2. DOMAIN opps' # {}
      BY <1>1, <1>4
    <3> QED
      BY <1>4, <3>1, <3>2 DEF Reviewed
  <2>4. Behind'
    BY <1>1, <1>4, <2>1 DEF Behind, Found
  <2>5. ASSUME NEW h \in Handlers PROVE Reads(h)'
    <3>1. CASE job[h].pc = "idle"
      BY <1>2, <3>1 DEF Reads, Reading
    <3>2. CASE job[h].pc # "idle"
      <4>1. Ev(h)' = Ev(h) /\ Ev(h).opp = o
        BY <1>1, <1>2, <2>1, <3>2, WorksOn DEF Ev, OneOpp
      <4>2. job'[h] = job[h] /\ Found' = Found /\ Reads(h)
        BY <1>1, <1>2 DEF Found
      <4> QED
        BY <1>1, <1>4, <2>1, <4>1, <4>2 DEF Reads, Due
    <3> QED
      BY <3>1, <3>2
  <2> QED
    BY <2>1, <2>2, <2>3, <2>4, <2>5
<1> QED
  BY <1>1, <1>3, <1>4

\* The INV# row is put, and submit_to_ace is through.
LEMMA IndexFollows == ASSUME EventInv, KeepsUp, TaskIndex PROVE KeepsUp'
<1>1. UNCHANGED <<opps, bus, seen, row, deal>> /\ job["submit"].pc = "index"
      /\ job' = [job EXCEPT !["submit"] = NoJob]
  BY DEF TaskIndex, aws, At
<1>2. Sole("submit") /\ job'["submit"].pc = "idle"
  BY <1>1, NewTyped, OneJob DEF EventInv, Typed, Jobs
<1>3. \A h \in Handlers : job'[h] = job[h]
  BY <1>2, EventConstants DEF Sole, Jobs
<1>4. SubmitPhases' /\ Reviewed'
  BY <1>1, <1>2 DEF KeepsUp, SubmitPhases, Reviewed
<1>5. Found' = Found /\ Waiting' = Waiting /\ \A h \in Handlers : Coming(h)' = Coming(h)
  BY <1>1, <1>3 DEF Found, Waiting, Coming, Ev
<1>6. Behind'
  BY <1>1, <1>5 DEF KeepsUp, Behind, Current
<1> QED
  BY <1>1, <1>3, <1>4, <1>5, <1>6, FollowsSame

\* What a handler leaves alone whatever it does: it takes no event off the bus
\* but its own, which was not waiting and which no other works on.
LEMMA HandlerRest ==
    ASSUME EventInv, KeepsUp, NEW h \in Handlers, Handle(h)
    PROVE  /\ OneOpp' /\ SubmitPhases' /\ Unseen' /\ (Waiting => Waiting') /\ (Found => Found')
           /\ UNCHANGED opps
           /\ \A g \in Handlers \ {h} :
                 job'[g] = job[g] /\ (job[g].pc # "idle" => Ev(g)' = Ev(g))
<1>1. /\ job[h].pc # "idle" /\ Sole(h) /\ UNCHANGED <<opps, seen>>
      /\ (UNCHANGED bus \/ BusMoves(job[h].ev, "gone"))
      /\ row'.opp = row.opp /\ (row.deal => row'.deal)
  BY HandleEffect
<1>2. job'["submit"] = job["submit"] /\ \A g \in Handlers \ {h} : job'[g] = job[g]
  BY <1>1, EventConstants DEF Sole, Jobs
<1>3. OneOpp' /\ SubmitPhases'
  BY <1>1, <1>2 DEF KeepsUp, OneOpp, SubmitPhases
<1>4. Unseen'
  BY <1>1 DEF KeepsUp, Unseen, BusMoves
<1>5. PICK e : e = job[h].ev
  OBVIOUS
<1>6. bus[e].state = "running"
  BY <1>1, <1>5 DEF KeepsUp, Reads, Ev
<1>7. Waiting => Waiting'
  BY <1>1, <1>5, <1>6 DEF Waiting, BusMoves
<1>8. ASSUME NEW g \in Handlers \ {h}, job[g].pc # "idle" PROVE Ev(g)' = Ev(g)
  <2>1. PICK i \in DOMAIN bus : i = job[g].ev
    BY <1>8, WorksOn
  <2>2. i # e /\ job'[g].ev = i
    BY <1>1, <1>2, <1>5, <1>8, <2>1 DEF EventInv, AlertInv
  <2>3. CASE UNCHANGED bus
    BY <2>1, <2>2, <2>3 DEF Ev
  <2>4. CASE BusMoves(e, "gone")
    BY <2>1, <2>2, <2>4 DEF BusMoves, Ev
  <2> QED
    BY <1>1, <1>5, <2>3, <2>4
<1> QED
  BY <1>1, <1>2, <1>3, <1>4, <1>7, <1>8 DEF Found

\* What an update brings is due until a handler asks AWS.
LEMMA StillDue ==
    ASSUME EventInv, KeepsUp, NEW h \in Handlers, Handle(h), ~At(h, "get"), Due PROVE Due'
<1>1. CASE Waiting
  BY <1>1, HandlerRest DEF Due
<1>2. ASSUME NEW g \in Handlers, At(g, "get") PROVE Due'
  <2>1. g # h /\ job'[g] = job[g]
    BY <1>2, HandlerRest
  <2> QED
    BY <1>2, <2>1 DEF Due, At
<1> QED
  BY <1>1, <1>2 DEF Due

\* Nothing is known of an idle handler.
LEMMA IdleReads == ASSUME NEW h, job'[h].pc = "idle" PROVE Reads(h)'
  BY DEF Reads, Reading

\* What the other handlers have read stays current, and what they are about to
\* write is still to come: where this one asks AWS, none of the others has.
LEMMA OthersRead ==
    ASSUME EventInv, KeepsUp, NEW h \in Handlers, Handle(h),
           At(h, "get") => ReadsApart' /\ Mirrors(h)'
    PROVE  \A g \in Handlers \ {h} : Reads(g)' /\ (Coming(g) => Coming(g)')
<1> SUFFICES ASSUME NEW g \in Handlers \ {h} PROVE Reads(g)' /\ (Coming(g) => Coming(g)')
  OBVIOUS
<1>1. /\ job'[g] = job[g] /\ UNCHANGED opps /\ (Found => Found') /\ Reads(g)
      /\ job[g].pc # "idle" => Ev(g)' = Ev(g)
  BY HandlerRest DEF KeepsUp
<1>2. CASE job[g].pc = "idle"
  BY <1>1, <1>2, IdleReads DEF Coming, Reading
<1>3. CASE job[g].pc # "idle" /\ ~At(h, "get")
  <2>1. Due => Due'
    BY <1>3, StillDue
  <2> QED
    BY <1>1, <1>3, <2>1 DEF Reads, Coming
<1>4. CASE job[g].pc # "idle" /\ At(h, "get")
  <2>1. ~Mirrors(g)'
    BY <1>4 DEF ReadsApart
  <2> QED
    BY <1>1, <1>4, <2>1 DEF Reads, Coming, Mirrors
<1> QED
  BY <1>2, <1>3, <1>4

\* A step of a handler that does not write the deal: what was coming is still
\* coming, or BD has archived the deal.
LEMMA HandlerFollows ==
    ASSUME EventInv, KeepsUp, NEW h \in Handlers, Handle(h), UNCHANGED deal,
           At(h, "get") => ReadsApart' /\ Mirrors(h)',
           Reads(h)', deal.cosell # 0 /\ Found /\ Coming(h) => Coming(h)' \/ deal.archived
    PROVE  KeepsUp'
<1>1. /\ OneOpp' /\ SubmitPhases' /\ Unseen' /\ (Waiting => Waiting') /\ (Found => Found')
      /\ UNCHANGED opps
  BY HandlerRest
<1>2. Reviewed'
  BY <1>1 DEF KeepsUp, Reviewed
<1>3. \A g \in Handlers \ {h} : Reads(g)' /\ (Coming(g) => Coming(g)')
  BY OthersRead
<1>4. Behind'
  BY <1>1, <1>3 DEF KeepsUp, Behind, Current
<1>5. \A g \in Handlers : Reads(g)'
  BY <1>3
<1> QED
  BY <1>1, <1>2, <1>4, <1>5 DEF KeepsUp

\* A handler that is done with its event is idle.
LEMMA HandlerIdle ==
    ASSUME EventInv, NEW h \in Handlers, Done(h), Handle(h) PROVE Reads(h)'
<1>1. job[h].pc # "idle" /\ UNCHANGED <<opps, seen>>
  BY HandleEffect
<1>2. job'[h].pc = "idle"
  BY <1>1, Ends, NewTyped
<1> QED
  BY <1>2, IdleReads

\* A handler that goes on keeps its event and what it has read.
LEMMA HandlerGoes ==
    ASSUME EventInv, NEW h \in Handlers, NEW step \in Steps, Goto(h, step), UNCHANGED bus
    PROVE  /\ job'[h].pc = step /\ job'[h].ev = job[h].ev /\ job'[h].opp = job[h].opp
           /\ job'[h].read = job[h].read /\ Ev(h)' = Ev(h) /\ Waiting' = Waiting
<1>1. job[h] \in Job /\ h \in Jobs /\ JobOK
  BY DEF EventInv, Typed, JobOK, Jobs
<1>2. job' = [job EXCEPT ![h].pc = step]
  BY DEF Goto
<1>3. /\ job'[h].pc = step /\ job'[h].ev = job[h].ev /\ job'[h].opp = job[h].opp
      /\ job'[h].read = job[h].read
  BY <1>1, <1>2 DEF JobOK, Job
<1> QED
  BY <1>3 DEF Ev, Waiting

\* GetOpportunity answers with what AWS has.
LEMMA GetFollows ==
    ASSUME ReadsApart', EventInv, NothingFails, KeepsUp, NEW h \in Handlers, Get(h)
    PROVE  KeepsUp'
<1>1. /\ At(h, "get") /\ UNCHANGED <<opps, bus, deal>>
      /\ job' = [job EXCEPT ![h].pc = "map", ![h].opp = Ev(h).opp, ![h].read = opps[Ev(h).opp]]
  BY NoFault DEF Get
<1>2. Handle(h)
  BY DEF Handle
<1>3. job[h] \in Job /\ h \in Jobs /\ JobOK
  BY DEF EventInv, Typed, JobOK, Jobs
<1>4. PICK o, r : o = Ev(h).opp /\ r = opps[Ev(h).opp]
  OBVIOUS
<1>5. job' = [job EXCEPT ![h].pc = "map", ![h].opp = o, ![h].read = r]
  BY <1>1, <1>4
<1>6. /\ job'[h].pc = "map" /\ job'[h].ev = job[h].ev /\ job'[h].opp = o /\ job'[h].read = r
  BY <1>3, <1>5 DEF JobOK, Job
<1>7. Ev(h)' = Ev(h)
  BY <1>1, <1>6 DEF Ev
<1>8. Reads(h)
  BY DEF KeepsUp
<1>9. Reads(h)'
  BY <1>1, <1>4, <1>6, <1>7, <1>8 DEF Reads, Reading, At
<1>10. Coming(h) => Coming(h)'
  BY <1>6, <1>7 DEF Coming, Reading
<1>11. Mirrors(h)'
  BY <1>1, <1>6, <1>7, <1>8 DEF Mirrors, Reads, Reading, At
<1> QED
  BY <1>1, <1>2, <1>9, <1>10, <1>11, HandlerFollows

\* An answer to an invitation has nothing to write but a stage.
LEMMA FindFollows ==
    ASSUME EventInv, NothingFails, KeepsUp, NEW h \in Handlers, Find(h)
    PROVE  KeepsUp'
<1>1. /\ At(h, "find") /\ UNCHANGED deal
      /\ Done(h) \/ (UNCHANGED bus /\ Goto(h, "map"))
  BY NoFault DEF Find
<1>2. Handle(h) /\ Reads(h)
  BY DEF Handle, KeepsUp
<1>3. Reads(h)'
  <2>1. CASE Done(h)
    BY <1>2, <2>1, HandlerIdle
  <2>2. CASE UNCHANGED bus /\ Goto(h, "map")
    <3>1. job'[h].pc = "map" /\ Ev(h)' = Ev(h)
      BY <2>2, HandlerGoes DEF Steps
    <3> QED
      BY <1>1, <1>2, <3>1 DEF Reads, Reading, At
  <2> QED
    BY <1>1, <2>1, <2>2
<1>4. ~Coming(h) /\ ~At(h, "get")
  BY <1>1 DEF Coming, Reading, At
<1> QED
  BY <1>1, <1>2, <1>3, <1>4, HandlerFollows

\* The row leads to the deal, or a search does.
LEMMA MapFollows ==
    ASSUME EventInv, NothingFails, KeepsUp, NEW h \in Handlers, Map(h)
    PROVE  KeepsUp'
<1>0. PICK step \in Steps : step = IF row.deal THEN Resolved(h) ELSE "search"
  BY DEF Resolved, Steps
<1>1. /\ At(h, "map") /\ UNCHANGED <<opps, bus, deal, row>> /\ Goto(h, step)
  BY <1>0, NoFault DEF Map, aws, mapping
<1>2. Handle(h) /\ Reads(h) /\ ~At(h, "get")
  BY <1>1 DEF Handle, KeepsUp, At
<1>3. /\ job'[h].pc = step /\ job'[h].opp = job[h].opp /\ job'[h].read = job[h].read
      /\ Ev(h)' = Ev(h) /\ Waiting' = Waiting
  BY <1>1, HandlerGoes
<1>4. Found' = Found /\ (Due => Due')
  BY <1>1, <1>2, StillDue DEF Found
<1>5. CASE row.deal /\ Ev(h).kind = "updated"
  <2>1. step = "archive" /\ Found
    BY <1>0, <1>5 DEF Resolved, Found
  <2>2. Reads(h)'
    BY <1>1, <1>2, <1>3, <1>4, <1>5, <2>1 DEF Reads, Reading, At
  <2>3. Coming(h)'
    BY <1>3, <1>5, <2>1 DEF Coming, Reading
  <2> QED
    BY <1>1, <1>2, <2>2, <2>3, HandlerFollows
<1>6. CASE row.deal /\ Ev(h).kind # "updated"
  <2>1. step = "stage"
    BY <1>0, <1>6 DEF Resolved
  <2>2. Reads(h)'
    BY <1>1, <1>2, <1>3, <1>6, <2>1 DEF Reads, Reading, At
  <2>3. ~Coming(h)
    BY <1>6 DEF Coming
  <2> QED
    BY <1>1, <1>2, <2>2, <2>3, HandlerFollows
<1>7. CASE ~row.deal
  <2>1. step = "search"
    BY <1>0, <1>7
  <2>2. Reads(h)'
    BY <1>1, <1>2, <1>3, <1>4, <2>1 DEF Reads, Reading, At
  <2>3. Found /\ Coming(h) => Coming(h)'
    BY <1>3, <1>7, <2>1 DEF Coming, Reading, Found
  <2> QED
    BY <1>1, <1>2, <2>2, <2>3, HandlerFollows
<1> QED
  BY <1>5, <1>6, <1>7

\* The search finds the deal, the row is healed.
LEMMA HealFollows ==
    ASSUME EventInv, NothingFails, KeepsUp, NEW h \in Handlers,
           Search(h) \/ Heal(h) \/ HealIndex(h)
    PROVE  KeepsUp'
<1>0. Handle(h) /\ Reads(h) /\ UNCHANGED <<opps, deal>> /\ ~At(h, "get")
  BY DEF Handle, KeepsUp, Search, Heal, HealIndex, aws, mapping, At
<1>1. CASE Done(h)
  <2>1. Reads(h)'
    BY <1>0, <1>1, HandlerIdle
  <2>2. ~Coming(h)
    <3>1. At(h, "search") /\ ~Findable
      <4>1. job'[h].pc = "idle"
        BY <1>0, <1>1, Ends, NewTyped, HandleEffect
      <4>2. ASSUME NEW step \in Steps \ {"idle"}, Goto(h, step), UNCHANGED bus PROVE FALSE
        BY <4>1, <4>2, HandlerGoes
      <4> QED
        BY <4>2, NoFault DEF Search, Heal, HealIndex, Resolved, Steps, aws
    <3> QED
      BY <3>1 DEF Coming, At
  <2> QED
    BY <1>0, <2>1, <2>2, HandlerFollows
<1>2. CASE ~Done(h)
  <2>1. /\ UNCHANGED bus /\ Findable /\ job[h].pc \in {"search", "heal", "healed"}
        /\ Goto(h, "heal") \/ Goto(h, "healed") \/ Goto(h, Resolved(h))
    BY <1>0, <1>2, NoFault DEF Search, Heal, HealIndex, aws, At, Reads
  <2>2. PICK step \in {"heal", "healed", Resolved(h)} : Goto(h, step)
    BY <2>1
  <2>3. step \in Steps
    BY DEF Resolved, Steps
  <2>4. /\ job'[h].pc = step /\ job'[h].opp = job[h].opp /\ job'[h].read = job[h].read
        /\ Ev(h)' = Ev(h) /\ Waiting' = Waiting
    BY <2>1, <2>2, <2>3, HandlerGoes
  <2>5. Found' /\ (Due => Due')
    BY <1>0, <2>1, StillDue DEF Found
  <2>6. /\ step \in {"heal", "healed", "archive", "stage"}
        /\ step = "archive" => Ev(h).kind = "updated"
        /\ step = "stage" => Ev(h).kind # "updated"
    BY <2>2 DEF Resolved
  <2>7. Reads(h)'
    BY <1>0, <2>1, <2>4, <2>5, <2>6 DEF Reads, Reading
  <2>8. Coming(h) => Coming(h)'
    BY <2>4, <2>6 DEF Coming, Reading
  <2> QED
    BY <1>0, <2>7, <2>8, HandlerFollows
<1> QED
  BY <1>1, <1>2

\* An archived deal is left alone; what is noted in the row after the PATCH has
\* no influence on the deal.
LEMMA CheckFollows ==
    ASSUME EventInv, NothingFails, KeepsUp, NEW h \in Handlers,
           CheckArchive(h) \/ Record(h) \/ RecordIndex(h)
    PROVE  KeepsUp'
<1>0. Handle(h) /\ Reads(h) /\ UNCHANGED <<opps, deal>> /\ ~At(h, "get")
  BY DEF Handle, KeepsUp, CheckArchive, Record, RecordIndex, aws, mapping, At
<1>1. CASE CheckArchive(h) /\ deal.archived
  <2>1. Done(h)
    BY <1>1, NoFault DEF CheckArchive
  <2>2. Reads(h)'
    BY <1>0, <2>1, HandlerIdle
  <2> QED
    BY <1>0, <1>1, <2>2, HandlerFollows
<1>2. CASE CheckArchive(h) /\ ~deal.archived
  <2>1. At(h, "archive") /\ Goto(h, "patch") /\ UNCHANGED <<bus, row>>
    BY <1>2, NoFault DEF CheckArchive, mapping
  <2>2. /\ job'[h].pc = "patch" /\ job'[h].opp = job[h].opp /\ job'[h].read = job[h].read
        /\ Ev(h)' = Ev(h) /\ Found' = Found /\ (Due => Due')
    BY <1>0, <2>1, HandlerGoes, StillDue DEF Steps, Found
  <2>3. Reads(h)' /\ Coming(h)'
    BY <1>0, <2>1, <2>2 DEF Reads, Reading, Coming, At
  <2> QED
    BY <1>0, <2>3, HandlerFollows
<1>3. CASE Record(h) \/ RecordIndex(h)
  <2>1. ~Coming(h)
    BY <1>3 DEF Coming, Reading, Record, RecordIndex, At
  <2>2. Reads(h)'
    <3>1. CASE Record(h)
      <4>1. At(h, "record") /\ Goto(h, "index") /\ UNCHANGED bus
        BY <3>1 DEF Record, aws
      <4>2. job'[h].pc = "index" /\ Ev(h)' = Ev(h)
        BY <4>1, HandlerGoes DEF Steps
      <4> QED
        BY <1>0, <4>1, <4>2 DEF Reads, Reading, At
    <3>2. CASE RecordIndex(h)
      <4>1. Done(h)
        BY <3>2 DEF RecordIndex
      <4> QED
        BY <1>0, <4>1, HandlerIdle
    <3> QED
      BY <1>3, <3>1, <3>2
  <2> QED
    BY <1>0, <2>1, <2>2, HandlerFollows
<1> QED
  BY <1>1, <1>2, <1>3

\* After a review has begun there is a stage for it.
LEMMA StageThere ==
    ASSUME NEW o \in Opp PROVE StageOf(o) = "none" <=>
                                  o.closed = "open" /\ o.review = "Pending Submission"
  BY DEF Opp, StageOf, ReviewStatus, Closings

\* The PATCH writes what was read, which is what AWS has, or an update is due.
LEMMA PatchFollows ==
    ASSUME EventInv, NothingFails, KeepsUp, NEW h \in Handlers, Patch(h)
    PROVE  KeepsUp'
<1>0. PICK o, r, stage : o = job[h].opp /\ r = job[h].read /\ stage = StageOf(r)
  OBVIOUS
<1>1. Handle(h) /\ Reads(h) /\ At(h, "patch")
  BY DEF Handle, KeepsUp, Patch
<1>2. /\ OneOpp' /\ SubmitPhases' /\ Unseen' /\ (Waiting => Waiting') /\ (Found => Found')
      /\ UNCHANGED opps
  BY <1>1, HandlerRest
<1>3. /\ Ev(h).kind = "updated" /\ o = Ev(h).opp /\ o \in DOMAIN opps /\ Found
      /\ (r = opps[o] \/ (Due /\ opps[o].invited))
  BY <1>0, <1>1, WorksOn DEF Reads, Reading, At
<1>4. /\ \A i \in DOMAIN opps : i = o
      /\ o # 0
  BY <1>3 DEF KeepsUp, OneOpp
<1>5. /\ opps[o] \in Opp
      /\ r = opps[o] => (stage = "none" <=> ~opps[o].invited)
  <2>1. opps[o] \in Opp
    BY <1>3, SequencesTyped DEF EventInv, Typed
  <2> QED
    BY <1>0, <1>3, <2>1, StageThere DEF KeepsUp, Reviewed
<1>6. \/ /\ ~deal.archived /\ deal'.archived = FALSE
         /\ deal'.cosell = o /\ deal'.status = Status(r)
         /\ deal'.stage = IF stage = "none" THEN deal.stage ELSE stage
         /\ deal'.by = IF stage = "none" THEN deal.by ELSE "event"
      \/ deal.archived /\ UNCHANGED deal
  <2>1. \/ /\ ~deal.archived
           /\ deal' = [deal EXCEPT !.cosell = o, !.status = Status(r),
                                  !.stage = IF stage = "none" THEN @ ELSE stage,
                                  !.by = IF stage = "none" THEN @ ELSE "event"]
        \/ deal.archived /\ UNCHANGED deal
    BY <1>0, NoFault DEF Patch
  <2> QED
    BY <2>1 DEF EventInv, Typed, DealOK
<1>7. Reviewed'
  <2>1. ~opps[o].invited => deal'.by = deal.by
    BY <1>3, <1>5, <1>6
  <2> QED
    BY <1>2, <1>3, <1>4, <2>1 DEF KeepsUp, Reviewed
<1>11. \A g \in Handlers \ {h} : Reads(g)' /\ (Coming(g) => Coming(g)')
  BY <1>1, OthersRead DEF At
<1>8. Behind'
  <2>1. CASE deal.archived /\ UNCHANGED deal
    BY <1>2, <2>1 DEF KeepsUp, Behind
  <2>2. CASE Due /\ deal'.cosell = o
    <3>1. Waiting \/ \E g \in Handlers : At(g, "get") /\ Coming(g)
      BY <2>2 DEF Due, KeepsUp, Reads, Coming, At
    <3>2. Waiting' \/ \E g \in Handlers : Coming(g)'
      BY <1>1, <1>2, <1>11, <3>1 DEF At
    <3> QED
      BY <1>2, <1>3, <2>2, <3>2 DEF Behind
  <2>3. CASE r = opps[o] /\ ~deal.archived
    <3>1. deal'.by = "event" => deal'.stage = stage
      BY <1>3, <1>5, <1>6, <2>3 DEF KeepsUp, Reviewed
    <3>2. Current'
      BY <1>0, <1>2, <1>6, <2>3, <3>1 DEF Current
    <3> QED
      BY <1>2, <1>3, <1>6, <2>3, <3>2 DEF Behind
  <2> QED
    BY <1>3, <1>6, <2>1, <2>2, <2>3
<1>9. Reads(h)'
  <2>1. CASE Done(h)
    BY <1>1, <2>1, HandlerIdle
  <2>2. CASE Goto(h, "record") /\ UNCHANGED bus
    <3>1. job'[h].pc = "record" /\ Ev(h)' = Ev(h)
      BY <2>2, HandlerGoes DEF Steps
    <3> QED
      BY <1>1, <1>3, <3>1 DEF Reads, Reading, At
  <2> QED
    BY <2>1, <2>2 DEF Patch
<1>10. \A g \in Handlers : Reads(g)'
  BY <1>9, <1>11
<1> QED
  BY <1>2, <1>7, <1>8, <1>10 DEF KeepsUp

\* The answer to an invitation sets a stage of its own.
LEMMA SetStageFollows ==
    ASSUME EventInv, KeepsUp, NEW h \in Handlers, SetStage(h) PROVE KeepsUp'
<1>1. Handle(h) /\ Reads(h) /\ At(h, "stage") /\ Done(h)
  BY DEF Handle, KeepsUp, SetStage
<1>2. /\ OneOpp' /\ SubmitPhases' /\ Unseen' /\ (Waiting => Waiting') /\ (Found => Found')
      /\ UNCHANGED opps
  BY <1>1, HandlerRest
<1>3. /\ deal'.cosell = deal.cosell /\ deal'.status = deal.status
      /\ deal'.archived = deal.archived /\ (deal' = deal \/ deal'.by = "invitation")
  BY DEF SetStage, EventInv, Typed, DealOK
<1>4. Reviewed'
  BY <1>2, <1>3 DEF KeepsUp, Reviewed
<1>5. ~Coming(h) /\ \A g \in Handlers \ {h} : Reads(g)' /\ (Coming(g) => Coming(g)')
  BY <1>1, OthersRead DEF Coming, Reading, At
<1>6. Behind'
  BY <1>2, <1>3, <1>5 DEF KeepsUp, Behind, Current
<1>7. \A g \in Handlers : Reads(g)'
  BY <1>1, <1>5, HandlerIdle
<1> QED
  BY <1>2, <1>4, <1>6, <1>7 DEF KeepsUp

\* The handler takes up an event; an update that was waiting is now its own.
LEMMA ReceiveFollows ==
    ASSUME EventInv, KeepsUp, NEW h \in Handlers, NEW e \in DOMAIN bus, Receive(h, e)
    PROVE  KeepsUp'
<1> USE DEF KeepsUp
<1>1. /\ job[h].pc = "idle" /\ bus[e].state = "pending" /\ UNCHANGED <<opps, row, deal>>
      /\ seen' = seen \cup {e} /\ job'["submit"] = job["submit"]
      /\ \/ /\ e \in seen \/ bus[e].kind = "invited"
            /\ BusMoves(e, "gone") /\ UNCHANGED job
         \/ /\ e \notin seen /\ bus[e].kind # "invited"
            /\ BusMoves(e, "running") /\ job'[h].ev = e
            /\ job'[h].pc = IF bus[e].kind = "updated" THEN "get" ELSE "find"
  BY ReceiveEffect
<1>2. e \notin seen
  BY <1>1 DEF Unseen
<1>3. OneOpp' /\ SubmitPhases' /\ Reviewed' /\ Found' = Found
  BY <1>1 DEF OneOpp, SubmitPhases, Reviewed, Found
<1>4. Unseen'
  BY <1>1 DEF Unseen, BusMoves
<1>5. ASSUME NEW g \in Handlers \ {h}, job[g].pc # "idle"
      PROVE  job'[g] = job[g] /\ Ev(g)' = Ev(g)
  <2>1. PICK i \in DOMAIN bus : i = job[g].ev
    BY <1>5, WorksOn
  <2>2. bus[i].state = "running"
    BY <1>5, <2>1 DEF Reads, Ev
  <2> QED
    BY <1>1, <2>1, <2>2, ReceiveEffect DEF Ev, BusMoves
<1>6. ~Coming(h) /\ \A g \in Handlers \ {h} : Coming(g) => Coming(g)'
  BY <1>1, <1>5 DEF Coming, Reading
<1>9. ASSUME Due => Due', NEW g \in Handlers \ {h} PROVE Reads(g)'
  <2>1. CASE job[g].pc = "idle"
    BY <2>1, ReceiveEffect, IdleReads
  <2>2. CASE job[g].pc # "idle"
    <3>1. Reads(g) /\ job'[g] = job[g] /\ Ev(g)' = Ev(g)
      BY <1>5, <2>2
    <3> QED
      BY <1>1, <1>3, <1>9, <3>1 DEF Reads
  <2> QED
    BY <2>1, <2>2
<1>7. CASE bus[e].kind = "invited"
  <2>1. Waiting => Waiting'
    BY <1>1, <1>7 DEF Waiting, BusMoves
  <2>2. Behind'
    BY <1>1, <1>3, <1>6, <2>1 DEF Behind, Current
  <2>3. Reads(h)'
    BY <1>1, <1>2, <1>7, IdleReads
  <2>4. Due => Due'
    BY <1>1, <1>2, <1>7, <2>1 DEF Due, At
  <2> QED
    BY <1>3, <1>4, <1>9, <2>2, <2>3, <2>4
<1>8. CASE bus[e].kind # "invited"
  <2>1. /\ BusMoves(e, "running") /\ job'[h].ev = e
        /\ job'[h].pc = IF bus[e].kind = "updated" THEN "get" ELSE "find"
    BY <1>1, <1>2, <1>8
  <2>2. bus'[job'[h].ev].state = "running" /\ bus'[job'[h].ev].kind = bus[e].kind
    BY <2>1 DEF BusMoves
  <2>3. Reads(h)'
    BY <2>1, <2>2 DEF Reads, Reading, Ev
  <2>4. Waiting => Waiting' \/ Coming(h)'
    BY <2>1, <2>2 DEF Waiting, BusMoves, Coming, Reading, Ev
  <2>5. Behind'
    BY <1>1, <1>3, <1>6, <2>4 DEF Behind, Current
  <2>6. ASSUME Due PROVE Due'
    <3>1. CASE Waiting
      BY <2>1, <3>1 DEF Waiting, BusMoves, Due, At
    <3>2. ASSUME NEW g \in Handlers, At(g, "get") PROVE Due'
      BY <1>1, <1>5, <3>2 DEF Due, At
    <3> QED
      BY <2>6, <3>1, <3>2 DEF Due
  <2> QED
    BY <1>3, <1>4, <1>9, <2>3, <2>5, <2>6
<1> QED
  BY <1>7, <1>8

\* Every step, as long as nothing fails.
LEMMA NextFollows ==
    ASSUME ReadsApart', ReviewStarted, EventInv, FollowInv, [EventNext]_evars PROVE FollowInv'
<1> SUFFICES ASSUME efaults' = 0 PROVE KeepsUp'
  BY DEF FollowInv
<1>1. CASE UNCHANGED evars
  <2>1. KeepsUp /\ UNCHANGED <<opps, bus, seen, row, deal, job>>
    BY <1>1 DEF evars, aws, mapping, FollowInv
  <2>2. SubmitPhases' /\ Reviewed' /\ Found' = Found
    BY <2>1 DEF KeepsUp, SubmitPhases, Reviewed, Found
  <2>3. OneOpp' /\ Unseen' /\ Waiting' = Waiting
    BY <2>1 DEF KeepsUp, OneOpp, Unseen, Waiting
  <2>4. \A h \in Handlers : Coming(h)' = Coming(h) /\ Reads(h)'
    BY <2>1, <2>2, <2>3 DEF KeepsUp, Coming, Reads, Ev, Due, At
  <2>5. Behind'
    BY <2>1, <2>2, <2>3, <2>4 DEF KeepsUp, Behind, Current
  <2> QED
    BY <2>2, <2>3, <2>4, <2>5 DEF KeepsUp
<1>2. CASE EventNext
  <2>1. NothingFails /\ KeepsUp
    BY <1>2, FaultsStay DEF FollowInv, NothingFails
  <2>2. ASSUME NEW o \in DOMAIN opps,
               \/ \E status \in ReviewStatus : Review(o, status)
               \/ \E accepts \in BOOLEAN : Respond(o, accepts)
               \/ \E how \in Closings : Close(o, how)
        PROVE  KeepsUp'
    BY <2>1, <2>2, AwsFollows
  <2>3. CASE Sync \/ Archive \/ Trigger
    BY <2>1, <2>3, DealFollows, TriggerFollows
  <2>4. CASE Submit
    BY <2>1, <2>4, ReserveFollows, CreateFollows, PersistFollows, CosellFollows, StartFollows,
       IndexFollows DEF Submit
  <2>5. ASSUME NEW h \in Handlers, Handle(h) PROVE KeepsUp'
    BY <2>1, <2>5, GetFollows, FindFollows, MapFollows, HealFollows, CheckFollows, PatchFollows,
       SetStageFollows DEF Handle
  <2>6. ASSUME NEW h \in Handlers, NEW e \in DOMAIN bus, Receive(h, e) PROVE KeepsUp'
    BY <2>1, <2>6, ReceiveFollows
  <2>7. ASSUME NEW e \in DOMAIN bus, Redeliver(e) PROVE FALSE
    BY <2>1, <2>7, NoFault DEF Redeliver
  <2>8. ASSUME NEW x \in Jobs, Crash(x) PROVE FALSE
    BY <2>1, <2>8, NoFault DEF Crash
  <2> QED
    BY <1>2, <2>2, <2>3, <2>4, <2>5, <2>6, <2>7, <2>8 DEF EventNext
<1> QED
  BY <1>1, <1>2

\* When every event is handled and nothing failed, the deal has the status AWS
\* has, and the stage if an opportunity event wrote it last: for any number of
\* handlers and any order of the events, as long as no two handlers are between
\* GetOpportunity and the PATCH at once, and with a review that does not go back
\* to where it has not begun.
THEOREM DealAsAtAws ==
    ASSUME ReviewStarted PROVE EventSpec /\ []ReadsApart => []DealFollowsAws
<1>1. EventInit => FollowInv
  <2> SUFFICES ASSUME EventInit PROVE KeepsUp
    BY DEF FollowInv
  <2>1. DOMAIN bus = {} /\ \A x \in Jobs : job[x] = NoJob
    BY DEF EventInit
  <2>2. (\A h \in Handlers : job[h].pc = "idle") /\ job["submit"].pc = "idle"
    BY <2>1, NewTyped DEF Jobs
  <2>3. DOMAIN opps = {} \/ (DOMAIN opps = {1} /\ opps[1] = MadeByHand)
    BY DEF EventInit
  <2>4. MadeByHand.token = 0 /\ MadeByHand.invited = TRUE /\ MadeByHand.review = "In review"
    BY DEF MadeByHand, NewOpp
  <2>5. deal.by = "sync" /\ deal.cosell = 0
    BY DEF EventInit
  <2>6. OneOpp /\ SubmitPhases /\ Reviewed /\ Behind
    BY <2>2, <2>3, <2>4, <2>5 DEF OneOpp, SubmitPhases, Reviewed, Behind
  <2>7. Unseen /\ \A h \in Handlers : Reads(h)
    BY <2>1, <2>2 DEF Unseen, Reads, Reading
  <2> QED
    BY <2>6, <2>7 DEF KeepsUp
<1>2. FollowInv => DealFollowsAws
  <2> SUFFICES ASSUME FollowInv, Quiet, efaults = 0, ~deal.archived, deal.cosell # 0 PROVE Current
    BY DEF DealFollowsAws, Current
  <2>1. Behind
    BY DEF FollowInv, KeepsUp
  <2>2. ~Waiting
    BY DEF Waiting, Quiet
  <2>3. \A h \in Handlers : ~Coming(h)
    BY DEF Quiet, Coming, Reading, At, Jobs
  <2> QED
    BY <2>1, <2>2, <2>3 DEF Behind
<1> QED
  BY <1>1, <1>2, NextFollows, EventInvariant, PTL DEF EventSpec
=============================================================================
