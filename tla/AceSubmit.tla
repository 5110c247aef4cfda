----------------------------- MODULE AceSubmit ------------------------------
(***************************************************************************)
(* The submission pipeline: SQS deliveries of "move to the submit stage"   *)
(* messages, each processed by an invocation of the submit_to_ace Lambda   *)
(* (src/lambdas/submit_to_ace.py), which coordinates through the           *)
(* ACE#<govwin_id> row of DynamoDB (src/sync/state.py) and drives three    *)
(* AWS Partner Central calls: CreateOpportunity, AssociateOpportunity and  *)
(* StartEngagementFromOpportunityTask.                                     *)
(*                                                                         *)
(* An attempt <<m, n>> is the n-th delivery of message m.  Every attempt   *)
(* mints its own UUID tokens, so the attempt itself names the ClientToken  *)
(* it would mint; AWS answers a repeated token with the first result, so   *)
(* a ClientToken in turn names the opportunity (or task) it stands for.    *)
(*                                                                         *)
(* Attempts interleave at every call that leaves the process.  A batch of  *)
(* records is attempts one after the other; an invocation that dies after  *)
(* finishing some of them is an Abort of those in pc = "ack".              *)
(***************************************************************************)
EXTENDS Naturals, FiniteSets

CONSTANTS
    GovWinIds,     \* GovWin opportunity ids
    Deals,         \* HubSpot deals
    Msgs,          \* messages of the submit queue
    DealOf,        \* the deal (objectId) a message is about
    GovWinOf,      \* the GovWin id on a deal, None when missing or invalid
    HasSolution,   \* the deals for which resolve_solution_id finds a Solution
    Products,      \* AWS products tagged on the deals
    Solution,      \* the Solution, an entity beside the products
    None,
    MaxReceive,    \* redrive policy: maxReceiveCount of the submit queue
    MaxConcurrent, \* reserved_concurrent_executions of submit_to_ace
    Faults,        \* which kinds of failure can happen, see FaultKinds
    MaxFaults      \* bound: failures injected in a behaviour

(***************************************************************************)
(*   abort       an exception that is not a permanent AWS error, or the    *)
(*               Lambda dies: the message stays on the queue               *)
(*   permanent   AWS refuses the call for good                             *)
(*   mapping     the deal cannot be mapped to a payload (ACEMappingError)  *)
(*   stale_read  GetItem is eventually consistent and returns an older row *)
(*   read_error  GetItem fails, which get_ace_mapping turns into None      *)
(*   aws_lag     a new opportunity is not readable at AWS at once          *)
(***************************************************************************)
FaultKinds == {"abort", "permanent", "mapping", "stale_read", "read_error", "aws_lag"}

Attempts == Msgs \X (1..MaxReceive)
Deal(a) == DealOf[a[1]]
G(a) == GovWinOf[Deal(a)]

ASSUME SubmitAssumption ==
    /\ DealOf \in [Msgs -> Deals]
    /\ GovWinOf \in [Deals -> GovWinIds \cup {None}]
    /\ HasSolution \subseteq Deals
    /\ None \notin GovWinIds /\ None \notin Attempts
    /\ Solution \notin Products
    /\ MaxReceive \in Nat /\ MaxConcurrent \in Nat /\ MaxFaults \in Nat
    /\ Faults \subseteq FaultKinds

VARIABLES
    queue,      \* per message: "visible", or how it left the submit queue
    receives,   \* per message: ApproximateReceiveCount
    pc,         \* per attempt: the call it is about to make
    mem,        \* per attempt: the local variables of _process_event
    row,        \* DynamoDB: the ACE#<govwin_id> rows
    replica,    \* what an eventually consistent read may still return
    index,      \* DynamoDB: DEAL# and INV# reverse rows, by their key
    created,    \* AWS: opportunities, each named by its ClientToken
    readable,   \* AWS: the opportunities its other calls can see
    associated, \* AWS: <<opportunity, related entity>>
    tasks,      \* AWS: engagement tasks, <<opportunity, ClientToken>>
    deal,       \* HubSpot: the co-sell id and status written on a deal
    faults      \* failures injected so far

sqs  == <<queue, receives>>
db   == <<row, replica, index>>
aws  == <<created, readable, associated, tasks>>
vars == <<sqs, pc, mem, db, aws, deal, faults>>

Fates  == {"submitted", "skipped", "rejected", "dropped"}
Steps  == {"load", "reserve", "reread", "snapshot", "create", "persist_opp",
           "index_opp", "write_back", "resnapshot", "associate", "products",
           "task_read", "task_set", "task_reread", "engage", "persist_task",
           "index_task", "ack"}
PC     == {"idle", "ended"} \cup Steps
Token  == Attempts \cup {None}
Row    == [token : Token, opp : Token, taskToken : Token, task : Token,
           deal : Deals \cup {None}]
Memory == [token : Token, opp : Token, taskToken : Token,
           result : Fates \cup {None}]
Status == {"", "Pending Submission", "Action Required"}

\* A row without a client_token is, for this pipeline, no row at all.
NoRow    == [token |-> None, opp |-> None, taskToken |-> None, task |-> None,
             deal |-> None]
NoMemory == [token |-> None, opp |-> None, taskToken |-> None, result |-> None]

Running == {a \in Attempts : pc[a] \in Steps}

Init ==
    /\ queue = [m \in Msgs |-> "visible"]
    /\ receives = [m \in Msgs |-> 0]
    /\ pc = [a \in Attempts |-> "idle"]
    /\ mem = [a \in Attempts |-> NoMemory]
    /\ row = [g \in GovWinIds |-> NoRow]
    /\ replica = [g \in GovWinIds |-> NoRow]
    /\ index = {} /\ created = {} /\ readable = {} /\ associated = {} /\ tasks = {}
    /\ deal = [d \in Deals |-> [cosell |-> None, status |-> ""]]
    /\ faults = 0

-----------------------------------------------------------------------------
(* Helpers: control flow of one attempt, reads and writes of the row.      *)

Goto(a, step) == pc' = [pc EXCEPT ![a] = step]

\* _process_event returns (or a permanent error is swallowed): the record is
\* not in batchItemFailures, so the event source mapping will delete it.
Return(a, fate) ==
    /\ Goto(a, "ack")
    /\ mem' = [mem EXCEPT ![a] = [NoMemory EXCEPT !.result = fate]]

\* What get_ace_mapping may return: the current row; an older one, since
\* GetItem is called without ConsistentRead; or nothing, on a ClientError.
Reads(g) == {row[g]}
            \cup (IF "stale_read" \in Faults THEN {replica[g]} ELSE {})
            \cup (IF "read_error" \in Faults THEN {NoRow} ELSE {})

\* The read replica of the table catches up.
Replicate(g) ==
    /\ "stale_read" \in Faults
    /\ replica[g] # row[g]
    /\ replica' = [replica EXCEPT ![g] = row[g]]
    /\ UNCHANGED <<sqs, pc, mem, row, index, aws, deal, faults>>

-----------------------------------------------------------------------------
(* Plausible bugs: mutated forms of the actions below, which the properties  *)
(* are checked to catch.  Nothing else refers to them.                       *)

\* The result is read after the locals were reset.
Ack_ResetFirst(a) ==
    /\ pc[a] = "ack"
    /\ mem' = [mem EXCEPT ![a] = NoMemory]
    /\ queue' = [queue EXCEPT ![a[1]] = IF @ = "visible" THEN mem'[a].result ELSE @]
    /\ Goto(a, "ended")
    /\ UNCHANGED <<receives, db, aws, deal, faults>>

\* An unexpected exception does not put the record in batchItemFailures.
Abort_Dropped(a) ==
    /\ "abort" \in Faults /\ faults < MaxFaults
    /\ pc[a] \in Steps
    /\ faults' = faults + 1
    /\ Return(a, "dropped")
    /\ UNCHANGED <<sqs, db, aws, deal>>

\* The PutItem has no ConditionExpression.
ReserveClientToken_Unconditional(a) ==
    /\ pc[a] = "reserve"
    /\ row' = [row EXCEPT ![G(a)] = [NoRow EXCEPT !.token = a]]
    /\ mem' = [mem EXCEPT ![a].token = a]
    /\ Goto(a, "snapshot")
    /\ UNCHANGED <<sqs, replica, index, aws, deal, faults>>

\* On contention the caller keeps its own token.
RereadClientToken_KeepsOwn(a) ==
    /\ pc[a] = "reread"
    /\ mem' = [mem EXCEPT ![a].token = a]
    /\ Goto(a, "snapshot")
    /\ UNCHANGED <<sqs, db, aws, deal, faults>>

\* A reserved task token is taken for a started task.
Resume_OnTaskToken(a, r) ==
    IF r.taskToken # None
      THEN Return(a, "submitted")
      ELSE /\ mem' = [mem EXCEPT ![a].opp = r.opp]
           /\ Goto(a, "associate")

\* create_opportunity injects a fresh ClientToken instead of the reserved one.
CreateOpportunity_FreshToken(a) ==
    /\ pc[a] = "create"
    /\ created' = created \cup {a}
    /\ readable' = IF "aws_lag" \in Faults THEN readable ELSE readable \cup {a}
    /\ mem' = [mem EXCEPT ![a].opp = a]
    /\ Goto(a, "persist_opp")
    /\ UNCHANGED <<sqs, db, associated, tasks, deal, faults>>

\* A refused Solution is logged and left out, as a product is.
AssociateSolution_BestEffort(a) ==
    /\ pc[a] = "associate"
    /\ associated' = IF Deal(a) \in HasSolution /\ mem[a].opp \in readable
                       THEN associated \cup {<<mem[a].opp, Solution>>}
                       ELSE associated
    /\ Goto(a, "products")
    /\ UNCHANGED <<sqs, mem, db, created, readable, tasks, deal, faults>>

\* The SET of the task token has no condition.
SetTaskToken_Unconditional(a) ==
    /\ pc[a] = "task_set"
    /\ row' = [row EXCEPT ![G(a)].taskToken = a]
    /\ mem' = [mem EXCEPT ![a].taskToken = a]
    /\ Goto(a, "engage")
    /\ UNCHANGED <<sqs, replica, index, aws, deal, faults>>

\* update_ace_mapping replaces the item instead of merging into it.
PersistTask_Put(a) ==
    /\ pc[a] = "persist_task"
    /\ row' = [row EXCEPT ![G(a)] =
                 [NoRow EXCEPT !.task = mem[a].taskToken, !.deal = Deal(a)]]
    /\ Goto(a, "index_task")
    /\ UNCHANGED <<sqs, mem, replica, index, aws, deal, faults>>

-----------------------------------------------------------------------------
(* SQS and Lambda.                                                         *)

\* A delivery.  Standard queues deliver at least once: the message may be in
\* flight in another attempt already.
Receive(a) ==
    LET m == a[1] IN
    /\ queue[m] = "visible"
    /\ receives[m] + 1 = a[2]
    /\ Cardinality(Running) < MaxConcurrent
    /\ receives' = [receives EXCEPT ![m] = a[2]]
    /\ Goto(a, "load")
    /\ UNCHANGED <<queue, mem, db, aws, deal, faults>>

\* The handler has returned; the event source mapping deletes the message.
Ack(a) ==
    LET m == a[1] IN
    /\ pc[a] = "ack"
    /\ queue' = [queue EXCEPT ![m] = IF @ = "visible" THEN mem[a].result ELSE @]
    /\ Goto(a, "ended")
    /\ mem' = [mem EXCEPT ![a] = NoMemory]
    /\ UNCHANGED <<receives, db, aws, deal, faults>>

\* The record lands in batchItemFailures, or the invocation dies.  A reply
\* lost after AWS or DynamoDB did the work is the step, then an Abort.
Abort(a) ==
    /\ "abort" \in Faults /\ faults < MaxFaults
    /\ pc[a] \in Steps
    /\ faults' = faults + 1
    /\ Goto(a, "ended")
    /\ mem' = [mem EXCEPT ![a] = NoMemory]
    /\ UNCHANGED <<sqs, db, aws, deal>>

\* Delivered maxReceiveCount times and still there: SQS moves it to the DLQ.
DeadLetter(m) ==
    /\ queue[m] = "visible"
    /\ receives[m] = MaxReceive
    /\ \A a \in Running : a[1] # m
    /\ queue' = [queue EXCEPT ![m] = "dlq"]
    /\ UNCHANGED <<receives, pc, mem, db, aws, deal, faults>>

-----------------------------------------------------------------------------
(* _process_event, one action per call that leaves the process.            *)

\* _load_deal, and the early return for a deal without a valid GovWin id.
LoadDeal(a) ==
    /\ pc[a] = "load"
    /\ IF G(a) = None THEN Return(a, "skipped")
                      ELSE Goto(a, "reserve") /\ UNCHANGED mem
    /\ UNCHANGED <<sqs, db, aws, deal, faults>>

\* reserve_client_token: a conditional PutItem, which replaces the row ...
ReserveClientToken(a) ==
    /\ pc[a] = "reserve"
    /\ IF row[G(a)].token = None
         THEN /\ row' = [row EXCEPT ![G(a)] = [NoRow EXCEPT !.token = a]]
              /\ mem' = [mem EXCEPT ![a].token = a]
              /\ Goto(a, "snapshot")
         ELSE /\ Goto(a, "reread")
              /\ UNCHANGED <<row, mem>>
    /\ UNCHANGED <<sqs, replica, index, aws, deal, faults>>

\* ... and, when the condition fails, reads the winner's token back, falling
\* back on the caller's own.
RereadClientToken(a) ==
    /\ pc[a] = "reread"
    /\ \E r \in Reads(G(a)) :
         mem' = [mem EXCEPT ![a].token = IF r.token # None THEN r.token ELSE a]
    /\ Goto(a, "snapshot")
    /\ UNCHANGED <<sqs, db, aws, deal, faults>>

\* Resume from the step the row has recorded.
Resume(a, r) ==
    IF r.task # None
      THEN Return(a, "submitted")
      ELSE /\ mem' = [mem EXCEPT ![a].opp = r.opp]
           /\ Goto(a, "associate")

Snapshot(a) ==
    /\ pc[a] = "snapshot"
    /\ \E r \in Reads(G(a)) :
         IF r.opp = None THEN Goto(a, "create") /\ UNCHANGED mem
                         ELSE Resume(a, r)
    /\ UNCHANGED <<sqs, db, aws, deal, faults>>

\* map_hubspot_deal_to_ace_create_payload raises: alert, and the message goes.
MappingFails(a) ==
    /\ "mapping" \in Faults /\ faults < MaxFaults
    /\ pc[a] = "create"
    /\ faults' = faults + 1
    /\ Return(a, "rejected")
    /\ UNCHANGED <<sqs, db, aws, deal>>

\* AWS creates the opportunity of this ClientToken, or returns it again.
CreateOpportunity(a) ==
    /\ pc[a] = "create"
    /\ created' = created \cup {mem[a].token}
    /\ readable' = IF "aws_lag" \in Faults THEN readable
                   ELSE readable \cup {mem[a].token}
    /\ mem' = [mem EXCEPT ![a].opp = mem[a].token]
    /\ Goto(a, "persist_opp")
    /\ UNCHANGED <<sqs, db, associated, tasks, deal, faults>>

\* Partner Central becomes consistent: new opportunities can be read.
AwsCatchesUp ==
    /\ readable # created
    /\ readable' = created
    /\ UNCHANGED <<sqs, pc, mem, db, created, associated, tasks, deal, faults>>

\* update_ace_mapping after CreateOpportunity: one SET of the new fields.
PersistOpportunity(a) ==
    /\ pc[a] = "persist_opp"
    /\ row' = [row EXCEPT ![G(a)].opp = mem[a].opp, ![G(a)].token = mem[a].token,
                          ![G(a)].deal = Deal(a)]
    /\ Goto(a, "index_opp")
    /\ UNCHANGED <<sqs, mem, replica, index, aws, deal, faults>>

\* The second half of update_ace_mapping: re-read the row, then refresh the
\* reverse rows; inv is the invitation the caller passed, or None.
RefreshIndex(a, inv) ==
    \E r \in Reads(G(a)) :
      index' = index \cup {Deal(a)}
               \cup (IF inv # None THEN {inv}
                     ELSE IF r.task # None THEN {r.task} ELSE {})

IndexOpportunity(a) ==
    /\ pc[a] = "index_opp"
    /\ RefreshIndex(a, None)
    /\ Goto(a, "write_back")
    /\ UNCHANGED <<sqs, mem, row, replica, aws, deal, faults>>

\* Best-effort write of the AWS identifiers on the deal.
WriteBackCosell(a) ==
    /\ pc[a] = "write_back"
    /\ \/ deal' = [deal EXCEPT ![Deal(a)] =
                     [cosell |-> mem[a].opp, status |-> "Pending Submission"]]
       \/ "abort" \in Faults /\ UNCHANGED deal
    /\ Goto(a, "resnapshot")
    /\ UNCHANGED <<sqs, mem, db, aws, faults>>

\* The mapping is read again before step 3: its ace_task_id decides whether
\* steps 3 and 4 are still to do.
Resnapshot(a) ==
    /\ pc[a] = "resnapshot"
    /\ \E r \in Reads(G(a)) :
         IF r.task # None THEN Return(a, "submitted")
                          ELSE Goto(a, "associate") /\ UNCHANGED mem
    /\ UNCHANGED <<sqs, db, aws, deal, faults>>

\* Step 3.  ConflictException ("already associated") counts as success.
AssociateSolution(a) ==
    /\ pc[a] = "associate"
    /\ IF Deal(a) \in HasSolution
         THEN /\ mem[a].opp \in readable
              /\ associated' = associated \cup {<<mem[a].opp, Solution>>}
         ELSE UNCHANGED associated
    /\ Goto(a, "products")
    /\ UNCHANGED <<sqs, mem, db, created, readable, tasks, deal, faults>>

\* Step 3b.  A product AWS refuses, whatever the reason, is left out.
AssociateProducts(a) ==
    /\ pc[a] = "products"
    /\ \E done \in SUBSET Products :
         /\ mem[a].opp \notin readable => done = {}
         /\ associated' = associated \cup ({mem[a].opp} \X done)
    /\ Goto(a, "task_read")
    /\ UNCHANGED <<sqs, mem, db, created, readable, tasks, deal, faults>>

\* reserve_task_client_token: read; conditional SET; on contention re-read.
ReadTaskToken(a) ==
    /\ pc[a] = "task_read"
    /\ \E r \in Reads(G(a)) :
         /\ mem' = [mem EXCEPT ![a].taskToken = r.taskToken]
         /\ Goto(a, IF r.taskToken # None THEN "engage" ELSE "task_set")
    /\ UNCHANGED <<sqs, db, aws, deal, faults>>

SetTaskToken(a) ==
    /\ pc[a] = "task_set"
    /\ IF row[G(a)].taskToken = None
         THEN /\ row' = [row EXCEPT ![G(a)].taskToken = a]
              /\ mem' = [mem EXCEPT ![a].taskToken = a]
              /\ Goto(a, "engage")
         ELSE /\ Goto(a, "task_reread")
              /\ UNCHANGED <<row, mem>>
    /\ UNCHANGED <<sqs, replica, index, aws, deal, faults>>

RereadTaskToken(a) ==
    /\ pc[a] = "task_reread"
    /\ \E r \in Reads(G(a)) :
         mem' = [mem EXCEPT ![a].taskToken =
                   IF r.taskToken # None THEN r.taskToken ELSE a]
    /\ Goto(a, "engage")
    /\ UNCHANGED <<sqs, db, aws, deal, faults>>

\* Step 4: AWS starts the engagement task of this token, or returns it again.
StartEngagement(a) ==
    /\ pc[a] = "engage"
    /\ mem[a].opp \in readable
    /\ tasks' = tasks \cup {<<mem[a].opp, mem[a].taskToken>>}
    /\ Goto(a, "persist_task")
    /\ UNCHANGED <<sqs, mem, db, created, readable, associated, deal, faults>>

\* update_ace_mapping with the invitation and task ids of the response.
PersistTask(a) ==
    /\ pc[a] = "persist_task"
    /\ row' = [row EXCEPT ![G(a)].task = mem[a].taskToken, ![G(a)].deal = Deal(a)]
    /\ Goto(a, "index_task")
    /\ UNCHANGED <<sqs, mem, replica, index, aws, deal, faults>>

IndexTask(a) ==
    /\ pc[a] = "index_task"
    /\ RefreshIndex(a, mem[a].taskToken)
    /\ Return(a, "submitted")
    /\ UNCHANGED <<sqs, row, replica, aws, deal, faults>>

\* A permanent AWS error: ResourceNotFoundException for an opportunity AWS
\* cannot read yet, or any other by the choice of the environment.  The
\* handler alerts, writes the reason on the deal (best effort) and drops the
\* message.
PermanentError(a) ==
    /\ \/ /\ pc[a] \in {"create", "associate", "engage"}
          /\ "permanent" \in Faults /\ faults < MaxFaults
          /\ faults' = faults + 1
       \/ /\ \/ pc[a] = "associate" /\ Deal(a) \in HasSolution
             \/ pc[a] = "engage"
          /\ mem[a].opp \notin readable
          /\ UNCHANGED faults
    /\ \/ deal' = [deal EXCEPT ![Deal(a)].status = "Action Required"]
       \/ "abort" \in Faults /\ UNCHANGED deal
    /\ Return(a, "dropped")
    /\ UNCHANGED <<sqs, db, aws>>

-----------------------------------------------------------------------------
\* One step of the code of an attempt that does not fail.
Work(a) ==
    \/ LoadDeal(a) \/ ReserveClientToken(a) \/ RereadClientToken(a) \/ Snapshot(a)
    \/ CreateOpportunity(a) \/ PersistOpportunity(a) \/ IndexOpportunity(a)
    \/ WriteBackCosell(a) \/ Resnapshot(a)
    \/ AssociateSolution(a) \/ AssociateProducts(a)
    \/ ReadTaskToken(a) \/ SetTaskToken(a) \/ RereadTaskToken(a)
    \/ StartEngagement(a) \/ PersistTask(a) \/ IndexTask(a)
    \/ PermanentError(a) \/ Ack(a)

\* Every message has left the queue and nothing runs: the pipeline rests.
Rest ==
    /\ \A m \in Msgs : queue[m] # "visible"
    /\ Running = {}
    /\ UNCHANGED vars

Next ==
    \/ \E a \in Attempts : Receive(a) \/ Work(a) \/ MappingFails(a) \/ Abort(a)
    \/ \E m \in Msgs : DeadLetter(m)
    \/ \E g \in GovWinIds : Replicate(g)
    \/ AwsCatchesUp
    \/ Rest

Spec == Init /\ [][Next]_vars

\* Lambda runs an invocation until it returns or dies; SQS redelivers what is
\* not deleted and dead-letters what was delivered too often.
Fairness ==
    /\ \A a \in Attempts : WF_vars(Receive(a)) /\ WF_vars(Work(a))
    /\ \A m \in Msgs : WF_vars(DeadLetter(m))

FairSpec == Spec /\ Fairness
-----------------------------------------------------------------------------
(* Properties.                                                             *)

\* Types of all variables.
TypeOK ==
    /\ queue \in [Msgs -> {"visible", "dlq"} \cup Fates]
    /\ receives \in [Msgs -> 0..MaxReceive]
    /\ pc \in [Attempts -> PC]
    /\ mem \in [Attempts -> Memory]
    /\ row \in [GovWinIds -> Row]
    /\ replica \in [GovWinIds -> Row]
    /\ index \subseteq Deals \cup Attempts
    /\ created \subseteq Attempts
    /\ readable \subseteq created
    /\ associated \subseteq created \X (Products \cup {Solution})
    /\ tasks \subseteq created \X Attempts
    /\ deal \in [Deals -> [cosell : Token, status : Status]]
    /\ faults \in 0..MaxFaults

\* Concurrent or repeated deliveries never mint two AWS opportunities for one
\* GovWin opportunity: the purpose of reserve_client_token (ADR 0006).
AtMostOneOpportunity ==
    \A t, u \in created : G(t) = G(u) => t = u

\* An opportunity enters the AWS reviewer queue once, whichever attempts run
\* step 4: the purpose of reserve_task_client_token.
AtMostOneEngagement ==
    \A x, y \in tasks : x[1] = y[1] => x = y

\* What the row records happened at AWS, to the opportunity of the reserved
\* token; update_in_ace and handle_ace_event act on nothing else.
RowAgreesWithAws ==
    \A g \in GovWinIds :
      /\ row[g].opp # None => row[g].opp = row[g].token /\ row[g].opp \in created
      /\ row[g].task # None => <<row[g].opp, row[g].task>> \in tasks

\* A message leaves the queue as submitted only when its opportunity is in
\* the reviewer queue and the row says so, even when another attempt did it.
SubmittedMeansEngaged ==
    \A m \in Msgs : queue[m] = "submitted" =>
      LET r == row[GovWinOf[DealOf[m]]] IN
        r.task # None /\ <<r.opp, r.task>> \in tasks

\* No opportunity is sent to review before its Solution is associated, when
\* every deal that can submit it names one (steps 3 and 4 in that order).
NeedsSolution ==
    {g \in GovWinIds : \A d \in Deals : GovWinOf[d] = g => d \in HasSolution}
SolutionBeforeReview ==
    \A x \in tasks : G(x[1]) \in NeedsSolution => <<x[1], Solution>> \in associated

\* The AWS id shown on a deal, which update_in_ace heals its mapping from, is
\* the one in the row of the deal's GovWin id.
CosellIdIsMapped ==
    \A d \in Deals : deal[d].cosell # None =>
      deal[d].cosell = row[GovWinOf[d]].opp

\* The row never loses or changes a token, an opportunity or a task that it
\* recorded: resume-from-step and update_in_ace depend on it.
RowOnlyGrows ==
    [][\A g \in GovWinIds, f \in {"token", "opp", "taskToken", "task"} :
         row[g][f] # None => row'[g][f] = row[g][f]]_vars

\* Submission is implemented: at every step, what has happened at AWS to a
\* GovWin id is what the abstract promise allows.
OpportunitiesOf(g) == {t \in created : G(t) = g}
EngagementsOf(g) == {t \in Attempts : \E o \in OpportunitiesOf(g) : <<o, t>> \in tasks}
TheOne(S) == IF S = {} THEN None ELSE CHOOSE x \in S : TRUE

Promise == INSTANCE Submission WITH
    OpportunityIds <- Attempts,
    TaskIds        <- Attempts,
    opportunity    <- [g \in GovWinIds |-> TheOne(OpportunitiesOf(g))],
    solution       <- [g \in GovWinIds |->
                         \E o \in OpportunitiesOf(g) : <<o, Solution>> \in associated],
    engagement     <- [g \in GovWinIds |-> TheOne(EngagementsOf(g))]

ImplementsPromise == Promise!Spec

\* When failures are transient, every message about a deal with a GovWin id
\* ends with the deal submitted, though reads of the row are stale or fail; it
\* is dead-lettered only after as many failures as it has deliveries.
EventuallySubmitted ==
    \A m \in Msgs : GovWinOf[DealOf[m]] # None =>
        <>[](queue[m] = "submitted" \/ (queue[m] = "dlq" /\ faults >= MaxReceive))

\* The inductive invariant behind the safety properties: what an attempt holds
\* in its local variables is what the row says, from the moment it has a token.
HasToken == Steps \ {"load", "reserve", "reread", "ack"}
HasOpp   == HasToken \ {"snapshot", "create"}
HasSolved == {"products", "task_read", "task_set", "task_reread", "engage",
              "persist_task", "index_task"}
HasTask  == {"engage", "persist_task", "index_task"}
LocalMatchesRow(a) ==
    LET r == row[G(a)] IN
    /\ pc[a] \in Steps \ {"load", "ack"} => G(a) \in GovWinIds
    /\ pc[a] = "reread" => r.token # None
    /\ pc[a] \in HasToken => mem[a].token = r.token /\ r.token # None
    /\ pc[a] \in HasOpp => mem[a].opp = r.token /\ r.token \in created
    /\ pc[a] \in HasOpp \ {"persist_opp"} => r.opp = mem[a].opp
    /\ pc[a] \in HasSolved /\ Deal(a) \in HasSolution
         => <<mem[a].opp, Solution>> \in associated
    /\ pc[a] = "task_reread" => r.taskToken # None
    /\ pc[a] \in HasTask => mem[a].taskToken = r.taskToken /\ r.taskToken # None
    /\ pc[a] \in HasTask \ {"engage"} => <<mem[a].opp, mem[a].taskToken>> \in tasks
    /\ pc[a] = "index_task" => r.task # None
    /\ pc[a] = "ack" /\ mem[a].result = "submitted"
         => G(a) \in GovWinIds /\ r.task # None
LocalsMatchRow == \A a \in Attempts : LocalMatchesRow(a)
AwsMatchesRow ==
    /\ \A g \in GovWinIds :
         /\ row[g].token # None => G(row[g].token) = g
         /\ row[g].taskToken # None => row[g].token # None
    /\ \A t \in created : G(t) \in GovWinIds /\ row[G(t)].token = t
    /\ \A x \in tasks : x[2] = row[G(x[1])].taskToken
QueueMatchesRow ==
    \A m \in Msgs : queue[m] = "submitted" =>
      GovWinOf[DealOf[m]] \in GovWinIds /\ row[GovWinOf[DealOf[m]]].task # None
ReservationInv ==
    /\ TypeOK /\ LocalsMatchRow /\ AwsMatchesRow /\ QueueMatchesRow
    /\ RowAgreesWithAws /\ SolutionBeforeReview
=============================================================================
