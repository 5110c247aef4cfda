-------------------------- MODULE AceSubmitProofs ---------------------------
(***************************************************************************)
(* Theorems about AceSubmit, for any number of deals, messages, deliveries *)
(* and concurrent invocations.                                             *)
(*                                                                         *)
(* TypeInv is type correctness with the little that it needs about pc.  It *)
(* holds under every kind of failure.  ReservationInv (in AceSubmit) is    *)
(* the inductive invariant behind the safety properties; it needs reads of *)
(* the ACE# row to be consistent, which is the assumption StrongReads.     *)
(***************************************************************************)
EXTENDS AceSubmit, TLAPS

TypeInv ==
    /\ TypeOK
    /\ \A a \in Attempts :
         /\ pc[a] \in Steps \ {"load", "ack"} => G(a) \in GovWinIds
         /\ pc[a] \in HasToken => mem[a].token # None
         /\ pc[a] \in HasTask => mem[a].taskToken # None
         /\ pc[a] = "ack" => mem[a].result \in Fates

\* What an attempt <<m, n>> is made of: its message, its deal and its GovWin id.
LEMMA AttemptFacts ==
    ASSUME NEW a \in Attempts
    PROVE  /\ a[1] \in Msgs /\ a[2] \in 1..MaxReceive
           /\ Deal(a) \in Deals
           /\ G(a) \in GovWinIds \cup {None}
           /\ a # None
BY SubmitAssumption DEF SubmitAssumption, Attempts, Deal, G

\* The empty memory and the empty row are of their types.
LEMMA EmptyTypes ==
    /\ NoRow \in Row
    /\ NoMemory \in Memory
    /\ \A f \in Fates : [NoMemory EXCEPT !.result = f] \in Memory
BY DEF NoRow, Row, NoMemory, Memory, Token, Fates

\* Whatever a read returns, it is a row.
LEMMA ReadsType ==
    ASSUME TypeOK, NEW g \in GovWinIds, NEW r \in Reads(g)
    PROVE  r \in Row
BY EmptyTypes DEF Reads, TypeOK

\* The initial state is typed.
LEMMA TypeInit == Init => TypeInv
<1> SUFFICES ASSUME Init PROVE TypeInv
  OBVIOUS
<1>1. mem \in [Attempts -> Memory] /\ row \in [GovWinIds -> Row] /\ replica \in [GovWinIds -> Row]
  BY EmptyTypes DEF Init
<1>2. deal \in [Deals -> [cosell : Token, status : Status]]
  BY DEF Init, Token, Status
<1>3. queue \in [Msgs -> {"visible", "dlq"} \cup Fates]
  BY DEF Init
<1>4. 0 \in 0..MaxReceive /\ 0 \in 0..MaxFaults
  BY SubmitAssumption DEF SubmitAssumption
<1>5. receives \in [Msgs -> 0..MaxReceive] /\ faults \in 0..MaxFaults
  BY <1>4 DEF Init
<1>6. pc \in [Attempts -> PC]
  BY DEF Init, PC
<1>7. TypeOK
  BY <1>1, <1>2, <1>3, <1>5, <1>6 DEF Init, TypeOK
<1> QED
  BY <1>7 DEF Init, TypeInv, Steps, HasToken, HasTask

\* A step of the code keeps pc and the locals typed.
LEMMA TypePcMem ==
    ASSUME TypeInv, NEW a \in Attempts, Work(a)
    PROVE  pc' \in [Attempts -> PC] /\ mem' \in [Attempts -> Memory]
<1>0. /\ TypeOK /\ pc \in [Attempts -> PC] /\ mem \in [Attempts -> Memory]
      /\ a \in Token /\ None \in Token /\ NoMemory \in Memory
      /\ pc[a] \in Steps \ {"load", "ack"} => G(a) \in GovWinIds
  BY EmptyTypes DEF TypeInv, TypeOK, Token
<1> USE DEF Steps
<1>1. \A s \in PC : [pc EXCEPT ![a] = s] \in [Attempts -> PC]
  BY <1>0
<1>2. \A f \in Fates : Return(a, f) => pc' \in [Attempts -> PC] /\ mem' \in [Attempts -> Memory]
  BY <1>0, <1>1, EmptyTypes DEF Return, Goto, PC
<1>3. CASE LoadDeal(a)
  BY <1>3, <1>0, <1>1, <1>2 DEF LoadDeal, Goto, PC, Fates
<1>4. CASE ReserveClientToken(a)
  <2>1. mem' = mem \/ mem' = [mem EXCEPT ![a].token = a]
    BY <1>4 DEF ReserveClientToken
  <2>2. mem' \in [Attempts -> Memory]
    BY <2>1, <1>0 DEF Memory
  <2> QED BY <1>4, <1>1, <2>2 DEF ReserveClientToken, Goto, PC
<1>5. CASE RereadClientToken(a)
  <2>1. PICK r \in Reads(G(a)) : mem' = [mem EXCEPT ![a].token = IF r.token # None THEN r.token ELSE a]
    BY <1>5 DEF RereadClientToken
  <2>2. r.token \in Token
    BY <1>5, <1>0, ReadsType DEF RereadClientToken, Row
  <2> QED BY <1>5, <1>0, <1>1, <2>1, <2>2 DEF RereadClientToken, Goto, PC, Memory
<1>6. CASE Snapshot(a)
  <2>1. PICK r \in Reads(G(a)) : IF r.opp = None THEN Goto(a, "create") /\ UNCHANGED mem ELSE Resume(a, r)
    BY <1>6 DEF Snapshot
  <2>2. r.opp \in Token
    BY <1>6, <1>0, ReadsType DEF Snapshot, Row
  <2> QED BY <1>0, <1>1, <1>2, <2>1, <2>2 DEF Resume, Goto, PC, Memory, Fates
<1>7. CASE CreateOpportunity(a)
  <2>1. mem[a].token \in Token
    BY <1>0 DEF Memory
  <2> QED BY <1>7, <1>0, <1>1, <2>1 DEF CreateOpportunity, Goto, PC, Memory
<1>8. CASE PersistOpportunity(a) \/ IndexOpportunity(a) \/ WriteBackCosell(a) \/ AssociateSolution(a) \/ AssociateProducts(a) \/ StartEngagement(a) \/ PersistTask(a)
  BY <1>8, <1>0, <1>1 DEF PersistOpportunity, IndexOpportunity, WriteBackCosell, AssociateSolution, AssociateProducts, StartEngagement, PersistTask, Goto, PC
<1>9. CASE Resnapshot(a)
  BY <1>9, <1>0, <1>1, <1>2 DEF Resnapshot, Goto, PC, Fates
<1>10. CASE ReadTaskToken(a)
  <2>1. PICK r \in Reads(G(a)) :
          /\ mem' = [mem EXCEPT ![a].taskToken = r.taskToken]
          /\ Goto(a, IF r.taskToken # None THEN "engage" ELSE "task_set")
    BY <1>10 DEF ReadTaskToken
  <2>2. r.taskToken \in Token
    BY <1>10, <1>0, ReadsType DEF ReadTaskToken, Row
  <2> QED BY <1>0, <1>1, <2>1, <2>2 DEF Goto, PC, Memory
<1>11. CASE SetTaskToken(a)
  <2>1. mem' = mem \/ mem' = [mem EXCEPT ![a].taskToken = a]
    BY <1>11 DEF SetTaskToken
  <2>2. mem' \in [Attempts -> Memory]
    BY <2>1, <1>0 DEF Memory
  <2> QED BY <1>11, <1>1, <2>2 DEF SetTaskToken, Goto, PC
<1>12. CASE RereadTaskToken(a)
  <2>1. PICK r \in Reads(G(a)) : mem' = [mem EXCEPT ![a].taskToken = IF r.taskToken # None THEN r.taskToken ELSE a]
    BY <1>12 DEF RereadTaskToken
  <2>2. r.taskToken \in Token
    BY <1>12, <1>0, ReadsType DEF RereadTaskToken, Row
  <2>3. mem' \in [Attempts -> Memory]
    BY <2>1, <2>2, <1>0 DEF Memory
  <2> QED BY <1>12, <1>1, <2>3 DEF RereadTaskToken, Goto, PC
<1>13. CASE IndexTask(a) \/ PermanentError(a)
  BY <1>13, <1>0, <1>1, <1>2 DEF IndexTask, PermanentError, Fates
<1>14. CASE Ack(a)
  BY <1>14, <1>0, <1>1 DEF Ack, Goto, PC
<1> QED
  BY <1>3, <1>4, <1>5, <1>6, <1>7, <1>8, <1>9, <1>10, <1>11, <1>12, <1>13, <1>14 DEF Work

\* A step of the code keeps the row typed; four of them write it.
LEMMA TypeRow ==
    ASSUME TypeInv, NEW a \in Attempts, Work(a)
    PROVE  row' \in [GovWinIds -> Row]
<1>0. /\ row \in [GovWinIds -> Row] /\ mem \in [Attempts -> Memory]
      /\ Deal(a) \in Deals /\ a \in Token
  BY AttemptFacts DEF TypeInv, TypeOK, Token
<1>1. pc[a] \in Steps \ {"load", "ack"} => G(a) \in GovWinIds
  BY DEF TypeInv
<1>2. mem[a].token \in Token /\ mem[a].opp \in Token /\ mem[a].taskToken \in Token
  BY <1>0 DEF Memory
<1>3. CASE ReserveClientToken(a)
  <2>1. row' = row \/ row' = [row EXCEPT ![G(a)] = [NoRow EXCEPT !.token = a]]
    BY <1>3 DEF ReserveClientToken
  <2>2. [NoRow EXCEPT !.token = a] \in Row
    BY <1>0 DEF NoRow, Row, Token
  <2> QED BY <1>0, <2>1, <2>2
<1>4. CASE PersistOpportunity(a)
  BY <1>4, <1>0, <1>2 DEF PersistOpportunity, Row
<1>5. CASE SetTaskToken(a)
  <2>1. row' = row \/ row' = [row EXCEPT ![G(a)].taskToken = a]
    BY <1>5 DEF SetTaskToken
  <2> QED BY <1>0, <2>1 DEF Row
<1>6. CASE PersistTask(a)
  BY <1>6, <1>0, <1>2 DEF PersistTask, Row
<1>7. CASE row' = row
  BY <1>7, <1>0
<1> QED
  BY <1>3, <1>4, <1>5, <1>6, <1>7 DEF Work, db, LoadDeal, RereadClientToken, Snapshot,
     CreateOpportunity, IndexOpportunity, WriteBackCosell, Resnapshot, AssociateSolution,
     AssociateProducts, ReadTaskToken, RereadTaskToken, StartEngagement, IndexTask,
     PermanentError, Ack

\* A step of the code keeps what is at AWS typed.
LEMMA TypeAws ==
    ASSUME TypeInv, NEW a \in Attempts, Work(a)
    PROVE  /\ created' \subseteq Attempts /\ readable' \subseteq created'
           /\ associated' \subseteq created' \X (Products \cup {Solution})
           /\ tasks' \subseteq created' \X Attempts
<1>0. /\ created \subseteq Attempts /\ readable \subseteq created
      /\ associated \subseteq created \X (Products \cup {Solution})
      /\ tasks \subseteq created \X Attempts
      /\ mem[a] \in Memory
  BY DEF TypeInv, TypeOK
<1>1. CASE CreateOpportunity(a)
  <2>1. mem[a].token \in Attempts
    BY <1>0, <1>1 DEF CreateOpportunity, TypeInv, Memory, Token, HasToken, Steps
  <2> QED BY <1>0, <1>1, <2>1 DEF CreateOpportunity
<1>2. CASE AssociateSolution(a)
  BY <1>0, <1>2 DEF AssociateSolution
<1>3. CASE AssociateProducts(a)
  <2>1. PICK done \in SUBSET Products :
          /\ mem[a].opp \notin readable => done = {}
          /\ associated' = associated \cup ({mem[a].opp} \X done)
    BY <1>3 DEF AssociateProducts
  <2>2. {mem[a].opp} \X done \subseteq created \X (Products \cup {Solution})
    BY <1>0, <2>1
  <2> QED BY <1>0, <1>3, <2>1, <2>2 DEF AssociateProducts
<1>4. CASE StartEngagement(a)
  <2>1. mem[a].taskToken \in Attempts
    BY <1>0, <1>4 DEF StartEngagement, TypeInv, Memory, Token, HasTask
  <2> QED BY <1>0, <1>4, <2>1 DEF StartEngagement
<1>5. CASE UNCHANGED aws
  BY <1>0, <1>5 DEF aws
<1> QED
  BY <1>1, <1>2, <1>3, <1>4, <1>5 DEF Work, LoadDeal, ReserveClientToken,
     RereadClientToken, Snapshot, PersistOpportunity, IndexOpportunity, WriteBackCosell,
     Resnapshot, ReadTaskToken, SetTaskToken, RereadTaskToken, PersistTask, IndexTask,
     PermanentError, Ack

\* A step of the code keeps the queue, the reverse rows and the deals typed.
LEMMA TypeRest ==
    ASSUME TypeInv, NEW a \in Attempts, Work(a)
    PROVE  /\ queue' \in [Msgs -> {"visible", "dlq"} \cup Fates]
           /\ receives' \in [Msgs -> 0..MaxReceive]
           /\ replica' \in [GovWinIds -> Row]
           /\ index' \subseteq Deals \cup Attempts
           /\ deal' \in [Deals -> [cosell : Token, status : Status]]
           /\ faults' \in 0..MaxFaults
<1>0. /\ TypeOK /\ mem[a] \in Memory /\ Deal(a) \in Deals /\ MaxFaults \in Nat
  BY AttemptFacts, SubmitAssumption DEF TypeInv, TypeOK, SubmitAssumption
<1>1. receives' = receives /\ replica' = replica
  BY DEF Work, sqs, db, LoadDeal, ReserveClientToken, RereadClientToken, Snapshot,
     CreateOpportunity, PersistOpportunity, IndexOpportunity, WriteBackCosell, Resnapshot,
     AssociateSolution, AssociateProducts, ReadTaskToken, SetTaskToken, RereadTaskToken,
     StartEngagement, PersistTask, IndexTask, PermanentError, Ack
<1>2. CASE Ack(a)
  <2>1. mem[a].result \in Fates
    BY <1>0, <1>2 DEF Ack, TypeInv, Memory
  <2> QED BY <1>0, <1>1, <1>2, <2>1 DEF Ack, db, TypeOK
<1>3. ASSUME NEW inv \in Token, G(a) \in GovWinIds, RefreshIndex(a, inv)
      PROVE  index' \subseteq Deals \cup Attempts
  <2>1. PICK r \in Reads(G(a)) :
          index' = index \cup {Deal(a)}
                   \cup (IF inv # None THEN {inv}
                         ELSE IF r.task # None THEN {r.task} ELSE {})
    BY <1>3 DEF RefreshIndex
  <2>2. r.task \in Token
    BY <1>0, <1>3, ReadsType DEF Row
  <2> QED BY <1>0, <2>1, <2>2 DEF TypeOK, Token
<1>4. CASE IndexOpportunity(a) \/ IndexTask(a)
  <2>1. G(a) \in GovWinIds
    BY <1>4 DEF IndexOpportunity, IndexTask, TypeInv, Steps
  <2>2. mem[a].taskToken \in Token /\ None \in Token
    BY <1>0 DEF Memory, Token
  <2>3. index' \subseteq Deals \cup Attempts
    BY <1>3, <1>4, <2>1, <2>2 DEF IndexOpportunity, IndexTask
  <2> QED BY <1>0, <1>1, <1>4, <2>3 DEF IndexOpportunity, IndexTask, TypeOK, sqs
<1>5. CASE WriteBackCosell(a)
  <2>1. mem[a].opp \in Token
    BY <1>0 DEF Memory
  <2>2. deal' = deal
        \/ deal' = [deal EXCEPT ![Deal(a)] =
                      [cosell |-> mem[a].opp, status |-> "Pending Submission"]]
    BY <1>5 DEF WriteBackCosell
  <2>3. [cosell |-> mem[a].opp, status |-> "Pending Submission"]
          \in [cosell : Token, status : Status]
    BY <2>1 DEF Status
  <2>4. deal' \in [Deals -> [cosell : Token, status : Status]]
    BY <1>0, <2>2, <2>3 DEF TypeOK
  <2> QED BY <1>0, <1>1, <1>5, <2>4 DEF WriteBackCosell, TypeOK, sqs, db
<1>6. CASE PermanentError(a)
  <2>1. faults' = faults \/ (faults < MaxFaults /\ faults' = faults + 1)
    BY <1>6 DEF PermanentError
  <2>2. faults' \in 0..MaxFaults
    BY <1>0, <2>1 DEF TypeOK
  <2>3. deal' = deal \/ deal' = [deal EXCEPT ![Deal(a)].status = "Action Required"]
    BY <1>6 DEF PermanentError
  <2>4. deal' \in [Deals -> [cosell : Token, status : Status]]
    BY <1>0, <2>3 DEF TypeOK, Status
  <2> QED BY <1>0, <1>1, <1>6, <2>2, <2>4 DEF PermanentError, TypeOK, sqs, db
<1>7. CASE UNCHANGED <<queue, index, deal, faults>>
  BY <1>0, <1>1, <1>7 DEF TypeOK
<1> QED
  BY <1>2, <1>4, <1>5, <1>6, <1>7 DEF Work, sqs, db, LoadDeal, ReserveClientToken,
     RereadClientToken, Snapshot, CreateOpportunity, PersistOpportunity, Resnapshot,
     AssociateSolution, AssociateProducts, ReadTaskToken, SetTaskToken, RereadTaskToken,
     StartEngagement, PersistTask

\* A step of one attempt leaves pc and the locals of the others alone.
LEMMA OthersStay ==
    ASSUME TypeOK, NEW a \in Attempts, Work(a), NEW b \in Attempts, b # a
    PROVE  pc'[b] = pc[b] /\ mem'[b] = mem[b]
<1>0. pc \in [Attempts -> PC] /\ mem \in [Attempts -> Memory]
  BY DEF TypeOK
<1>1. \A f \in Fates : Return(a, f) => pc'[b] = pc[b] /\ mem'[b] = mem[b]
  BY <1>0 DEF Return, Goto
<1>2. CASE LoadDeal(a) \/ Snapshot(a) \/ Resnapshot(a) \/ IndexTask(a) \/ PermanentError(a)
  BY <1>0, <1>1, <1>2 DEF LoadDeal, Snapshot, Resume, Resnapshot, IndexTask, PermanentError,
     Goto, Fates
<1>3. CASE ReserveClientToken(a) \/ RereadClientToken(a) \/ CreateOpportunity(a)
           \/ PersistOpportunity(a) \/ IndexOpportunity(a) \/ WriteBackCosell(a)
  BY <1>0, <1>3 DEF ReserveClientToken, RereadClientToken, CreateOpportunity,
     PersistOpportunity, IndexOpportunity, WriteBackCosell, Goto
<1>4. CASE AssociateSolution(a) \/ AssociateProducts(a) \/ ReadTaskToken(a)
           \/ SetTaskToken(a) \/ RereadTaskToken(a) \/ StartEngagement(a)
           \/ PersistTask(a) \/ Ack(a)
  BY <1>0, <1>4 DEF AssociateSolution, AssociateProducts, ReadTaskToken, SetTaskToken,
     RereadTaskToken, StartEngagement, PersistTask, Ack, Goto
<1> QED
  BY <1>2, <1>3, <1>4 DEF Work

\* What TypeInv says of pc and the locals, for the attempt that moves.
LEMMA TypeLocals ==
    ASSUME TypeInv, NEW a \in Attempts, Work(a)
    PROVE  /\ pc'[a] \in Steps \ {"load", "ack"} => G(a) \in GovWinIds
           /\ pc'[a] \in HasToken => mem'[a].token # None
           /\ pc'[a] \in HasTask => mem'[a].taskToken # None
           /\ pc'[a] = "ack" => mem'[a].result \in Fates
<1>0. /\ pc \in [Attempts -> PC] /\ mem \in [Attempts -> Memory]
      /\ mem[a] \in Memory /\ NoMemory \in Memory
      /\ G(a) \in GovWinIds \cup {None} /\ a # None
      /\ pc[a] \in Steps \ {"load", "ack"} => G(a) \in GovWinIds
      /\ pc[a] \in HasToken => mem[a].token # None
      /\ pc[a] \in HasTask => mem[a].taskToken # None
  BY AttemptFacts, EmptyTypes DEF TypeInv, TypeOK
<1> USE DEF Steps, HasToken, HasTask, Goto
<1>1. \A f \in Fates : Return(a, f) => pc'[a] = "ack" /\ mem'[a].result \in Fates
  BY <1>0 DEF Return, Memory
<1>2. CASE LoadDeal(a) \/ Resnapshot(a) \/ IndexTask(a) \/ PermanentError(a)
  BY <1>0, <1>1, <1>2 DEF LoadDeal, Resnapshot, IndexTask, PermanentError, Fates
<1>3. CASE ReserveClientToken(a)
  BY <1>0, <1>3 DEF ReserveClientToken, Memory
<1>4. CASE RereadClientToken(a)
  BY <1>0, <1>4 DEF RereadClientToken, Memory
<1>5. CASE Snapshot(a)
  BY <1>0, <1>1, <1>5 DEF Snapshot, Resume, Memory, Fates
<1>6. CASE CreateOpportunity(a)
  BY <1>0, <1>6 DEF CreateOpportunity, Memory
<1>7. CASE PersistOpportunity(a) \/ IndexOpportunity(a) \/ WriteBackCosell(a)
           \/ AssociateSolution(a) \/ AssociateProducts(a) \/ StartEngagement(a)
           \/ PersistTask(a)
  BY <1>0, <1>7 DEF PersistOpportunity, IndexOpportunity, WriteBackCosell,
     AssociateSolution, AssociateProducts, StartEngagement, PersistTask
<1>8. CASE ReadTaskToken(a)
  BY <1>0, <1>8 DEF ReadTaskToken, Memory
<1>9. CASE SetTaskToken(a)
  BY <1>0, <1>9 DEF SetTaskToken, Memory
<1>10. CASE RereadTaskToken(a)
  BY <1>0, <1>10 DEF RereadTaskToken, Memory
<1>11. CASE Ack(a)
  BY <1>0, <1>11 DEF Ack
<1> QED
  BY <1>2, <1>3, <1>4, <1>5, <1>6, <1>7, <1>8, <1>9, <1>10, <1>11 DEF Work

\* Every step of an attempt keeps the types.
LEMMA TypeWork ==
    ASSUME TypeInv, NEW a \in Attempts, Work(a)
    PROVE  TypeInv'
<1>1. TypeOK'
  BY TypePcMem, TypeRow, TypeAws, TypeRest DEF TypeOK
<1>2. ASSUME NEW b \in Attempts
      PROVE  /\ pc'[b] \in Steps \ {"load", "ack"} => G(b) \in GovWinIds
             /\ pc'[b] \in HasToken => mem'[b].token # None
             /\ pc'[b] \in HasTask => mem'[b].taskToken # None
             /\ pc'[b] = "ack" => mem'[b].result \in Fates
  <2>1. CASE b = a
    BY <2>1, TypeLocals
  <2>2. CASE b # a
    BY <2>2, OthersStay DEF TypeInv
  <2> QED BY <2>1, <2>2
<1> QED
  BY <1>1, <1>2 DEF TypeInv

\* Every step keeps the types.
LEMMA TypeNext == TypeInv /\ [Next]_vars => TypeInv'
<1> SUFFICES ASSUME TypeInv, [Next]_vars PROVE TypeInv'
  OBVIOUS
<1>0. TypeOK /\ MaxFaults \in Nat /\ NoMemory \in Memory
  BY EmptyTypes, SubmitAssumption DEF TypeInv, SubmitAssumption
<1>1. ASSUME NEW a \in Attempts, Work(a) PROVE TypeInv'
  BY <1>1, TypeWork
<1>2. ASSUME NEW a \in Attempts, Receive(a) PROVE TypeInv'
  <2>1. pc' = [pc EXCEPT ![a] = "load"] /\ receives' = [receives EXCEPT ![a[1]] = a[2]]
        /\ UNCHANGED <<queue, mem, db, aws, deal, faults>>
    BY <1>2 DEF Receive, Goto
  <2>2. pc' \in [Attempts -> PC] /\ receives' \in [Msgs -> 0..MaxReceive]
    BY <1>0, <2>1, AttemptFacts, SubmitAssumption DEF TypeOK, PC, Steps, SubmitAssumption
  <2>3. TypeOK'
    BY <1>0, <2>1, <2>2 DEF TypeOK, db, aws
  <2> QED BY <1>0, <2>1, <2>3 DEF TypeInv, TypeOK, Steps, HasToken, HasTask
<1>3. ASSUME NEW a \in Attempts, MappingFails(a) PROVE TypeInv'
  <2>1. /\ pc' = [pc EXCEPT ![a] = "ack"]
        /\ mem' = [mem EXCEPT ![a] = [NoMemory EXCEPT !.result = "rejected"]]
        /\ faults < MaxFaults /\ faults' = faults + 1
        /\ UNCHANGED <<sqs, db, aws, deal>>
    BY <1>3 DEF MappingFails, Return, Goto
  <2>2. pc' \in [Attempts -> PC] /\ mem' \in [Attempts -> Memory] /\ faults' \in 0..MaxFaults
    BY <1>0, <2>1, EmptyTypes DEF TypeOK, PC, Steps, Fates
  <2>3. TypeOK'
    BY <1>0, <2>1, <2>2 DEF TypeOK, sqs, db, aws
  <2>4. mem'[a].result \in Fates
    BY <1>0, <2>1 DEF TypeOK, Memory, Fates
  <2> QED BY <1>0, <2>1, <2>3, <2>4 DEF TypeInv, TypeOK, Steps, HasToken, HasTask
<1>4. ASSUME NEW a \in Attempts, Abort(a) PROVE TypeInv'
  <2>1. /\ pc' = [pc EXCEPT ![a] = "ended"] /\ mem' = [mem EXCEPT ![a] = NoMemory]
        /\ faults < MaxFaults /\ faults' = faults + 1
        /\ UNCHANGED <<sqs, db, aws, deal>>
    BY <1>4 DEF Abort, Goto
  <2>2. pc' \in [Attempts -> PC] /\ mem' \in [Attempts -> Memory] /\ faults' \in 0..MaxFaults
    BY <1>0, <2>1 DEF TypeOK, PC
  <2>3. TypeOK'
    BY <1>0, <2>1, <2>2 DEF TypeOK, sqs, db, aws
  <2> QED BY <1>0, <2>1, <2>3 DEF TypeInv, TypeOK, Steps, HasToken, HasTask
<1>5. ASSUME NEW m \in Msgs, DeadLetter(m) PROVE TypeInv'
  BY <1>0, <1>5 DEF DeadLetter, TypeInv, TypeOK, db, aws
<1>6. ASSUME NEW g \in GovWinIds, Replicate(g) PROVE TypeInv'
  BY <1>0, <1>6 DEF Replicate, TypeInv, TypeOK, sqs, aws
<1>7. CASE AwsCatchesUp
  BY <1>0, <1>7 DEF AwsCatchesUp, TypeInv, TypeOK, sqs, db
<1>8. CASE UNCHANGED vars
  BY <1>0, <1>8 DEF vars, TypeInv, TypeOK, sqs, db, aws
<1> QED
  BY <1>1, <1>2, <1>3, <1>4, <1>5, <1>6, <1>7, <1>8 DEF Next, Rest

\* Every variable keeps its type, whatever fails.
THEOREM TypeCorrect == Spec => []TypeOK
<1>1. TypeInv => TypeOK
  BY DEF TypeInv
<1> QED
  BY <1>1, TypeInit, TypeNext, PTL DEF Spec

-----------------------------------------------------------------------------
(* The reservation: consistent reads, and rows that only grow.             *)

\* GetItem returns the current row: nothing stale, no failed read.
StrongReads == "stale_read" \notin Faults /\ "read_error" \notin Faults

\* With strong reads a read of a row returns the row.
LEMMA StrongRead == StrongReads => \A g : Reads(g) = {row[g]}
BY DEF StrongReads, Reads

ResInv == TypeInv /\ ReservationInv

\* A step adds to a row, at AWS too, and takes nothing away.
Grows ==
    /\ \A g \in GovWinIds, f \in {"token", "opp", "taskToken", "task"} :
         row[g][f] # None => row'[g][f] = row[g][f]
    /\ created \subseteq created' /\ associated \subseteq associated'
    /\ tasks \subseteq tasks'

\* The reserved token, the opportunity and the engagement of one row belong
\* together, so a row without a token is empty.
LEMMA RowFacts ==
    ASSUME ResInv, NEW g \in GovWinIds
    PROVE  /\ row[g] \in Row
           /\ row[g].opp # None => row[g].opp = row[g].token
           /\ row[g].opp # None => row[g].opp \in created
           /\ row[g].task # None => row[g].task = row[g].taskToken
           /\ row[g].task # None => row[g].opp # None
           /\ row[g].task # None => <<row[g].opp, row[g].task>> \in tasks
           /\ row[g].token = None =>
                row[g].opp = None /\ row[g].taskToken = None /\ row[g].task = None
<1>1. /\ TypeOK /\ AwsMatchesRow /\ RowAgreesWithAws
  BY DEF ResInv, ReservationInv
<1>2. /\ row[g] \in Row /\ created \subseteq Attempts /\ tasks \subseteq created \X Attempts
      /\ None \notin Attempts
  BY <1>1, SubmitAssumption DEF TypeOK, SubmitAssumption
<1>3. /\ row[g].opp # None => row[g].opp = row[g].token /\ row[g].opp \in created
      /\ row[g].task # None => <<row[g].opp, row[g].task>> \in tasks
  BY <1>1 DEF RowAgreesWithAws
<1>4. ASSUME row[g].task # None
      PROVE  row[g].task = row[g].taskToken /\ row[g].opp # None
  <2>1. <<row[g].opp, row[g].task>> \in tasks
    BY <1>3, <1>4
  <2>2. row[g].opp \in created /\ row[g].opp # None
    BY <1>2, <2>1
  <2>3. G(row[g].opp) = g
    BY <1>1, <1>3, <2>2 DEF AwsMatchesRow
  <2>4. <<row[g].opp, row[g].task>>[2] = row[G(<<row[g].opp, row[g].task>>[1])].taskToken
    BY <1>1, <2>1 DEF AwsMatchesRow
  <2> QED BY <2>2, <2>3, <2>4
<1>5. row[g].taskToken # None => row[g].token # None
  BY <1>1 DEF AwsMatchesRow
<1> QED BY <1>2, <1>3, <1>4, <1>5

\* What an attempt holds, spelled out for the steps that write.
LEMMA LocalFacts ==
    ASSUME ResInv, NEW a \in Attempts
    PROVE  /\ LocalMatchesRow(a)
           /\ mem[a] \in Memory
           /\ G(a) \in GovWinIds \cup {None} /\ a # None
           /\ Deal(a) \in Deals
BY AttemptFacts DEF ResInv, ReservationInv, LocalsMatchRow, TypeOK

\* No step of an attempt erases or changes what a row recorded.
LEMMA WorkGrows ==
    ASSUME StrongReads, ResInv, NEW a \in Attempts, Work(a)
    PROVE  Grows
<1>0. /\ row \in [GovWinIds -> Row] /\ LocalMatchesRow(a)
  BY LocalFacts DEF ResInv, ReservationInv, TypeOK
<1>1. CASE ReserveClientToken(a)
  <2>1. CASE row' = row
    BY <1>1, <2>1 DEF Grows, ReserveClientToken, aws
  <2>2. CASE row[G(a)].token = None /\ row' = [row EXCEPT ![G(a)] = [NoRow EXCEPT !.token = a]]
    <3>1. G(a) \in GovWinIds
      BY <1>0, <1>1 DEF LocalMatchesRow, ReserveClientToken, Steps
    <3>2. \A f \in {"token", "opp", "taskToken", "task"} : row[G(a)][f] = None
      BY <2>2, <3>1, RowFacts
    <3>3. \A g \in GovWinIds : g # G(a) => row'[g] = row[g]
      BY <1>0, <2>2
    <3> QED BY <1>1, <3>2, <3>3 DEF Grows, ReserveClientToken, aws
  <2> QED BY <1>1, <2>1, <2>2 DEF ReserveClientToken
<1>2. CASE PersistOpportunity(a)
  <2>1. /\ G(a) \in GovWinIds
        /\ mem[a].token = row[G(a)].token /\ mem[a].opp = row[G(a)].token
    BY <1>0, <1>2 DEF LocalMatchesRow, PersistOpportunity, Steps, HasToken, HasOpp
  <2>2. row[G(a)].opp # None => row[G(a)].opp = row[G(a)].token
    BY <2>1, RowFacts
  <2>3. row' = [row EXCEPT ![G(a)].opp = mem[a].opp, ![G(a)].token = mem[a].token,
                           ![G(a)].deal = Deal(a)]
    BY <1>2 DEF PersistOpportunity
  <2>4. \A g \in GovWinIds : g # G(a) => row'[g] = row[g]
    BY <1>0, <2>3
  <2>5. /\ row'[G(a)].opp = row[G(a)].token /\ row'[G(a)].token = row[G(a)].token
        /\ row'[G(a)].taskToken = row[G(a)].taskToken /\ row'[G(a)].task = row[G(a)].task
    BY <1>0, <2>1, <2>3 DEF Row
  <2> QED BY <1>2, <2>2, <2>4, <2>5 DEF Grows, PersistOpportunity, aws
<1>3. CASE SetTaskToken(a)
  <2>1. G(a) \in GovWinIds
    BY <1>0, <1>3 DEF LocalMatchesRow, SetTaskToken, Steps
  <2>2. \/ row' = row
        \/ row[G(a)].taskToken = None /\ row' = [row EXCEPT ![G(a)].taskToken = a]
    BY <1>3 DEF SetTaskToken
  <2>3. \A g \in GovWinIds : g # G(a) => row'[g] = row[g]
    BY <1>0, <2>2
  <2>4. /\ row'[G(a)].opp = row[G(a)].opp /\ row'[G(a)].token = row[G(a)].token
        /\ row[G(a)].taskToken # None => row'[G(a)].taskToken = row[G(a)].taskToken
        /\ row'[G(a)].task = row[G(a)].task
    BY <1>0, <2>1, <2>2 DEF Row
  <2> QED BY <1>3, <2>3, <2>4 DEF Grows, SetTaskToken, aws
<1>4. CASE PersistTask(a)
  <2>1. G(a) \in GovWinIds /\ mem[a].taskToken = row[G(a)].taskToken
    BY <1>0, <1>4 DEF LocalMatchesRow, PersistTask, Steps, HasTask
  <2>2. row[G(a)].task # None => row[G(a)].task = row[G(a)].taskToken
    BY <2>1, RowFacts
  <2>3. row' = [row EXCEPT ![G(a)].task = mem[a].taskToken, ![G(a)].deal = Deal(a)]
    BY <1>4 DEF PersistTask
  <2>4. \A g \in GovWinIds : g # G(a) => row'[g] = row[g]
    BY <1>0, <2>3
  <2>5. /\ row'[G(a)].opp = row[G(a)].opp /\ row'[G(a)].token = row[G(a)].token
        /\ row'[G(a)].taskToken = row[G(a)].taskToken
        /\ row'[G(a)].task = row[G(a)].taskToken
    BY <1>0, <2>1, <2>3 DEF Row
  <2> QED BY <1>4, <2>2, <2>4, <2>5 DEF Grows, PersistTask, aws
<1>5. CASE CreateOpportunity(a) \/ AssociateSolution(a) \/ AssociateProducts(a)
           \/ StartEngagement(a)
  BY <1>5 DEF Grows, CreateOpportunity, AssociateSolution, AssociateProducts,
     StartEngagement, db
<1>6. CASE row' = row /\ UNCHANGED aws
  BY <1>6 DEF Grows, aws
<1> QED
  BY <1>1, <1>2, <1>3, <1>4, <1>5, <1>6 DEF Work, db, LoadDeal, RereadClientToken,
     Snapshot, IndexOpportunity, WriteBackCosell, Resnapshot, ReadTaskToken,
     RereadTaskToken, IndexTask, PermanentError, Ack

\* What an attempt holds stays right while others move.
LEMMA LocalStable ==
    ASSUME Grows, NEW b \in Attempts, LocalMatchesRow(b),
           pc'[b] = pc[b], mem'[b] = mem[b]
    PROVE  LocalMatchesRow(b)'
<1>1. CASE G(b) \in GovWinIds
  <2>1. /\ row[G(b)].token # None => row'[G(b)].token = row[G(b)].token
        /\ row[G(b)].opp # None => row'[G(b)].opp = row[G(b)].opp
        /\ row[G(b)].taskToken # None => row'[G(b)].taskToken = row[G(b)].taskToken
        /\ row[G(b)].task # None => row'[G(b)].task = row[G(b)].task
    BY <1>1 DEF Grows
  <2> QED BY <2>1 DEF Grows, LocalMatchesRow, HasToken, HasOpp, HasSolved, HasTask
<1>2. CASE G(b) \notin GovWinIds
  BY <1>2 DEF LocalMatchesRow, HasToken, HasOpp, HasSolved, HasTask, Steps
<1> QED BY <1>1, <1>2

\* What the attempt that moves holds is right after its step.
LEMMA LocalWork ==
    ASSUME StrongReads, ResInv, NEW a \in Attempts, Work(a)
    PROVE  LocalMatchesRow(a)'
<1>0. /\ LocalMatchesRow(a) /\ mem[a] \in Memory /\ a # None
      /\ G(a) \in GovWinIds \cup {None} /\ None \notin GovWinIds
      /\ pc \in [Attempts -> PC] /\ mem \in [Attempts -> Memory]
      /\ row \in [GovWinIds -> Row]
      /\ Reads(G(a)) = {row[G(a)]}
  BY LocalFacts, StrongRead, SubmitAssumption
     DEF ResInv, ReservationInv, TypeOK, SubmitAssumption
<1>1. /\ pc[a] \in Steps \ {"load", "ack"} => G(a) \in GovWinIds
      /\ Grows
  BY <1>0, WorkGrows DEF LocalMatchesRow
<1>2. ASSUME G(a) \in GovWinIds
      PROVE  /\ row[G(a)].token # None => row'[G(a)].token = row[G(a)].token
             /\ row[G(a)].opp # None => row'[G(a)].opp = row[G(a)].opp
             /\ row[G(a)].taskToken # None => row'[G(a)].taskToken = row[G(a)].taskToken
             /\ row[G(a)].task # None => row'[G(a)].task = row[G(a)].task
  BY <1>1, <1>2 DEF Grows
<1>3. \A f \in Fates : Return(a, f) => pc'[a] = "ack" /\ mem'[a].result = f
  BY <1>0 DEF Return, Goto, NoMemory
<1> USE DEF Steps, HasToken, HasOpp, HasSolved, HasTask
<1>4. CASE LoadDeal(a)
  <2>1. \/ pc'[a] = "ack" /\ mem'[a].result = "skipped"
        \/ pc'[a] = "reserve" /\ G(a) \in GovWinIds
    BY <1>0, <1>3, <1>4 DEF LoadDeal, Goto, Fates
  <2> QED BY <2>1 DEF LocalMatchesRow
<1>5. CASE ReserveClientToken(a)
  <2>1. G(a) \in GovWinIds
    BY <1>1, <1>5 DEF ReserveClientToken
  <2>2. \/ pc'[a] = "reread" /\ row[G(a)].token # None
        \/ pc'[a] = "snapshot" /\ mem'[a].token = a /\ row'[G(a)].token = a
    BY <1>0, <1>5, <2>1 DEF ReserveClientToken, Goto, NoRow, Memory
  <2> QED BY <1>0, <1>2, <2>1, <2>2 DEF LocalMatchesRow
<1>6. CASE RereadClientToken(a)
  <2>1. /\ G(a) \in GovWinIds /\ row[G(a)].token # None /\ row' = row
        /\ pc'[a] = "snapshot" /\ mem'[a].token = row[G(a)].token
    BY <1>0, <1>1, <1>6 DEF RereadClientToken, Goto, db, LocalMatchesRow, Memory
  <2> QED BY <2>1 DEF LocalMatchesRow
<1>7. CASE Snapshot(a)
  <2>1. G(a) \in GovWinIds /\ row' = row /\ UNCHANGED aws
    BY <1>1, <1>7 DEF Snapshot, db
  <2>2. LET r == row[G(a)] IN
          IF r.opp = None THEN Goto(a, "create") /\ UNCHANGED mem ELSE Resume(a, r)
    BY <1>0, <1>7 DEF Snapshot
  <2>3. CASE row[G(a)].opp = None
    <3>1. pc'[a] = "create" /\ mem' = mem
      BY <1>0, <2>2, <2>3 DEF Goto
    <3> QED BY <1>0, <1>7, <2>1, <3>1 DEF LocalMatchesRow, Snapshot
  <2>4. CASE row[G(a)].opp # None /\ row[G(a)].task # None
    <3>1. pc'[a] = "ack" /\ mem'[a].result = "submitted"
      BY <1>3, <2>2, <2>4 DEF Resume, Fates
    <3> QED BY <2>1, <2>4, <3>1 DEF LocalMatchesRow
  <2>5. CASE row[G(a)].opp # None /\ row[G(a)].task = None
    <3>1. /\ pc'[a] = "associate" /\ mem'[a].token = mem[a].token
          /\ mem'[a].opp = row[G(a)].opp
      BY <1>0, <2>2, <2>5 DEF Resume, Goto, Memory
    <3>2. row[G(a)].opp = row[G(a)].token /\ row[G(a)].opp \in created
      BY <2>1, <2>5, RowFacts
    <3>3. mem[a].token = row[G(a)].token /\ row[G(a)].token # None
      BY <1>0, <1>7 DEF LocalMatchesRow, Snapshot
    <3> QED BY <2>1, <3>1, <3>2, <3>3 DEF LocalMatchesRow, aws
  <2> QED BY <2>3, <2>4, <2>5
<1>8. CASE CreateOpportunity(a)
  <2>1. /\ pc'[a] = "persist_opp" /\ mem'[a].token = mem[a].token
        /\ mem'[a].opp = mem[a].token /\ mem[a].token \in created' /\ row' = row
    BY <1>0, <1>8 DEF CreateOpportunity, Goto, db, Memory
  <2>2. mem[a].token = row[G(a)].token /\ row[G(a)].token # None /\ G(a) \in GovWinIds
    BY <1>0, <1>8 DEF LocalMatchesRow, CreateOpportunity
  <2> QED BY <2>1, <2>2 DEF LocalMatchesRow
<1>9. CASE PersistOpportunity(a)
  <2>1. /\ pc'[a] = "index_opp" /\ mem' = mem /\ created' = created
        /\ row' = [row EXCEPT ![G(a)].opp = mem[a].opp, ![G(a)].token = mem[a].token,
                              ![G(a)].deal = Deal(a)]
    BY <1>0, <1>9 DEF PersistOpportunity, Goto, aws
  <2>2. /\ mem[a].token = row[G(a)].token /\ row[G(a)].token # None
        /\ mem[a].opp = row[G(a)].token /\ row[G(a)].token \in created
        /\ G(a) \in GovWinIds
    BY <1>0, <1>9 DEF LocalMatchesRow, PersistOpportunity
  <2>3. row'[G(a)].opp = mem[a].opp
    BY <1>0, <2>1, <2>2 DEF Row
  <2> QED BY <1>2, <2>1, <2>2, <2>3 DEF LocalMatchesRow
<1>10. CASE IndexOpportunity(a) \/ WriteBackCosell(a)
  <2>1. pc'[a] \in {"write_back", "resnapshot"} /\ mem' = mem /\ row' = row /\ created' = created
    BY <1>0, <1>10 DEF IndexOpportunity, WriteBackCosell, Goto, db, aws
  <2> QED BY <1>0, <1>10, <2>1 DEF LocalMatchesRow, IndexOpportunity, WriteBackCosell
<1>11. CASE Resnapshot(a)
  <2>1. IF row[G(a)].task # None THEN Return(a, "submitted")
                                 ELSE Goto(a, "associate") /\ UNCHANGED mem
    BY <1>0, <1>11 DEF Resnapshot
  <2>2. row' = row /\ UNCHANGED aws /\ G(a) \in GovWinIds
    BY <1>1, <1>11 DEF Resnapshot, db
  <2>3. CASE row[G(a)].task # None
    <3>1. pc'[a] = "ack"
      BY <1>3, <2>1, <2>3 DEF Fates
    <3> QED BY <2>2, <2>3, <3>1 DEF LocalMatchesRow
  <2>4. CASE row[G(a)].task = None
    <3>1. pc'[a] = "associate" /\ mem' = mem
      BY <1>0, <2>1, <2>4 DEF Goto
    <3> QED BY <1>0, <1>11, <2>2, <3>1 DEF LocalMatchesRow, Resnapshot, aws
  <2> QED BY <2>3, <2>4
<1>12. CASE AssociateSolution(a)
  <2>1. /\ pc'[a] = "products" /\ mem' = mem /\ row' = row /\ created' = created
        /\ Deal(a) \in HasSolution => <<mem[a].opp, Solution>> \in associated'
    BY <1>0, <1>12 DEF AssociateSolution, Goto, db
  <2> QED BY <1>0, <1>12, <2>1 DEF LocalMatchesRow, AssociateSolution
<1>13. CASE AssociateProducts(a)
  <2>1. pc'[a] = "task_read" /\ mem' = mem /\ row' = row /\ created' = created
    BY <1>0, <1>13 DEF AssociateProducts, Goto, db
  <2> QED BY <1>0, <1>1, <1>13, <2>1 DEF LocalMatchesRow, AssociateProducts, Grows
<1>14. CASE ReadTaskToken(a)
  <2>1. /\ pc'[a] = (IF row[G(a)].taskToken # None THEN "engage" ELSE "task_set")
        /\ mem'[a].token = mem[a].token /\ mem'[a].opp = mem[a].opp
        /\ mem'[a].taskToken = row[G(a)].taskToken /\ row' = row /\ UNCHANGED aws
    BY <1>0, <1>14 DEF ReadTaskToken, Goto, db, Memory
  <2> QED BY <1>0, <1>14, <2>1 DEF LocalMatchesRow, ReadTaskToken, aws
<1>15. CASE SetTaskToken(a)
  <2>1. /\ mem'[a].token = mem[a].token /\ mem'[a].opp = mem[a].opp /\ UNCHANGED aws
        /\ G(a) \in GovWinIds
    BY <1>0, <1>1, <1>15 DEF SetTaskToken, Memory
  <2>2. \/ pc'[a] = "engage" /\ mem'[a].taskToken = a /\ row'[G(a)].taskToken = a
        \/ pc'[a] = "task_reread" /\ row' = row /\ row[G(a)].taskToken # None
    BY <1>0, <1>15, <2>1 DEF SetTaskToken, Goto, Memory, Row
  <2>3. row'[G(a)].token = row[G(a)].token /\ row'[G(a)].opp = row[G(a)].opp
    BY <1>0, <1>15, <2>1 DEF SetTaskToken, Row
  <2> QED BY <1>0, <1>15, <2>1, <2>2, <2>3 DEF LocalMatchesRow, SetTaskToken, aws
<1>16. CASE RereadTaskToken(a)
  <2>1. /\ pc'[a] = "engage" /\ row[G(a)].taskToken # None
        /\ mem'[a].token = mem[a].token /\ mem'[a].opp = mem[a].opp
        /\ mem'[a].taskToken = row[G(a)].taskToken /\ row' = row /\ UNCHANGED aws
    BY <1>0, <1>16 DEF RereadTaskToken, Goto, db, Memory, LocalMatchesRow
  <2> QED BY <1>0, <1>16, <2>1 DEF LocalMatchesRow, RereadTaskToken, aws
<1>17. CASE StartEngagement(a)
  <2>1. /\ pc'[a] = "persist_task" /\ mem' = mem /\ row' = row
        /\ created' = created /\ associated' = associated
        /\ <<mem[a].opp, mem[a].taskToken>> \in tasks'
    BY <1>0, <1>17 DEF StartEngagement, Goto, db
  <2> QED BY <1>0, <1>17, <2>1 DEF LocalMatchesRow, StartEngagement
<1>18. CASE PersistTask(a)
  <2>1. /\ pc'[a] = "index_task" /\ mem' = mem /\ UNCHANGED aws
        /\ row' = [row EXCEPT ![G(a)].task = mem[a].taskToken, ![G(a)].deal = Deal(a)]
        /\ G(a) \in GovWinIds
    BY <1>0, <1>1, <1>18 DEF PersistTask, Goto
  <2>2. /\ row'[G(a)].task = mem[a].taskToken /\ row'[G(a)].opp = row[G(a)].opp
        /\ row'[G(a)].token = row[G(a)].token
        /\ row'[G(a)].taskToken = row[G(a)].taskToken
    BY <1>0, <2>1 DEF Row
  <2> QED BY <1>0, <1>18, <2>1, <2>2 DEF LocalMatchesRow, PersistTask, aws
<1>19. CASE IndexTask(a)
  <2>1. pc'[a] = "ack" /\ row' = row /\ G(a) \in GovWinIds /\ row[G(a)].task # None
    BY <1>0, <1>1, <1>3, <1>19 DEF IndexTask, Fates, LocalMatchesRow
  <2> QED BY <2>1 DEF LocalMatchesRow
<1>20. CASE PermanentError(a)
  <2>1. pc'[a] = "ack" /\ mem'[a].result = "dropped"
    BY <1>3, <1>20 DEF PermanentError, Fates
  <2> QED BY <2>1 DEF LocalMatchesRow
<1>21. CASE Ack(a)
  <2>1. pc'[a] = "ended"
    BY <1>0, <1>21 DEF Ack, Goto
  <2> QED BY <2>1 DEF LocalMatchesRow
<1> QED
  BY <1>4, <1>5, <1>6, <1>7, <1>8, <1>9, <1>10, <1>11, <1>12, <1>13, <1>14, <1>15,
     <1>16, <1>17, <1>18, <1>19, <1>20, <1>21 DEF Work

\* The steps that write the row write what the row already stands for.
LEMMA RowWork ==
    ASSUME StrongReads, ResInv, NEW a \in Attempts, Work(a), NEW g \in GovWinIds
    PROVE  /\ \/ row'[g].token = row[g].token
              \/ row[g].token = None /\ row'[g].token = a /\ G(a) = g
           /\ \/ row'[g].opp = row[g].opp
              \/ row[g].token # None /\ row'[g].opp = row[g].token /\ row[g].token \in created
           /\ \/ row'[g].taskToken = row[g].taskToken
              \/ row[g].token # None
           /\ \/ row'[g].task = row[g].task
              \/ row'[g].task # None /\ row[g].opp # None /\ <<row[g].opp, row'[g].task>> \in tasks
<1>0. /\ row \in [GovWinIds -> Row] /\ LocalMatchesRow(a) /\ mem[a] \in Memory
      /\ pc[a] \in Steps \ {"load", "ack"} => G(a) \in GovWinIds
  BY LocalFacts DEF ResInv, ReservationInv, TypeOK, LocalMatchesRow
<1> USE DEF Steps, HasToken, HasOpp, HasSolved, HasTask
<1>1. CASE row' = row
  BY <1>1
<1>2. CASE ReserveClientToken(a)
  <2>1. G(a) \in GovWinIds
    BY <1>0, <1>2 DEF ReserveClientToken
  <2>2. CASE row[G(a)].token = None /\ row' = [row EXCEPT ![G(a)] = [NoRow EXCEPT !.token = a]]
    <3>1. row[G(a)].opp = None /\ row[G(a)].taskToken = None /\ row[G(a)].task = None
      BY <2>1, <2>2, RowFacts
    <3>2. /\ row'[G(a)].token = a /\ row'[G(a)].opp = None
          /\ row'[G(a)].taskToken = None /\ row'[G(a)].task = None
      BY <1>0, <2>1, <2>2 DEF NoRow
    <3> QED BY <1>0, <2>2, <3>1, <3>2
  <2> QED BY <1>1, <1>2, <2>2 DEF ReserveClientToken
<1>3. CASE PersistOpportunity(a)
  <2>1. row' = [row EXCEPT ![G(a)].opp = mem[a].opp, ![G(a)].token = mem[a].token,
                           ![G(a)].deal = Deal(a)]
    BY <1>3 DEF PersistOpportunity
  <2>2. /\ mem[a].token = row[G(a)].token /\ mem[a].opp = row[G(a)].token
        /\ row[G(a)].token # None /\ row[G(a)].token \in created /\ G(a) \in GovWinIds
    BY <1>0, <1>3 DEF LocalMatchesRow, PersistOpportunity
  <2> QED BY <1>0, <2>1, <2>2 DEF Row
<1>4. CASE SetTaskToken(a)
  <2>1. row' = row \/ row' = [row EXCEPT ![G(a)].taskToken = a]
    BY <1>4 DEF SetTaskToken
  <2>2. row[G(a)].token # None /\ G(a) \in GovWinIds
    BY <1>0, <1>4 DEF LocalMatchesRow, SetTaskToken
  <2> QED BY <1>0, <2>1, <2>2 DEF Row
<1>5. CASE PersistTask(a)
  <2>1. row' = [row EXCEPT ![G(a)].task = mem[a].taskToken, ![G(a)].deal = Deal(a)]
    BY <1>5 DEF PersistTask
  <2>2. /\ row[G(a)].opp = mem[a].opp /\ row[G(a)].token # None /\ mem[a].opp = row[G(a)].token
        /\ mem[a].taskToken # None /\ <<mem[a].opp, mem[a].taskToken>> \in tasks
        /\ G(a) \in GovWinIds
    BY <1>0, <1>5 DEF LocalMatchesRow, PersistTask
  <2> QED BY <1>0, <2>1, <2>2 DEF Row
<1> QED
  BY <1>1, <1>2, <1>3, <1>4, <1>5 DEF Work, db, LoadDeal, RereadClientToken, Snapshot,
     CreateOpportunity, IndexOpportunity, WriteBackCosell, Resnapshot, AssociateSolution,
     AssociateProducts, ReadTaskToken, RereadTaskToken, StartEngagement, IndexTask,
     PermanentError, Ack

\* The only step that creates an opportunity uses the reserved token.
LEMMA CreatedWork ==
    ASSUME StrongReads, ResInv, NEW a \in Attempts, Work(a)
    PROVE  \A t \in created' \ created :
             G(a) \in GovWinIds /\ t = row[G(a)].token /\ row[G(a)].token # None
<1>1. CASE CreateOpportunity(a)
  <2>1. mem[a].token = row[G(a)].token /\ row[G(a)].token # None /\ G(a) \in GovWinIds
    BY <1>1, LocalFacts DEF CreateOpportunity, LocalMatchesRow, Steps, HasToken
  <2> QED BY <1>1, <2>1 DEF CreateOpportunity
<1>2. CASE created' = created
  BY <1>2
<1> QED
  BY <1>1, <1>2 DEF Work, aws, LoadDeal, ReserveClientToken, RereadClientToken, Snapshot,
     PersistOpportunity, IndexOpportunity, WriteBackCosell, Resnapshot, AssociateSolution,
     AssociateProducts, ReadTaskToken, SetTaskToken, RereadTaskToken, StartEngagement,
     PersistTask, IndexTask, PermanentError, Ack

\* The only step that starts an engagement uses the reserved tokens, with the
\* Solution of its deal in place.
LEMMA TasksWork ==
    ASSUME StrongReads, ResInv, NEW a \in Attempts, Work(a)
    PROVE  \A x \in tasks' \ tasks :
             /\ G(a) \in GovWinIds
             /\ x = <<row[G(a)].token, row[G(a)].taskToken>>
             /\ row[G(a)].token # None /\ row[G(a)].taskToken # None
             /\ row[G(a)].token \in created
             /\ Deal(a) \in HasSolution => <<row[G(a)].token, Solution>> \in associated
<1>1. CASE StartEngagement(a)
  <2>1. /\ mem[a].opp = row[G(a)].token /\ row[G(a)].token \in created
        /\ mem[a].taskToken = row[G(a)].taskToken /\ row[G(a)].taskToken # None
        /\ row[G(a)].token # None /\ G(a) \in GovWinIds
        /\ Deal(a) \in HasSolution => <<mem[a].opp, Solution>> \in associated
    BY <1>1, LocalFacts
       DEF StartEngagement, LocalMatchesRow, Steps, HasToken, HasOpp, HasSolved, HasTask
  <2> QED BY <1>1, <2>1 DEF StartEngagement
<1>2. CASE tasks' = tasks
  BY <1>2
<1> QED
  BY <1>1, <1>2 DEF Work, aws, LoadDeal, ReserveClientToken, RereadClientToken, Snapshot,
     CreateOpportunity, PersistOpportunity, IndexOpportunity, WriteBackCosell, Resnapshot,
     AssociateSolution, AssociateProducts, ReadTaskToken, SetTaskToken, RereadTaskToken,
     PersistTask, IndexTask, PermanentError, Ack

\* Every step of an attempt keeps the reservation invariant.
LEMMA ReservationWork ==
    ASSUME StrongReads, ResInv, NEW a \in Attempts, Work(a)
    PROVE  ResInv'
<1>0. /\ TypeOK /\ AwsMatchesRow /\ RowAgreesWithAws /\ QueueMatchesRow
      /\ SolutionBeforeReview /\ LocalsMatchRow
      /\ created \subseteq Attempts /\ tasks \subseteq created \X Attempts
      /\ None \notin Attempts
  BY SubmitAssumption DEF ResInv, ReservationInv, TypeOK, SubmitAssumption
<1>1. TypeInv' /\ TypeOK' /\ Grows
  BY TypeWork, WorkGrows DEF ResInv, TypeInv
<1>2. LocalsMatchRow'
  <2>1. ASSUME NEW b \in Attempts PROVE LocalMatchesRow(b)'
    <3>1. CASE b = a
      BY <3>1, LocalWork
    <3>2. CASE b # a
      BY <1>0, <1>1, <3>2, OthersStay, LocalStable DEF LocalsMatchRow
    <3> QED BY <3>1, <3>2
  <2> QED BY <2>1 DEF LocalsMatchRow
<1>3. AwsMatchesRow'
  <2>1. ASSUME NEW g \in GovWinIds
        PROVE  /\ row'[g].token # None => G(row'[g].token) = g
               /\ row'[g].taskToken # None => row'[g].token # None
    <3>1. /\ row[g].token # None => G(row[g].token) = g
          /\ row[g].taskToken # None => row[g].token # None
      BY <1>0 DEF AwsMatchesRow
    <3>2. row[g].token # None => row'[g].token = row[g].token
      BY <1>1 DEF Grows
    <3> QED BY <3>1, <3>2, RowWork
  <2>2. ASSUME NEW t \in created'
        PROVE  G(t) \in GovWinIds /\ row'[G(t)].token = t
    <3>1. G(t) \in GovWinIds /\ row[G(t)].token = t
      BY <1>0, CreatedWork DEF AwsMatchesRow
    <3>2. t # None
      BY <1>0, CreatedWork
    <3> QED BY <1>1, <3>1, <3>2 DEF Grows
  <2>3. ASSUME NEW x \in tasks'
        PROVE  x[2] = row'[G(x[1])].taskToken
    <3>1. CASE x \in tasks
      <4>1. x[1] \in created /\ x[2] # None
        BY <1>0, <3>1
      <4>2. G(x[1]) \in GovWinIds /\ x[2] = row[G(x[1])].taskToken
        BY <1>0, <3>1, <4>1 DEF AwsMatchesRow
      <4> QED BY <1>1, <4>1, <4>2 DEF Grows
    <3>2. CASE x \notin tasks
      <4>1. /\ G(a) \in GovWinIds /\ x = <<row[G(a)].token, row[G(a)].taskToken>>
            /\ row[G(a)].token # None /\ row[G(a)].taskToken # None
        BY <3>2, TasksWork
      <4>2. G(row[G(a)].token) = G(a)
        BY <1>0, <4>1 DEF AwsMatchesRow
      <4> QED BY <1>1, <4>1, <4>2 DEF Grows
    <3> QED BY <3>1, <3>2
  <2> QED BY <2>1, <2>2, <2>3 DEF AwsMatchesRow
<1>4. RowAgreesWithAws'
  <2>1. ASSUME NEW g \in GovWinIds
        PROVE  /\ row'[g].opp # None => row'[g].opp = row'[g].token /\ row'[g].opp \in created'
               /\ row'[g].task # None => <<row'[g].opp, row'[g].task>> \in tasks'
    <3>1. /\ row[g].token # None => row'[g].token = row[g].token
          /\ row[g].opp # None => row'[g].opp = row[g].opp
          /\ created \subseteq created' /\ tasks \subseteq tasks'
      BY <1>1 DEF Grows
    <3>2. /\ row[g].opp # None => row[g].opp = row[g].token /\ row[g].opp \in created
          /\ row[g].task # None => <<row[g].opp, row[g].task>> \in tasks
          /\ row[g].task # None => row[g].opp # None
          /\ row[g].token = None => row[g].opp = None
      BY RowFacts
    <3>3. \/ row'[g].opp = row[g].opp
          \/ row[g].token # None /\ row'[g].opp = row[g].token /\ row[g].token \in created
      BY RowWork
    <3>4. \/ row'[g].task = row[g].task
          \/ row[g].opp # None /\ <<row[g].opp, row'[g].task>> \in tasks
      BY RowWork
    <3> QED BY <3>1, <3>2, <3>3, <3>4
  <2> QED BY <2>1 DEF RowAgreesWithAws
<1>5. QueueMatchesRow'
  <2>1. ASSUME NEW m \in Msgs, queue'[m] = "submitted"
        PROVE  GovWinOf[DealOf[m]] \in GovWinIds /\ row'[GovWinOf[DealOf[m]]].task # None
    <3>1. CASE queue[m] = "submitted"
      BY <1>0, <1>1, <3>1 DEF QueueMatchesRow, Grows
    <3>2. CASE queue[m] # "submitted"
      <4>1. Ack(a) /\ m = a[1] /\ mem[a].result = "submitted"
        BY <1>0, <2>1, <3>2 DEF TypeOK, Work, sqs, LoadDeal, ReserveClientToken, RereadClientToken,
           Snapshot, CreateOpportunity, PersistOpportunity, IndexOpportunity, WriteBackCosell,
           Resnapshot, AssociateSolution, AssociateProducts, ReadTaskToken, SetTaskToken,
           RereadTaskToken, StartEngagement, PersistTask, IndexTask, PermanentError, Ack
      <4>2. G(a) \in GovWinIds /\ row[G(a)].task # None
        BY <4>1, LocalFacts DEF LocalMatchesRow, Ack
      <4> QED BY <1>1, <4>1, <4>2 DEF G, Deal, Grows
    <3> QED BY <3>1, <3>2
  <2> QED BY <2>1 DEF QueueMatchesRow
<1>6. SolutionBeforeReview'
  <2>1. ASSUME NEW x \in tasks', G(x[1]) \in NeedsSolution
        PROVE  <<x[1], Solution>> \in associated'
    <3>1. CASE x \in tasks
      BY <1>0, <1>1, <2>1, <3>1 DEF SolutionBeforeReview, Grows
    <3>2. CASE x \notin tasks
      <4>1. /\ G(a) \in GovWinIds /\ x = <<row[G(a)].token, row[G(a)].taskToken>>
            /\ row[G(a)].token # None
            /\ Deal(a) \in HasSolution => <<row[G(a)].token, Solution>> \in associated
        BY <3>2, TasksWork
      <4>2. G(x[1]) = G(a)
        BY <1>0, <4>1 DEF AwsMatchesRow
      <4>3. Deal(a) \in HasSolution
        BY <2>1, <4>2, AttemptFacts DEF NeedsSolution, G
      <4> QED BY <1>1, <4>1, <4>3 DEF Grows
    <3> QED BY <3>1, <3>2
  <2> QED BY <2>1 DEF SolutionBeforeReview
<1> QED
  BY <1>1, <1>2, <1>3, <1>4, <1>5, <1>6 DEF ResInv, ReservationInv

\* The reservation invariant holds initially.
LEMMA ReservationInit == Init => ResInv
<1> SUFFICES ASSUME Init PROVE ResInv
  OBVIOUS
<1>1. TypeInv /\ TypeOK
  BY TypeInit DEF TypeInv
<1>2. \A g \in GovWinIds : row[g] = NoRow
  BY DEF Init
<1>3. LocalsMatchRow
  BY DEF Init, LocalsMatchRow, LocalMatchesRow, Steps, HasToken, HasOpp, HasSolved, HasTask
<1>4. AwsMatchesRow /\ RowAgreesWithAws
  BY <1>2 DEF Init, AwsMatchesRow, RowAgreesWithAws, NoRow
<1>5. QueueMatchesRow /\ SolutionBeforeReview
  BY DEF Init, QueueMatchesRow, SolutionBeforeReview
<1> QED
  BY <1>1, <1>3, <1>4, <1>5 DEF ResInv, ReservationInv

\* A step that leaves the rows, AWS and the fate of messages alone, and at
\* most starts or ends one attempt.
LEMMA ReservationQuiet ==
    ASSUME ResInv, TypeInv', row' = row, UNCHANGED <<created, associated, tasks>>,
           \A m \in Msgs : queue'[m] = "submitted" => queue[m] = "submitted",
           \A b \in Attempts :
             \/ pc'[b] = pc[b] /\ mem'[b] = mem[b]
             \/ pc'[b] = "load" \/ pc'[b] = "ended"
             \/ pc'[b] = "ack" /\ mem'[b].result # "submitted"
    PROVE  ResInv'
<1>1. /\ AwsMatchesRow /\ RowAgreesWithAws /\ QueueMatchesRow
      /\ SolutionBeforeReview /\ LocalsMatchRow /\ TypeOK'
  BY DEF ResInv, ReservationInv, TypeInv
<1>2. Grows
  BY DEF Grows
<1>3. ASSUME NEW b \in Attempts PROVE LocalMatchesRow(b)'
  <2>1. CASE pc'[b] = pc[b] /\ mem'[b] = mem[b]
    BY <1>1, <1>2, <2>1, LocalStable DEF LocalsMatchRow
  <2>2. CASE pc'[b] = "load" \/ pc'[b] = "ended"
    BY <2>2 DEF LocalMatchesRow, HasToken, HasOpp, HasSolved, HasTask, Steps
  <2>3. CASE pc'[b] = "ack" /\ mem'[b].result # "submitted"
    BY <2>3 DEF LocalMatchesRow, HasToken, HasOpp, HasSolved, HasTask, Steps
  <2> QED BY <2>1, <2>2, <2>3
<1>4. LocalsMatchRow'
  BY <1>3 DEF LocalsMatchRow
<1>5. AwsMatchesRow' /\ RowAgreesWithAws'
  BY <1>1 DEF AwsMatchesRow, RowAgreesWithAws
<1>6. QueueMatchesRow' /\ SolutionBeforeReview'
  BY <1>1 DEF QueueMatchesRow, SolutionBeforeReview
<1> QED
  BY <1>1, <1>4, <1>5, <1>6 DEF ResInv, ReservationInv

\* Every step keeps the reservation invariant.
LEMMA ReservationNext ==
    ASSUME StrongReads, ResInv, [Next]_vars
    PROVE  ResInv'
<1>0. /\ TypeInv' /\ TypeInv /\ pc \in [Attempts -> PC] /\ mem \in [Attempts -> Memory]
      /\ queue \in [Msgs -> {"visible", "dlq"} \cup Fates]
  BY TypeNext DEF ResInv, TypeInv, TypeOK
<1>1. ASSUME NEW a \in Attempts, Work(a) PROVE ResInv'
  BY <1>1, ReservationWork
<1>2. ASSUME NEW a \in Attempts, Receive(a) PROVE ResInv'
  <2>1. \A b \in Attempts : mem'[b] = mem[b] /\ (pc'[b] = pc[b] \/ pc'[b] = "load")
    BY <1>0, <1>2 DEF Receive, Goto
  <2> QED BY <1>0, <1>2, <2>1, ReservationQuiet DEF Receive, db, aws
<1>3. ASSUME NEW a \in Attempts, MappingFails(a) PROVE ResInv'
  <2>1. pc'[a] = "ack" /\ mem'[a].result = "rejected"
    BY <1>0, <1>3 DEF MappingFails, Return, Goto, NoMemory
  <2>2. \A b \in Attempts : b # a => pc'[b] = pc[b] /\ mem'[b] = mem[b]
    BY <1>0, <1>3 DEF MappingFails, Return, Goto
  <2>3. \A b \in Attempts : \/ pc'[b] = pc[b] /\ mem'[b] = mem[b]
                            \/ pc'[b] = "ack" /\ mem'[b].result # "submitted"
    BY <2>1, <2>2
  <2> QED BY <1>0, <1>3, <2>3, ReservationQuiet DEF MappingFails, sqs, db, aws
<1>4. ASSUME NEW a \in Attempts, Abort(a) PROVE ResInv'
  <2>1. \A b \in Attempts : pc'[b] = "ended" \/ (pc'[b] = pc[b] /\ mem'[b] = mem[b])
    BY <1>0, <1>4 DEF Abort, Goto
  <2> QED BY <1>0, <1>4, <2>1, ReservationQuiet DEF Abort, sqs, db, aws
<1>5. ASSUME NEW m \in Msgs, DeadLetter(m) PROVE ResInv'
  <2>1. \A n \in Msgs : queue'[n] = "submitted" => queue[n] = "submitted"
    BY <1>0, <1>5 DEF DeadLetter
  <2> QED BY <1>0, <1>5, <2>1, ReservationQuiet DEF DeadLetter, db, aws
<1>6. ASSUME NEW g \in GovWinIds, Replicate(g) PROVE ResInv'
  BY <1>0, <1>6, ReservationQuiet DEF Replicate, sqs, aws
<1>7. CASE AwsCatchesUp
  BY <1>0, <1>7, ReservationQuiet DEF AwsCatchesUp, sqs, db
<1>8. CASE UNCHANGED vars
  BY <1>0, <1>8, ReservationQuiet DEF vars, sqs, db, aws
<1> QED
  BY <1>1, <1>2, <1>3, <1>4, <1>5, <1>6, <1>7, <1>8 DEF Next, Rest

\* The inductive invariant holds throughout.
THEOREM Reservation ==
    ASSUME StrongReads
    PROVE  Spec => []ReservationInv
<1>1. ResInv /\ [Next]_vars => ResInv'
  BY ReservationNext
<1>2. ResInv => ReservationInv
  BY DEF ResInv
<1> QED
  BY <1>1, <1>2, ReservationInit, PTL DEF Spec

-----------------------------------------------------------------------------
(* The safety properties.                                                  *)

\* Concurrent or repeated deliveries create one opportunity per GovWin id.
THEOREM OneOpportunity ==
    ASSUME StrongReads
    PROVE  Spec => []AtMostOneOpportunity
<1>1. ReservationInv => AtMostOneOpportunity
  BY DEF ReservationInv, AwsMatchesRow, AtMostOneOpportunity
<1> QED BY <1>1, Reservation, PTL

\* An opportunity enters the reviewer queue once.
THEOREM OneEngagement ==
    ASSUME StrongReads
    PROVE  Spec => []AtMostOneEngagement
<1>1. ASSUME ReservationInv, NEW x \in tasks, NEW y \in tasks, x[1] = y[1]
      PROVE  x = y
  <2>1. tasks \subseteq created \X Attempts
    BY <1>1 DEF ReservationInv, TypeOK
  <2>2. x[2] = row[G(x[1])].taskToken /\ y[2] = row[G(y[1])].taskToken
    BY <1>1 DEF ReservationInv, AwsMatchesRow
  <2> QED BY <1>1, <2>1, <2>2
<1>2. ReservationInv => AtMostOneEngagement
  BY <1>1 DEF AtMostOneEngagement
<1> QED BY <1>2, Reservation, PTL

\* The row records only what happened at AWS to the reserved token.
THEOREM RowsAgree ==
    ASSUME StrongReads
    PROVE  Spec => []RowAgreesWithAws
<1>1. ReservationInv => RowAgreesWithAws
  BY DEF ReservationInv
<1> QED BY <1>1, Reservation, PTL

\* A message that leaves the queue as submitted is engaged and recorded so.
THEOREM SubmittedEngaged ==
    ASSUME StrongReads
    PROVE  Spec => []SubmittedMeansEngaged
<1>1. ReservationInv => SubmittedMeansEngaged
  BY DEF ReservationInv, QueueMatchesRow, RowAgreesWithAws, SubmittedMeansEngaged
<1> QED BY <1>1, Reservation, PTL

\* No opportunity is sent to review before its Solution is associated.
THEOREM SolutionFirst ==
    ASSUME StrongReads
    PROVE  Spec => []SolutionBeforeReview
<1>1. ReservationInv => SolutionBeforeReview
  BY DEF ReservationInv
<1> QED BY <1>1, Reservation, PTL

\* Steps that are not the code of an attempt touch neither rows nor AWS.
LEMMA NextGrows ==
    ASSUME StrongReads, ResInv, [Next]_vars
    PROVE  Grows
<1>1. ASSUME NEW a \in Attempts, Work(a) PROVE Grows
  BY <1>1, WorkGrows
<1>2. CASE row' = row /\ UNCHANGED <<created, associated, tasks>>
  BY <1>2 DEF Grows
<1> QED
  BY <1>1, <1>2 DEF Next, Rest, vars, sqs, db, aws, Receive, MappingFails, Abort,
     DeadLetter, Replicate, AwsCatchesUp

\* What a row has recorded is never lost or changed.
THEOREM RowsOnlyGrow ==
    ASSUME StrongReads
    PROVE  Spec => RowOnlyGrows
<1>1. ResInv /\ [Next]_vars =>
        [\A g \in GovWinIds, f \in {"token", "opp", "taskToken", "task"} :
           row[g][f] # None => row'[g][f] = row[g][f]]_vars
  BY NextGrows DEF Grows
<1>2. ResInv /\ [Next]_vars => ResInv'
  BY ReservationNext
<1> QED BY <1>1, <1>2, ReservationInit, PTL DEF Spec, RowOnlyGrows

-----------------------------------------------------------------------------
(* The AWS id on a deal.                                                   *)

\* It is the opportunity of a row, and of a deal that has a GovWin id.
CosellInv ==
    \A d \in Deals : deal[d].cosell # None =>
      GovWinOf[d] \in GovWinIds /\ row[GovWinOf[d]].opp = deal[d].cosell

\* An id that is on a deal stays right, as rows only grow.
LEMMA CosellStays ==
    ASSUME CosellInv, Grows, \A d \in Deals : deal'[d].cosell = deal[d].cosell
    PROVE  CosellInv'
BY DEF CosellInv, Grows

\* A step of an attempt that writes no id.
LEMMA CosellKept ==
    ASSUME TypeOK, NEW a \in Attempts, Work(a), ~WriteBackCosell(a)
    PROVE  \A d \in Deals : deal'[d].cosell = deal[d].cosell
<1>1. CASE PermanentError(a)
  <2>1. deal \in [Deals -> [cosell : Token, status : Status]]
    BY DEF TypeOK
  <2>2. deal' = deal \/ deal' = [deal EXCEPT ![Deal(a)].status = "Action Required"]
    BY <1>1 DEF PermanentError
  <2> QED
    BY <2>1, <2>2
<1>2. CASE deal' = deal
  BY <1>2
<1> QED
  BY <1>1, <1>2 DEF Work, LoadDeal, ReserveClientToken, RereadClientToken, Snapshot,
     CreateOpportunity, PersistOpportunity, IndexOpportunity, Resnapshot, AssociateSolution,
     AssociateProducts, ReadTaskToken, SetTaskToken, RereadTaskToken, StartEngagement,
     PersistTask, IndexTask, Ack

\* The id an attempt writes is the one the row has, or the write is lost.
LEMMA CosellWritten ==
    ASSUME ResInv, NEW a \in Attempts, CosellInv, WriteBackCosell(a)
    PROVE  CosellInv'
<1>1. /\ LocalMatchesRow(a) /\ Deal(a) \in Deals /\ row' = row
      /\ deal \in [Deals -> [cosell : Token, status : Status]]
  BY LocalFacts DEF WriteBackCosell, db, ResInv, ReservationInv, TypeOK
<1>2. G(a) \in GovWinIds /\ row[G(a)].opp = mem[a].opp
  BY <1>1 DEF LocalMatchesRow, WriteBackCosell, Steps, HasToken, HasOpp
<1>3. CASE deal' = [deal EXCEPT ![Deal(a)] =
                      [cosell |-> mem[a].opp, status |-> "Pending Submission"]]
  <2>1. deal'[Deal(a)].cosell = mem[a].opp
    BY <1>1, <1>3
  <2>2. \A d \in Deals \ {Deal(a)} : deal'[d] = deal[d]
    BY <1>1, <1>3
  <2> QED
    BY <1>1, <1>2, <2>1, <2>2 DEF CosellInv, G
<1>4. CASE deal' = deal
  BY <1>1, <1>4 DEF CosellInv
<1> QED
  BY <1>3, <1>4 DEF WriteBackCosell

\* Every step keeps the ids on the deals right.
LEMMA CosellNext ==
    ASSUME StrongReads, ResInv, CosellInv, [Next]_vars
    PROVE  CosellInv'
<1>1. Grows /\ TypeOK
  BY NextGrows DEF ResInv, TypeInv
<1>2. ASSUME NEW a \in Attempts, Work(a) PROVE CosellInv'
  <2>1. CASE WriteBackCosell(a)
    BY <2>1, CosellWritten
  <2>2. CASE ~WriteBackCosell(a)
    BY <1>1, <1>2, <2>2, CosellKept, CosellStays
  <2> QED
    BY <2>1, <2>2
<1>3. CASE deal' = deal
  BY <1>1, <1>3, CosellStays
<1> QED
  BY <1>2, <1>3 DEF Next, Rest, vars, Receive, MappingFails, Abort, DeadLetter, Replicate,
     AwsCatchesUp

\* The AWS id on a deal is the one in the row of the deal's GovWin id, so that
\* update_in_ace, healing its mapping from the deal, finds the opportunity.
THEOREM CosellMapped ==
    ASSUME StrongReads
    PROVE  Spec => []CosellIdIsMapped
<1>1. Init => CosellInv
  <2> SUFFICES ASSUME Init PROVE CosellInv
    OBVIOUS
  <2> DEFINE new == [cosell |-> None, status |-> ""]
  <2>1. new.cosell = None
    OBVIOUS
  <2>2. deal = [d \in Deals |-> new]
    BY DEF Init
  <2> HIDE DEF new
  <2> QED
    BY <2>1, <2>2 DEF CosellInv
<1>2. CosellInv => CosellIdIsMapped
  BY DEF CosellInv, CosellIdIsMapped
<1>3. ResInv /\ [Next]_vars => ResInv'
  BY ReservationNext
<1>4. ResInv /\ CosellInv /\ [Next]_vars => CosellInv'
  BY CosellNext
<1> QED
  BY <1>1, <1>2, <1>3, <1>4, ReservationInit, PTL DEF Spec

-----------------------------------------------------------------------------
(* The pipeline implements Submission: only CreateOpportunity,              *)
(* AssociateSolution and StartEngagement move the abstract state, each by   *)
(* the abstract step of its name, or by none when it repeats an earlier one.*)

\* The initial state maps to the initial state of Submission.
LEMMA PromiseInit == Init => Promise!Init
<1>1. ASSUME Init, NEW g \in GovWinIds
      PROVE  /\ OpportunitiesOf(g) = {} /\ EngagementsOf(g) = {}
  BY <1>1 DEF Init, OpportunitiesOf, EngagementsOf
<1> QED BY <1>1 DEF Promise!Init, TheOne, Init

\* The abstract state of a GovWin id depends on created, tasks and on which
\* opportunities have their Solution, and on nothing else.
Solved == {o \in created : <<o, Solution>> \in associated}

\* What TheOne picks from an empty set and from a singleton.
LEMMA TheOneOf ==
    /\ TheOne({}) = None
    /\ \A x : TheOne({x}) = x
BY DEF TheOne

\* A step that creates, associates and starts nothing is a stutter of Submission.
LEMMA PromiseStutter ==
    ASSUME ResInv, ResInv', UNCHANGED <<created, tasks, Solved>>
    PROVE  UNCHANGED Promise!vars
<1>1. ASSUME NEW g \in GovWinIds
      PROVE  OpportunitiesOf(g)' = OpportunitiesOf(g) /\ EngagementsOf(g)' = EngagementsOf(g)
  BY DEF OpportunitiesOf, EngagementsOf
<1>2. ASSUME NEW g \in GovWinIds
      PROVE  (\E o \in OpportunitiesOf(g) : <<o, Solution>> \in associated)'
             = (\E o \in OpportunitiesOf(g) : <<o, Solution>> \in associated)
  BY DEF OpportunitiesOf, Solved
<1>3. ASSUME NEW g \in GovWinIds
      PROVE  /\ TheOne(OpportunitiesOf(g))' = TheOne(OpportunitiesOf(g))
             /\ TheOne(EngagementsOf(g))' = TheOne(EngagementsOf(g))
  BY <1>1
<1> QED BY <1>2, <1>3 DEF Promise!vars

\* CreateOpportunity maps to Create or to a stutter.
LEMMA PromiseCreate ==
    ASSUME StrongReads, ResInv, ResInv', NEW a \in Attempts, CreateOpportunity(a)
    PROVE  [Promise!Next]_Promise!vars
<1> DEFINE g == G(a)  tok == row[G(a)].token
<1>0. /\ g \in GovWinIds /\ mem[a].token = tok /\ tok # None
      /\ created' = created \cup {tok} /\ associated' = associated /\ tasks' = tasks
      /\ row' = row
  BY LocalFacts DEF CreateOpportunity, LocalMatchesRow, Steps, HasToken, db
<1>1. /\ created' \subseteq Attempts /\ associated \subseteq created \X (Products \cup {Solution})
      /\ tasks \subseteq created \X Attempts /\ None \notin Attempts
      /\ AwsMatchesRow /\ AwsMatchesRow'
  BY SubmitAssumption DEF ResInv, ReservationInv, TypeOK, SubmitAssumption
<1>2. CASE tok \in created
  <2>1. created' = created
    BY <1>0, <1>2
  <2>2. Solved' = Solved
    BY <1>0, <2>1 DEF Solved
  <2> QED BY <1>0, <2>1, <2>2, PromiseStutter
<1>3. CASE tok \notin created
  <2>1. tok \in Attempts /\ G(tok) = g
    BY <1>0, <1>1 DEF AwsMatchesRow
  <2>2. OpportunitiesOf(g) = {} /\ OpportunitiesOf(g)' = {tok}
    BY <1>0, <1>1, <1>3, <2>1 DEF OpportunitiesOf, AwsMatchesRow
  <2>3. \A h \in GovWinIds \ {g} : OpportunitiesOf(h)' = OpportunitiesOf(h)
    BY <1>0, <2>1 DEF OpportunitiesOf
  <2>4. \A h \in GovWinIds : EngagementsOf(h)' = EngagementsOf(h)
    BY <1>0, <1>1, <1>3 DEF OpportunitiesOf, EngagementsOf
  <2>5. \A h \in GovWinIds :
          (\E o \in OpportunitiesOf(h) : <<o, Solution>> \in associated)'
          = (\E o \in OpportunitiesOf(h) : <<o, Solution>> \in associated)
    BY <1>0, <1>1, <1>3, <2>2, <2>3
  <2>6. TheOne(OpportunitiesOf(g)) = None /\ TheOne(OpportunitiesOf(g))' = tok
    BY <2>2, TheOneOf
  <2>7. \A h \in GovWinIds \ {g} : TheOne(OpportunitiesOf(h))' = TheOne(OpportunitiesOf(h))
    BY <2>3
  <2>8. \A h \in GovWinIds : TheOne(EngagementsOf(h))' = TheOne(EngagementsOf(h))
    BY <2>4
  <2>9. Promise!Create(g)
    BY <1>0, <2>1, <2>5, <2>6, <2>7, <2>8 DEF Promise!Create
  <2> QED BY <1>0, <2>9 DEF Promise!Next
<1> QED BY <1>2, <1>3

\* AssociateSolution maps to Associate or to a stutter.
LEMMA PromiseAssociate ==
    ASSUME StrongReads, ResInv, ResInv', NEW a \in Attempts, AssociateSolution(a)
    PROVE  [Promise!Next]_Promise!vars
<1> DEFINE g == G(a)  tok == row[G(a)].token
<1>0. /\ g \in GovWinIds /\ mem[a].opp = tok /\ tok \in created
      /\ created' = created /\ tasks' = tasks
  BY LocalFacts DEF AssociateSolution, LocalMatchesRow, Steps, HasToken, HasOpp
<1>1. /\ associated' = associated \/ associated' = associated \cup {<<tok, Solution>>}
      /\ created \subseteq Attempts /\ AwsMatchesRow
  BY <1>0 DEF AssociateSolution, ResInv, ReservationInv, TypeOK
<1>2. CASE associated' = associated
  BY <1>0, <1>2, PromiseStutter DEF Solved
<1>3. CASE associated' = associated \cup {<<tok, Solution>>}
  <2>1. OpportunitiesOf(g) = {tok} /\ tok # None
    BY <1>0, <1>1, SubmitAssumption DEF OpportunitiesOf, AwsMatchesRow, SubmitAssumption
  <2>2. \A h \in GovWinIds :
          OpportunitiesOf(h)' = OpportunitiesOf(h) /\ EngagementsOf(h)' = EngagementsOf(h)
    BY <1>0 DEF OpportunitiesOf, EngagementsOf
  <2>3. (\E o \in OpportunitiesOf(g) : <<o, Solution>> \in associated)' = TRUE
    BY <1>0, <1>3, <2>1, <2>2
  <2>4. \A h \in GovWinIds \ {g} :
          (\E o \in OpportunitiesOf(h) : <<o, Solution>> \in associated)'
          = (\E o \in OpportunitiesOf(h) : <<o, Solution>> \in associated)
    <3>1. \A h \in GovWinIds \ {g} : tok \notin OpportunitiesOf(h)
      BY <1>0, <2>1 DEF OpportunitiesOf
    <3> QED BY <1>0, <1>3, <2>2, <3>1
  <2>5. TheOne(OpportunitiesOf(g)) # None
    BY <2>1, TheOneOf
  <2>6. \A h \in GovWinIds :
          /\ TheOne(OpportunitiesOf(h))' = TheOne(OpportunitiesOf(h))
          /\ TheOne(EngagementsOf(h))' = TheOne(EngagementsOf(h))
    BY <2>2
  <2>7. Promise!Associate(g)
    BY <1>0, <2>3, <2>4, <2>5, <2>6 DEF Promise!Associate
  <2> QED BY <1>0, <2>7 DEF Promise!Next
<1> QED BY <1>1, <1>2, <1>3

\* StartEngagement maps to Engage or to a stutter.
LEMMA PromiseEngage ==
    ASSUME StrongReads, ResInv, ResInv', NEW a \in Attempts, StartEngagement(a)
    PROVE  [Promise!Next]_Promise!vars
<1> DEFINE g == G(a)  tok == row[G(a)].token  tsk == row[G(a)].taskToken
<1>0. /\ g \in GovWinIds /\ tok \in created /\ tsk # None
      /\ created' = created /\ associated' = associated /\ row' = row
      /\ tasks' = tasks \cup {<<tok, tsk>>}
      /\ Deal(a) \in HasSolution => <<tok, Solution>> \in associated
  BY LocalFacts DEF StartEngagement, LocalMatchesRow, Steps, HasToken, HasOpp, HasSolved,
     HasTask, db
<1>1. /\ created \subseteq Attempts /\ tasks' \subseteq created' \X Attempts
      /\ tasks \subseteq created \X Attempts
      /\ None \notin Attempts /\ AwsMatchesRow /\ AwsMatchesRow'
  BY SubmitAssumption DEF ResInv, ReservationInv, TypeOK, SubmitAssumption
<1>2. Solved' = Solved
  BY <1>0 DEF Solved
<1>3. CASE <<tok, tsk>> \in tasks
  <2>1. tasks' = tasks
    BY <1>0, <1>3
  <2> QED BY <1>0, <1>2, <2>1, PromiseStutter
<1>4. CASE <<tok, tsk>> \notin tasks
  <2>1. OpportunitiesOf(g) = {tok} /\ tok # None /\ tsk \in Attempts
    <3>1. <<tok, tsk>> \in created' \X Attempts
      BY <1>0, <1>1
    <3>2. tok \in Attempts /\ G(tok) = g
      BY <1>0, <1>1 DEF AwsMatchesRow
    <3>3. \A t \in created : G(t) = g => t = tok
      BY <1>1 DEF AwsMatchesRow
    <3> QED BY <1>0, <1>1, <3>1, <3>2, <3>3 DEF OpportunitiesOf
  <2>2. \A h \in GovWinIds : OpportunitiesOf(h)' = OpportunitiesOf(h)
    BY <1>0 DEF OpportunitiesOf
  <2>3. \A h \in GovWinIds \ {g} : tok \notin OpportunitiesOf(h)
    BY <1>0, <2>1 DEF OpportunitiesOf
  <2>4. \A h \in GovWinIds \ {g} : EngagementsOf(h)' = EngagementsOf(h)
    BY <1>0, <2>2, <2>3 DEF EngagementsOf
  <2>5. EngagementsOf(g) = {}
    <3>1. ASSUME NEW t \in Attempts, <<tok, t>> \in tasks PROVE FALSE
      <4>1. <<tok, t>>[2] = row[G(<<tok, t>>[1])].taskToken
        BY <1>1, <3>1 DEF AwsMatchesRow
      <4>2. G(tok) = g
        BY <2>1 DEF OpportunitiesOf
      <4> QED BY <1>4, <3>1, <4>1, <4>2
    <3> QED BY <2>1, <3>1 DEF EngagementsOf
  <2>6. EngagementsOf(g)' = {tsk}
    <3>1. ASSUME NEW t \in Attempts, <<tok, t>> \in tasks' PROVE t = tsk
      <4>1. <<tok, t>> \notin tasks
        BY <2>1, <2>5 DEF EngagementsOf
      <4> QED BY <1>0, <3>1, <4>1
    <3>2. OpportunitiesOf(g)' = {tok}
      BY <1>0, <2>1, <2>2
    <3>3. EngagementsOf(g)' = {t \in Attempts : <<tok, t>> \in tasks'}
      BY <3>2 DEF EngagementsOf
    <3>4. <<tok, tsk>> \in tasks'
      BY <1>0
    <3> QED BY <2>1, <3>1, <3>3, <3>4
  <2>7. /\ TheOne(OpportunitiesOf(g)) # None /\ TheOne(EngagementsOf(g)) = None
        /\ TheOne(EngagementsOf(g))' = tsk
    BY <2>1, <2>5, <2>6, TheOneOf
  <2>8. \A h \in GovWinIds \ {g} : TheOne(EngagementsOf(h))' = TheOne(EngagementsOf(h))
    BY <2>4
  <2>9. \A h \in GovWinIds :
          /\ TheOne(OpportunitiesOf(h))' = TheOne(OpportunitiesOf(h))
          /\ (\E o \in OpportunitiesOf(h) : <<o, Solution>> \in associated)'
             = (\E o \in OpportunitiesOf(h) : <<o, Solution>> \in associated)
    BY <1>0, <2>2
  <2>10. g \in NeedsSolution => \E o \in OpportunitiesOf(g) : <<o, Solution>> \in associated
    BY <1>0, <2>1, AttemptFacts DEF NeedsSolution, G
  <2>11. Promise!Engage(g)
    BY <1>0, <2>1, <2>7, <2>8, <2>9, <2>10 DEF Promise!Engage
  <2> QED BY <1>0, <2>11 DEF Promise!Next
<1> QED BY <1>3, <1>4

\* Every step maps to a step of Submission or to a stutter.
LEMMA PromiseNext ==
    ASSUME StrongReads, ResInv, ResInv', [Next]_vars
    PROVE  [Promise!Next]_Promise!vars
<1>1. ASSUME NEW a \in Attempts, Work(a) PROVE [Promise!Next]_Promise!vars
  <2>1. CASE CreateOpportunity(a)
    BY <2>1, PromiseCreate
  <2>2. CASE AssociateSolution(a)
    BY <2>2, PromiseAssociate
  <2>3. CASE StartEngagement(a)
    BY <2>3, PromiseEngage
  <2>4. CASE AssociateProducts(a)
    <3>1. PICK done \in SUBSET Products :
            associated' = associated \cup ({mem[a].opp} \X done)
      BY <2>4 DEF AssociateProducts
    <3>2. \A o : <<o, Solution>> \in associated' <=> <<o, Solution>> \in associated
      BY <3>1, SubmitAssumption DEF SubmitAssumption
    <3>3. Solved' = Solved /\ created' = created /\ tasks' = tasks
      BY <2>4, <3>2 DEF Solved, AssociateProducts
    <3> QED BY <3>3, PromiseStutter
  <2>5. CASE UNCHANGED aws
    BY <2>5, PromiseStutter DEF aws, Solved
  <2> QED
    BY <1>1, <2>1, <2>2, <2>3, <2>4, <2>5 DEF Work, LoadDeal, ReserveClientToken,
       RereadClientToken, Snapshot, PersistOpportunity, IndexOpportunity, WriteBackCosell,
       Resnapshot, ReadTaskToken, SetTaskToken, RereadTaskToken, PersistTask, IndexTask,
       PermanentError, Ack
<1>2. CASE UNCHANGED <<created, associated, tasks>>
  BY <1>2, PromiseStutter DEF Solved
<1> QED
  BY <1>1, <1>2 DEF Next, Rest, vars, aws, Receive, MappingFails, Abort, DeadLetter,
     Replicate, AwsCatchesUp

\* The pipeline implements the abstract promise.
THEOREM PromiseKept ==
    ASSUME StrongReads
    PROVE  Spec => ImplementsPromise
<1>1. ResInv /\ [Next]_vars => ResInv'
  BY ReservationNext
<1>2. ResInv /\ ResInv' /\ [Next]_vars => [Promise!Next]_Promise!vars
  BY PromiseNext
<1> QED
  BY <1>1, <1>2, ReservationInit, PromiseInit, PTL DEF Spec, ImplementsPromise, Promise!Spec
=============================================================================
