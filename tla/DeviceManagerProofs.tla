------------------------ MODULE DeviceManagerProofs ------------------------
(***************************************************************************)
(* Proofs about DeviceManager, for any processes, clients, resources and   *)
(* component identities.                                                   *)
(***************************************************************************)
EXTENDS DeviceManager, TLAPS

\* The failures that were not marked too late.
Live == fault \ unseen

\* Somebody opens the resource, and has its flocks.
Opening(p, r) == \E a \in Agents : stage[p][a] = "opening" /\ target[p][a] = r

\* The flocks of the record are given up: its close is in its last section.
Unlocked(p, r) == \E a \in Agents : stage[p][a] = "unlocked" /\ target[p][a] = r

Holds(p, r) == Opening(p, r) \/ (record[p][r].present /\ ~Unlocked(p, r))

\* What the acquire under way knows: one that is to prepare found no mark.
Known(p) == IF asked[p] THEN {} ELSE unresolved[p]

\* An agent has a resource in hand exactly while it opens, releases or closes it.
AgentOK(p, a) ==
    /\ stage[p][a] = "none" <=> target[p][a] = NoResource
    /\ stage[p][a] \in Acquiring => ~record[p][target[p][a]].present
    /\ stage[p][a] \notin Acquiring \cup {"none"} => record[p][target[p][a]].present
    /\ stage[p][a] \in InClose => record[p][target[p][a]].closing
    /\ stage[p][a] \in Clearing \cup {"closed", "unlocked"} => ~handle[p][target[p][a]]

AgentInv == \A p \in Processes, a \in Agents : AgentOK(p, a)

\* The manager's lock is held by one thread.
OneAcquirer ==
    \A p \in Processes, a, b \in Agents :
        stage[p][a] \in Acquiring /\ stage[p][b] \in Acquiring => a = b

\* Leases belong to records, connections to records or to an opener.
RecordInv ==
    \A p \in Processes, r \in Resources :
        /\ leases[p][r] # {} => record[p][r].present
        /\ handle[p][r] => record[p][r].present \/ Opening(p, r)

\* An opener or a record of this node holds the flock of every identity of the
\* resource, until its close gives them up.
FlockInv ==
    \A p \in Processes, r \in Resources \ External :
        Holds(p, r) => \A i \in Needs(r) : flock[i] = <<p, r>>

\* What an agent knows of the failures of the resource it has in hand: all that were
\* marked before it read the ledger, and no other but those marked since; one that
\* goes to clear the ledger has found none.
KnowledgeOK(p, a) ==
    LET live == Needs(target[p][a]) \cap Live IN
    /\ stage[p][a] = "reading" => live \subseteq Known(p) \cup late[p]
    /\ stage[p][a] = "opening" => live \subseteq Known(p)
    /\ stage[p][a] \in Clearing => live = {}

\* Who knows of a fault: the ledger, whoever has read it, and the record, when it
\* has the flocks.
FaultInv ==
    /\ \A i \in fault : \E s \in Resources \ External : i \in Needs(s)
    /\ \A p \in Processes, a \in Agents :
          stage[p][a] # "none" /\ target[p][a] \notin External => KnowledgeOK(p, a)
    /\ \A p \in Processes, r \in Resources \ External :
          record[p][r].present /\ ~Unlocked(p, r) /\ Needs(r) \cap Live # {}
              => record[p][r].uncertainBefore

IInv ==
    /\ TypeOK /\ AgentInv /\ OneAcquirer /\ OneCloser
    /\ RecordInv /\ FlockInv /\ FaultInv /\ FaultKept

-----------------------------------------------------------------------------

\* Updates of one field of a manager's record keep its type.
LEMMA RecordFields ==
    ASSUME NEW f \in [Processes -> [Resources -> Records]], NEW p \in Processes, NEW r \in Resources
    PROVE  /\ [f EXCEPT ![p][r].closing = TRUE] \in [Processes -> [Resources -> Records]]
           /\ [f EXCEPT ![p][r].uncertain = TRUE] \in [Processes -> [Resources -> Records]]
           /\ [f EXCEPT ![p][r].prepared = TRUE, ![p][r].uncertain = FALSE]
                 \in [Processes -> [Resources -> Records]]
           /\ [f EXCEPT ![p][r].uncertain = TRUE, ![p][r].uncertainBefore = TRUE]
                 \in [Processes -> [Resources -> Records]]
           /\ [f EXCEPT ![p][r].closing = FALSE, ![p][r].uncertain = TRUE]
                 \in [Processes -> [Resources -> Records]]
<1>1. f[p][r] \in Records
  OBVIOUS
<1>2. /\ [f[p][r] EXCEPT !.closing = TRUE] \in Records
      /\ [f[p][r] EXCEPT !.uncertain = TRUE] \in Records
      /\ [f[p][r] EXCEPT !.prepared = TRUE, !.uncertain = FALSE] \in Records
      /\ [f[p][r] EXCEPT !.uncertain = TRUE, !.uncertainBefore = TRUE] \in Records
      /\ [f[p][r] EXCEPT !.closing = FALSE, !.uncertain = TRUE] \in Records
  BY <1>1 DEF Records
<1> QED
  BY <1>2

\* The identities of a resource are physical identities.
LEMMA NeedsType == \A r \in Resources : Needs(r) \subseteq Identities /\ r \in Needs(r)
BY DevicesAssumption DEF Needs, Identities

\* An agent that is releasing or closing has a record of a resource in hand.
LEMMA TargetType ==
    ASSUME TypeOK, AgentInv, NEW p \in Processes, NEW a \in Agents, stage[p][a] # "none"
    PROVE  target[p][a] \in Resources
BY DEF TypeOK, AgentInv, AgentOK

\* A report keeps the types of the ledger and of the histories.
LEMMA ReportTypes ==
    ASSUME TypeOK, NEW p \in Processes, NEW r \in Resources, NEW ids \in SUBSET Identities,
           Report(p, r, ids)
    PROVE  /\ ledger' \in SUBSET Identities
           /\ fault' \in SUBSET Identities /\ unseen' \in SUBSET Identities
           /\ late' \in [Processes -> SUBSET Identities]
<1>1. ledger' \in SUBSET Identities
  BY DEF Report, TypeOK
<1>2. CASE r \in External
  BY <1>1, <1>2 DEF Report, TypeOK, faultVars
<1>3. CASE r \notin External
  <2>1. fault' \in SUBSET Identities /\ unseen' \in SUBSET Identities
    BY <1>3 DEF Report, TypeOK, TooLate
  <2>2. late' = [q \in Processes |-> late[q] \cup
                   {i \in ids : \E a \in Agents :
                        stage[q][a] = "reading" /\ i \in Needs(target[q][a])}]
    BY <1>3 DEF Report
  <2>3. late' \in [Processes -> SUBSET Identities]
    BY <2>2 DEF TypeOK
  <2> QED
    BY <1>1, <2>1, <2>3
<1> QED
  BY <1>2, <1>3

\* The end of an acquire keeps the types.
LEMMA EndTypes ==
    ASSUME TypeOK, NEW p \in Processes, NEW c \in Agents, AcquireEnds(p, c)
    PROVE  /\ stage' \in [Processes -> [Agents -> Stages]]
           /\ target' \in [Processes -> [Agents -> Resources \cup {NoResource}]]
           /\ unresolved' \in [Processes -> SUBSET Identities]
           /\ asked' \in [Processes -> BOOLEAN]
<1>1. "none" \in Stages
  BY DEF Stages
<1> QED
  BY <1>1 DEF AcquireEnds, TypeOK

\* Taking and giving up flocks keeps their type.
LEMMA FlockTypes ==
    ASSUME TypeOK, NEW p \in Processes, NEW r \in Resources,
           TakeFlocks(p, r) \/ GiveFlocks(p, r)
    PROVE  flock' \in [Identities -> (Processes \X Resources) \cup {NoOwner}]
<1>1. flock \in [Identities -> (Processes \X Resources) \cup {NoOwner}]
  BY DEF TypeOK
<1>2. <<p, r>> \in Processes \X Resources
  OBVIOUS
<1>3. CASE TakeFlocks(p, r)
  BY <1>1, <1>2, <1>3 DEF TakeFlocks
<1>4. CASE GiveFlocks(p, r)
  BY <1>1, <1>4 DEF GiveFlocks
<1> QED
  BY <1>3, <1>4

\* The steps of an acquire keep the types.
LEMMA AcquireTypes ==
    ASSUME IInv, NEW p \in Processes, NEW c \in Clients, AcquireStep(p, c)
    PROVE  TypeOK'
<1> USE DEF IInv
<1>0. c \in Agents
  BY DEF Agents
<1>r. target[p][c] \in Resources
  BY <1>0, TargetType DEF AcquireStep, AcquireLocks, AcquireBusy, AcquireOpens, OpenFails,
     OpenFailsHalfway
<1> DEFINE r == target[p][c]
<1>1. CASE AcquireLocks(p, c)
  <2>1. flock' \in [Identities -> (Processes \X Resources) \cup {NoOwner}]
    BY <1>1, <1>r, FlockTypes DEF AcquireLocks
  <2>2. handle' \in [Processes -> [Resources -> BOOLEAN]]
    BY <1>1, <1>r DEF AcquireLocks, TypeOK
  <2>3. stage' \in [Processes -> [Agents -> Stages]]
    BY <1>1, <1>0 DEF AcquireLocks, TypeOK, Stages, Acquiring
  <2>4. unseen' \in SUBSET Identities /\ late' \in [Processes -> SUBSET Identities]
    BY <1>1 DEF AcquireLocks, TypeOK
  <2> QED
    BY <1>1, <2>1, <2>2, <2>3, <2>4 DEF AcquireLocks, TypeOK, acquireVars
<1>2. CASE AcquireBusy(p, c)
  <2>1. late' \in [Processes -> SUBSET Identities]
    BY <1>2 DEF AcquireBusy, TypeOK
  <2> QED
    BY <1>2, <1>0, <2>1, EndTypes DEF AcquireBusy, TypeOK
<1>3. CASE AcquireOpens(p, c)
  <2>1. record' \in [Processes -> [Resources -> Records]]
    <3>0. PICK m \in BOOLEAN : m = (Needs(r) \cap unresolved[p] # {})
      OBVIOUS
    <3>1. [present |-> TRUE, prepared |-> asked[p], uncertain |-> m,
           uncertainBefore |-> m, closing |-> FALSE] \in Records
      BY DEF Records, TypeOK
    <3> QED
      BY <1>3, <1>r, <3>0, <3>1 DEF AcquireOpens, TypeOK
  <2>2. leases' \in [Processes -> [Resources -> SUBSET Clients]]
    BY <1>3, <1>r DEF AcquireOpens, TypeOK
  <2> QED
    BY <1>3, <1>0, <2>1, <2>2, EndTypes DEF AcquireOpens, TypeOK, faultVars
<1>4. CASE OpenFails(p, c)
  <2>1. flock' \in [Identities -> (Processes \X Resources) \cup {NoOwner}]
    BY <1>4, <1>r, FlockTypes DEF OpenFails
  <2>2. handle' \in [Processes -> [Resources -> BOOLEAN]]
    BY <1>4, <1>r DEF OpenFails, TypeOK
  <2> QED
    BY <1>4, <1>0, <2>1, <2>2, EndTypes DEF OpenFails, TypeOK, faultVars
<1>5. CASE OpenFailsHalfway(p, c)
  <2>1. record' \in [Processes -> [Resources -> Records]]
    <3>1. [present |-> TRUE, prepared |-> FALSE, uncertain |-> TRUE,
           uncertainBefore |-> TRUE, closing |-> FALSE] \in Records
      BY DEF Records
    <3> QED
      BY <1>5, <1>r, <3>1 DEF OpenFailsHalfway, TypeOK
  <2>2. /\ ledger' \in SUBSET Identities
        /\ fault' \in SUBSET Identities /\ unseen' \in SUBSET Identities
        /\ late' \in [Processes -> SUBSET Identities]
    BY <1>5, <1>r, NeedsType, ReportTypes DEF OpenFailsHalfway
  <2> QED
    BY <1>5, <1>0, <2>1, <2>2, EndTypes DEF OpenFailsHalfway, TypeOK
<1> QED
  BY <1>1, <1>2, <1>3, <1>4, <1>5 DEF AcquireStep

\* Every action keeps the types.
LEMMA TypeStep ==
    ASSUME IInv, Next
    PROVE  TypeOK'
<1> USE DEF IInv
<1>0. Clients \subseteq Agents /\ Shutdown \in Agents
  BY DEF Agents
<1>t. record \in [Processes -> [Resources -> Records]]
  BY DEF TypeOK
<1>1. ASSUME NEW p \in Processes, NEW c \in Clients, NEW r \in Resources, LeaseNext(p, c, r)
      PROVE  TypeOK'
  <2>1. CASE AcquireShared(p, c, r)
    BY <2>1 DEF AcquireShared, TypeOK, agentVars, acquireVars, faultVars
  <2>2. CASE AcquirePrepared(p, c, r)
    <3>1. record' \in [Processes -> [Resources -> Records]]
      BY <2>2, RecordFields DEF AcquirePrepared, TypeOK
    <3>2. leases' \in [Processes -> [Resources -> SUBSET Clients]]
      BY <2>2 DEF AcquirePrepared, TypeOK
    <3> QED
      BY <2>2, <3>1, <3>2 DEF AcquirePrepared, TypeOK, agentVars, acquireVars, faultVars
  <2>3. CASE PrepareFails(p, c, r)
    <3>1. record' \in [Processes -> [Resources -> Records]]
      BY <2>3, RecordFields DEF PrepareFails, TypeOK
    <3>2. /\ ledger' \in SUBSET Identities
          /\ fault' \in SUBSET Identities /\ unseen' \in SUBSET Identities
          /\ late' \in [Processes -> SUBSET Identities]
      BY <2>3, NeedsType, ReportTypes DEF PrepareFails
    <3> QED
      BY <2>3, <3>1, <3>2 DEF PrepareFails, TypeOK, agentVars, acquireVars
  <2>4. ASSUME NEW prepare \in BOOLEAN, AcquireReads(p, c, r, prepare) PROVE TypeOK'
    <3>1. stage' \in [Processes -> [Agents -> Stages]]
      BY <2>4, <1>0 DEF AcquireReads, TypeOK, Stages, Acquiring
    <3>2. target' \in [Processes -> [Agents -> Resources \cup {NoResource}]]
      BY <2>4, <1>0 DEF AcquireReads, TypeOK
    <3>3. unresolved' \in [Processes -> SUBSET Identities] /\ asked' \in [Processes -> BOOLEAN]
      BY <2>4 DEF AcquireReads, TypeOK
    <3> QED
      BY <2>4, <3>1, <3>2, <3>3 DEF AcquireReads, TypeOK, faultVars
  <2>6. CASE Release(p, c, r)
    <3>1. leases' \in [Processes -> [Resources -> SUBSET Clients]]
      BY <2>6 DEF Release, TypeOK
    <3>2. CASE leases[p][r] = {c}
      <4>1. stage' = [stage EXCEPT ![p][c] = "released"] /\ target' = [target EXCEPT ![p][c] = r]
        BY <2>6, <3>2 DEF Release
      <4> QED
        BY <2>6, <3>1, <4>1, <1>0 DEF Release, TypeOK, Stages, acquireVars, faultVars
    <3>3. CASE leases[p][r] # {c}
      BY <2>6, <3>1, <3>3 DEF Release, TypeOK, acquireVars, faultVars
    <3> QED
      BY <3>2, <3>3
  <2> QED
    BY <1>1, <2>1, <2>2, <2>3, <2>4, <2>6 DEF LeaseNext
<1>2. ASSUME NEW p \in Processes, NEW a \in Agents, CloseStep(p, a)
      PROVE  TypeOK'
  <2>1. target[p][a] \in Resources
    BY <1>2, TargetType DEF CloseStep, CloseBegins, CloseWaits, WaitEnds, CloserReturns,
       CloserFails, PopUnresolved, ClearLedger, Unlock, Forget, Quarantine
  <2>0. ASSUME NEW s \in Stages, Moves(p, a, s)
        PROVE  /\ stage' \in [Processes -> [Agents -> Stages]]
               /\ target' \in [Processes -> [Agents -> Resources \cup {NoResource}]]
    BY <2>0 DEF Moves, TypeOK
  <2>s. {"none", "waiting", "closing", "clearing", "popped", "closed", "unlocked", "failed"}
           \subseteq Stages
    BY DEF Stages, InClose, Clearing
  <2>2a. CASE CloseBegins(p, a)
    <3>1. record' \in [Processes -> [Resources -> Records]]
      BY <1>t, <2>1, <2>2a, RecordFields DEF CloseBegins
    <3> QED
      BY <2>2a, <2>0, <2>s, <3>1 DEF CloseBegins, TypeOK, acquireVars, faultVars
  <2>2b. CASE CloseWaits(p, a) \/ WaitEnds(p, a)
    BY <2>2b, <2>0, <2>s DEF CloseWaits, WaitEnds, TypeOK, acquireVars, faultVars
  <2>2c. CASE CloserReturns(p, a)
    <3>1. handle' \in [Processes -> [Resources -> BOOLEAN]]
      BY <2>1, <2>2c DEF CloserReturns, TypeOK
    <3> QED
      BY <2>2c, <2>0, <2>s, <3>1 DEF CloserReturns, TypeOK, acquireVars, faultVars
  <2>3. CASE CloserFails(p, a)
    <3>1. record' \in [Processes -> [Resources -> Records]]
      BY <1>t, <2>1, <2>3, RecordFields DEF CloserFails
    <3>2. ledger' \in SUBSET Identities /\ unresolved' \in [Processes -> SUBSET Identities]
      BY <2>1, <2>3, NeedsType DEF CloserFails, TypeOK
    <3> QED
      BY <2>3, <2>0, <2>s, <3>1, <3>2 DEF CloserFails, TypeOK, faultVars
  <2>4a. CASE PopUnresolved(p, a)
    <3>1. unresolved' \in [Processes -> SUBSET Identities]
      BY <2>4a DEF PopUnresolved, TypeOK
    <3> QED
      BY <2>4a, <2>0, <2>s, <3>1 DEF PopUnresolved, TypeOK, faultVars
  <2>4. CASE ClearLedger(p, a)
    BY <2>4, <2>0, <2>s DEF ClearLedger, TypeOK, acquireVars, faultVars
  <2>5. CASE Unlock(p, a)
    <3>1. flock' \in [Identities -> (Processes \X Resources) \cup {NoOwner}]
      BY <2>1, <2>5, FlockTypes DEF Unlock
    <3> QED
      BY <2>5, <2>0, <2>s, <3>1 DEF Unlock, TypeOK, acquireVars, faultVars
  <2>6. CASE Forget(p, a)
    <3>1. NoRecord \in Records
      BY DEF NoRecord, Records
    <3> QED
      BY <2>1, <2>6, <2>s, <3>1 DEF Forget, TypeOK, acquireVars, faultVars
  <2>7. CASE Quarantine(p, a)
    <3>1. record' \in [Processes -> [Resources -> Records]]
      BY <1>t, <2>1, <2>7, RecordFields DEF Quarantine
    <3> QED
      BY <2>1, <2>7, <2>0, <2>s, <3>1 DEF Quarantine, TypeOK, acquireVars, faultVars
  <2> QED
    BY <1>2, <2>2a, <2>2b, <2>2c, <2>3, <2>4a, <2>4, <2>5, <2>6, <2>7 DEF CloseStep
<1>3. ASSUME NEW p \in Processes, ManagerNext(p)
      PROVE  TypeOK'
  <2>1. CASE Close(p)
    BY <2>1 DEF Close, TypeOK, acquireVars, faultVars
  <2>2. CASE Crash(p)
    <3>1. NoRecord \in Records /\ "none" \in Stages
      BY DEF NoRecord, Records, Stages
    <3> QED
      BY <2>2, <3>1 DEF Crash, TypeOK
  <2>3. ASSUME NEW r \in Resources, CloseNext(p, r) PROVE TypeOK'
    <3>1. CASE record[p][r].present
      <4>1. /\ stage' = [stage EXCEPT ![p][Shutdown] = "released"]
            /\ target' = [target EXCEPT ![p][Shutdown] = r]
        BY <2>3, <3>1 DEF CloseNext
      <4> QED
        BY <2>3, <4>1, <1>0 DEF CloseNext, TypeOK, Stages, acquireVars, faultVars
    <3>2. CASE ~record[p][r].present
      BY <2>3, <3>2 DEF CloseNext, TypeOK, acquireVars, faultVars
    <3> QED
      BY <3>1, <3>2
  <2>4. ASSUME NEW r \in Resources, MarkUncertain(p, r) PROVE TypeOK'
    <3>1. record' \in [Processes -> [Resources -> Records]]
      <4>1. CASE record[p][r].present
        <5>1. record' = [record EXCEPT ![p][r].uncertain = TRUE, ![p][r].uncertainBefore = TRUE]
          BY <2>4, <4>1 DEF MarkUncertain
        <5>2. [record EXCEPT ![p][r].uncertain = TRUE, ![p][r].uncertainBefore = TRUE]
                 \in [Processes -> [Resources -> Records]]
          BY <1>t, RecordFields
        <5> QED
          BY <5>1, <5>2
      <4>2. CASE ~record[p][r].present
        BY <1>t, <2>4, <4>2 DEF MarkUncertain
      <4> QED
        BY <4>1, <4>2
    <3>2. PICK ids \in SUBSET Identities : Report(p, r, ids)
      BY <2>4, NeedsType DEF MarkUncertain
    <3>3. /\ ledger' \in SUBSET Identities
          /\ fault' \in SUBSET Identities /\ unseen' \in SUBSET Identities
          /\ late' \in [Processes -> SUBSET Identities]
      BY <3>2, ReportTypes
    <3> QED
      BY <2>4, <3>1, <3>3 DEF MarkUncertain, TypeOK, agentVars, acquireVars
  <2> QED
    BY <1>3, <2>1, <2>2, <2>3, <2>4 DEF ManagerNext
<1>4. ASSUME NEW i \in Identities, ClearUncertainty(i) PROVE TypeOK'
  BY <1>4 DEF ClearUncertainty, TypeOK, agentVars, acquireVars
<1>5. ASSUME NEW p \in Processes, NEW c \in Clients, AcquireStep(p, c) PROVE TypeOK'
  BY <1>5, AcquireTypes
<1> QED
  BY <1>1, <1>2, <1>3, <1>4, <1>5 DEF Next
-----------------------------------------------------------------------------

\* What a step of a close does to the agents: one of them moves on, and the
\* record in its hand is another agent's business only outside the close.
LEMMA MoveKeepsAgents ==
    ASSUME IInv, NEW p \in Processes, NEW a \in Agents, NEW s \in Stages \ Acquiring,
           Moves(p, a, s),
           stage[p][a] \notin Acquiring \cup {"none"},
           \A q \in Processes, r \in Resources :
              record'[q][r].present = record[q][r].present,
           \A q \in Processes, r \in Resources :
              handle'[q][r] => handle[q][r],
           \A q \in Processes, b \in Agents :
              <<q, b>> # <<p, a>> /\ stage[q][b] \in InClose
                  => record'[q][target[q][b]].closing,
           s \in InClose => record'[p][target[p][a]].closing,
           s \in InClose => stage[p][a] \in InClose \/ ~record[p][target[p][a]].closing,
           s \in Clearing \cup {"closed", "unlocked"} => ~handle'[p][target[p][a]]
    PROVE  AgentInv' /\ OneCloser' /\ OneAcquirer'
<1> USE DEF IInv
<1>1. target[p][a] \in Resources
  BY TargetType
<1>2. \A q \in Processes, b \in Agents :
         <<q, b>> # <<p, a>> => stage'[q][b] = stage[q][b] /\ target'[q][b] = target[q][b]
  BY DEF Moves, TypeOK
<1>3. /\ stage'[p][a] = s
      /\ target'[p][a] = IF s = "none" THEN NoResource ELSE target[p][a]
  BY DEF Moves, TypeOK
<1>0. "none" \notin InClose \cup Acquiring \cup Clearing
  BY DEF InClose, Acquiring, Clearing
<1>4. ASSUME NEW q \in Processes, NEW b \in Agents PROVE AgentOK(q, b)'
  <2>1. CASE <<q, b>> = <<p, a>>
    <3>1. q = p /\ b = a /\ record[p][target[p][a]].present
      BY <2>1 DEF AgentInv, AgentOK
    <3>2. CASE s = "none"
      BY <1>0, <1>3, <3>1, <3>2 DEF AgentOK
    <3>3. CASE s # "none"
      <4>1. target'[p][a] = target[p][a] /\ target[p][a] # NoResource
        BY <1>1, <1>3, <3>3, DevicesAssumption
      <4> QED
        BY <1>1, <1>3, <3>1, <3>3, <4>1 DEF AgentOK
    <3> QED
      BY <3>2, <3>3
  <2>2. CASE <<q, b>> # <<p, a>> /\ stage[q][b] = "none"
    BY <1>0, <1>2, <2>2 DEF AgentInv, AgentOK
  <2>3. CASE <<q, b>> # <<p, a>> /\ stage[q][b] # "none"
    BY <1>2, <2>3, TargetType DEF AgentInv, AgentOK
  <2> QED
    BY <2>1, <2>2, <2>3
<1>5. ASSUME NEW q \in Processes, NEW b1 \in Agents, NEW b2 \in Agents, b1 # b2,
             stage'[q][b1] \in InClose, stage'[q][b2] \in InClose
      PROVE  target'[q][b1] # target'[q][b2]
  <2>1. CASE <<q, b1>> # <<p, a>> /\ <<q, b2>> # <<p, a>>
    BY <1>2, <1>5, <2>1 DEF OneCloser
  <2>2. ASSUME NEW b \in Agents, b # a, stage[p][b] \in InClose, s \in InClose
        PROVE  target[p][b] # target[p][a]
    BY <2>2, <1>1 DEF OneCloser, AgentInv, AgentOK
  <2> QED
    BY <1>0, <1>2, <1>3, <1>5, <2>1, <2>2
<1>6. OneAcquirer'
  BY <1>2, <1>3 DEF OneAcquirer
<1> QED
  BY <1>4, <1>5, <1>6 DEF AgentInv, OneCloser

\* Steps that move no agent, and leave the records and connections that agents
\* have in hand as they are.
LEMMA RestKeepsAgents ==
    ASSUME IInv, UNCHANGED <<stage, target>>,
           \A q \in Processes, r \in Resources :
              /\ record'[q][r].present = record[q][r].present
              /\ record[q][r].present => record'[q][r].closing = record[q][r].closing
              /\ handle'[q][r] = handle[q][r]
    PROVE  AgentInv' /\ OneCloser' /\ OneAcquirer'
<1>0. "none" \notin InClose \cup Acquiring \cup Clearing \cup {"closed", "unlocked"}
  BY DEF InClose, Acquiring, Clearing
<1>i. InClose \cap Acquiring = {} /\ Clearing \cup {"closed", "unlocked"} \subseteq InClose
  BY DEF InClose, Acquiring, Clearing
<1>1. ASSUME NEW q \in Processes, NEW b \in Agents PROVE AgentOK(q, b)'
  <2>1. CASE stage[q][b] = "none"
    BY <1>0, <2>1 DEF IInv, AgentInv, AgentOK
  <2>2. CASE stage[q][b] # "none"
    BY <1>i, <2>2, TargetType DEF IInv, AgentInv, AgentOK
  <2> QED
    BY <2>1, <2>2
<1> QED
  BY <1>1 DEF IInv, AgentInv, OneCloser, OneAcquirer

\* Steps of an acquire that found no record: nobody else has the resource in hand.
LEMMA AcquireKeepsAgents ==
    ASSUME IInv, NEW p \in Processes, NEW c \in Agents, NEW t \in Resources,
           NEW s \in Acquiring \cup {"none"},
           stage' = [stage EXCEPT ![p][c] = s],
           target' = [target EXCEPT ![p][c] = IF s = "none" THEN NoResource ELSE t],
           ~record[p][t].present,
           \/ stage[p][c] = "none" /\ LockFree(p)
           \/ stage[p][c] \in Acquiring /\ target[p][c] = t,
           \A q \in Processes, r \in Resources : <<q, r>> # <<p, t>> =>
              record'[q][r] = record[q][r] /\ handle'[q][r] = handle[q][r],
           s # "none" => record' = record
    PROVE  AgentInv' /\ OneCloser' /\ OneAcquirer'
<1> USE DEF IInv
<1>0. "none" \notin InClose \cup Acquiring \cup Clearing \cup {"closed", "unlocked"}
  BY DEF InClose, Acquiring, Clearing
<1>i. InClose \cap Acquiring = {} /\ Clearing \cup {"closed", "unlocked"} \subseteq InClose
  BY DEF InClose, Acquiring, Clearing
<1>2. \A q \in Processes, b \in Agents :
         <<q, b>> # <<p, c>> => stage'[q][b] = stage[q][b] /\ target'[q][b] = target[q][b]
  BY DEF TypeOK
<1>3. /\ stage'[p][c] = s
      /\ target'[p][c] = IF s = "none" THEN NoResource ELSE t
  BY DEF TypeOK
<1>4. \A b \in Agents \ {c} : stage[p][b] \notin Acquiring
  BY DEF LockFree, OneAcquirer
<1>5. ASSUME NEW q \in Processes, NEW b \in Agents, <<q, b>> # <<p, c>>, stage[q][b] # "none"
      PROVE  target[q][b] \in Resources /\ <<q, target[q][b]>> # <<p, t>>
  BY <1>4, <1>5, TargetType DEF AgentInv, AgentOK
<1>6. ASSUME NEW q \in Processes, NEW b \in Agents PROVE AgentOK(q, b)'
  <2>1. CASE <<q, b>> = <<p, c>> /\ s = "none"
    <3>1. q = p /\ b = c
      BY <2>1
    <3> QED
      BY <1>0, <1>3, <2>1, <3>1 DEF AgentOK
  <2>2. CASE <<q, b>> = <<p, c>> /\ s # "none"
    <3>1. q = p /\ b = c /\ t # NoResource /\ s \in Acquiring
      BY <2>2, DevicesAssumption
    <3> QED
      BY <1>0, <1>i, <1>3, <2>2, <3>1 DEF AgentOK
  <2>3. CASE <<q, b>> # <<p, c>> /\ stage[q][b] = "none"
    BY <1>0, <1>2, <2>3 DEF AgentInv, AgentOK
  <2>4. CASE <<q, b>> # <<p, c>> /\ stage[q][b] # "none"
    <3>1. /\ record'[q][target[q][b]] = record[q][target[q][b]]
          /\ handle'[q][target[q][b]] = handle[q][target[q][b]]
      BY <1>5, <2>4
    <3> QED
      BY <1>2, <2>4, <3>1 DEF AgentInv, AgentOK
  <2> QED
    BY <2>1, <2>2, <2>3, <2>4
<1>7. OneCloser'
  BY <1>0, <1>i, <1>2, <1>3 DEF OneCloser
<1>8. OneAcquirer'
  BY <1>2, <1>3, <1>4 DEF OneAcquirer
<1> QED
  BY <1>6, <1>7, <1>8 DEF AgentInv

\* The steps of an acquire, up to what they do to agents.
LEMMA AcquireTarget ==
    ASSUME IInv, NEW p \in Processes, NEW c \in Clients, AcquireStep(p, c)
    PROVE  /\ c \in Agents /\ target[p][c] \in Resources
           /\ stage[p][c] \in Acquiring
           /\ ~record[p][target[p][c]].present
           /\ \A b \in Agents : stage[p][b] \in Acquiring => b = c
           /\ \A b \in Agents : target[p][b] = target[p][c] => b = c
<1> USE DEF IInv
<1>0. c \in Agents
  BY DEF Agents
<1>1. stage[p][c] \in Acquiring
  BY DEF AcquireStep, AcquireLocks, AcquireBusy, AcquireOpens, OpenFails, OpenFailsHalfway,
     Acquiring
<1>2. stage[p][c] # "none"
  BY <1>1 DEF Acquiring
<1>3. target[p][c] \in Resources /\ ~record[p][target[p][c]].present
  BY <1>0, <1>1, <1>2, TargetType DEF AgentInv, AgentOK
<1>4. \A b \in Agents : stage[p][b] \in Acquiring => b = c
  BY <1>0, <1>1 DEF OneAcquirer
<1>5. \A b \in Agents : target[p][b] = target[p][c] => b = c
  BY <1>3, <1>4, DevicesAssumption DEF AgentInv, AgentOK
<1> QED
  BY <1>0, <1>1, <1>3, <1>4, <1>5

\* Every step of an acquire keeps agents and records together.
LEMMA AcquireAgents ==
    ASSUME IInv, NEW p \in Processes, NEW c \in Clients, AcquireStep(p, c)
    PROVE  AgentInv' /\ OneCloser' /\ OneAcquirer'
<1> USE DEF IInv
<1> DEFINE t == target[p][c]
<1>0. /\ c \in Agents /\ t \in Resources /\ stage[p][c] \in Acquiring /\ ~record[p][t].present
  BY AcquireTarget
<1>r. /\ record \in [Processes -> [Resources -> Records]]
      /\ handle \in [Processes -> [Resources -> BOOLEAN]]
      /\ target \in [Processes -> [Agents -> Resources \cup {NoResource}]]
  BY DEF TypeOK
<1> HIDE DEF t
<1>1. CASE AcquireLocks(p, c)
  <2>1. PICK s \in Acquiring : s = "opening"
    BY DEF Acquiring
  <2>2. stage' = [stage EXCEPT ![p][c] = s] /\ record' = record
    BY <1>1, <2>1 DEF AcquireLocks
  <2>3. target' = [target EXCEPT ![p][c] = IF s = "none" THEN NoResource ELSE t]
    BY <1>0, <1>r, <1>1, <2>1 DEF AcquireLocks, t
  <2>4. \A q \in Processes, r \in Resources : <<q, r>> # <<p, t>> => handle'[q][r] = handle[q][r]
    BY <1>0, <1>r, <1>1 DEF AcquireLocks, t
  <2>5. target[p][c] = t /\ s \in Acquiring \cup {"none"}
    BY DEF t
  <2>6. \A q \in Processes, r \in Resources : <<q, r>> # <<p, t>> =>
            record'[q][r] = record[q][r] /\ handle'[q][r] = handle[q][r]
    BY <2>2, <2>4
  <2> QED
    BY <1>0, <2>2, <2>3, <2>5, <2>6, AcquireKeepsAgents
<1>2. ASSUME AcquireEnds(p, c),
             \A q \in Processes, r \in Resources : <<q, r>> # <<p, t>> =>
                record'[q][r] = record[q][r] /\ handle'[q][r] = handle[q][r]
      PROVE  AgentInv' /\ OneCloser' /\ OneAcquirer'
  BY <1>0, <1>2, AcquireKeepsAgents DEF AcquireEnds, t
<1>3. CASE AcquireBusy(p, c)
  BY <1>2, <1>3 DEF AcquireBusy
<1>4. CASE AcquireOpens(p, c)
  BY <1>0, <1>r, <1>2, <1>4 DEF AcquireOpens, t
<1>5. CASE OpenFails(p, c)
  BY <1>0, <1>r, <1>2, <1>5 DEF OpenFails, t
<1>6. CASE OpenFailsHalfway(p, c)
  BY <1>0, <1>r, <1>2, <1>6 DEF OpenFailsHalfway, t
<1> QED
  BY <1>1, <1>3, <1>4, <1>5, <1>6 DEF AcquireStep

\* Every action keeps agents, records and connections together, one closer per
\* record and one acquirer.
LEMMA AgentStep ==
    ASSUME IInv, Next
    PROVE  AgentInv' /\ OneCloser' /\ OneAcquirer'
<1> USE DEF IInv
<1>0. Clients \subseteq Agents /\ Shutdown \in Agents /\ NoResource \notin Resources
  BY DevicesAssumption DEF Agents
<1>i. /\ "none" \notin InClose \cup Acquiring \cup Clearing
      /\ "released" \notin InClose \cup Acquiring \cup Clearing \cup {"none", "closed", "unlocked"}
      /\ {"closing", "failed"} \subseteq Stages \ (Acquiring \cup Clearing)
      /\ Clearing \cup {"closed", "unlocked"} \subseteq InClose
      /\ InClose \subseteq Stages \ (Acquiring \cup {"none"})
      /\ {"waiting", "none"} \subseteq Stages \ (Acquiring \cup InClose)
  BY DEF InClose, Acquiring, Clearing, Stages
<1>1. ASSUME NEW p \in Processes, NEW c \in Clients, NEW r \in Resources, LeaseNext(p, c, r)
      PROVE  AgentInv' /\ OneCloser' /\ OneAcquirer'
  <2>1. CASE AcquireShared(p, c, r)
    BY <2>1, RestKeepsAgents DEF AcquireShared, agentVars
  <2>2. CASE AcquirePrepared(p, c, r)
    BY <2>2, RestKeepsAgents DEF AcquirePrepared, agentVars, TypeOK, Records
  <2>3. CASE PrepareFails(p, c, r)
    BY <2>3, RestKeepsAgents DEF PrepareFails, agentVars, TypeOK, Records
  <2>4. ASSUME NEW prepare \in BOOLEAN, AcquireReads(p, c, r, prepare)
        PROVE  AgentInv' /\ OneCloser' /\ OneAcquirer'
    <3>1. PICK s \in Acquiring : s = "reading"
      BY DEF Acquiring
    <3>2. /\ stage' = [stage EXCEPT ![p][c] = s] /\ record' = record /\ handle' = handle
          /\ target' = [target EXCEPT ![p][c] = IF s = "none" THEN NoResource ELSE r]
          /\ stage[p][c] = "none" /\ LockFree(p) /\ ~record[p][r].present
      BY <2>4, <3>1 DEF AcquireReads, Calls
    <3> QED
      BY <1>0, <3>2, AcquireKeepsAgents
  <2>6. CASE Release(p, c, r) /\ leases[p][r] # {c}
    BY <2>6, RestKeepsAgents DEF Release
  <2>7. CASE Release(p, c, r) /\ leases[p][r] = {c}
    <3>1. /\ stage' = [stage EXCEPT ![p][c] = "released"]
          /\ target' = [target EXCEPT ![p][c] = r]
          /\ record' = record /\ handle' = handle /\ record[p][r].present
      BY <2>7 DEF Release, RecordInv
    <3>4. /\ \A q \in Processes, b \in Agents : <<q, b>> # <<p, c>> =>
                stage'[q][b] = stage[q][b] /\ target'[q][b] = target[q][b]
          /\ stage'[p][c] = "released" /\ target'[p][c] = r
      BY <3>1, <1>0 DEF TypeOK
    <3>2. ASSUME NEW q \in Processes, NEW b \in Agents PROVE AgentOK(q, b)'
      <4>1. CASE <<q, b>> # <<p, c>>
        BY <3>1, <3>4, <4>1 DEF AgentInv, AgentOK
      <4>2. CASE q = p /\ b = c
        BY <3>1, <3>4, <4>2, <1>0, <1>i DEF AgentOK
      <4> QED
        BY <4>1, <4>2
    <3>3. OneCloser' /\ OneAcquirer'
      BY <3>4, <1>i DEF OneCloser, OneAcquirer
    <3> QED
      BY <3>2, <3>3 DEF AgentInv
  <2> QED
    BY <1>1, <2>1, <2>2, <2>3, <2>4, <2>6, <2>7 DEF LeaseNext
<1>2. ASSUME NEW p \in Processes, NEW a \in Agents, CloseStep(p, a)
      PROVE  AgentInv' /\ OneCloser' /\ OneAcquirer'
  <2>1. target[p][a] \in Resources /\ stage[p][a] # "none"
    BY <1>2, TargetType DEF CloseStep, CloseBegins, CloseWaits, WaitEnds, CloserReturns,
       CloserFails, PopUnresolved, ClearLedger, Unlock, Forget, Quarantine
  <2>a. stage[p][a] \notin Acquiring \cup {"none"}
    BY <1>2 DEF CloseStep, CloseBegins, CloseWaits, WaitEnds, CloserReturns, CloserFails,
       PopUnresolved, ClearLedger, Unlock, Forget, Quarantine, Acquiring
  <2>2. \A q \in Processes, b \in Agents : stage[q][b] \in InClose =>
           /\ target[q][b] \in Resources /\ record[q][target[q][b]].closing
           /\ stage[p][a] \in InClose /\ <<q, b>> # <<p, a>>
                 => <<q, target[q][b]>> # <<p, target[p][a]>>
    BY <2>1, <1>i, TargetType DEF AgentInv, AgentOK, OneCloser
  <2>3. CASE CloseBegins(p, a)
    <3>1. /\ Moves(p, a, "closing") /\ handle' = handle
          /\ record' = [record EXCEPT ![p][target[p][a]].closing = TRUE]
          /\ ~record[p][target[p][a]].closing
      BY <2>3 DEF CloseBegins, MayBegin
    <3>2. \A q \in Processes, r \in Resources :
             /\ record'[q][r].present = record[q][r].present
             /\ record[q][r].closing => record'[q][r].closing
      BY <3>1, <2>1 DEF TypeOK, Records
    <3>3. record'[p][target[p][a]].closing
      BY <3>1, <2>1 DEF TypeOK, Records
    <3> QED
      BY <3>1, <3>2, <3>3, <2>1, <2>a, <2>2, <1>i, MoveKeepsAgents
  <2>4. CASE CloseWaits(p, a)
    BY <2>4, <2>1, <2>a, <2>2, <1>i, MoveKeepsAgents DEF CloseWaits
  <2>5. CASE WaitEnds(p, a)
    BY <2>5, <2>1, <2>a, <2>2, <1>i, MoveKeepsAgents DEF WaitEnds
  <2>6. CASE CloserReturns(p, a)
    <3>1. \A q \in Processes, r \in Resources : handle'[q][r] => handle[q][r]
      BY <2>6, <2>1 DEF CloserReturns, TypeOK
    <3>2. ~handle'[p][target[p][a]]
      BY <2>6, <2>1 DEF CloserReturns, TypeOK
    <3>3. PICK s \in {"clearing", "closed"} : Moves(p, a, s)
      BY <2>6 DEF CloserReturns
    <3>4. record' = record /\ stage[p][a] \in InClose /\ s \in Stages \ Acquiring
      BY <2>6 DEF CloserReturns, InClose, Stages, Acquiring, Clearing
    <3> QED
      BY <3>1, <3>2, <3>3, <3>4, <2>1, <2>a, <2>2, MoveKeepsAgents
  <2>7. CASE CloserFails(p, a)
    <3>1. \A q \in Processes, r \in Resources :
             /\ record'[q][r].present = record[q][r].present
             /\ record'[q][r].closing = record[q][r].closing
      BY <2>7, <2>1 DEF CloserFails, TypeOK, Records
    <3>2. /\ Moves(p, a, "failed") /\ handle' = handle
          /\ stage[p][a] \in InClose
      BY <2>7 DEF CloserFails, InClose
    <3> QED
      BY <3>1, <3>2, <2>1, <2>a, <2>2, <1>i, MoveKeepsAgents
  <2>8. CASE PopUnresolved(p, a) \/ ClearLedger(p, a) \/ Unlock(p, a)
    <3>1. PICK s \in {"popped", "closed", "unlocked"} : Moves(p, a, s)
      BY <2>8 DEF PopUnresolved, ClearLedger, Unlock
    <3>2. /\ record' = record /\ handle' = handle /\ s \in Stages \ Acquiring
          /\ stage[p][a] \in InClose /\ stage[p][a] \in Clearing \cup {"closed", "unlocked"}
      BY <2>8 DEF PopUnresolved, ClearLedger, Unlock, InClose, Stages, Acquiring, Clearing
    <3>3. ~handle'[p][target[p][a]]
      BY <3>2 DEF AgentInv, AgentOK
    <3> QED
      BY <3>1, <3>2, <3>3, <2>1, <2>a, <2>2, <1>i, MoveKeepsAgents
  <2>9. CASE Quarantine(p, a)
    <3>1. \A q \in Processes, r \in Resources :
             /\ record'[q][r].present = record[q][r].present
             /\ <<q, r>> # <<p, target[p][a]>> => record'[q][r].closing = record[q][r].closing
      <4> DEFINE t == target[p][a]
                 n == [record[p][t] EXCEPT !.closing = FALSE, !.uncertain = TRUE]
      <4>1. record' = [record EXCEPT ![p] = [record[p] EXCEPT ![t] = n]]
        BY <2>9, <2>1 DEF Quarantine, TypeOK
      <4>2. n.present = record[p][t].present
        BY <2>1 DEF TypeOK, Records
      <4> QED
        BY <2>1, <4>1, <4>2 DEF TypeOK
    <3>2. /\ Moves(p, a, "none") /\ handle' = handle
          /\ stage[p][a] \in InClose
      BY <2>9 DEF Quarantine, InClose
    <3> QED
      BY <3>1, <3>2, <2>1, <2>a, <2>2, <1>i, MoveKeepsAgents
  <2>10. CASE Forget(p, a)
    <3>1. \A q \in Processes, b \in Agents :
             IF q = p /\ target[q][b] = target[p][a]
             THEN stage'[q][b] = "none" /\ target'[q][b] = NoResource
             ELSE stage'[q][b] = stage[q][b] /\ target'[q][b] = target[q][b]
      BY <2>10, <2>1 DEF Forget, TypeOK
    <3>2. \A q \in Processes, r \in Resources :
             <<q, r>> # <<p, target[p][a]>> => record'[q][r] = record[q][r]
      BY <2>10, <2>1 DEF Forget, TypeOK
    <3>3. handle' = handle
      BY <2>10 DEF Forget
    <3>4. ASSUME NEW q \in Processes, NEW b \in Agents PROVE AgentOK(q, b)'
      <4>1. CASE q = p /\ target[q][b] = target[p][a]
        BY <1>i, <3>1, <3>3, <4>1 DEF AgentOK
      <4>2. CASE ~(q = p /\ target[q][b] = target[p][a]) /\ stage[q][b] = "none"
        BY <1>i, <3>1, <3>3, <4>2 DEF AgentInv, AgentOK
      <4>3. CASE ~(q = p /\ target[q][b] = target[p][a]) /\ stage[q][b] # "none"
        <5>1. record'[q][target[q][b]] = record[q][target[q][b]]
          BY <3>2, <4>3, TargetType
        <5> QED
          BY <3>1, <3>3, <4>3, <5>1 DEF AgentInv, AgentOK
      <4> QED
        BY <4>1, <4>2, <4>3
    <3>5. OneCloser' /\ OneAcquirer'
      BY <1>i, <3>1 DEF OneCloser, OneAcquirer
    <3> QED
      BY <3>4, <3>5 DEF AgentInv
  <2> QED
    BY <1>2, <2>3, <2>4, <2>5, <2>6, <2>7, <2>8, <2>9, <2>10 DEF CloseStep
<1>3. ASSUME NEW p \in Processes, ManagerNext(p)
      PROVE  AgentInv' /\ OneCloser' /\ OneAcquirer'
  <2>1. CASE Close(p)
    BY <2>1, RestKeepsAgents DEF Close
  <2>2. CASE Crash(p)
    <3>1. /\ \A b \in Agents : stage'[p][b] = "none" /\ target'[p][b] = NoResource
          /\ \A q \in Processes \ {p} : /\ stage'[q] = stage[q] /\ target'[q] = target[q]
                                       /\ record'[q] = record[q] /\ handle'[q] = handle[q]
      BY <2>2 DEF Crash, TypeOK
    <3>2. ASSUME NEW q \in Processes, NEW b \in Agents PROVE AgentOK(q, b)'
      BY <1>i, <3>1 DEF AgentInv, AgentOK
    <3>3. OneCloser' /\ OneAcquirer'
      BY <1>i, <3>1 DEF OneCloser, OneAcquirer
    <3> QED
      BY <3>2, <3>3 DEF AgentInv
  <2>3. ASSUME NEW r \in Resources, CloseNext(p, r), ~record[p][r].present
        PROVE  AgentInv' /\ OneCloser' /\ OneAcquirer'
    BY <2>3, RestKeepsAgents DEF CloseNext
  <2>4. ASSUME NEW r \in Resources, CloseNext(p, r), record[p][r].present
        PROVE  AgentInv' /\ OneCloser' /\ OneAcquirer'
    <3>1. /\ stage' = [stage EXCEPT ![p][Shutdown] = "released"]
          /\ target' = [target EXCEPT ![p][Shutdown] = r]
          /\ record' = record /\ handle' = handle
      BY <2>4 DEF CloseNext
    <3>4. /\ \A q \in Processes, b \in Agents : <<q, b>> # <<p, Shutdown>> =>
                stage'[q][b] = stage[q][b] /\ target'[q][b] = target[q][b]
          /\ stage'[p][Shutdown] = "released" /\ target'[p][Shutdown] = r
      BY <3>1, <1>0 DEF TypeOK
    <3>2. ASSUME NEW q \in Processes, NEW b \in Agents PROVE AgentOK(q, b)'
      <4>1. CASE <<q, b>> # <<p, Shutdown>>
        BY <3>1, <3>4, <4>1 DEF AgentInv, AgentOK
      <4>2. CASE q = p /\ b = Shutdown
        BY <2>4, <3>1, <3>4, <4>2, <1>0, <1>i DEF AgentOK
      <4> QED
        BY <4>1, <4>2
    <3>3. OneCloser' /\ OneAcquirer'
      BY <3>4, <1>i DEF OneCloser, OneAcquirer
    <3> QED
      BY <3>2, <3>3 DEF AgentInv
  <2>5. ASSUME NEW r \in Resources, MarkUncertain(p, r) PROVE AgentInv' /\ OneCloser' /\ OneAcquirer'
    <3>1. \/ record' = record
          \/ record' = [record EXCEPT ![p][r].uncertain = TRUE, ![p][r].uncertainBefore = TRUE]
      BY <2>5 DEF MarkUncertain
    <3>2. \A q \in Processes, s \in Resources :
             /\ record'[q][s].present = record[q][s].present
             /\ record'[q][s].closing = record[q][s].closing
      <4>1. CASE record' = record
        BY <4>1
      <4>2. CASE record' = [record EXCEPT ![p][r].uncertain = TRUE, ![p][r].uncertainBefore = TRUE]
        <5> DEFINE n == [record[p][r] EXCEPT !.uncertain = TRUE, !.uncertainBefore = TRUE]
        <5>1. record' = [record EXCEPT ![p] = [record[p] EXCEPT ![r] = n]]
          BY <4>2 DEF TypeOK
        <5>2. n.present = record[p][r].present /\ n.closing = record[p][r].closing
          BY DEF TypeOK, Records
        <5> QED
          BY <5>1, <5>2 DEF TypeOK
      <4> QED
        BY <3>1, <4>1, <4>2
    <3>3. UNCHANGED <<stage, target, handle>>
      BY <2>5 DEF MarkUncertain, agentVars
    <3> QED
      BY <3>2, <3>3, RestKeepsAgents
  <2> QED
    BY <1>3, <2>1, <2>2, <2>3, <2>4, <2>5 DEF ManagerNext
<1>4. ASSUME NEW i \in Identities, ClearUncertainty(i) PROVE AgentInv' /\ OneCloser' /\ OneAcquirer'
  BY <1>4, RestKeepsAgents DEF ClearUncertainty, agentVars
<1>5. ASSUME NEW p \in Processes, NEW c \in Clients, AcquireStep(p, c)
      PROVE  AgentInv' /\ OneCloser' /\ OneAcquirer'
  BY <1>5, AcquireAgents
<1> QED
  BY <1>1, <1>2, <1>3, <1>4, <1>5 DEF Next

-----------------------------------------------------------------------------

\* The stages from which nothing is cleared and in which no lock is held.
Quiet == {"none", "released", "waiting", "closing", "closed", "unlocked", "failed"}

\* Where a step can take an agent.
AgentMove(q, b) ==
    \/ stage'[q][b] = stage[q][b] /\ target'[q][b] = target[q][b]
    \/ Crash(q)
    \/ \E a \in Agents : Forget(q, a) /\ target[q][a] = target[q][b] /\ stage'[q][b] = "none"
    \/ stage'[q][b] \in Quiet /\ stage[q][b] \notin Acquiring \cup {"unlocked"}
    \/ /\ CloserReturns(q, b) /\ ~record[q][target[q][b]].uncertainBefore
       /\ stage'[q][b] = "clearing" /\ target'[q][b] = target[q][b]
    \/ /\ PopUnresolved(q, b)
       /\ stage'[q][b] = "popped" /\ target'[q][b] = target[q][b]
    \/ \E r \in Resources, prepare \in BOOLEAN :
          AcquireReads(q, b, r, prepare) /\ stage'[q][b] = "reading" /\ target'[q][b] = r
    \/ AcquireLocks(q, b) /\ stage'[q][b] = "opening" /\ target'[q][b] = target[q][b]
    \/ AcquireStep(q, b) /\ stage'[q][b] = "none" /\ b \in Clients

\* Every step takes every agent there.
LEMMA AgentMoves ==
    ASSUME IInv, Next, NEW q \in Processes, NEW b \in Agents
    PROVE  AgentMove(q, b)
<1> USE DEF IInv
<1>0. /\ Clients \subseteq Agents /\ Shutdown \in Agents
      /\ stage \in [Processes -> [Agents -> Stages]]
      /\ target \in [Processes -> [Agents -> Resources \cup {NoResource}]]
  BY DEF Agents, TypeOK
<1>1. ASSUME UNCHANGED <<stage, target>> PROVE AgentMove(q, b)
  BY <1>1 DEF AgentMove
<1>2. ASSUME NEW p \in Processes, NEW c \in Clients, NEW s \in Resources, LeaseNext(p, c, s)
      PROVE  AgentMove(q, b)
  <2>1. CASE Release(p, c, s) /\ leases[p][s] = {c}
    BY <2>1, <1>0 DEF Release, AgentMove, Quiet, Acquiring
  <2>2. ASSUME NEW prepare \in BOOLEAN, AcquireReads(p, c, s, prepare) PROVE AgentMove(q, b)
    <3>1. CASE <<p, c>> = <<q, b>>
      <4>1. p = q /\ c = b
        BY <3>1
      <4>2. stage'[q][b] = "reading" /\ target'[q][b] = s
        BY <2>2, <4>1, <1>0 DEF AcquireReads
      <4> QED
        BY <2>2, <4>1, <4>2 DEF AgentMove
    <3>2. CASE <<p, c>> # <<q, b>>
      BY <2>2, <3>2, <1>0 DEF AcquireReads, AgentMove
    <3> QED
      BY <3>1, <3>2
  <2> QED
    BY <1>2, <1>1, <2>1, <2>2 DEF LeaseNext, AcquireShared, AcquirePrepared, PrepareFails,
       Release, agentVars
<1>3. ASSUME NEW p \in Processes, NEW a \in Agents, CloseStep(p, a)
      PROVE  AgentMove(q, b)
  <2>1. CASE Forget(p, a)
    BY <2>1, <1>0 DEF Forget, AgentMove
  <2>2. CASE ~Forget(p, a) /\ <<p, a>> # <<q, b>>
    BY <1>3, <2>2, <1>0 DEF CloseStep, CloseBegins, CloseWaits, WaitEnds, CloserReturns,
       CloserFails, PopUnresolved, ClearLedger, Unlock, Quarantine, Moves, AgentMove
  <2>3. ASSUME NEW s \in Quiet, Moves(p, a, s), p = q, a = b,
               stage[q][b] \notin Acquiring \cup {"unlocked"}
        PROVE  AgentMove(q, b)
    BY <2>3, <1>0 DEF Moves, AgentMove
  <2>4. CASE CloserReturns(p, a) /\ p = q /\ a = b
    BY <2>3, <2>4, <1>0 DEF CloserReturns, MayClear, Moves, AgentMove, Quiet, Acquiring
  <2>5. CASE PopUnresolved(p, a) /\ p = q /\ a = b
    BY <2>5, <1>0 DEF PopUnresolved, Moves, AgentMove
  <2>6. CASE p = q /\ a = b
    BY <1>3, <2>1, <2>3, <2>4, <2>5, <2>6 DEF CloseStep, CloseBegins, CloseWaits, WaitEnds,
       CloserFails, ClearLedger, Unlock, Quarantine, Quiet, Acquiring
  <2> QED
    BY <2>1, <2>2, <2>6
<1>4. ASSUME NEW p \in Processes, ManagerNext(p) PROVE AgentMove(q, b)
  <2>1. CASE Crash(p)
    BY <2>1, <1>0 DEF Crash, AgentMove
  <2>2. ASSUME NEW s \in Resources, CloseNext(p, s), record[p][s].present PROVE AgentMove(q, b)
    BY <2>2, <1>0 DEF CloseNext, AgentMove, Quiet, Acquiring
  <2>3. ASSUME NEW s \in Resources, CloseNext(p, s), ~record[p][s].present PROVE AgentMove(q, b)
    BY <2>3, <1>1 DEF CloseNext
  <2> QED
    BY <1>4, <1>1, <2>1, <2>2, <2>3 DEF ManagerNext, Close, MarkUncertain, agentVars
<1>5. ASSUME NEW i \in Identities, ClearUncertainty(i) PROVE AgentMove(q, b)
  BY <1>5, <1>1 DEF ClearUncertainty, agentVars
<1>6. ASSUME NEW p \in Processes, NEW c \in Clients, AcquireStep(p, c) PROVE AgentMove(q, b)
  <2>1. CASE <<p, c>> # <<q, b>>
    BY <1>6, <2>1, <1>0 DEF AcquireStep, AcquireLocks, AcquireBusy, AcquireOpens, OpenFails,
       OpenFailsHalfway, AcquireEnds, AgentMove
  <2>2. CASE p = q /\ c = b /\ AcquireLocks(p, c)
    BY <2>2, <1>0 DEF AcquireLocks, AgentMove
  <2>3. CASE p = q /\ c = b /\ AcquireEnds(p, c)
    <3>1. stage'[q][b] = "none"
      BY <2>3, <1>0 DEF AcquireEnds
    <3> QED
      BY <1>6, <2>3, <3>1 DEF AgentMove
  <2> QED
    BY <1>6, <2>1, <2>2, <2>3 DEF AcquireStep, AcquireBusy, AcquireOpens, OpenFails,
       OpenFailsHalfway
<1> QED
  BY <1>2, <1>3, <1>4, <1>5, <1>6 DEF Next

\* A mark changes nothing of a record but that a failure is known of it.
LEMMA MarkedRecord ==
    ASSUME IInv, NEW p \in Processes, NEW s \in Resources, MarkUncertain(p, s),
           NEW q \in Processes, NEW r \in Resources
    PROVE  /\ record'[q][r].present = record[q][r].present
           /\ record'[q][r].prepared = record[q][r].prepared
           /\ record[q][r].uncertainBefore => record'[q][r].uncertainBefore
           /\ record[p][s].present => record'[p][s].uncertainBefore
<1>0. record \in [Processes -> [Resources -> Records]]
  BY DEF IInv, TypeOK
<1>1. CASE ~record[p][s].present
  BY <1>1 DEF MarkUncertain
<1>2. CASE record[p][s].present
  <2> DEFINE n == [record[p][s] EXCEPT !.uncertain = TRUE, !.uncertainBefore = TRUE]
  <2>1. record' = [record EXCEPT ![p] = [record[p] EXCEPT ![s] = n]]
    BY <1>0, <1>2 DEF MarkUncertain
  <2>2. n.present = record[p][s].present /\ n.prepared = record[p][s].prepared
        /\ n.uncertainBefore
    BY <1>0 DEF Records
  <2> QED
    BY <1>0, <2>1, <2>2
<1> QED
  BY <1>1, <1>2

\* No step takes a record away but the last section of its close and a crash, and
\* no step takes back that a failure is known to it.
LEMMA RecordsStay ==
    ASSUME IInv, Next, NEW q \in Processes, NEW r \in Resources, record[q][r].present,
           ~Crash(q), \A a \in Agents : ~(Forget(q, a) /\ target[q][a] = r)
    PROVE  /\ record'[q][r].present
           /\ record[q][r].uncertainBefore => record'[q][r].uncertainBefore
<1> USE DEF IInv
<1> DEFINE Stays == /\ record'[q][r].present
                    /\ record[q][r].uncertainBefore => record'[q][r].uncertainBefore
<1>0. record[q][r] \in Records /\ record \in [Processes -> [Resources -> Records]]
  BY DEF TypeOK
<1>1. ASSUME NEW p \in Processes, NEW c \in Clients, NEW s \in Resources, LeaseNext(p, c, s)
      PROVE  Stays
  <2>1. CASE AcquireShared(p, c, s) \/ Release(p, c, s)
    BY <2>1 DEF AcquireShared, Release
  <2>2. CASE AcquirePrepared(p, c, s)
    BY <2>2, <1>0 DEF AcquirePrepared, Records
  <2>3. CASE PrepareFails(p, c, s)
    BY <2>3, <1>0 DEF PrepareFails, Records
  <2>4. CASE record' = record
    BY <2>4
  <2> QED
    BY <1>1, <2>1, <2>2, <2>3, <2>4 DEF LeaseNext, AcquireReads
<1>2. ASSUME NEW p \in Processes, NEW a \in Agents, CloseStep(p, a)
      PROVE  Stays
  <2>1. target[p][a] \in Resources
    BY <1>2, TargetType DEF CloseStep, CloseBegins, CloseWaits, WaitEnds, CloserReturns,
       CloserFails, PopUnresolved, ClearLedger, Unlock, Forget, Quarantine
  <2>2. CASE record' = record
    BY <2>2
  <2>3. CASE CloseBegins(p, a)
    BY <2>1, <2>3, <1>0 DEF CloseBegins, Records
  <2>4. CASE CloserFails(p, a)
    BY <2>1, <2>4, <1>0 DEF CloserFails, Records
  <2>5. CASE Quarantine(p, a)
    <3> DEFINE t == target[p][a]
               n == [record[p][t] EXCEPT !.closing = FALSE, !.uncertain = TRUE]
    <3>1. record' = [record EXCEPT ![p] = [record[p] EXCEPT ![t] = n]]
      BY <2>1, <2>5, <1>0 DEF Quarantine
    <3>2. n.present = record[p][t].present /\ n.uncertainBefore = record[p][t].uncertainBefore
      BY <2>1, <1>0 DEF Records
    <3> QED
      BY <2>1, <3>1, <3>2, <1>0
  <2>6. CASE Forget(p, a)
    <3>1. p # q \/ target[p][a] # r
      BY <2>6
    <3> QED
      BY <2>6, <3>1, <2>1, <1>0 DEF Forget
  <2> QED
    BY <1>2, <2>2, <2>3, <2>4, <2>5, <2>6 DEF CloseStep, CloseWaits, WaitEnds, CloserReturns,
       PopUnresolved, ClearLedger, Unlock
<1>3. ASSUME NEW p \in Processes, ManagerNext(p) PROVE Stays
  <2>1. CASE Crash(p)
    <3>1. p # q
      BY <2>1
    <3> QED
      BY <2>1, <3>1, <1>0 DEF Crash
  <2>2. ASSUME NEW s \in Resources, MarkUncertain(p, s) PROVE Stays
    BY <2>2, MarkedRecord
  <2>3. CASE Close(p) \/ \E s \in Resources : CloseNext(p, s)
    BY <2>3 DEF Close, CloseNext
  <2> QED
    BY <1>3, <2>1, <2>2, <2>3 DEF ManagerNext
<1>4. ASSUME NEW i \in Identities, ClearUncertainty(i) PROVE Stays
  BY <1>4 DEF ClearUncertainty
<1>5. ASSUME NEW p \in Processes, NEW c \in Clients, AcquireStep(p, c) PROVE Stays
  <2>1. target[p][c] \in Resources /\ <<p, target[p][c]>> # <<q, r>>
    BY <1>5, AcquireTarget
  <2> QED
    BY <1>0, <1>5, <2>1 DEF AcquireStep, AcquireLocks, AcquireBusy, AcquireOpens, OpenFails,
       OpenFailsHalfway
<1> QED
  BY <1>1, <1>2, <1>3, <1>4, <1>5 DEF Next

\* A record appears only when somebody who was opening the resource comes to his end,
\* and nothing else gives a resource without a record a lease.
LEMMA RecordsAppear ==
    ASSUME IInv, Next, NEW q \in Processes, NEW r \in Resources, ~record[q][r].present,
           record'[q][r].present \/ leases'[q][r] # {}
    PROVE  \E c \in Clients :
              /\ AcquireOpens(q, c) \/ OpenFailsHalfway(q, c)
              /\ target[q][c] = r
<1> USE DEF IInv
<1> DEFINE Opened == \E c \in Clients :
              /\ AcquireOpens(q, c) \/ OpenFailsHalfway(q, c)
              /\ target[q][c] = r
<1>0. /\ record[q][r] \in Records /\ record \in [Processes -> [Resources -> Records]]
      /\ leases \in [Processes -> [Resources -> SUBSET Clients]]
      /\ leases[q][r] = {} /\ ~NoRecord.present
  BY DEF TypeOK, RecordInv, NoRecord
<1>1. ASSUME NEW p \in Processes, NEW c \in Clients, NEW s \in Resources, LeaseNext(p, c, s)
      PROVE  Opened
  <2>1. CASE AcquireShared(p, c, s)
    BY <2>1, <1>0 DEF AcquireShared, Shareable
  <2>2. CASE AcquirePrepared(p, c, s)
    <3>1. <<p, s>> # <<q, r>>
      BY <2>2 DEF AcquirePrepared, Shareable
    <3> QED
      BY <2>2, <3>1, <1>0 DEF AcquirePrepared
  <2>3. CASE PrepareFails(p, c, s)
    <3>1. <<p, s>> # <<q, r>>
      BY <2>3 DEF PrepareFails, Shareable
    <3> QED
      BY <2>3, <3>1, <1>0 DEF PrepareFails
  <2>4. ASSUME NEW prepare \in BOOLEAN, AcquireReads(p, c, s, prepare) PROVE Opened
    BY <2>4, <1>0 DEF AcquireReads
  <2>6. CASE Release(p, c, s)
    BY <2>6, <1>0 DEF Release
  <2> QED
    BY <1>1, <2>1, <2>2, <2>3, <2>4, <2>6 DEF LeaseNext
<1>2. ASSUME NEW p \in Processes, NEW a \in Agents, CloseStep(p, a)
      PROVE  Opened
  <2>a. stage[p][a] \notin Acquiring \cup {"none"}
    BY <1>2 DEF CloseStep, CloseBegins, CloseWaits, WaitEnds, CloserReturns, CloserFails,
       PopUnresolved, ClearLedger, Unlock, Forget, Quarantine, Acquiring
  <2>1. /\ target[p][a] \in Resources
        /\ <<p, target[p][a]>> # <<q, r>>
    BY <2>a, TargetType DEF AgentInv, AgentOK
  <2>2. CASE UNCHANGED <<record, leases>>
    BY <2>2, <1>0
  <2>3. CASE CloseBegins(p, a) \/ CloserFails(p, a)
    BY <2>1, <2>3, <1>0 DEF CloseBegins, CloserFails
  <2>6. CASE Forget(p, a)
    <3>1. record'[q][r] = record[q][r] /\ leases'[q][r] = leases[q][r]
      BY <2>1, <2>6, <1>0 DEF Forget
    <3> QED
      BY <3>1, <1>0
  <2>5. CASE Quarantine(p, a)
    BY <2>1, <2>5, <1>0 DEF Quarantine
  <2> QED
    BY <1>2, <2>2, <2>3, <2>5, <2>6 DEF CloseStep, CloseWaits, WaitEnds, CloserReturns,
       PopUnresolved, ClearLedger, Unlock
<1>3. ASSUME NEW p \in Processes, ManagerNext(p) PROVE Opened
  <2>1. CASE Crash(p)
    BY <2>1, <1>0 DEF Crash
  <2>2. ASSUME NEW s \in Resources, MarkUncertain(p, s) PROVE Opened
    <3>1. ~record'[q][r].present /\ leases' = leases
      BY <2>2, MarkedRecord DEF MarkUncertain
    <3> QED
      BY <3>1, <1>0
  <2>3. CASE Close(p) \/ \E s \in Resources : CloseNext(p, s)
    BY <2>3, <1>0 DEF Close, CloseNext
  <2> QED
    BY <1>3, <2>1, <2>2, <2>3 DEF ManagerNext
<1>4. ASSUME NEW i \in Identities, ClearUncertainty(i) PROVE Opened
  BY <1>4, <1>0 DEF ClearUncertainty
<1>5. ASSUME NEW p \in Processes, NEW c \in Clients, AcquireStep(p, c) PROVE Opened
  <2>1. target[p][c] \in Resources
    BY <1>5, AcquireTarget
  <2>2. CASE UNCHANGED <<record, leases>>
    BY <2>2, <1>0
  <2>3. CASE <<p, target[p][c]>> # <<q, r>> /\ (AcquireOpens(p, c) \/ OpenFailsHalfway(p, c))
    BY <2>1, <2>3, <1>0 DEF AcquireOpens, OpenFailsHalfway
  <2> QED
    BY <1>5, <2>2, <2>3 DEF AcquireStep, AcquireLocks, AcquireBusy, OpenFails
<1> QED
  BY <1>1, <1>2, <1>3, <1>4, <1>5 DEF Next

\* A record ends with its close or with its process, and takes its leases and its
\* connection with it; nobody opens or closes anything there either.
LEMMA RecordsEnd ==
    ASSUME IInv, NEW q \in Processes, NEW r \in Resources,
           Crash(q) \/ \E a \in Agents : Forget(q, a) /\ target[q][a] = r
    PROVE  ~record'[q][r].present /\ leases'[q][r] = {} /\ ~handle'[q][r] /\ ~Holds(q, r)'
<1> USE DEF IInv
<1>1. CASE Crash(q)
  <2>1. ~record'[q][r].present /\ leases'[q][r] = {} /\ ~handle'[q][r]
    BY <1>1 DEF Crash, TypeOK, NoRecord
  <2>2. \A a \in Agents : stage'[q][a] = "none"
    BY <1>1 DEF Crash, TypeOK
  <2> QED
    BY <2>1, <2>2 DEF Holds, Opening
<1>2. ASSUME NEW a \in Agents, Forget(q, a), target[q][a] = r
      PROVE  ~record'[q][r].present /\ leases'[q][r] = {} /\ ~handle'[q][r] /\ ~Holds(q, r)'
  <2>1. ~handle[q][r]
    BY <1>2 DEF Forget, AgentInv, AgentOK
  <2>2. ~record'[q][r].present /\ leases'[q][r] = {} /\ ~handle'[q][r]
    BY <1>2, <2>1 DEF Forget, TypeOK, NoRecord
  <2>3. \A b \in Agents : target'[q][b] # r
    BY <1>2, DevicesAssumption DEF Forget, TypeOK
  <2> QED
    BY <2>2, <2>3 DEF Holds, Opening
<1> QED
  BY <1>1, <1>2

\* An agent whose close has given up the flocks stays there until its last section.
LEMMA UnlockedStays ==
    ASSUME IInv, Next, NEW q \in Processes, NEW r \in Resources, Unlocked(q, r),
           ~Crash(q), \A a \in Agents : ~(Forget(q, a) /\ target[q][a] = r)
    PROVE  Unlocked(q, r)'
<1>1. PICK u \in Agents : stage[q][u] = "unlocked" /\ target[q][u] = r
  BY DEF Unlocked
<1>2. AgentMove(q, u)
  BY AgentMoves
<1>3. stage'[q][u] = stage[q][u] /\ target'[q][u] = target[q][u]
  BY <1>1, <1>2, AcquireTarget DEF AgentMove, CloserReturns, PopUnresolved, AcquireReads, Calls,
     AcquireLocks, Acquiring
<1> QED
  BY <1>1, <1>3 DEF Unlocked

\* Who holds a resource held it before, or takes its flocks.
LEMMA HoldsBegins ==
    ASSUME IInv, Next, NEW q \in Processes, NEW r \in Resources, Holds(q, r)'
    PROVE  \/ Holds(q, r)
           \/ \E c \in Agents : AcquireLocks(q, c) /\ target[q][c] = r
<1> USE DEF IInv
<1>0. ~Crash(q) /\ \A a \in Agents : ~(Forget(q, a) /\ target[q][a] = r)
  BY RecordsEnd
<1>1. CASE Opening(q, r)'
  <2>1. PICK a \in Agents : stage'[q][a] = "opening" /\ target'[q][a] = r
    BY <1>1 DEF Opening
  <2>2. AgentMove(q, a)
    BY AgentMoves
  <2> QED
    BY <1>0, <2>1, <2>2 DEF AgentMove, Quiet, Holds, Opening
<1>2. CASE record'[q][r].present /\ ~Unlocked(q, r)' /\ record[q][r].present
  BY <1>0, <1>2, UnlockedStays DEF Holds
<1>3. CASE record'[q][r].present /\ ~record[q][r].present
  <2>1. PICK c \in Clients : (AcquireOpens(q, c) \/ OpenFailsHalfway(q, c)) /\ target[q][c] = r
    BY <1>3, RecordsAppear
  <2>2. c \in Agents /\ stage[q][c] = "opening"
    BY <2>1 DEF AcquireOpens, OpenFailsHalfway, Agents
  <2> QED
    BY <2>1, <2>2 DEF Holds, Opening
<1> QED
  BY <1>1, <1>2, <1>3 DEF Holds

-----------------------------------------------------------------------------

\* A connection is opened only by an acquire that has just taken the flocks.
LEMMA HandleBegins ==
    ASSUME IInv, Next, NEW q \in Processes, NEW r \in Resources, handle'[q][r]
    PROVE  handle[q][r] \/ Opening(q, r)'
<1> USE DEF IInv
<1>0. handle \in [Processes -> [Resources -> BOOLEAN]]
  BY DEF TypeOK
<1> DEFINE Goal == handle[q][r] \/ Opening(q, r)'
<1>1. CASE handle' = handle
  BY <1>1
<1>2. ASSUME NEW p \in Processes, NEW c \in Clients, NEW s \in Resources, LeaseNext(p, c, s)
      PROVE  Goal
  BY <1>1, <1>2 DEF LeaseNext, AcquireShared, AcquirePrepared, PrepareFails, AcquireReads, Release
<1>3. ASSUME NEW p \in Processes, NEW a \in Agents, CloseStep(p, a) PROVE Goal
  <2>1. CASE CloserReturns(p, a)
    <3>1. target[p][a] \in Resources
      BY <2>1, TargetType DEF CloserReturns
    <3> QED
      BY <2>1, <3>1, <1>0 DEF CloserReturns
  <2> QED
    BY <1>1, <1>3, <2>1 DEF CloseStep, CloseBegins, CloseWaits, WaitEnds, CloserFails,
       PopUnresolved, ClearLedger, Unlock, Forget, Quarantine
<1>4. ASSUME NEW p \in Processes, ManagerNext(p) PROVE Goal
  <2>1. CASE Crash(p)
    BY <1>0, <2>1 DEF Crash
  <2> QED
    BY <1>1, <1>4, <2>1 DEF ManagerNext, Close, CloseNext, MarkUncertain
<1>5. ASSUME NEW i \in Identities, ClearUncertainty(i) PROVE Goal
  BY <1>1, <1>5 DEF ClearUncertainty
<1>6. ASSUME NEW p \in Processes, NEW c \in Clients, AcquireStep(p, c) PROVE Goal
  <2>0. c \in Agents /\ target[p][c] \in Resources
    BY <1>6, AcquireTarget
  <2>1. CASE AcquireLocks(p, c) /\ <<p, target[p][c]>> = <<q, r>>
    <3>1. stage'[q][c] = "opening" /\ target'[q][c] = r
      BY <2>0, <2>1 DEF AcquireLocks, TypeOK
    <3> QED
      BY <2>0, <3>1 DEF Opening
  <2>2. CASE AcquireLocks(p, c) /\ <<p, target[p][c]>> # <<q, r>>
    BY <2>0, <2>2, <1>0 DEF AcquireLocks
  <2>3. CASE OpenFails(p, c)
    BY <2>0, <2>3, <1>0 DEF OpenFails
  <2> QED
    BY <1>1, <1>6, <2>1, <2>2, <2>3 DEF AcquireStep, AcquireBusy, AcquireOpens, OpenFailsHalfway
<1> QED
  BY <1>2, <1>3, <1>4, <1>5, <1>6 DEF Next

\* Every action keeps leases and connections with records and openers.
LEMMA RecordStep ==
    ASSUME IInv, Next
    PROVE  RecordInv'
<1> USE DEF IInv
<1> SUFFICES ASSUME NEW q \in Processes, NEW r \in Resources
             PROVE  /\ leases'[q][r] # {} => record'[q][r].present
                    /\ handle'[q][r] => record'[q][r].present \/ Opening(q, r)'
  BY DEF RecordInv
<1>0. record \in [Processes -> [Resources -> Records]]
      /\ handle \in [Processes -> [Resources -> BOOLEAN]]
  BY DEF TypeOK
<1>1. ASSUME NEW c \in Clients, target[q][c] = r, AcquireOpens(q, c) \/ OpenFailsHalfway(q, c)
      PROVE  record'[q][r].present
  BY <1>0, <1>1 DEF AcquireOpens, OpenFailsHalfway
<1>2. CASE record[q][r].present
  BY <1>2, RecordsStay, RecordsEnd
<1>3. CASE ~record[q][r].present
  <2>1. leases'[q][r] # {} => record'[q][r].present
    BY <1>1, <1>3, RecordsAppear
  <2>2. ASSUME handle'[q][r], handle[q][r] PROVE record'[q][r].present \/ Opening(q, r)'
    <3>1. PICK a \in Agents : stage[q][a] = "opening" /\ target[q][a] = r
      BY <1>3, <2>2 DEF RecordInv, Opening
    <3>2. ~Crash(q) /\ \A b \in Agents : ~(Forget(q, b) /\ target[q][b] = r)
      BY <2>2, RecordsEnd
    <3>3. AgentMove(q, a)
      BY AgentMoves
    <3>4. CASE stage'[q][a] = stage[q][a] /\ target'[q][a] = target[q][a]
      BY <3>1, <3>4 DEF Opening
    <3>5. CASE AcquireStep(q, a) /\ a \in Clients
      <4>1. ~OpenFails(q, a)
        BY <1>0, <2>2, <3>1 DEF OpenFails
      <4> QED
        BY <1>1, <3>1, <3>5, <4>1 DEF AcquireStep, AcquireLocks, AcquireBusy
    <3> QED
      BY <3>1, <3>2, <3>3, <3>4, <3>5 DEF AgentMove, Acquiring, CloserReturns, PopUnresolved,
         AcquireReads, Calls, AcquireLocks
  <2> QED
    BY <2>1, <2>2, HandleBegins
<1> QED
  BY <1>2, <1>3

\* What taking flocks does to them.
LEMMA LocksTake ==
    ASSUME IInv, NEW p \in Processes, NEW c \in Clients, AcquireLocks(p, c)
    PROVE  /\ FlocksFree(target[p][c])
           /\ \A i \in Identities :
                 flock'[i] = IF target[p][c] \notin External /\ i \in Needs(target[p][c])
                             THEN <<p, target[p][c]>> ELSE flock[i]
<1>1. FlocksFree(target[p][c]) /\ TakeFlocks(p, target[p][c])
  BY DEF AcquireLocks
<1>2. flock \in [Identities -> (Processes \X Resources) \cup {NoOwner}]
  BY DEF IInv, TypeOK
<1>3. CASE target[p][c] \in External
  BY <1>1, <1>3 DEF TakeFlocks
<1>4. CASE target[p][c] \notin External
  BY <1>1, <1>2, <1>4 DEF TakeFlocks
<1> QED
  BY <1>1, <1>3, <1>4

\* Flocks stay with the openers and records that hold them.
LEMMA FlockStep ==
    ASSUME IInv, Next
    PROVE  FlockInv'
<1> USE DEF IInv
<1> SUFFICES ASSUME NEW q \in Processes, NEW r \in Resources \ External,
                    Holds(q, r)', NEW i \in Needs(r)
             PROVE  flock'[i] = <<q, r>>
  BY DEF FlockInv, Needs
<1>1. i \in Identities /\ flock \in [Identities -> (Processes \X Resources) \cup {NoOwner}]
  BY NeedsType DEF TypeOK
<1>2. ASSUME NEW c \in Agents, AcquireLocks(q, c), target[q][c] = r
      PROVE  flock'[i] = <<q, r>>
  BY <1>1, <1>2 DEF AcquireLocks, TakeFlocks
<1>3. CASE Holds(q, r)
  <2>0. AgentInv' /\ OneAcquirer'
    BY AgentStep
  <2>1. ~Crash(q) /\ \A a \in Agents : ~(Forget(q, a) /\ target[q][a] = r)
    BY RecordsEnd
  <2>2. flock[i] = <<q, r>> /\ flock[i] # NoOwner
    <3>1. flock[i] = <<q, r>> /\ <<q, r>> \in Processes \X Resources
      BY <1>3 DEF FlockInv
    <3> QED
      BY <3>1, DevicesAssumption
  <2>3. ASSUME NEW p \in Processes, NEW c \in Clients, NEW s \in Resources, LeaseNext(p, c, s)
        PROVE  flock'[i] = flock[i]
    BY <2>3 DEF LeaseNext, AcquireShared, AcquirePrepared, PrepareFails, AcquireReads, Release
  <2>4. ASSUME NEW p \in Processes, NEW a \in Agents, CloseStep(p, a)
        PROVE  flock'[i] = flock[i]
    <3>1. CASE Unlock(p, a)
      <4>1. target[p][a] # r \/ p # q
        <5>0. stage'[p][a] = "unlocked" /\ target'[p][a] = target[p][a] /\ record' = record
          BY <3>1 DEF Unlock, Moves, TypeOK
        <5>1. record[p][target[p][a]].present
          BY <3>1 DEF Unlock, AgentInv, AgentOK, Acquiring
        <5>2. ASSUME target[p][a] = r, p = q PROVE FALSE
          <6>1. Unlocked(q, r)' /\ record'[q][r].present
            BY <5>0, <5>1, <5>2 DEF Unlocked
          <6>2. Opening(q, r)'
            BY <6>1 DEF Holds
          <6> QED
            BY <2>0, <6>1, <6>2 DEF Opening, AgentInv, AgentOK, Acquiring
        <5> QED
          BY <5>2
      <4> QED
        BY <3>1, <4>1, <1>1, <2>2 DEF Unlock, GiveFlocks
    <3> QED
      BY <2>4, <3>1 DEF CloseStep, CloseBegins, CloseWaits, WaitEnds, CloserReturns,
         CloserFails, PopUnresolved, ClearLedger, Forget, Quarantine
  <2>5. ASSUME NEW p \in Processes, ManagerNext(p)
        PROVE  flock'[i] = flock[i]
    <3>1. CASE Crash(p)
      <4>1. p # q
        BY <2>1, <3>1
      <4>2. ~\E s \in Resources : flock[i] = <<p, s>>
        BY <2>2, <4>1
      <4> QED
        BY <3>1, <4>2, <1>1 DEF Crash
    <3> QED
      BY <2>5, <3>1 DEF ManagerNext, Close, CloseNext, MarkUncertain
  <2>6. ASSUME NEW j \in Identities, ClearUncertainty(j) PROVE flock'[i] = flock[i]
    BY <2>6 DEF ClearUncertainty
  <2>7. ASSUME NEW p \in Processes, NEW c \in Clients, AcquireStep(p, c)
        PROVE  flock'[i] = <<q, r>>
    <3>1. CASE AcquireLocks(p, c)
      BY <3>1, <1>1, <2>2, LocksTake DEF FlocksFree
    <3>2. CASE OpenFails(p, c)
      <4>0. /\ c \in Agents /\ ~record[p][target[p][c]].present /\ record' = record
            /\ \A b \in Agents : target[p][b] = target[p][c] => b = c
        BY <2>7, <3>2, AcquireTarget DEF OpenFails
      <4>1. ASSUME p = q, target[p][c] = r PROVE FALSE
        <5>1. /\ stage'[q][c] = "none"
              /\ \A b \in Agents \ {c} : target'[q][b] = target[q][b]
          BY <3>2, <4>0, <4>1 DEF OpenFails, AcquireEnds, TypeOK
        <5>2. ~Opening(q, r)'
          BY <4>0, <4>1, <5>1 DEF Opening
        <5> QED
          BY <4>0, <4>1, <5>2 DEF Holds
      <4> QED
        BY <3>2, <4>1, <1>1, <2>2 DEF OpenFails, GiveFlocks
    <3> QED
      BY <2>2, <2>7, <3>1, <3>2 DEF AcquireStep, AcquireBusy, AcquireOpens, OpenFailsHalfway
  <2> QED
    BY <2>2, <2>3, <2>4, <2>5, <2>6, <2>7 DEF Next
<1> QED
  BY <1>2, <1>3, HoldsBegins

\* Two resources of this node that are held have no identity in common.
LEMMA HeldApart ==
    ASSUME IInv, NEW q \in Processes, NEW s \in Resources \ External, Holds(q, s),
           NEW p \in Processes, NEW r \in Resources \ External, Holds(p, r),
           <<q, s>> # <<p, r>>
    PROVE  Needs(r) \cap Needs(s) = {}
<1>1. \A i \in Needs(s) : flock[i] = <<q, s>>
  BY DEF IInv, FlockInv
<1>2. \A i \in Needs(r) : flock[i] = <<p, r>>
  BY DEF IInv, FlockInv
<1> QED
  BY <1>1, <1>2

\* A record that somebody is about to clear has its flocks.
LEMMA ClosingLocks ==
    ASSUME IInv, NEW q \in Processes, NEW b \in Agents,
           stage[q][b] \in InClose \ {"unlocked"}
    PROVE  /\ target[q][b] \in Resources
           /\ record[q][target[q][b]].present /\ ~Unlocked(q, target[q][b])
           /\ Holds(q, target[q][b])
<1> USE DEF IInv
<1>1. stage[q][b] \notin Acquiring \cup {"none"} /\ "unlocked" \in InClose
  BY DEF InClose, Acquiring, Clearing
<1>2. target[q][b] \in Resources /\ record[q][target[q][b]].present
  BY <1>1, TargetType DEF AgentInv, AgentOK
<1>3. ~Unlocked(q, target[q][b])
  BY <1>1 DEF OneCloser, Unlocked
<1> QED
  BY <1>2, <1>3 DEF Holds

-----------------------------------------------------------------------------

\* The failure i of (p, r) was marked in this step, in time for everybody.
NewReport(p, r, ids, i) ==
    /\ Report(p, r, ids) /\ ids \subseteq Needs(r)
    /\ i \in ids /\ i \notin TooLate(p, r, ids)
    /\ record'[p][r].present => record'[p][r].uncertainBefore
    /\ \A b \in Agents : stage'[p][b] \notin Acquiring

\* Failures are added only by reports, of devices of this node.
LEMMA ReportsAdd ==
    ASSUME NEW p \in Processes, NEW r \in Resources, NEW ids \in SUBSET Identities,
           Report(p, r, ids), NEW i \in fault'
    PROVE  /\ i \in fault \/ (i \in ids /\ r \notin External)
           /\ i \notin unseen' =>
                 i \in Live \/ (i \in ids /\ i \notin TooLate(p, r, ids) /\ r \notin External)
<1>1. CASE r \in External
  BY <1>1 DEF Report, faultVars, Live
<1>2. CASE r \notin External
  BY <1>2 DEF Report, Live
<1> QED
  BY <1>1, <1>2

\* ... whatever the step.
LEMMA LiveStep ==
    ASSUME IInv, Next, NEW i \in fault'
    PROVE  /\ i \in fault \/ \E s \in Resources \ External : i \in Needs(s)
           /\ i \notin unseen' =>
                 \/ i \in Live
                 \/ \E p \in Processes, r \in Resources \ External, ids \in SUBSET Identities :
                       NewReport(p, r, ids, i)
<1> USE DEF IInv
<1> DEFINE Goal ==
       /\ i \in fault \/ \E s \in Resources \ External : i \in Needs(s)
       /\ i \notin unseen' =>
                 \/ i \in Live
                 \/ \E p \in Processes, r \in Resources \ External, ids \in SUBSET Identities :
                       NewReport(p, r, ids, i)
<1>0. record \in [Processes -> [Resources -> Records]]
  BY DEF TypeOK
<1>1. CASE fault' \subseteq fault /\ unseen \subseteq unseen'
  BY <1>1 DEF Live
<1>2. ASSUME NEW p \in Processes, NEW r \in Resources, NEW ids \in SUBSET Identities,
             Report(p, r, ids), ids \subseteq Needs(r),
             record'[p][r].present => record'[p][r].uncertainBefore,
             \A b \in Agents : stage'[p][b] \notin Acquiring
      PROVE  Goal
  BY <1>2, ReportsAdd DEF NewReport
<1>n. \A r \in Resources : Needs(r) \in SUBSET Identities /\ r \in Needs(r)
  BY NeedsType
<1>3. ASSUME NEW p \in Processes, NEW c \in Clients, NEW s \in Resources, LeaseNext(p, c, s)
      PROVE  Goal
  <2>1. CASE PrepareFails(p, c, s)
    <3>1. record'[p][s].uncertainBefore
      BY <2>1, <1>0 DEF PrepareFails, Records
    <3>2. \A b \in Agents : stage'[p][b] \notin Acquiring
      BY <2>1 DEF PrepareFails, Calls, LockFree, agentVars
    <3> QED
      BY <2>1, <1>2, <1>n, <3>1, <3>2 DEF PrepareFails
  <2> QED
    BY <1>1, <1>3, <2>1 DEF LeaseNext, AcquireShared, AcquirePrepared, AcquireReads, Release,
       faultVars
<1>4. ASSUME NEW p \in Processes, NEW a \in Agents, CloseStep(p, a) PROVE Goal
  BY <1>1, <1>4 DEF CloseStep, CloseBegins, CloseWaits, WaitEnds, CloserReturns, CloserFails,
     PopUnresolved, ClearLedger, Unlock, Forget, Quarantine, faultVars
<1>5. ASSUME NEW p \in Processes, ManagerNext(p) PROVE Goal
  <2>1. ASSUME NEW s \in Resources, MarkUncertain(p, s) PROVE Goal
    <3>1. record'[p][s].present => record'[p][s].uncertainBefore
      BY <2>1, MarkedRecord
    <3>2. \A b \in Agents : stage'[p][b] \notin Acquiring
      BY <2>1 DEF MarkUncertain, LockFree, agentVars
    <3>3. Report(p, s, Needs(s)) \/ Report(p, s, {s})
      BY <2>1 DEF MarkUncertain
    <3>4. {s} \in SUBSET Identities /\ {s} \subseteq Needs(s)
      BY <1>n
    <3> QED
      BY <1>2, <1>n, <3>1, <3>2, <3>3, <3>4
  <2> QED
    BY <1>1, <1>5, <2>1 DEF ManagerNext, Close, Crash, CloseNext, faultVars
<1>6. ASSUME NEW j \in Identities, ClearUncertainty(j) PROVE Goal
  BY <1>6 DEF ClearUncertainty, Live
<1>7. ASSUME NEW p \in Processes, NEW c \in Clients, AcquireStep(p, c) PROVE Goal
  <2>0. /\ c \in Agents /\ target[p][c] \in Resources
        /\ \A b \in Agents : stage[p][b] \in Acquiring => b = c
    BY <1>7, AcquireTarget
  <2>1. CASE OpenFailsHalfway(p, c)
    <3>1. record'[p][target[p][c]].uncertainBefore
      BY <2>0, <2>1, <1>0 DEF OpenFailsHalfway
    <3>2. \A b \in Agents : stage'[p][b] \notin Acquiring
      BY <2>0, <2>1 DEF OpenFailsHalfway, AcquireEnds, TypeOK, Acquiring
    <3> QED
      BY <2>0, <2>1, <1>2, <1>n, <3>1, <3>2 DEF OpenFailsHalfway
  <2> QED
    BY <1>1, <1>7, <2>1 DEF AcquireStep, AcquireLocks, AcquireBusy, AcquireOpens, OpenFails,
       faultVars
<1> QED
  BY <1>3, <1>4, <1>5, <1>6, <1>7 DEF Next

\* The failures of a resource of this node are none of another service's.
LEMMA ExternalApart ==
    ASSUME IInv, NEW r \in External
    PROVE  Needs(r) \cap fault = {}
BY DevicesAssumption DEF IInv, FaultInv

\* What an acquire under way has read is kept, and so are the failures since.
LEMMA CopyStep ==
    ASSUME IInv, Next, NEW q \in Processes, NEW b \in Agents,
           stage[q][b] \in Acquiring, stage'[q][b] \in Acquiring,
           target[q][b] \notin External,
           NEW i \in Needs(target[q][b]), i \in Live, i \in Live'
    PROVE  /\ i \in Known(q) => i \in Known(q)'
           /\ i \in late[q] /\ stage'[q][b] = "reading" => i \in late'[q]
<1> USE DEF IInv
<1> DEFINE Goal == /\ i \in Known(q) => i \in Known(q)'
                   /\ i \in late[q] /\ stage'[q][b] = "reading" => i \in late'[q]
<1>0. /\ target[q][b] \in Resources /\ ~LockFree(q)
      /\ unresolved \in [Processes -> SUBSET Identities] /\ asked \in [Processes -> BOOLEAN]
      /\ late \in [Processes -> SUBSET Identities]
      /\ stage \in [Processes -> [Agents -> Stages]]
  BY TargetType DEF TypeOK, LockFree, Acquiring
<1>1. CASE /\ unresolved'[q] = unresolved[q] /\ asked'[q] = asked[q]
           /\ late[q] \subseteq late'[q]
  BY <1>1 DEF Known
<1>r. ASSUME NEW p \in Processes, NEW r \in Resources, NEW ids, Report(p, r, ids)
      PROVE  late[q] \subseteq late'[q]
  <2>1. CASE r \in External
    BY <1>r, <2>1 DEF Report, faultVars
  <2>2. CASE r \notin External
    BY <1>r, <2>2 DEF Report
  <2> QED
    BY <2>1, <2>2
<1>2. ASSUME NEW p \in Processes, NEW c \in Clients, NEW s \in Resources, LeaseNext(p, c, s)
      PROVE  Goal
  <2>1. CASE PrepareFails(p, c, s)
    BY <1>1, <1>r, <2>1 DEF PrepareFails, acquireVars
  <2>2. ASSUME NEW prepare \in BOOLEAN, AcquireReads(p, c, s, prepare) PROVE Goal
    <3>1. p # q
      BY <1>0, <2>2 DEF AcquireReads, Calls
    <3> QED
      BY <1>0, <1>1, <2>2, <3>1 DEF AcquireReads, faultVars
  <2> QED
    BY <1>1, <1>2, <2>1, <2>2 DEF LeaseNext, AcquireShared, AcquirePrepared, Release, acquireVars,
       faultVars
<1>3. ASSUME NEW p \in Processes, NEW a \in Agents, CloseStep(p, a) PROVE Goal
  <2>1. CASE PopUnresolved(p, a)
    <3>0. /\ stage[p][a] \in InClose \ {"unlocked"} /\ stage[p][a] \in Clearing
          /\ stage[p][a] # "none"
      BY <2>1 DEF PopUnresolved, InClose, Clearing
    <3>1. i \notin Needs(target[p][a])
      <4>1. target[p][a] \in Resources
        BY <3>0, ClosingLocks
      <4>2. CASE target[p][a] \in External
        BY <4>2, ExternalApart DEF Live
      <4>3. CASE target[p][a] \notin External
        BY <3>0, <4>3 DEF FaultInv, KnowledgeOK
      <4> QED
        BY <4>2, <4>3
    <3> QED
      BY <1>0, <2>1, <3>1 DEF PopUnresolved, Known, faultVars
  <2>2. CASE CloserFails(p, a)
    <3>1. asked' = asked /\ late' = late
      BY <2>2 DEF CloserFails, faultVars
    <3>2. unresolved[q] \subseteq unresolved'[q]
      <4>1. CASE p = q
        BY <1>0, <2>2, <4>1 DEF CloserFails
      <4>2. CASE p # q
        BY <1>0, <2>2, <4>2 DEF CloserFails
      <4> QED
        BY <4>1, <4>2
    <3> QED
      BY <3>1, <3>2 DEF Known
  <2> QED
    BY <1>1, <1>3, <2>1, <2>2 DEF CloseStep, CloseBegins, CloseWaits, WaitEnds, CloserReturns,
       ClearLedger, Unlock, Forget, Quarantine, acquireVars, faultVars
<1>4. ASSUME NEW p \in Processes, ManagerNext(p) PROVE Goal
  <2>1. ASSUME NEW s \in Resources, MarkUncertain(p, s) PROVE Goal
    BY <1>1, <1>r, <2>1 DEF MarkUncertain, acquireVars
  <2>2. CASE Crash(p)
    <3>1. p # q
      BY <1>0, <2>2 DEF Crash, Acquiring
    <3> QED
      BY <1>0, <1>1, <2>2, <3>1 DEF Crash
  <2> QED
    BY <1>1, <1>4, <2>1, <2>2 DEF ManagerNext, Close, CloseNext, acquireVars, faultVars
<1>5. ASSUME NEW j \in Identities, ClearUncertainty(j) PROVE Goal
  <2>1. i # j
    BY <1>5 DEF ClearUncertainty, Live
  <2> QED
    BY <1>0, <1>5, <2>1 DEF ClearUncertainty, Known, acquireVars
<1>6. ASSUME NEW p \in Processes, NEW c \in Clients, AcquireStep(p, c) PROVE Goal
  <2>0. c \in Agents /\ \A a \in Agents : stage[p][a] \in Acquiring => a = c
    BY <1>6, AcquireTarget
  <2>1. CASE AcquireLocks(p, c)
    <3>1. unresolved' = unresolved /\ asked' = asked
      BY <2>1 DEF AcquireLocks, acquireVars
    <3>2. CASE p = q
      <4>1. stage'[q][b] = "opening"
        BY <1>0, <2>0, <2>1, <3>2 DEF AcquireLocks
      <4> QED
        BY <3>1, <4>1 DEF Known
    <3>3. CASE p # q
      BY <1>0, <1>1, <2>1, <3>1, <3>3 DEF AcquireLocks
    <3> QED
      BY <3>2, <3>3
  <2>2. CASE AcquireEnds(p, c)
    <3>1. p # q
      BY <1>0, <2>0, <2>2 DEF AcquireEnds, Acquiring
    <3>2. unresolved'[q] = unresolved[q] /\ asked'[q] = asked[q]
      BY <1>0, <2>2, <3>1 DEF AcquireEnds
    <3>3. late[q] \subseteq late'[q]
      <4>1. CASE AcquireBusy(p, c)
        BY <1>0, <3>1, <4>1 DEF AcquireBusy
      <4>2. CASE OpenFailsHalfway(p, c)
        BY <1>6, <1>r, <4>2, AcquireTarget DEF OpenFailsHalfway
      <4>3. CASE late' = late
        BY <4>3
      <4> QED
        BY <1>6, <2>2, <3>1, <4>1, <4>2, <4>3, <1>0 DEF AcquireStep, AcquireLocks, AcquireOpens,
           OpenFails, faultVars
    <3> QED
      BY <1>1, <3>2, <3>3
  <2> QED
    BY <1>6, <2>1, <2>2 DEF AcquireStep, AcquireBusy, AcquireOpens, OpenFails, OpenFailsHalfway
<1> QED
  BY <1>2, <1>3, <1>4, <1>5, <1>6 DEF Next

\* A report that is in time concerns no resource that somebody else holds.
LEMMA ReportsApart ==
    ASSUME IInv, NEW p \in Processes, NEW r \in Resources \ External,
           NEW ids \in SUBSET Identities, NEW i, NewReport(p, r, ids, i),
           NEW q \in Processes, NEW s \in Resources \ External, Holds(q, s), i \in Needs(s)
    PROVE  p = q /\ r = s
<1>1. flock[i] = <<q, s>>
  BY DEF IInv, FlockInv
<1>2. flock[i] # NoOwner
  BY <1>1, DevicesAssumption
<1>3. i \in ids /\ i \notin TooLate(p, r, ids)
  BY DEF NewReport
<1>4. flock[i] \in {NoOwner, <<p, r>>}
  BY <1>3 DEF TooLate
<1>5. <<q, s>> = <<p, r>>
  BY <1>1, <1>2, <1>4
<1> QED
  BY <1>5

\* Every action keeps what agents know of the failures of the resource in their hand.
LEMMA KnowledgeStep ==
    ASSUME IInv, Next, NEW q \in Processes, NEW b \in Agents,
           stage'[q][b] # "none", target'[q][b] \notin External
    PROVE  KnowledgeOK(q, b)'
<1> USE DEF IInv
<1> DEFINE t == target'[q][b]
<1>m. AgentMove(q, b)
  BY AgentMoves
<1>e. t \notin External
  OBVIOUS
<1> HIDE DEF t
<1>f. \A i \in Live' : i \in fault' /\ i \notin unseen'
  BY DEF Live
<1>1. ASSUME stage'[q][b] = "reading", NEW i \in Needs(t), i \in Live'
      PROVE  i \in Known(q)' \/ i \in late'[q]
  <2>1. CASE stage[q][b] = "reading" /\ target[q][b] = t
    <3>1. CASE i \in Live
      <4>1. i \in Known(q) \/ i \in late[q]
        BY <1>1, <1>e, <2>1, <3>1 DEF FaultInv, KnowledgeOK
      <4> QED
        BY <1>1, <1>e, <2>1, <3>1, <4>1, CopyStep DEF Acquiring
    <3>2. CASE i \notin Live
      <4>1. PICK p \in Processes, r \in Resources \ External, ids \in SUBSET Identities :
               NewReport(p, r, ids, i)
        BY <1>1, <1>f, <3>2, LiveStep
      <4> QED
        BY <1>1, <2>1, <4>1 DEF NewReport, Report
    <3> QED
      BY <3>1, <3>2
  <2>2. ASSUME NEW r \in Resources, NEW prepare \in BOOLEAN, AcquireReads(q, b, r, prepare), t = r
        PROVE  i \in Known(q)'
    <3>1. i \in ledger
      BY <1>1, <2>2 DEF AcquireReads, FaultKept, Live, faultVars
    <3>2. ~asked'[q] /\ unresolved'[q] = ledger
      BY <1>1, <2>2, <3>1 DEF AcquireReads, Unmarked, TypeOK
    <3> QED
      BY <3>1, <3>2 DEF Known
  <2> QED
    BY <1>1, <1>m, <2>1, <2>2, AcquireTarget DEF AgentMove, Quiet, Crash, TypeOK, t
<1>2. ASSUME stage'[q][b] = "opening", NEW i \in Needs(t), i \in Live'
      PROVE  i \in Known(q)'
  <2>1. CASE stage[q][b] = "opening" /\ target[q][b] = t
    <3>1. CASE i \in Live
      <4>1. i \in Known(q)
        BY <1>2, <1>e, <2>1, <3>1 DEF FaultInv, KnowledgeOK
      <4> QED
        BY <1>2, <1>e, <2>1, <3>1, <4>1, CopyStep DEF Acquiring
    <3>2. CASE i \notin Live
      <4>1. PICK p \in Processes, r \in Resources \ External, ids \in SUBSET Identities :
               NewReport(p, r, ids, i)
        BY <1>2, <1>f, <3>2, LiveStep
      <4>2. t \in Resources /\ Holds(q, t)
        BY <2>1, TargetType DEF Holds, Opening
      <4>3. p = q
        BY <1>2, <1>e, <4>1, <4>2, ReportsApart
      <4> QED
        BY <1>2, <4>1, <4>3 DEF NewReport, Acquiring
    <3> QED
      BY <3>1, <3>2
  <2>2. CASE AcquireLocks(q, b) /\ t = target[q][b]
    <3>1. i \in Live /\ i \notin late[q] /\ unresolved' = unresolved /\ asked' = asked
      BY <1>2, <2>2 DEF AcquireLocks, Live, acquireVars
    <3>2. stage[q][b] = "reading"
      BY <2>2 DEF AcquireLocks
    <3>3. i \in Known(q)
      BY <1>2, <1>e, <2>2, <3>1, <3>2 DEF FaultInv, KnowledgeOK
    <3> QED
      BY <3>1, <3>3 DEF Known
  <2> QED
    BY <1>2, <1>m, <2>1, <2>2 DEF AgentMove, Quiet, Crash, TypeOK, t
<1>3. ASSUME stage'[q][b] \in Clearing, NEW i \in Needs(t), i \in Live'
      PROVE  FALSE
  <2>1. CASE stage[q][b] \in Clearing /\ target[q][b] = t
    <3>1. i \notin Live
      BY <1>3, <1>e, <2>1 DEF FaultInv, KnowledgeOK, Clearing
    <3>2. PICK p \in Processes, r \in Resources \ External, ids \in SUBSET Identities :
             NewReport(p, r, ids, i)
      BY <1>3, <1>f, <3>1, LiveStep
    <3>3. t \in Resources /\ Holds(q, t)
      BY <2>1, ClosingLocks DEF InClose, Clearing
    <3>4. p = q /\ r = t
      BY <1>3, <1>e, <3>2, <3>3, ReportsApart
    <3> QED
      BY <2>1, <3>2, <3>4 DEF NewReport, TooLate
  <2>2. CASE /\ CloserReturns(q, b) /\ ~record[q][target[q][b]].uncertainBefore
             /\ target[q][b] = t
    <3>1. i \in Live
      BY <1>3, <2>2 DEF CloserReturns, Live, faultVars
    <3>2. t \in Resources /\ record[q][t].present /\ ~Unlocked(q, t)
      BY <2>2, ClosingLocks DEF CloserReturns, InClose
    <3> QED
      BY <1>3, <1>e, <2>2, <3>1, <3>2 DEF FaultInv
  <2>3. CASE PopUnresolved(q, b) /\ target[q][b] = t
    BY <2>1, <2>3 DEF PopUnresolved, Clearing
  <2> QED
    BY <1>3, <1>m, <2>1, <2>2, <2>3 DEF AgentMove, Quiet, Clearing, Crash, TypeOK, t
<1> QED
  BY <1>1, <1>2, <1>3 DEF KnowledgeOK, t

\* Every action keeps who knows of a fault.
LEMMA FaultStep ==
    ASSUME IInv, Next
    PROVE  FaultInv'
<1> USE DEF IInv
<1>1. \A i \in fault' : \E s \in Resources \ External : i \in Needs(s)
  BY LiveStep DEF FaultInv
<1>2. ASSUME NEW q \in Processes, NEW r \in Resources \ External,
             record'[q][r].present, ~Unlocked(q, r)', NEW i \in Needs(r), i \in Live'
      PROVE  record'[q][r].uncertainBefore
  <2>0. i \in fault' /\ i \notin unseen'
    BY <1>2 DEF Live
  <2>1. CASE ~record[q][r].present
    <3>1. PICK c \in Clients :
             (AcquireOpens(q, c) \/ OpenFailsHalfway(q, c)) /\ target[q][c] = r
      BY <1>2, <2>1, RecordsAppear
    <3>2. CASE OpenFailsHalfway(q, c)
      BY <3>1, <3>2 DEF OpenFailsHalfway, TypeOK
    <3>3. CASE AcquireOpens(q, c)
      <4>1. i \in Live /\ c \in Agents /\ stage[q][c] = "opening"
        BY <1>2, <3>3 DEF AcquireOpens, Live, faultVars, Agents
      <4>2. i \in unresolved[q]
        BY <1>2, <3>1, <4>1 DEF FaultInv, KnowledgeOK, Known
      <4> QED
        BY <1>2, <3>1, <3>3, <4>2 DEF AcquireOpens, TypeOK
    <3> QED
      BY <3>1, <3>2, <3>3
  <2>2. CASE record[q][r].present
    <3>1. ~Crash(q) /\ \A a \in Agents : ~(Forget(q, a) /\ target[q][a] = r)
      BY <1>2, RecordsEnd
    <3>2. ~Unlocked(q, r)
      BY <1>2, <3>1, UnlockedStays
    <3>3. CASE i \in Live
      BY <1>2, <2>2, <3>1, <3>2, <3>3, RecordsStay DEF FaultInv
    <3>4. CASE i \notin Live
      <4>1. PICK p \in Processes, s \in Resources \ External, ids \in SUBSET Identities :
               NewReport(p, s, ids, i)
        BY <2>0, <3>4, LiveStep
      <4>2. p = q /\ s = r
        BY <1>2, <2>2, <3>2, <4>1, ReportsApart DEF Holds
      <4> QED
        BY <1>2, <4>1, <4>2 DEF NewReport
    <3> QED
      BY <3>3, <3>4
  <2> QED
    BY <2>1, <2>2
<1> QED
  BY <1>1, <1>2, KnowledgeStep DEF FaultInv

\* Every action keeps the faults in the ledger: what is cleared has none.
LEMMA KeptStep ==
    ASSUME IInv, Next
    PROVE  FaultKept'
<1> USE DEF IInv
<1> SUFFICES ASSUME NEW i \in Live' PROVE i \in ledger'
  BY DEF FaultKept, Live
<1>0. i \in fault' /\ i \notin unseen'
  BY DEF Live
<1>1. CASE i \notin Live
  <2>1. PICK p \in Processes, s \in Resources \ External, ids \in SUBSET Identities :
           NewReport(p, s, ids, i)
    BY <1>0, <1>1, LiveStep
  <2> QED
    BY <2>1 DEF NewReport, Report
<1>2. CASE i \in Live
  <2>0. i \in ledger
    BY <1>2 DEF FaultKept, Live
  <2>1. CASE ledger \subseteq ledger'
    BY <2>0, <2>1
  <2>2. ASSUME NEW p \in Processes, NEW c \in Clients, NEW r \in Resources, LeaseNext(p, c, r)
        PROVE  i \in ledger'
    BY <2>1, <2>2 DEF LeaseNext, AcquireShared, AcquirePrepared, PrepareFails, AcquireReads,
       Release, Report
  <2>3. ASSUME NEW p \in Processes, NEW a \in Agents, CloseStep(p, a) PROVE i \in ledger'
    <3>1. CASE ClearLedger(p, a)
      <4>0. /\ stage[p][a] \in InClose \ {"unlocked"} /\ stage[p][a] \in Clearing
            /\ stage[p][a] # "none"
        BY <3>1 DEF ClearLedger, InClose, Clearing
      <4>1. target[p][a] \in Resources
        BY <4>0, ClosingLocks
      <4>2. i \notin Needs(target[p][a])
        <5>1. CASE target[p][a] \in External
          BY <1>2, <5>1, ExternalApart DEF Live
        <5>2. CASE target[p][a] \notin External
          BY <1>2, <4>0, <5>2 DEF FaultInv, KnowledgeOK
        <5> QED
          BY <5>1, <5>2
      <4> QED
        BY <2>0, <3>1, <4>2 DEF ClearLedger
    <3> QED
      BY <2>1, <2>3, <3>1 DEF CloseStep, CloseBegins, CloseWaits, WaitEnds, CloserReturns,
         CloserFails, PopUnresolved, Unlock, Forget, Quarantine
  <2>4. ASSUME NEW p \in Processes, ManagerNext(p) PROVE i \in ledger'
    BY <2>1, <2>4 DEF ManagerNext, Close, Crash, CloseNext, MarkUncertain, Report
  <2>5. ASSUME NEW j \in Identities, ClearUncertainty(j) PROVE i \in ledger'
    <3>1. i # j
      BY <2>5 DEF ClearUncertainty, Live
    <3> QED
      BY <2>0, <2>5, <3>1 DEF ClearUncertainty
  <2>6. ASSUME NEW p \in Processes, NEW c \in Clients, AcquireStep(p, c) PROVE i \in ledger'
    BY <2>1, <2>6 DEF AcquireStep, AcquireLocks, AcquireBusy, AcquireOpens, OpenFails,
       OpenFailsHalfway, Report
  <2> QED
    BY <2>2, <2>3, <2>4, <2>5, <2>6 DEF Next
<1> QED
  BY <1>1, <1>2

-----------------------------------------------------------------------------

\* The invariant is inductive: it holds of the empty managers, and every step keeps it.
LEMMA InitIInv == Init => IInv
<1> SUFFICES ASSUME Init PROVE IInv
  OBVIOUS
<1>1. NoRecord \in Records /\ ~NoRecord.present
  BY DEF NoRecord, Records
<1>2. TypeOK
  BY <1>1 DEF Init, TypeOK, Stages
<1>3. \A p \in Processes, a \in Agents : stage[p][a] = "none" /\ target[p][a] = NoResource
  BY DEF Init
<1>4. "none" \notin Acquiring \cup InClose \cup Clearing
  BY DEF Acquiring, InClose, Clearing
<1>5. AgentInv /\ OneCloser /\ OneAcquirer
  BY <1>3, <1>4 DEF AgentInv, AgentOK, OneCloser, OneAcquirer
<1>6. RecordInv /\ FlockInv
  BY <1>1, <1>3 DEF Init, RecordInv, FlockInv, Holds, Opening
<1>7. FaultInv /\ FaultKept
  BY <1>1, <1>3 DEF Init, FaultInv, FaultKept
<1> QED
  BY <1>2, <1>5, <1>6, <1>7 DEF IInv

\* ... every action of Next, part by part.
LEMMA StepIInv == IInv /\ [Next]_vars => IInv'
<1>1. ASSUME IInv, Next PROVE IInv'
  BY <1>1, TypeStep, AgentStep, RecordStep, FlockStep, FaultStep, KeptStep DEF IInv
<1>2. ASSUME IInv, UNCHANGED vars PROVE IInv'
  <2> USE <1>2 DEF vars, agentVars, acquireVars, faultVars, IInv
  <2>1. TypeOK'
    BY DEF TypeOK
  <2>2. AgentInv' /\ OneCloser' /\ OneAcquirer'
    BY DEF AgentInv, AgentOK, OneCloser, OneAcquirer
  <2>3. RecordInv' /\ FlockInv'
    BY DEF RecordInv, FlockInv, Holds, Opening, Unlocked
  <2>4. FaultInv' /\ FaultKept'
    BY DEF FaultInv, KnowledgeOK, Known, Live, Unlocked, FaultKept
  <2> QED
    BY <2>1, <2>2, <2>3, <2>4
<1> QED
  BY <1>1, <1>2

\* ... so every behaviour keeps to it.
LEMMA SpecIInv == Spec => []IInv
BY InitIInv, StepIInv, PTL DEF Spec

\* The variables keep the types of the manager's records, files and threads.
THEOREM TypeCorrect == Spec => []TypeOK
<1>1. IInv => TypeOK
  BY DEF IInv
<1> QED
  BY <1>1, SpecIInv, PTL

\* Whatever opens, closes, fails and crashes, no physical identity of this node's
\* devices has two open connections.
THEOREM DevicesHaveOneOwner == Spec => []SingleOwner
<1>1. IInv => SingleOwner
  <2>1. ASSUME IInv, NEW p \in Processes, NEW r \in Resources, handle[p][r] PROVE Holds(p, r)
    <3>1. ~Unlocked(p, r)
      BY <2>1 DEF IInv, AgentInv, AgentOK, Unlocked
    <3> QED
      BY <2>1, <3>1 DEF IInv, RecordInv, Holds
  <2> QED
    BY <2>1, HeldApart DEF SingleOwner
<1> QED
  BY <1>1, SpecIInv, PTL

\* Releases and shutdowns that meet never run the closer of one record twice.
THEOREM RecordsHaveOneCloser == Spec => []OneCloser
<1>1. IInv => OneCloser
  BY DEF IInv
<1> QED
  BY <1>1, SpecIInv, PTL

\* A failure outlives closes, restarts and other processes until it is cleared, also
\* when the ledger was read before the flocks were taken; but for a failure that is
\* marked too late for the acquire or the close that is under way.
THEOREM FaultsAreKept == Spec => []FaultKept
<1>1. IInv => FaultKept
  BY DEF IInv
<1> QED
  BY <1>1, SpecIInv, PTL

\* A step that prepares a device finds no uncleared failure of it.
LEMMA PrepareStep ==
    ASSUME IInv, Next, NEW p \in Processes, NEW r \in Resources,
           ~record[p][r].prepared, record'[p][r].prepared
    PROVE  Needs(r) \cap Live = {}
<1> USE DEF IInv
<1> DEFINE Goal == Needs(r) \cap Live = {}
<1>0. /\ record \in [Processes -> [Resources -> Records]] /\ record[p][r] \in Records
      /\ ~NoRecord.prepared
  BY DEF TypeOK, NoRecord
<1>1. ASSUME NEW q \in Processes, NEW c \in Clients, NEW s \in Resources, LeaseNext(q, c, s)
      PROVE  Goal
  <2>1. CASE AcquirePrepared(q, c, s)
    <3>1. q = p /\ s = r
      BY <2>1, <1>0 DEF AcquirePrepared
    <3> QED
      BY <2>1, <3>1 DEF AcquirePrepared, Unmarked, FaultKept, Live
  <2>3. CASE PrepareFails(q, c, s)
    BY <2>3, <1>0 DEF PrepareFails, Records
  <2>5. CASE record' = record
    BY <2>5
  <2> QED
    BY <1>1, <2>1, <2>3, <2>5 DEF LeaseNext, AcquireShared, AcquireReads, Release
<1>2. ASSUME NEW q \in Processes, NEW a \in Agents, CloseStep(q, a) PROVE Goal
  <2>1. target[q][a] \in Resources
    BY <1>2, TargetType DEF CloseStep, CloseBegins, CloseWaits, WaitEnds, CloserReturns,
       CloserFails, PopUnresolved, ClearLedger, Unlock, Forget, Quarantine
  <2>2. CASE CloseBegins(q, a)
    BY <2>1, <2>2, <1>0 DEF CloseBegins, Records
  <2>3. CASE CloserFails(q, a)
    BY <2>1, <2>3, <1>0 DEF CloserFails, Records
  <2>4. CASE Forget(q, a)
    BY <2>1, <2>4, <1>0 DEF Forget
  <2>5. CASE Quarantine(q, a)
    <3> DEFINE t == target[q][a]
               n == [record[q][t] EXCEPT !.closing = FALSE, !.uncertain = TRUE]
    <3>1. record' = [record EXCEPT ![q] = [record[q] EXCEPT ![t] = n]]
      BY <2>1, <2>5, <1>0 DEF Quarantine
    <3>2. n.prepared = record[q][t].prepared
      BY <2>1, <1>0 DEF Records
    <3> QED
      BY <2>1, <3>1, <3>2, <1>0
  <2>6. CASE record' = record
    BY <2>6
  <2> QED
    BY <1>2, <2>2, <2>3, <2>4, <2>5, <2>6 DEF CloseStep, CloseWaits, WaitEnds, CloserReturns,
       PopUnresolved, ClearLedger, Unlock
<1>3. ASSUME NEW q \in Processes, ManagerNext(q) PROVE Goal
  <2>1. CASE Crash(q)
    BY <2>1, <1>0 DEF Crash
  <2>2. ASSUME NEW s \in Resources, MarkUncertain(q, s) PROVE Goal
    BY <2>2, MarkedRecord
  <2> QED
    BY <1>3, <2>1, <2>2 DEF ManagerNext, Close, CloseNext
<1>4. ASSUME NEW i \in Identities, ClearUncertainty(i) PROVE Goal
  BY <1>4 DEF ClearUncertainty
<1>5. ASSUME NEW q \in Processes, NEW c \in Clients, AcquireStep(q, c) PROVE Goal
  <2>0. c \in Agents /\ target[q][c] \in Resources
    BY <1>5, AcquireTarget
  <2>1. CASE AcquireOpens(q, c)
    <3>1. q = p /\ target[q][c] = r /\ asked[p]
      BY <2>0, <2>1, <1>0 DEF AcquireOpens
    <3>2. stage[p][c] = "opening"
      BY <2>1, <3>1 DEF AcquireOpens
    <3>3. CASE r \in External
      BY <3>3, ExternalApart DEF Live
    <3>4. CASE r \notin External
      BY <2>0, <3>1, <3>2, <3>4 DEF FaultInv, KnowledgeOK, Known
    <3> QED
      BY <3>3, <3>4
  <2>2. CASE OpenFailsHalfway(q, c)
    BY <2>0, <2>2, <1>0 DEF OpenFailsHalfway
  <2>3. CASE record' = record
    BY <2>3
  <2> QED
    BY <1>5, <2>1, <2>2, <2>3 DEF AcquireStep, AcquireLocks, AcquireBusy, OpenFails
<1> QED
  BY <1>1, <1>2, <1>3, <1>4, <1>5 DEF Next

\* No device is prepared for motion over an uncleared failure, also when the mark and
\* the flocks passed from process to process between the look at the ledger and the
\* preparer; but for a failure that is marked too late.
THEOREM NoneIsPreparedBlindly == Spec => NoBlindPrepare
<1>1. IInv /\ [Next]_vars =>
        [\A p \in Processes, r \in Resources :
           (~record[p][r].prepared /\ record'[p][r].prepared)
              => Needs(r) \cap (fault \ unseen) = {}]_vars
  BY PrepareStep DEF Live
<1> QED
  BY <1>1, SpecIInv, PTL DEF Spec, NoBlindPrepare
=============================================================================
