------------------------- MODULE LeadCaptureProofs -------------------------
(***************************************************************************)
(* The safety of the intake core, for every set of events, jobs, contacts  *)
(* and every number of tries.                                              *)
(***************************************************************************)
EXTENDS LeadCapture, TLAPS

\* A job has tries left while it is queued, and an attempt while it runs.
TriesLeft ==
  \A j \in Jobs :
    /\ pc[j] = "undelivered" => tries[j] = 0
    /\ pc[j] = "queued" => tries[j] < MaxTries
    /\ pc[j] \in Running => tries[j] > 0

\* An attempt that has not committed has no lead row, nor has a later one.
RowsAreFresh ==
  \A j \in Jobs : \A n \in 1..MaxTries :
    /\ n > tries[j] => leads[<<j, n>>] = NoRow
    /\ n = tries[j] /\ pc[j] \in Running \ {"committed"} => leads[<<j, n>>] = NoRow

\* What the attempt has learnt or written is in the tables.
FoundExists ==
  \A j \in Jobs : pc[j] = "attach" => found[j] \in Attempts /\ leads[found[j]] # NoRow
CommittedRecorded ==
  \A j \in Jobs : pc[j] = "committed" =>
    /\ logs[EventOf[j]] # NoRow
    /\ verdict[j] = "capture"
         => logs[EventOf[j]] = [status |-> "received", lead |-> Attempt(j)]
ReceivedByCreator == \A x \in received : x.by = x.lead

IInv ==
  /\ Types /\ TriesLeft /\ SlotIsExclusive /\ RowsAreFresh
  /\ FoundExists /\ CommittedRecorded /\ ReceivedByCreator
  /\ OutcomesAgree /\ ContactKeysUnique /\ ReceivedOncePerLead /\ EndedIsRecorded

USE EventOfAssumption, KindOfAssumption, SentAssumption, ReadingsAssumption,
    MaxTriesAssumption, SentinelAssumption

LEMMA AttemptType ==
  ASSUME Types, TriesLeft, NEW j \in Jobs, pc[j] \in Running
  PROVE  Attempt(j) \in Attempts
BY DEF Types, TriesLeft, Attempt, Attempts

LEMMA EnrichType ==
  ASSUME NEW a \in Identity, NEW b \in Identity
  PROVE  Enrich(a, b) \in Identity
BY DEF Enrich, Or, Identity

LEMMA StoredType ==
  ASSUME NEW p \in Phones \cup {None}
  PROVE  Stored(p) \in Keys \cup {None}
BY DEF Stored, PhoneKey, Keys

LEMMA NewLeadType ==
  ASSUME Types, NEW j \in Jobs
  PROVE  NewLead(j) \in Lead
<1>1. ident[j] \in Identity /\ verdict[j] \in Terminal \cup {"capture"}
  BY DEF Types
<1>2. Stored(ident[j].phone) \in Keys \cup {None}
  BY <1>1, StoredType DEF Identity
<1> QED
  BY <1>1, <1>2 DEF NewLead, Lead, Identity, Terminal

LEMMA NobodyType == Nobody \in Identity
BY DEF Nobody, Identity

\* The event goes on to its slot as a terminal one, or to the pre-flight check.
LEMMA FilterShape ==
  ASSUME NEW j \in Jobs, Filter(j)
  PROVE  /\ pc[j] = "filter"
         /\ UNCHANGED <<leads, logs, touchpoints, received, connected, tenantReady,
                       tries, found, raised>>
         /\ \/ /\ pc' = [pc EXCEPT ![j] = "reserve"] /\ ident' = ident
               /\ \E v \in Terminal : verdict' = [verdict EXCEPT ![j] = v]
            \/ /\ pc' = [pc EXCEPT ![j] = "preflight"] /\ verdict' = verdict
               /\ \E read \in Readings[EventOf[j]] \cup {Nobody} :
                    ident' = [ident EXCEPT ![j] = Enrich(@, read)]
<1>1. ASSUME NEW class, FilterTerminal(j, class)
      PROVE  /\ UNCHANGED <<leads, logs, touchpoints, received, connected, tenantReady,
                           tries, ident, found, raised>>
             /\ pc' = [pc EXCEPT ![j] = "reserve"]
             /\ \E v \in Terminal : verdict' = [verdict EXCEPT ![j] = v]
  <2>1. TerminalStage[class] \in Terminal
    BY <1>1 DEF FilterTerminal, TerminalStage, Terminal
  <2> QED
    BY <1>1, <2>1 DEF FilterTerminal, tables, world
<1>2. CASE FilterStage1(j)
  BY <1>1, <1>2 DEF FilterStage1
<1>3. CASE FilterStage2(j)
  <2>1. PICK class \in Classification, sure \in BOOLEAN :
          \/ FilterTerminal(j, Calibrate(class, sure))
          \/ \E read \in Readings[EventOf[j]] \cup {Nobody} :
               FilterLead(j, Calibrate(class, sure), read)
    BY <1>3 DEF FilterStage2
  <2>2. pc[j] = "filter"
    BY <1>3 DEF FilterStage2
  <2>3. CASE FilterTerminal(j, Calibrate(class, sure))
    BY <1>1, <2>2, <2>3
  <2>4. CASE \E read \in Readings[EventOf[j]] \cup {Nobody} :
               FilterLead(j, Calibrate(class, sure), read)
    BY <2>2, <2>4 DEF FilterLead, tables, world
  <2> QED
    BY <2>1, <2>3, <2>4
<1> QED
  BY <1>2, <1>3 DEF Filter

\* A job that ends without a trace: its event has no id to log it under.
Dropped(j) ==
  /\ pc[j] \in {"undelivered", "filter"} /\ EventOf[j] \notin Identified
  /\ Finish(j)
  /\ UNCHANGED <<tables, received, world>>

\* A step, by the job that takes it; every exception is a Raise.
LEMMA StepCases ==
  ASSUME [Next]_vars
  PROVE  \/ UNCHANGED vars
         \/ ChannelChanges \/ TenantActivates
         \/ \E j \in Jobs :
              \/ EnqueueDelivery(j) \/ LogUnroutable(j)
              \/ pc[j] \in Running /\ \E x \in {"failure", "assertion", "multiple", "unique"} : Raise(j, x)
              \/ StartAttempt(j) \/ Filter(j)
              \/ CheckPreFlight(j) \/ FetchFields(j) \/ FetchRefused(j)
              \/ LogFetchFailed(j) \/ ReserveSlot(j) \/ Redelivered(j) \/ Dropped(j)
              \/ QueryMisses(j) \/ QueryHits(j) \/ CommitDuplicate(j)
              \/ FlushLead(j) \/ CommitLead(j) \/ ReturnLead(j)
<1> USE DEF Running, Holding, Dedup
<1>1. ASSUME NEW j \in Jobs, Abort(j) PROVE pc[j] \in Running /\ Raise(j, "failure")
  BY <1>1 DEF Abort
<1>2. ASSUME NEW j \in Jobs, RedeliveredUnlinked(j)
      PROVE pc[j] \in Running /\ Raise(j, "assertion")
  BY <1>2 DEF RedeliveredUnlinked
<1>3. ASSUME NEW j \in Jobs, QueryAmbiguous(j)
      PROVE pc[j] \in Running /\ Raise(j, "multiple")
  BY <1>3 DEF QueryAmbiguous
<1>4. ASSUME NEW j \in Jobs, FlushRefused(j)
      PROVE pc[j] \in Running /\ Raise(j, "unique")
  BY <1>4 DEF FlushRefused
<1>5. ASSUME NEW j \in Jobs, DropUnroutable(j) \/ IgnoreStatus(j) PROVE Dropped(j)
  BY <1>5 DEF DropUnroutable, IgnoreStatus, Dropped, Identified
<1> QED
  BY <1>1, <1>2, <1>3, <1>4, <1>5 DEF Next, WorkerStep

\* Each action keeps the state well formed.
LEMMA TypesStep == Types /\ TriesLeft /\ FoundExists /\ [Next]_vars => Types'
<1> SUFFICES ASSUME Types, TriesLeft, FoundExists, [Next]_vars PROVE Types'
  OBVIOUS
<1> USE NobodyType DEF Types, tables, world, local, Running, Holding, Dedup, Resting
<1>1. CASE UNCHANGED vars
  BY <1>1 DEF vars
<1>2. CASE ChannelChanges \/ TenantActivates
  BY <1>2 DEF ChannelChanges, TenantActivates
<1>3. ASSUME NEW j \in Jobs, EnqueueDelivery(j) PROVE Types'
  BY <1>3 DEF EnqueueDelivery
<1>4. ASSUME NEW j \in Jobs, LogUnroutable(j) PROVE Types'
  BY <1>4 DEF LogUnroutable, Finish, IntakeEventLog, Unlinked
<1>5. ASSUME NEW j \in Jobs, NEW x \in {"failure", "assertion", "multiple", "unique"},
             Raise(j, x) PROVE Types'
  BY <1>5 DEF Raise
<1>6. ASSUME NEW j \in Jobs, StartAttempt(j) PROVE Types'
  BY <1>6 DEF StartAttempt, TriesLeft
<1>7. ASSUME NEW j \in Jobs, Filter(j) PROVE Types'
  BY FilterShape, <1>7, EnrichType DEF Terminal
<1>8. ASSUME NEW j \in Jobs,
             CheckPreFlight(j) \/ FetchFields(j) \/ FetchRefused(j) PROVE Types'
  BY <1>8, EnrichType DEF CheckPreFlight, FetchFields, FetchRefused, Terminal
<1>9. ASSUME NEW j \in Jobs, LogFetchFailed(j) PROVE Types'
  BY <1>9 DEF LogFetchFailed, Finish, IntakeEventLog, Unlinked
<1>10. ASSUME NEW j \in Jobs, ReserveSlot(j) \/ Redelivered(j) \/ Dropped(j) PROVE Types'
  BY <1>10 DEF ReserveSlot, Redelivered, Dropped, Finish
<1>11. ASSUME NEW j \in Jobs, QueryMisses(j) \/ QueryHits(j) \/ FlushLead(j) PROVE Types'
  BY <1>11 DEF QueryMisses, QueryHits, FlushLead, NextQuery
<1>12. ASSUME NEW j \in Jobs, CommitDuplicate(j) PROVE Types'
  BY <1>12, AttemptType DEF CommitDuplicate, Finish, IntakeEventLog, LeadTouchpoint,
     FoundExists
<1>13. ASSUME NEW j \in Jobs, CommitLead(j) PROVE Types'
  BY <1>13, AttemptType, NewLeadType DEF CommitLead, IntakeEventLog, LeadTouchpoint,
     LogStatus
<1>14. ASSUME NEW j \in Jobs, ReturnLead(j) PROVE Types'
  BY <1>14, AttemptType DEF ReturnLead, Finish
<1> QED
  BY <1>1, <1>2, <1>3, <1>4, <1>5, <1>6, <1>7, <1>8, <1>9, <1>10, <1>11, <1>12,
     <1>13, <1>14, StepCases

-----------------------------------------------------------------------------
\* One lemma for each part of the inductive invariant.
LEMMA TriesStep == Types /\ TriesLeft /\ [Next]_vars => TriesLeft'
<1> SUFFICES ASSUME Types, TriesLeft, [Next]_vars PROVE TriesLeft'
  OBVIOUS
<1> USE DEF Types, TriesLeft, tables, world, local, Running, Holding, Dedup, Resting
<1>1. CASE UNCHANGED vars
  BY <1>1 DEF vars
<1>2. CASE ChannelChanges \/ TenantActivates
  BY <1>2 DEF ChannelChanges, TenantActivates
<1>3. ASSUME NEW j \in Jobs,
             \/ EnqueueDelivery(j) \/ LogUnroutable(j) \/ LogFetchFailed(j)
             \/ Redelivered(j) \/ Dropped(j) \/ CommitDuplicate(j) \/ ReturnLead(j)
      PROVE TriesLeft'
  BY <1>3 DEF EnqueueDelivery, LogUnroutable, LogFetchFailed, Redelivered, Dropped,
              CommitDuplicate, ReturnLead, Finish
<1>4. ASSUME NEW j \in Jobs, pc[j] \in Running,
             \E x \in {"failure", "assertion", "multiple", "unique"} : Raise(j, x)
      PROVE TriesLeft'
  BY <1>4 DEF Raise
<1>5. ASSUME NEW j \in Jobs, StartAttempt(j) PROVE TriesLeft'
  BY <1>5 DEF StartAttempt
<1>6. ASSUME NEW j \in Jobs,
             \/ Filter(j) \/ CheckPreFlight(j) \/ FetchFields(j) \/ FetchRefused(j)
             \/ ReserveSlot(j) \/ QueryMisses(j) \/ QueryHits(j) \/ FlushLead(j)
             \/ CommitLead(j)
      PROVE TriesLeft'
  BY FilterShape, <1>6 DEF CheckPreFlight, FetchFields,
              FetchRefused, ReserveSlot, QueryMisses, QueryHits, FlushLead, CommitLead,
              NextQuery
<1> QED
  BY <1>1, <1>2, <1>3, <1>4, <1>5, <1>6, StepCases

LEMMA SlotStep == Types /\ SlotIsExclusive /\ [Next]_vars => SlotIsExclusive'
<1> SUFFICES ASSUME Types, SlotIsExclusive, [Next]_vars PROVE SlotIsExclusive'
  OBVIOUS
<1> USE DEF Types, SlotIsExclusive, tables, world, local, Running, Holding, Dedup, Resting
<1>1. CASE UNCHANGED vars
  BY <1>1 DEF vars
<1>2. CASE ChannelChanges \/ TenantActivates
  BY <1>2 DEF ChannelChanges, TenantActivates
<1>3. ASSUME NEW j \in Jobs, LogUnroutable(j) \/ LogFetchFailed(j)
      PROVE SlotIsExclusive'
  BY <1>3 DEF LogUnroutable, LogFetchFailed, Finish, SlotFree
<1>4. ASSUME NEW j \in Jobs, pc[j] \in Running,
             \E x \in {"failure", "assertion", "multiple", "unique"} : Raise(j, x)
      PROVE SlotIsExclusive'
  BY <1>4 DEF Raise
<1>5. ASSUME NEW j \in Jobs,
             \/ EnqueueDelivery(j) \/ StartAttempt(j) \/ Filter(j) \/ CheckPreFlight(j)
             \/ FetchFields(j) \/ FetchRefused(j) \/ Redelivered(j) \/ Dropped(j)
             \/ ReturnLead(j)
      PROVE SlotIsExclusive'
  BY FilterShape, <1>5 DEF EnqueueDelivery, StartAttempt, CheckPreFlight, FetchFields,
     FetchRefused, Redelivered, Dropped, ReturnLead, Finish
<1>6. ASSUME NEW j \in Jobs, ReserveSlot(j) PROVE SlotIsExclusive'
  BY <1>6 DEF ReserveSlot, SlotFree
<1>7. ASSUME NEW j \in Jobs, QueryMisses(j) \/ QueryHits(j) \/ FlushLead(j)
      PROVE SlotIsExclusive'
  BY <1>7 DEF QueryMisses, QueryHits, FlushLead, NextQuery
<1>8. ASSUME NEW j \in Jobs, CommitDuplicate(j) \/ CommitLead(j)
      PROVE SlotIsExclusive'
  BY <1>8 DEF CommitDuplicate, CommitLead, Finish
<1> QED
  BY <1>1, <1>2, <1>3, <1>4, <1>5, <1>6, <1>7, <1>8, StepCases

LEMMA RowsStep == Types /\ TriesLeft /\ RowsAreFresh /\ [Next]_vars => RowsAreFresh'
<1> SUFFICES ASSUME Types, TriesLeft, RowsAreFresh, [Next]_vars,
                    NEW k \in Jobs, NEW n \in 1..MaxTries
             PROVE  /\ n > tries'[k] => leads'[<<k, n>>] = NoRow
                    /\ n = tries'[k] /\ pc'[k] \in Running \ {"committed"}
                         => leads'[<<k, n>>] = NoRow
  BY DEF RowsAreFresh
<1> DEFINE Same == leads'[<<k, n>>] = leads[<<k, n>>] /\ tries'[k] = tries[k]
<1>0. /\ n > tries[k] => leads[<<k, n>>] = NoRow
      /\ n = tries[k] /\ pc[k] \in Running \ {"committed"} => leads[<<k, n>>] = NoRow
      /\ pc \in [Jobs -> Running \cup Resting] /\ tries \in [Jobs -> 0..MaxTries]
      /\ tries[k] \in Nat /\ n \in Nat
  BY DEF RowsAreFresh, Types
<1> USE <1>0 DEF tables, world, local, Running, Holding, Dedup, Resting
<1>1. CASE UNCHANGED vars
  BY <1>1 DEF vars
<1>2. CASE ChannelChanges \/ TenantActivates
  BY <1>2 DEF ChannelChanges, TenantActivates
<1>3. ASSUME NEW j \in Jobs,
             \/ EnqueueDelivery(j) \/ LogUnroutable(j) \/ LogFetchFailed(j)
             \/ Redelivered(j) \/ Dropped(j) \/ CommitDuplicate(j) \/ ReturnLead(j)
      PROVE Same /\ (pc'[k] = pc[k] \/ pc'[k] \notin Running)
  BY <1>3 DEF EnqueueDelivery, LogUnroutable, LogFetchFailed, Redelivered, Dropped,
              CommitDuplicate, ReturnLead, Finish
<1>4. ASSUME NEW j \in Jobs, pc[j] \in Running,
             \E x \in {"failure", "assertion", "multiple", "unique"} : Raise(j, x)
      PROVE Same /\ (pc'[k] = pc[k] \/ pc'[k] \notin Running)
  BY <1>4 DEF Raise
<1>5. ASSUME NEW j \in Jobs, StartAttempt(j)
      PROVE /\ leads'[<<k, n>>] = leads[<<k, n>>]
            /\ \/ tries'[k] = tries[k] + 1
               \/ tries'[k] = tries[k] /\ pc'[k] = pc[k]
  BY <1>5 DEF StartAttempt
<1>6. ASSUME NEW j \in Jobs,
             \/ Filter(j) \/ CheckPreFlight(j) \/ FetchFields(j) \/ FetchRefused(j)
             \/ ReserveSlot(j) \/ QueryMisses(j) \/ QueryHits(j) \/ FlushLead(j)
      PROVE Same /\ (pc'[k] = pc[k] \/ pc[k] \in Running \ {"committed"})
  BY FilterShape, <1>6 DEF CheckPreFlight, FetchFields,
              FetchRefused, ReserveSlot, QueryMisses, QueryHits, FlushLead
<1>7. ASSUME NEW j \in Jobs, CommitLead(j)
      PROVE /\ tries'[k] = tries[k]
            /\ \/ leads'[<<k, n>>] = leads[<<k, n>>] /\ pc'[k] = pc[k]
               \/ n # tries[k] /\ leads'[<<k, n>>] = leads[<<k, n>>]
               \/ n = tries[k] /\ pc'[k] = "committed"
  <2>1. leads' = [leads EXCEPT ![<<j, tries[j]>>] = NewLead(j)]
    BY <1>7 DEF CommitLead, Attempt
  <2>2. <<k, n>> # <<j, tries[j]>> => leads'[<<k, n>>] = leads[<<k, n>>]
    BY <2>1 DEF Types, Attempts
  <2>3. tries' = tries /\ pc' = [pc EXCEPT ![j] = "committed"]
    BY <1>7 DEF CommitLead
  <2> QED
    BY <2>2, <2>3
<1> QED
  <2>1. CASE Same /\ (pc'[k] = pc[k] \/ pc'[k] \notin Running)
    BY <2>1
  <2>2. CASE Same /\ (pc'[k] = pc[k] \/ pc[k] \in Running \ {"committed"})
    BY <2>2
  <2>3. CASE UNCHANGED vars
    BY <1>1, <2>3
  <2>4. CASE ChannelChanges \/ TenantActivates
    BY <1>2, <2>4
  <2>5. ASSUME NEW j \in Jobs, StartAttempt(j) PROVE Same \/ n < tries'[k] \/ leads'[<<k, n>>] = NoRow
    BY <1>5, <2>5
  <2> QED
    BY <1>1, <1>2, <1>3, <1>4, <1>5, <1>6, <1>7, <2>1, <2>2, StepCases

\* The four kinds of step that write a table.
LogsUnlinked(e) ==
  /\ \E s \in Unlinked : logs' = [logs EXCEPT ![e] =
       IF @ = NoRow THEN [status |-> s, lead |-> None] ELSE @]
  /\ UNCHANGED <<leads, touchpoints, received>>

LEMMA TableSteps ==
  ASSUME [Next]_vars
  PROVE  \/ UNCHANGED tables
         \/ \E j \in Jobs : \/ LogsUnlinked(EventOf[j])
                            \/ CommitDuplicate(j) \/ CommitLead(j)
<1> USE DEF tables
<1>1. CASE UNCHANGED vars \/ ChannelChanges \/ TenantActivates
  BY <1>1 DEF vars, ChannelChanges, TenantActivates
<1>2. ASSUME NEW j \in Jobs, LogUnroutable(j) \/ LogFetchFailed(j)
      PROVE LogsUnlinked(EventOf[j])
  BY <1>2 DEF LogUnroutable, LogFetchFailed, LogsUnlinked, Unlinked
<1>3. ASSUME NEW j \in Jobs,
             \/ EnqueueDelivery(j) \/ StartAttempt(j) \/ Filter(j)
             \/ CheckPreFlight(j) \/ FetchFields(j) \/ FetchRefused(j)
             \/ ReserveSlot(j) \/ Redelivered(j) \/ Dropped(j)
             \/ QueryMisses(j) \/ QueryHits(j)
             \/ FlushLead(j) \/ ReturnLead(j)
             \/ \E x \in {"failure", "assertion", "multiple", "unique"} : Raise(j, x)
      PROVE UNCHANGED tables
  BY FilterShape, <1>3 DEF EnqueueDelivery, StartAttempt, CheckPreFlight, FetchFields,
     FetchRefused, ReserveSlot, Redelivered, Dropped, QueryMisses, QueryHits, FlushLead,
     ReturnLead, Raise
<1> QED
  BY <1>1, <1>2, <1>3, StepCases

LEMMA RowTypes ==
  /\ \A s \in Terminal \cup Unlinked \cup {"received", "duplicate"} :
       \A a \in Attempts \cup {None} : [status |-> s, lead |-> a] # NoRow
  /\ \A r \in Lead : r # NoRow
BY DEF IntakeEventLog

\* What a commit writes, in the terms of the tables.
LEMMA LeadCommits ==
  ASSUME Types, TriesLeft, SlotIsExclusive, RowsAreFresh, NEW j \in Jobs, CommitLead(j)
  PROVE  /\ Attempt(j) \in Attempts /\ leads[Attempt(j)] = NoRow
         /\ logs[EventOf[j]] = NoRow /\ EventOf[j] \in Events
         /\ NewLead(j) \in Lead /\ NewLead(j) # NoRow
         /\ NewLead(j).stage = IF verdict[j] = "capture" THEN "captured" ELSE verdict[j]
         /\ leads' = [leads EXCEPT ![Attempt(j)] = NewLead(j)]
         /\ logs' = [logs EXCEPT ![EventOf[j]] =
                       [status |-> LogStatus(j), lead |-> Attempt(j)]]
         /\ [status |-> LogStatus(j), lead |-> Attempt(j)] # NoRow
         /\ LogStatus(j) \in Terminal \cup {"received"}
         /\ LogStatus(j) = "received" <=> verdict[j] = "capture"
         /\ verdict[j] \in Terminal \cup {"capture"}
<1>1. pc[j] = "finalise" /\ pc[j] \in Running \ {"committed"}
  BY DEF CommitLead, Running, Holding
<1>2. Attempt(j) \in Attempts /\ leads[Attempt(j)] = NoRow
  BY <1>1, AttemptType DEF RowsAreFresh, Types, Attempt, Attempts
<1>3. logs[EventOf[j]] = NoRow
  BY <1>1 DEF SlotIsExclusive, Holding
<1>4. verdict[j] \in Terminal \cup {"capture"}
  BY DEF Types
<1>5. NewLead(j) \in Lead
  BY NewLeadType
<1>6. LogStatus(j) \in Terminal \cup {"received"}
      /\ (LogStatus(j) = "received" <=> verdict[j] = "capture")
  BY <1>4 DEF LogStatus, Terminal
<1> QED
  BY <1>2, <1>3, <1>4, <1>5, <1>6, RowTypes DEF CommitLead, NewLead

LEMMA DuplicateCommits ==
  ASSUME Types, TriesLeft, SlotIsExclusive, FoundExists, NEW j \in Jobs, CommitDuplicate(j)
  PROVE  /\ Attempt(j) \in Attempts /\ EventOf[j] \in Events
         /\ found[j] \in Attempts /\ leads[found[j]] # NoRow
         /\ logs[EventOf[j]] = NoRow
         /\ leads' = leads
         /\ logs' = [logs EXCEPT ![EventOf[j]] =
                       [status |-> "duplicate", lead |-> found[j]]]
         /\ [status |-> "duplicate", lead |-> found[j]] # NoRow
<1>1. pc[j] = "attach" /\ pc[j] \in Running /\ pc[j] \in Holding
  BY DEF CommitDuplicate, Running, Holding
<1>2. Attempt(j) \in Attempts
  BY <1>1, AttemptType
<1>3. logs[EventOf[j]] = NoRow /\ found[j] \in Attempts /\ leads[found[j]] # NoRow
  BY <1>1 DEF SlotIsExclusive, FoundExists
<1> QED
  BY <1>2, <1>3, RowTypes DEF CommitDuplicate

-----------------------------------------------------------------------------
LEMMA FoundStep ==
  Types /\ TriesLeft /\ SlotIsExclusive /\ RowsAreFresh /\ FoundExists /\ [Next]_vars
    => FoundExists'
<1> SUFFICES ASSUME Types, TriesLeft, SlotIsExclusive, RowsAreFresh, FoundExists, [Next]_vars,
                    NEW k \in Jobs, pc'[k] = "attach"
             PROVE  found'[k] \in Attempts /\ leads'[found'[k]] # NoRow
  BY DEF FoundExists
<1>0. /\ pc[k] = "attach" => found[k] \in Attempts /\ leads[found[k]] # NoRow
      /\ pc \in [Jobs -> Running \cup Resting] /\ found \in [Jobs -> Attempts \cup {None}]
      /\ leads \in [Attempts -> Lead \cup {NoRow}]
  BY DEF FoundExists, Types
<1>1. \A a \in Attempts : leads[a] # NoRow => leads'[a] # NoRow
  <2>1. ASSUME NEW j \in Jobs, CommitLead(j) PROVE \A a \in Attempts : leads[a] # NoRow => leads'[a] # NoRow
    BY <2>1, <1>0, LeadCommits
  <2> QED
    BY <2>1, TableSteps DEF tables, LogsUnlinked, CommitDuplicate
<1>2. CASE pc[k] = "attach" /\ found'[k] = found[k]
  BY <1>0, <1>1, <1>2
<1>3. CASE UNCHANGED vars \/ ChannelChanges \/ TenantActivates
  BY <1>0, <1>1, <1>3 DEF vars, ChannelChanges, TenantActivates, local
<1>4. ASSUME NEW j \in Jobs, QueryHits(j) PROVE found'[k] \in Attempts /\ leads'[found'[k]] # NoRow
  BY <1>0, <1>4 DEF QueryHits, Matches, tables
<1>5. ASSUME NEW j \in Jobs,
             \/ EnqueueDelivery(j) \/ LogUnroutable(j) \/ StartAttempt(j) \/ Filter(j)
             \/ CheckPreFlight(j) \/ FetchFields(j) \/ FetchRefused(j) \/ LogFetchFailed(j)
             \/ ReserveSlot(j) \/ Redelivered(j) \/ Dropped(j)
             \/ QueryMisses(j) \/ FlushLead(j)
             \/ CommitDuplicate(j) \/ CommitLead(j) \/ ReturnLead(j)
             \/ \E x \in {"failure", "assertion", "multiple", "unique"} : Raise(j, x)
      PROVE pc[k] = "attach" /\ found'[k] = found[k]
  BY FilterShape, <1>0, <1>5 DEF EnqueueDelivery, LogUnroutable, StartAttempt,
     CheckPreFlight, FetchFields, FetchRefused, LogFetchFailed, ReserveSlot,
     Redelivered, Dropped, QueryMisses, NextQuery, FlushLead, CommitDuplicate,
     CommitLead, ReturnLead, Raise, Finish, local, Dedup
<1> QED
  BY <1>2, <1>3, <1>4, <1>5, StepCases

\* A recorded event keeps its row: intake_event_logs is append-only.
LEMMA LogsKept ==
  ASSUME Types, TriesLeft, SlotIsExclusive, RowsAreFresh, FoundExists, [Next]_vars,
         NEW e \in Events, logs[e] # NoRow
  PROVE  logs'[e] = logs[e]
<1>0. logs \in [Events -> IntakeEventLog \cup {NoRow}]
  BY DEF Types
<1>1. ASSUME NEW j \in Jobs, CommitLead(j) PROVE logs'[e] = logs[e]
  BY <1>0, <1>1, LeadCommits
<1>2. ASSUME NEW j \in Jobs, CommitDuplicate(j) PROVE logs'[e] = logs[e]
  BY <1>0, <1>2, DuplicateCommits
<1>3. ASSUME NEW j \in Jobs, LogsUnlinked(EventOf[j]) PROVE logs'[e] = logs[e]
  BY <1>0, <1>3 DEF LogsUnlinked
<1> QED
  BY <1>1, <1>2, <1>3, TableSteps DEF tables

LEMMA CommittedStep ==
  /\ Types /\ TriesLeft /\ SlotIsExclusive /\ RowsAreFresh /\ FoundExists
  /\ CommittedRecorded /\ [Next]_vars
  => CommittedRecorded'
<1> SUFFICES ASSUME Types, TriesLeft, SlotIsExclusive, RowsAreFresh, FoundExists,
                    CommittedRecorded, [Next]_vars,
                    NEW k \in Jobs, pc'[k] = "committed"
             PROVE  /\ logs'[EventOf[k]] # NoRow
                    /\ verdict'[k] = "capture"
                         => logs'[EventOf[k]] = [status |-> "received",
                                                 lead |-> <<k, tries'[k]>>]
  BY DEF CommittedRecorded, Attempt
<1>0. /\ pc \in [Jobs -> Running \cup Resting]
      /\ verdict \in [Jobs -> Terminal \cup {"capture"}]
      /\ logs \in [Events -> IntakeEventLog \cup {NoRow}]
      /\ EventOf[k] \in Events
  BY DEF Types
<1>1. CASE pc[k] = "committed" /\ verdict'[k] = verdict[k] /\ tries'[k] = tries[k]
  BY <1>1, LogsKept DEF CommittedRecorded, Attempt
<1>2. CASE UNCHANGED vars \/ ChannelChanges \/ TenantActivates
  BY <1>1, <1>2 DEF vars, ChannelChanges, TenantActivates, local
<1>3. ASSUME NEW j \in Jobs, CommitLead(j), k = j
      PROVE  /\ logs'[EventOf[k]] # NoRow
             /\ verdict'[k] = "capture"
                  => logs'[EventOf[k]] = [status |-> "received",
                                          lead |-> <<k, tries'[k]>>]
  <2>1. verdict' = verdict /\ tries' = tries
    BY <1>3 DEF CommitLead, local
  <2> QED
    BY <1>0, <1>3, <2>1, LeadCommits DEF Attempt
<1>4. ASSUME NEW j \in Jobs, CommitLead(j), k # j
      PROVE  pc[k] = "committed" /\ verdict'[k] = verdict[k] /\ tries'[k] = tries[k]
  BY <1>0, <1>4 DEF CommitLead, local
<1>5. ASSUME NEW j \in Jobs,
             \/ EnqueueDelivery(j) \/ LogUnroutable(j) \/ StartAttempt(j) \/ Filter(j)
             \/ CheckPreFlight(j) \/ FetchFields(j) \/ FetchRefused(j) \/ LogFetchFailed(j)
             \/ ReserveSlot(j) \/ Redelivered(j) \/ Dropped(j)
             \/ QueryMisses(j) \/ QueryHits(j)
             \/ FlushLead(j) \/ CommitDuplicate(j) \/ ReturnLead(j)
             \/ \E x \in {"failure", "assertion", "multiple", "unique"} : Raise(j, x)
      PROVE  pc[k] = "committed" /\ verdict'[k] = verdict[k] /\ tries'[k] = tries[k]
  <2>1. tries \in [Jobs -> 0..MaxTries]
    BY DEF Types
  <2> QED
    BY FilterShape, <1>0, <1>5, <2>1 DEF EnqueueDelivery, LogUnroutable, StartAttempt,
       CheckPreFlight, FetchFields, FetchRefused, LogFetchFailed, ReserveSlot,
       Redelivered, Dropped, QueryMisses, QueryHits, NextQuery, FlushLead,
       CommitDuplicate, ReturnLead, Raise, Finish, local, Dedup
<1> QED
  BY <1>1, <1>2, <1>3, <1>4, <1>5, StepCases

LEMMA ReceivedStep ==
  /\ Types /\ TriesLeft /\ SlotIsExclusive /\ RowsAreFresh /\ FoundExists
  /\ CommittedRecorded /\ ReceivedByCreator /\ ReceivedOncePerLead /\ [Next]_vars
  => ReceivedByCreator' /\ ReceivedOncePerLead'
<1> SUFFICES ASSUME Types, TriesLeft, SlotIsExclusive, RowsAreFresh, FoundExists,
                    CommittedRecorded, ReceivedByCreator, ReceivedOncePerLead, [Next]_vars
             PROVE  ReceivedByCreator' /\ ReceivedOncePerLead'
  OBVIOUS
<1>1. /\ received \subseteq [by : Attempts, lead : Attempts]
      /\ logs \in [Events -> IntakeEventLog \cup {NoRow}]
  BY DEF Types
<1>2. \/ received' = received
      \/ \E j \in Jobs : /\ ReturnLead(j) /\ verdict[j] = "capture"
                         /\ received' = received \cup
                              {[by |-> Attempt(j), lead |-> Attempt(j)]}
  <2>1. CASE UNCHANGED vars \/ ChannelChanges \/ TenantActivates
    BY <2>1 DEF vars, ChannelChanges, TenantActivates
  <2>2. ASSUME NEW j \in Jobs, ReturnLead(j)
        PROVE \/ received' = received
              \/ verdict[j] = "capture" /\ received' = received \cup
                              {[by |-> Attempt(j), lead |-> Attempt(j)]}
    BY <2>2 DEF ReturnLead
  <2>3. ASSUME NEW j \in Jobs,
             \/ EnqueueDelivery(j) \/ LogUnroutable(j) \/ StartAttempt(j) \/ Filter(j)
             \/ CheckPreFlight(j) \/ FetchFields(j) \/ FetchRefused(j) \/ LogFetchFailed(j)
             \/ ReserveSlot(j) \/ Redelivered(j) \/ Dropped(j)
             \/ QueryMisses(j) \/ QueryHits(j)
             \/ FlushLead(j) \/ CommitDuplicate(j) \/ CommitLead(j)
             \/ \E x \in {"failure", "assertion", "multiple", "unique"} : Raise(j, x)
        PROVE received' = received
    BY FilterShape, <2>3 DEF EnqueueDelivery, LogUnroutable, StartAttempt,
       CheckPreFlight, FetchFields, FetchRefused, LogFetchFailed, ReserveSlot,
       Redelivered, Dropped, QueryMisses, QueryHits, FlushLead, CommitDuplicate,
       CommitLead, Raise
  <2> QED
    BY <2>1, <2>2, <2>3, StepCases
<1>3. \A x \in received' : x \in [by : Attempts, lead : Attempts] /\ x.by = x.lead
  <2>1. ASSUME NEW j \in Jobs, ReturnLead(j) PROVE Attempt(j) \in Attempts
    BY <2>1, AttemptType DEF ReturnLead, Running
  <2> QED
    BY <1>1, <1>2, <2>1 DEF ReceivedByCreator
<1>4. \A x, y \in received' : x.lead = y.lead => x = y
  BY <1>3
<1>5. \A x \in received' : \E e \in Events :
        logs[e] = [status |-> "received", lead |-> x.lead]
  <2>1. ASSUME NEW j \in Jobs, ReturnLead(j), verdict[j] = "capture"
        PROVE \E e \in Events : logs[e] = [status |-> "received", lead |-> Attempt(j)]
    BY <2>1 DEF ReturnLead, CommittedRecorded
  <2> QED
    BY <1>2, <2>1 DEF ReceivedOncePerLead
<1>6. \A x \in received' : \E e \in Events :
        logs'[e] = [status |-> "received", lead |-> x.lead]
  BY <1>3, <1>5, LogsKept, RowTypes
<1> QED
  BY <1>3, <1>4, <1>6 DEF ReceivedByCreator, ReceivedOncePerLead

LEMMA EndedStep ==
  /\ Types /\ TriesLeft /\ SlotIsExclusive /\ RowsAreFresh /\ FoundExists
  /\ CommittedRecorded /\ EndedIsRecorded /\ [Next]_vars
  => EndedIsRecorded'
<1> SUFFICES ASSUME Types, TriesLeft, SlotIsExclusive, RowsAreFresh, FoundExists,
                    CommittedRecorded, EndedIsRecorded, [Next]_vars,
                    NEW k \in Jobs, pc'[k] = "ended", EventOf[k] \in Identified
             PROVE  logs'[EventOf[k]] # NoRow
  BY DEF EndedIsRecorded, Identified
<1>0. /\ pc \in [Jobs -> Running \cup Resting]
      /\ logs \in [Events -> IntakeEventLog \cup {NoRow}]
      /\ EventOf[k] \in Events
  BY DEF Types
<1>1. CASE pc[k] = "ended" \/ pc[k] = "committed"
  BY <1>0, <1>1, LogsKept DEF EndedIsRecorded, CommittedRecorded
<1>2. CASE UNCHANGED vars \/ ChannelChanges \/ TenantActivates
  BY <1>1, <1>2 DEF vars, ChannelChanges, TenantActivates
<1>3. ASSUME NEW j \in Jobs, k = j,
             LogUnroutable(j) \/ LogFetchFailed(j) \/ Redelivered(j) \/ Dropped(j)
             \/ CommitDuplicate(j)
      PROVE  logs'[EventOf[k]] # NoRow
  <2>1. CASE CommitDuplicate(j)
    BY <1>0, <1>3, <2>1, DuplicateCommits
  <2>2. CASE Redelivered(j) \/ Dropped(j)
    BY <1>0, <1>3, <2>2 DEF Redelivered, Dropped, Identified, tables
  <2>3. CASE LogUnroutable(j) \/ LogFetchFailed(j)
    BY <1>0, <1>3, <2>3, RowTypes DEF LogUnroutable, LogFetchFailed, Unlinked
  <2> QED
    BY <1>3, <2>1, <2>2, <2>3
<1>4. ASSUME NEW j \in Jobs,
             \/ EnqueueDelivery(j) \/ StartAttempt(j) \/ Filter(j)
             \/ CheckPreFlight(j) \/ FetchFields(j) \/ FetchRefused(j)
             \/ ReserveSlot(j) \/ QueryMisses(j) \/ QueryHits(j)
             \/ FlushLead(j) \/ CommitLead(j) \/ ReturnLead(j)
             \/ \E x \in {"failure", "assertion", "multiple", "unique"} : Raise(j, x)
             \/ /\ k # j
                /\ LogUnroutable(j) \/ LogFetchFailed(j) \/ Redelivered(j) \/ Dropped(j)
                   \/ CommitDuplicate(j)
      PROVE  pc[k] = "ended" \/ pc[k] = "committed"
  BY FilterShape, <1>0, <1>4 DEF EnqueueDelivery, StartAttempt, CheckPreFlight,
     FetchFields, FetchRefused, ReserveSlot, QueryMisses, QueryHits, NextQuery, Dedup,
     FlushLead, CommitLead, Raise, ReturnLead, LogUnroutable, LogFetchFailed,
     Redelivered, Dropped, CommitDuplicate, Finish
<1> QED
  BY <1>1, <1>2, <1>3, <1>4, StepCases

LEMMA CollideSymmetric ==
  ASSUME NEW r, NEW s, Collide(r, s)
  PROVE  Collide(s, r)
BY DEF Collide

LEMMA KeysStep ==
  /\ Types /\ TriesLeft /\ SlotIsExclusive /\ RowsAreFresh /\ FoundExists
  /\ ContactKeysUnique /\ [Next]_vars
  => ContactKeysUnique'
<1> SUFFICES ASSUME Types, TriesLeft, SlotIsExclusive, RowsAreFresh, FoundExists,
                    ContactKeysUnique, [Next]_vars
             PROVE  ContactKeysUnique'
  OBVIOUS
<1>0. /\ pc \in [Jobs -> Running \cup Resting]
      /\ leads \in [Attempts -> Lead \cup {NoRow}]
      /\ ident \in [Jobs -> Identity] /\ verdict \in [Jobs -> Terminal \cup {"capture"}]
  BY DEF Types
\* A transaction that has flushed its lead keeps the row it flushed.
<1>1. \A k \in Jobs : pc'[k] = "finalise" =>
        /\ ident'[k] = ident[k] /\ verdict'[k] = verdict[k]
        /\ pc[k] = "finalise" \/ FlushLead(k)
  <2> SUFFICES ASSUME NEW k \in Jobs, pc'[k] = "finalise"
               PROVE /\ ident'[k] = ident[k] /\ verdict'[k] = verdict[k]
                     /\ pc[k] = "finalise" \/ FlushLead(k)
    OBVIOUS
  <2>1. CASE UNCHANGED vars \/ ChannelChanges \/ TenantActivates
    BY <2>1 DEF vars, ChannelChanges, TenantActivates, local
  <2>2. ASSUME NEW j \in Jobs, FlushLead(j)
        PROVE /\ ident'[k] = ident[k] /\ verdict'[k] = verdict[k]
              /\ pc[k] = "finalise" \/ FlushLead(k)
    BY <1>0, <2>2 DEF FlushLead, local
  <2>3. ASSUME NEW j \in Jobs,
             \/ EnqueueDelivery(j) \/ LogUnroutable(j) \/ StartAttempt(j) \/ Filter(j)
             \/ CheckPreFlight(j) \/ FetchFields(j) \/ FetchRefused(j) \/ LogFetchFailed(j)
             \/ ReserveSlot(j) \/ Redelivered(j) \/ Dropped(j)
             \/ QueryMisses(j) \/ QueryHits(j)
             \/ CommitDuplicate(j) \/ CommitLead(j) \/ ReturnLead(j)
             \/ \E x \in {"failure", "assertion", "multiple", "unique"} : Raise(j, x)
        PROVE pc[k] = "finalise" /\ ident'[k] = ident[k] /\ verdict'[k] = verdict[k]
    BY FilterShape, <1>0, <2>3 DEF EnqueueDelivery, LogUnroutable, StartAttempt,
       CheckPreFlight, FetchFields, FetchRefused, LogFetchFailed, ReserveSlot,
       Redelivered, Dropped, QueryMisses, QueryHits, NextQuery, Dedup, CommitDuplicate,
       CommitLead, ReturnLead, Raise, Finish, local
  <2> QED
    BY <2>1, <2>2, <2>3, StepCases
\* Two flushed rows never collide, nor does one with a committed row.
<1>2. \A k \in Jobs : pc'[k] = "finalise" => \A a \in Attempts : leads[a] # NoRow =>
        ~Collide(NewLead(k), leads[a])
  BY <1>1 DEF ContactKeysUnique, CommittedClash, FlushLead
<1>3. \A k, m \in Jobs : pc'[k] = "finalise" /\ pc[m] = "finalise" /\ m # k =>
        ~Collide(NewLead(k), NewLead(m))
  BY <1>1 DEF ContactKeysUnique, PendingClash, FlushLead
<1>4. \A k, m \in Jobs : pc'[k] = "finalise" /\ pc'[m] = "finalise" /\ m # k =>
        ~Collide(NewLead(k), NewLead(m))
  <2> SUFFICES ASSUME NEW k \in Jobs, NEW m \in Jobs, pc'[k] = "finalise",
                      pc'[m] = "finalise", m # k
               PROVE  ~Collide(NewLead(k), NewLead(m))
    OBVIOUS
  <2>1. CASE pc[m] = "finalise"
    BY <1>3, <2>1
  <2>2. CASE pc[k] = "finalise"
    BY <1>3, <2>2, CollideSymmetric
  <2>3. CASE FlushLead(k) /\ FlushLead(m)
    BY <1>0, <2>3 DEF FlushLead
  <2> QED
    BY <1>1, <2>1, <2>2, <2>3
<1>5. \A k \in Jobs : pc'[k] = "finalise" => NewLead(k)' = NewLead(k)
  BY <1>1 DEF NewLead
<1>6. ASSUME NEW j \in Jobs, CommitLead(j)
      PROVE  /\ \A a, b \in Attempts : a # b /\ leads'[a] # NoRow /\ leads'[b] # NoRow
                  => ~Collide(leads'[a], leads'[b])
             /\ \A k \in Jobs : pc'[k] = "finalise" =>
                  \A a \in Attempts : leads'[a] # NoRow => ~Collide(NewLead(k), leads'[a])
  <2>1. /\ leads' = [leads EXCEPT ![Attempt(j)] = NewLead(j)]
        /\ Attempt(j) \in Attempts
        /\ pc[j] = "finalise" /\ pc' = [pc EXCEPT ![j] = "committed"]
    BY <1>6, LeadCommits DEF CommitLead
  <2>2. \A a \in Attempts : leads[a] # NoRow => ~Collide(NewLead(j), leads[a])
    BY <2>1 DEF ContactKeysUnique, CommittedClash
  <2>3. \A a \in Attempts : leads[a] # NoRow => ~Collide(leads[a], NewLead(j))
    BY <2>2, CollideSymmetric
  <2>4. \A k \in Jobs : pc'[k] = "finalise" => ~Collide(NewLead(k), NewLead(j))
    BY <1>0, <1>3, <2>1
  <2> QED
    BY <1>0, <1>2, <2>1, <2>2, <2>3, <2>4 DEF ContactKeysUnique
<1>7. CASE leads' = leads
  <2>1. \A k \in Jobs : pc'[k] = "finalise" =>
          \A a \in Attempts : leads'[a] # NoRow => ~Collide(NewLead(k)', leads'[a])
    BY <1>2, <1>5, <1>7
  <2>2. \A k, m \in Jobs : pc'[k] = "finalise" /\ pc'[m] = "finalise" /\ m # k =>
          ~Collide(NewLead(k)', NewLead(m)')
    BY <1>4, <1>5
  <2> QED
    BY <1>7, <2>1, <2>2 DEF ContactKeysUnique, CommittedClash, PendingClash, Collide
<1>8. ASSUME NEW j \in Jobs, CommitLead(j) PROVE ContactKeysUnique'
  <2>1. \A k \in Jobs : pc'[k] = "finalise" =>
          \A a \in Attempts : leads'[a] # NoRow => ~Collide(NewLead(k)', leads'[a])
    BY <1>5, <1>6, <1>8
  <2>2. \A k, m \in Jobs : pc'[k] = "finalise" /\ pc'[m] = "finalise" /\ m # k =>
          ~Collide(NewLead(k)', NewLead(m)')
    BY <1>4, <1>5
  <2>3. \A a, b \in Attempts : a # b /\ leads'[a] # NoRow /\ leads'[b] # NoRow
          => ~Collide(leads'[a], leads'[b])
    BY <1>6, <1>8
  <2> QED
    BY <2>1, <2>2, <2>3 DEF ContactKeysUnique, CommittedClash, PendingClash, Collide
<1> QED
  BY <1>7, <1>8, TableSteps, DuplicateCommits DEF tables, LogsUnlinked

-----------------------------------------------------------------------------
LEMMA TouchesStep ==
  /\ Types /\ TriesLeft /\ SlotIsExclusive /\ RowsAreFresh /\ FoundExists
  /\ TouchesMatchLog /\ [Next]_vars
  => TouchesMatchLog'
<1> SUFFICES ASSUME Types, TriesLeft, SlotIsExclusive, RowsAreFresh, FoundExists,
                    TouchesMatchLog, [Next]_vars
             PROVE  TouchesMatchLog'
  OBVIOUS
<1>0. /\ logs \in [Events -> IntakeEventLog \cup {NoRow}]
      /\ touchpoints \subseteq LeadTouchpoint
  BY DEF Types
<1>1. CASE UNCHANGED tables
  BY <1>1 DEF tables, TouchesMatchLog, TouchesOf
<1>2. ASSUME NEW j \in Jobs, LogsUnlinked(EventOf[j]) PROVE TouchesMatchLog'
  BY <1>0, <1>2, RowTypes DEF LogsUnlinked, TouchesMatchLog, TouchesOf, Unlinked
\* A touchpoint written with the log row of an event that had none.
<1>3. ASSUME NEW e \in Events, NEW s \in {"received", "duplicate"},
             NEW i \in Attempts, NEW a \in Attempts,
             logs[e] = NoRow,
             logs' = [logs EXCEPT ![e] = [status |-> s, lead |-> a]],
             touchpoints' = touchpoints \cup {[id |-> i, lead |-> a, event |-> e]}
      PROVE  TouchesMatchLog'
  <2> DEFINE t0 == [id |-> i, lead |-> a, event |-> e]
  <2>1. TouchesOf(e) = {}
    BY <1>3 DEF TouchesMatchLog
  <2>2. TouchesOf(e)' = {t0} /\ t0.lead = logs'[e].lead /\ t0 \in touchpoints'
    BY <1>0, <1>3, <2>1 DEF TouchesOf
  <2>3. \A f \in Events \ {e} : TouchesOf(f)' = TouchesOf(f) /\ logs'[f] = logs[f]
    BY <1>0, <1>3 DEF TouchesOf
  <2>4. logs'[e] # NoRow /\ logs'[e].status \in {"received", "duplicate"}
    BY <1>0, <1>3, RowTypes
  <2>5. \A f \in Events \ {e} :
          IF logs'[f] # NoRow /\ logs'[f].status \in {"received", "duplicate"}
          THEN \E t \in touchpoints' : TouchesOf(f)' = {t} /\ t.lead = logs'[f].lead
          ELSE TouchesOf(f)' = {}
    BY <1>3, <2>3 DEF TouchesMatchLog
  <2> QED
    BY <2>2, <2>4, <2>5 DEF TouchesMatchLog
<1>4. ASSUME NEW j \in Jobs, CommitDuplicate(j) PROVE TouchesMatchLog'
  BY <1>3, <1>4, DuplicateCommits DEF CommitDuplicate
<1>5. ASSUME NEW j \in Jobs, CommitLead(j) PROVE TouchesMatchLog'
  <2>1. CASE verdict[j] = "capture"
    BY <1>3, <1>5, <2>1, LeadCommits DEF CommitLead
  <2>2. CASE verdict[j] # "capture"
    <3>1. /\ touchpoints' = touchpoints
          /\ logs' = [logs EXCEPT ![EventOf[j]] =
                        [status |-> LogStatus(j), lead |-> Attempt(j)]]
          /\ logs[EventOf[j]] = NoRow /\ LogStatus(j) \in Terminal
      BY <1>5, <2>2, LeadCommits DEF CommitLead
    <3> QED
      BY <1>0, <3>1 DEF TouchesMatchLog, TouchesOf, Terminal
  <2> QED
    BY <2>1, <2>2
<1> QED
  BY <1>1, <1>2, <1>4, <1>5, TableSteps

LEMMA LinkedStep ==
  /\ Types /\ TriesLeft /\ SlotIsExclusive /\ RowsAreFresh /\ FoundExists
  /\ LinkedLeadExists /\ [Next]_vars
  => LinkedLeadExists'
<1> SUFFICES ASSUME Types, TriesLeft, SlotIsExclusive, RowsAreFresh, FoundExists,
                    LinkedLeadExists, [Next]_vars
             PROVE  LinkedLeadExists'
  OBVIOUS
<1>0. /\ logs \in [Events -> IntakeEventLog \cup {NoRow}]
      /\ leads \in [Attempts -> Lead \cup {NoRow}]
  BY DEF Types
<1>1. CASE UNCHANGED tables
  BY <1>1 DEF tables, LinkedLeadExists
<1>2. ASSUME NEW j \in Jobs, LogsUnlinked(EventOf[j]) PROVE LinkedLeadExists'
  BY <1>0, <1>2 DEF LogsUnlinked, LinkedLeadExists
<1>3. ASSUME NEW j \in Jobs, CommitDuplicate(j) PROVE LinkedLeadExists'
  BY <1>0, <1>3, DuplicateCommits DEF LinkedLeadExists, Unlinked, Terminal
<1>4. ASSUME NEW j \in Jobs, CommitLead(j) PROVE LinkedLeadExists'
  <2> DEFINE new == [status |-> LogStatus(j), lead |-> Attempt(j)]
  <2>1. \A e \in Events : logs'[e] = IF e = EventOf[j] THEN new ELSE logs[e]
    BY <1>0, <1>4, LeadCommits
  <2>2. \A a \in Attempts : leads'[a] = IF a = Attempt(j) THEN NewLead(j) ELSE leads[a]
    BY <1>0, <1>4, LeadCommits
  <2>3. /\ Attempt(j) \in Attempts /\ leads[Attempt(j)] = NoRow /\ NewLead(j) # NoRow
        /\ LogStatus(j) \notin Unlinked
        /\ LogStatus(j) = "received" => NewLead(j).stage = "captured"
        /\ LogStatus(j) \in Terminal => NewLead(j).stage = LogStatus(j)
    BY <1>4, LeadCommits DEF Terminal, Unlinked, LogStatus
  <2> HIDE DEF new
  <2>4. new.status = LogStatus(j) /\ new.lead = Attempt(j)
    BY DEF new
  <2> QED
    BY <2>1, <2>2, <2>3, <2>4 DEF LinkedLeadExists
<1> QED
  BY <1>1, <1>2, <1>3, <1>4, TableSteps

LEMMA OpenedStep ==
  /\ Types /\ TriesLeft /\ SlotIsExclusive /\ RowsAreFresh /\ FoundExists
  /\ LinkedLeadExists /\ LeadOpenedOnce /\ [Next]_vars
  => LeadOpenedOnce'
<1> SUFFICES ASSUME Types, TriesLeft, SlotIsExclusive, RowsAreFresh, FoundExists,
                    LinkedLeadExists, LeadOpenedOnce, [Next]_vars
             PROVE  LeadOpenedOnce'
  OBVIOUS
<1>0. /\ logs \in [Events -> IntakeEventLog \cup {NoRow}]
      /\ leads \in [Attempts -> Lead \cup {NoRow}]
  BY DEF Types
<1>1. CASE UNCHANGED tables
  BY <1>1 DEF tables, LeadOpenedOnce, OpenersOf
<1>2. ASSUME NEW j \in Jobs, LogsUnlinked(EventOf[j]) \/ CommitDuplicate(j)
      PROVE LeadOpenedOnce'
  <2>1. leads' = leads
    BY <1>2, DuplicateCommits DEF LogsUnlinked
  <2>2. \A a \in Attempts : OpenersOf(a)' = OpenersOf(a)
    <3>1. CASE LogsUnlinked(EventOf[j])
      BY <1>0, <3>1, RowTypes DEF LogsUnlinked, OpenersOf, Unlinked
    <3>2. CASE CommitDuplicate(j)
      BY <1>0, <3>2, DuplicateCommits DEF OpenersOf
    <3> QED
      BY <1>2, <3>1, <3>2
  <2> QED
    BY <2>1, <2>2 DEF LeadOpenedOnce
<1>3. ASSUME NEW j \in Jobs, CommitLead(j) PROVE LeadOpenedOnce'
  <2> DEFINE new == [status |-> LogStatus(j), lead |-> Attempt(j)]
  <2>1. \A e \in Events : logs'[e] = IF e = EventOf[j] THEN new ELSE logs[e]
    BY <1>0, <1>3, LeadCommits
  <2>2. \A a \in Attempts : leads'[a] = IF a = Attempt(j) THEN NewLead(j) ELSE leads[a]
    BY <1>0, <1>3, LeadCommits
  <2>3. /\ Attempt(j) \in Attempts /\ leads[Attempt(j)] = NoRow
        /\ EventOf[j] \in Events /\ logs[EventOf[j]] = NoRow
        /\ new # NoRow /\ new.lead = Attempt(j) /\ new.status # "duplicate"
    BY <1>3, LeadCommits DEF Terminal
  <2> HIDE DEF new
  <2>4. \A e \in Events : logs[e] # NoRow => logs[e].lead # Attempt(j)
    BY <2>3 DEF LinkedLeadExists
  <2>5. \A a \in Attempts : a = Attempt(j) => OpenersOf(a)' = {EventOf[j]}
    BY <2>1, <2>3, <2>4 DEF OpenersOf
  <2>6. \A a \in Attempts : a # Attempt(j) => OpenersOf(a)' = OpenersOf(a)
    BY <2>1, <2>3 DEF OpenersOf
  <2> QED
    BY <2>2, <2>3, <2>5, <2>6 DEF LeadOpenedOnce
<1> QED
  BY <1>1, <1>2, <1>3, TableSteps

-----------------------------------------------------------------------------
(* The inductive invariant and what follows from it.                       *)
LEMMA InitIInv == Init => IInv
<1> SUFFICES ASSUME Init PROVE IInv
  OBVIOUS
<1>1. Types /\ TriesLeft /\ SlotIsExclusive
  BY NobodyType DEF Init, Types, TriesLeft, SlotIsExclusive, Running, Resting, Holding,
     Dedup
<1>0. \A a \in Attempts : leads[a] = NoRow
  BY DEF Init
<1>2. RowsAreFresh /\ FoundExists /\ CommittedRecorded /\ ReceivedByCreator
  BY <1>0 DEF Init, RowsAreFresh, FoundExists, CommittedRecorded, ReceivedByCreator,
     Attempts
<1>3. OutcomesAgree /\ ContactKeysUnique /\ ReceivedOncePerLead /\ EndedIsRecorded
  BY <1>0 DEF Init, OutcomesAgree, TouchesMatchLog, LinkedLeadExists, LeadOpenedOnce,
         TouchesOf, ContactKeysUnique, ReceivedOncePerLead, EndedIsRecorded
<1> QED
  BY <1>1, <1>2, <1>3 DEF IInv

LEMMA StepIInv == IInv /\ [Next]_vars => IInv'
BY TypesStep, TriesStep, SlotStep, RowsStep, FoundStep, CommittedStep, ReceivedStep,
   EndedStep, KeysStep, TouchesStep, LinkedStep, OpenedStep DEF IInv, OutcomesAgree

THEOREM Inductive == Spec => []IInv
<1>1. Init => IInv
  BY InitIInv
<1>2. IInv /\ [Next]_vars => IInv'
  BY StepIInv
<1> QED
  BY <1>1, <1>2, PTL DEF Spec

\* Every row and every job stays well formed, whatever the interleaving: in
\* particular no job runs more than MaxTries attempts.
THEOREM TypeCorrect == Spec => []Types
<1>1. IInv => Types
  BY DEF IInv
<1> QED
  BY <1>1, Inductive, PTL

\* The slot of an event has one holder, and none once it is recorded.
THEOREM SlotSafety == Spec => []SlotIsExclusive
<1>1. IInv => SlotIsExclusive
  BY DEF IInv
<1> QED
  BY <1>1, Inductive, PTL

\* However often an event is delivered, retried or abandoned, log row, lead and
\* touchpoints tell the same story, and each lead was opened by one event.
THEOREM OutcomeSafety == Spec => []OutcomesAgree
<1>1. IInv => OutcomesAgree
  BY DEF IInv
<1> QED
  BY <1>1, Inductive, PTL

\* Read-then-insert deduplication never lets two leads share a phone or e-mail.
THEOREM KeySafety == Spec => []ContactKeysUnique
<1>1. IInv => ContactKeysUnique
  BY DEF IInv
<1> QED
  BY <1>1, Inductive, PTL

\* A lead is announced at most once, and only if an event was received for it.
THEOREM AnnouncementSafety == Spec => []ReceivedOncePerLead
<1>1. IInv => ReceivedOncePerLead
  BY DEF IInv
<1> QED
  BY <1>1, Inductive, PTL

\* A job that ends normally leaves its event recorded.
THEOREM NothingSkipped == Spec => []EndedIsRecorded
<1>1. IInv => EndedIsRecorded
  BY DEF IInv
<1> QED
  BY <1>1, Inductive, PTL

=============================================================================
