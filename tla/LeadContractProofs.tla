------------------------- MODULE LeadContractProofs -------------------------
(***************************************************************************)
(* What follows from the inductive invariant: a redelivery is a no-op, a   *)
(* duplicate shares a key with its lead, and LeadCapture implements        *)
(* IntakeContract.                                                         *)
(***************************************************************************)
EXTENDS LeadCaptureProofs, CharacterProofs

USE EventOfAssumption, SentinelAssumption

LEMMA NoOpStep ==
  ASSUME IInv, [Next]_vars, NEW k \in Jobs, pc'[k] # pc[k], logs[EventOf[k]] # NoRow
  PROVE  UNCHANGED tables
<1>0. /\ pc \in [Jobs -> Running \cup Resting]
      /\ logs \in [Events -> IntakeEventLog \cup {NoRow}]
      /\ EventOf[k] \in Events
      /\ Types /\ TriesLeft /\ SlotIsExclusive /\ RowsAreFresh /\ FoundExists
  BY DEF IInv, Types
<1>1. CASE UNCHANGED vars \/ ChannelChanges \/ TenantActivates
  BY <1>1 DEF vars, ChannelChanges, TenantActivates, tables
<1>2. ASSUME NEW j \in Jobs, LogUnroutable(j) \/ LogFetchFailed(j)
      PROVE UNCHANGED tables
  <2>1. j = k
    BY <1>0, <1>2 DEF LogUnroutable, LogFetchFailed, Finish
  <2>2. logs' = logs
    BY <1>0, <1>2, <2>1 DEF LogUnroutable, LogFetchFailed
  <2> QED
    BY <1>2, <2>2 DEF LogUnroutable, LogFetchFailed, tables
<1>3. ASSUME NEW j \in Jobs, CommitDuplicate(j) \/ CommitLead(j)
      PROVE FALSE
  <2>1. j = k
    BY <1>0, <1>3 DEF CommitDuplicate, CommitLead, Finish
  <2> QED
    BY <1>0, <1>3, <2>1, DuplicateCommits, LeadCommits
<1>4. ASSUME NEW j \in Jobs,
             \/ EnqueueDelivery(j) \/ StartAttempt(j) \/ Filter(j)
             \/ CheckPreFlight(j) \/ FetchFields(j) \/ FetchRefused(j)
             \/ ReserveSlot(j) \/ Redelivered(j) \/ Dropped(j)
             \/ QueryMisses(j) \/ QueryHits(j)
             \/ FlushLead(j) \/ ReturnLead(j)
             \/ \E x \in {"failure", "assertion", "multiple", "unique"} : Raise(j, x)
      PROVE UNCHANGED tables
  BY FilterShape, <1>4 DEF EnqueueDelivery, StartAttempt, CheckPreFlight, FetchFields,
     FetchRefused, ReserveSlot, Redelivered, Dropped, QueryMisses, QueryHits, FlushLead,
     ReturnLead, Raise, tables
<1> QED
  BY <1>1, <1>2, <1>3, <1>4, StepCases

\* Once an event is recorded, no step of a job that carries it writes a table:
\* Meta's redeliveries and the queue's retries are true no-ops.
THEOREM RedeliverySafety == Spec => RedeliveryIsNoOp
<1>1. IInv /\ [Next]_vars =>
        [\A j \in Jobs : pc'[j] # pc[j] /\ logs[EventOf[j]] # NoRow
           => UNCHANGED tables]_vars
  BY NoOpStep
<1> QED
  BY <1>1, Inductive, PTL DEF Spec, RedeliveryIsNoOp

-----------------------------------------------------------------------------
(* A duplicate shares a key with the lead it hangs on.                     *)

\* Until its transaction ends, an attempt works with an identity that its event
\* allows, and the lead it found is found by that identity.
Traced ==
  /\ \A j \in Jobs : pc[j] \in {"filter", "fetch"} => ident[j] = Sent[EventOf[j]]
  /\ \A j \in Jobs : pc[j] \in {"preflight", "reserve", "attach"} \cup Dedup =>
       \E read \in Readings[EventOf[j]] \cup {Nobody} :
         ident[j] = Enrich(Sent[EventOf[j]], read)
  /\ \A j \in Jobs : pc[j] = "attach" => SharesKey(ident[j], leads[found[j]])

LEMMA EnrichNobody ==
  ASSUME NEW e \in Events
  PROVE  Enrich(Sent[e], Nobody) = Sent[e]
BY SentAssumption DEF Enrich, Or, Nobody, Identity

\* A lead that is written stays as it is.
LEMMA LeadsKept ==
  ASSUME IInv, [Next]_vars, NEW a \in Attempts, leads[a] # NoRow
  PROVE  leads'[a] = leads[a]
<1>0. leads \in [Attempts -> Lead \cup {NoRow}]
  BY DEF IInv, Types
<1>1. ASSUME NEW j \in Jobs, CommitLead(j) PROVE leads'[a] = leads[a]
  BY <1>0, <1>1, LeadCommits DEF IInv
<1> QED
  BY <1>1, TableSteps DEF tables, LogsUnlinked, CommitDuplicate

LEMMA MatchesShare ==
  ASSUME NEW j \in Jobs, NEW a \in Matches(j, pc[j]), pc[j] \in Dedup
  PROVE  SharesKey(ident[j], leads[a])
BY DEF Matches, SharesKey, Dedup

LEMMA TracedStep ==
  ASSUME IInv, Traced, [Next]_vars
  PROVE  Traced'
<1> SUFFICES ASSUME NEW k \in Jobs
             PROVE  /\ pc'[k] \in {"filter", "fetch"} => ident'[k] = Sent[EventOf[k]]
                    /\ pc'[k] \in {"preflight", "reserve", "attach"} \cup Dedup =>
                         \E read \in Readings[EventOf[k]] \cup {Nobody} :
                           ident'[k] = Enrich(Sent[EventOf[k]], read)
                    /\ pc'[k] = "attach" => SharesKey(ident'[k], leads'[found'[k]])
  BY DEF Traced, SharesKey
<1> DEFINE Same == pc'[k] = pc[k] /\ ident'[k] = ident[k] /\ found'[k] = found[k]
<1>0. /\ pc \in [Jobs -> Running \cup Resting] /\ ident \in [Jobs -> Identity]
      /\ found \in [Jobs -> Attempts \cup {None}] /\ EventOf[k] \in Events
      /\ pc[k] = "attach" => found[k] \in Attempts /\ leads[found[k]] # NoRow
  BY DEF IInv, Types, FoundExists
<1>1. CASE Same
  BY <1>0, <1>1, LeadsKept DEF Traced
<1>2. CASE UNCHANGED vars \/ ChannelChanges \/ TenantActivates
  BY <1>1, <1>2 DEF vars, ChannelChanges, TenantActivates, local
<1>3. ASSUME NEW j \in Jobs, j # k,
             \/ EnqueueDelivery(j) \/ LogUnroutable(j) \/ StartAttempt(j) \/ Filter(j)
             \/ CheckPreFlight(j) \/ FetchFields(j) \/ FetchRefused(j) \/ LogFetchFailed(j)
             \/ ReserveSlot(j) \/ Redelivered(j) \/ Dropped(j) \/ QueryMisses(j)
             \/ QueryHits(j) \/ CommitDuplicate(j) \/ FlushLead(j) \/ CommitLead(j)
             \/ ReturnLead(j)
             \/ \E x \in {"failure", "assertion", "multiple", "unique"} : Raise(j, x)
      PROVE Same
  BY <1>0, <1>3, FilterShape DEF EnqueueDelivery, LogUnroutable, StartAttempt,
     CheckPreFlight, FetchFields, FetchRefused, LogFetchFailed, ReserveSlot, Redelivered,
     Dropped, QueryMisses, QueryHits, CommitDuplicate, FlushLead, CommitLead, ReturnLead,
     Raise, Finish, local
<1>4. ASSUME \/ EnqueueDelivery(k) \/ LogUnroutable(k) \/ FetchRefused(k)
             \/ LogFetchFailed(k) \/ Redelivered(k) \/ Dropped(k) \/ CommitDuplicate(k)
             \/ FlushLead(k) \/ CommitLead(k) \/ ReturnLead(k)
             \/ \E x \in {"failure", "assertion", "multiple", "unique"} : Raise(k, x)
      PROVE pc'[k] \notin {"filter", "fetch", "preflight", "reserve", "attach"} \cup Dedup
  BY <1>0, <1>4 DEF EnqueueDelivery, LogUnroutable, FetchRefused, LogFetchFailed, Redelivered,
     Dropped, CommitDuplicate, FlushLead, CommitLead, ReturnLead, Raise, Finish, Dedup
<1>5. CASE StartAttempt(k)
  BY <1>0, <1>5 DEF StartAttempt, Dedup
<1>6. CASE Filter(k)
  <2>1. pc[k] = "filter" /\ ident[k] = Sent[EventOf[k]]
    BY <1>6, FilterShape DEF Traced
  <2>2. pc'[k] \in {"reserve", "preflight"}
    BY <1>0, <1>6, FilterShape
  <2>3. \E read \in Readings[EventOf[k]] \cup {Nobody} :
           ident'[k] = Enrich(Sent[EventOf[k]], read)
    BY <1>0, <1>6, <2>1, FilterShape, EnrichNobody
  <2> QED
    BY <2>2, <2>3 DEF Dedup
<1>7. CASE FetchFields(k)
  BY <1>0, <1>7 DEF FetchFields, Traced, Dedup
<1>8. CASE CheckPreFlight(k) \/ ReserveSlot(k) \/ QueryMisses(k)
  <2>1. ident'[k] = ident[k] /\ pc[k] \in {"preflight", "reserve"} \cup Dedup
    BY <1>8 DEF CheckPreFlight, ReserveSlot, QueryMisses, local
  <2>2. pc'[k] \in {"reserve", "insert"} \cup Dedup
    BY <1>0, <1>8 DEF CheckPreFlight, ReserveSlot, QueryMisses, NextQuery, Dedup
  <2> QED
    BY <2>1, <2>2 DEF Traced, Dedup
<1>9. CASE QueryHits(k)
  <2>1. PICK a \in Attempts : Matches(k, pc[k]) = {a} /\ found' = [found EXCEPT ![k] = a]
    BY <1>9 DEF QueryHits
  <2>2. /\ pc[k] \in Dedup /\ pc'[k] = "attach" /\ ident' = ident /\ leads' = leads
        /\ found'[k] = a
    BY <1>0, <1>9, <2>1 DEF QueryHits, tables
  <2>3. SharesKey(ident[k], leads[a])
    BY <2>1, <2>2, MatchesShare
  <2> QED
    BY <2>2, <2>3 DEF Traced, Dedup
<1> QED
  BY <1>1, <1>2, <1>3, <1>4, <1>5, <1>6, <1>7, <1>8, <1>9, StepCases

LEMMA SharesKeyStep ==
  ASSUME IInv, Traced, DuplicateSharesKey, [Next]_vars
  PROVE  DuplicateSharesKey'
<1> SUFFICES ASSUME NEW e \in Events, logs'[e] # NoRow, logs'[e].status = "duplicate"
             PROVE  \E read \in Readings[e] \cup {Nobody} :
                      SharesKey(Enrich(Sent[e], read), leads'[logs'[e].lead])
  BY DEF DuplicateSharesKey, SharesKey
<1>0. /\ Types /\ TriesLeft /\ SlotIsExclusive /\ RowsAreFresh /\ FoundExists
      /\ logs \in [Events -> IntakeEventLog \cup {NoRow}]
  BY DEF IInv, Types
<1>1. CASE logs'[e] = logs[e]
  <2>1. logs[e].lead \in Attempts /\ leads[logs[e].lead] # NoRow
    BY <1>1 DEF IInv, OutcomesAgree, LinkedLeadExists, Unlinked
  <2> QED
    BY <1>1, <2>1, LeadsKept DEF DuplicateSharesKey
<1>2. ASSUME NEW j \in Jobs, LogsUnlinked(EventOf[j]) PROVE logs'[e] = logs[e]
  BY <1>0, <1>2 DEF LogsUnlinked, Unlinked
<1>3. ASSUME NEW j \in Jobs, CommitLead(j) PROVE logs'[e] = logs[e]
  BY <1>0, <1>3, LeadCommits DEF Terminal
<1>4. ASSUME NEW j \in Jobs, CommitDuplicate(j), logs'[e] # logs[e]
      PROVE  \E read \in Readings[e] \cup {Nobody} :
               SharesKey(Enrich(Sent[e], read), leads'[logs'[e].lead])
  <2>1. /\ e = EventOf[j] /\ logs'[e].lead = found[j] /\ leads' = leads
        /\ pc[j] = "attach"
    BY <1>0, <1>4, DuplicateCommits DEF CommitDuplicate
  <2> QED
    BY <2>1 DEF Traced
<1> QED
  BY <1>1, <1>2, <1>3, <1>4, TableSteps DEF tables

\* An enquiry is never attached to the lead of someone it has nothing in common
\* with, whatever the model extracted and whoever wrote first.
THEOREM MatchSafety == Spec => []DuplicateSharesKey
<1>1. Init => Traced /\ DuplicateSharesKey
  BY DEF Init, Traced, DuplicateSharesKey, Dedup
<1>2. IInv /\ Traced /\ DuplicateSharesKey /\ [Next]_vars
        => Traced' /\ DuplicateSharesKey'
  BY TracedStep, SharesKeyStep
<1> QED
  BY <1>1, <1>2, Inductive, PTL DEF Spec

-----------------------------------------------------------------------------
(* The refinement of IntakeContract.                                       *)
\* A touchpoint adds its event to the history of its lead and to no other.
LEMMA HistoryAdd ==
  ASSUME NEW i, NEW c, NEW e, NEW a,
         touchpoints' = touchpoints \cup {[id |-> i, lead |-> c, event |-> e]}
  PROVE  History(a)' = IF a = c THEN History(a) \cup {e} ELSE History(a)
<1> DEFINE t0 == [id |-> i, lead |-> c, event |-> e]
<1>1. t0.lead = c /\ t0.event = e /\ touchpoints' = touchpoints \cup {t0}
  OBVIOUS
<1> HIDE DEF t0
<1>2. \A x : x \in History(a)' <=> \E t \in touchpoints' : t.lead = a /\ t.event = x
  BY DEF History
<1>3. \A x : x \in History(a) <=> \E t \in touchpoints : t.lead = a /\ t.event = x
  BY DEF History
<1>4. \A x : x \in History(a)' <=> x \in History(a) \/ (a = c /\ x = e)
  BY <1>1, <1>2, <1>3
<1> QED
  BY <1>4

\* A LeadReceived adds its lead to the announced ones.
LEMMA AnnouncedAdd ==
  ASSUME NEW a, received' = received \cup {[by |-> a, lead |-> a]}
  PROVE  Announced' = Announced \cup {a}
<1> DEFINE r0 == [by |-> a, lead |-> a]
<1>1. r0.lead = a /\ received' = received \cup {r0}
  OBVIOUS
<1> HIDE DEF r0
<1>2. \A x : x \in Announced' <=> \E r \in received' : r.lead = x
  BY DEF Announced
<1>3. \A x : x \in Announced <=> \E r \in received : r.lead = x
  BY DEF Announced
<1>4. \A x : x \in Announced' <=> x \in Announced \/ x = a
  BY <1>1, <1>2, <1>3
<1> QED
  BY <1>4

\* A touchpoint belongs to a recorded event and lies on an existing lead.
LEMMA TouchesAreLogged ==
  ASSUME IInv, NEW t \in touchpoints
  PROVE  /\ t.event \in Events /\ logs[t.event] # NoRow
         /\ t.lead \in Attempts /\ leads[t.lead] # NoRow
<1>1. t \in LeadTouchpoint
  BY DEF IInv, Types
<1>2. t.event \in Events /\ t.lead \in Attempts
  BY <1>1 DEF LeadTouchpoint
<1>3. t \in TouchesOf(t.event)
  BY DEF TouchesOf
<1>4. /\ logs[t.event] # NoRow /\ logs[t.event].status \in {"received", "duplicate"}
      /\ t.lead = logs[t.event].lead
  BY <1>2, <1>3 DEF IInv, OutcomesAgree, TouchesMatchLog
<1> QED
  BY <1>2, <1>4 DEF IInv, OutcomesAgree, LinkedLeadExists, Unlinked

LEMMA OutcomeOf ==
  ASSUME NEW e, NEW s, NEW a, logs[e] = [status |-> s, lead |-> a], logs[e] # NoRow
  PROVE  /\ s \in Terminal => Outcome(e) = "terminal"
         /\ s \in Unlinked => Outcome(e) = "unlinked"
         /\ s = "received" => Outcome(e) = "received"
         /\ s = "duplicate" => Outcome(e) = "duplicate"
         /\ Settled(e) = a
BY DEF Outcome, Settled, Terminal, Unlinked

\* When one event gets its row, the other outcomes stay.
LEMMA OneSettles ==
  ASSUME Types, NEW e \in Events, NEW s \in Terminal \cup Unlinked \cup {"received", "duplicate"},
         NEW a \in Attempts \cup {None}, logs[e] = NoRow,
         logs' = [logs EXCEPT ![e] = [status |-> s, lead |-> a]]
  PROVE  /\ Outcome(e) = "open"
         /\ \A f \in Events \ {e} : Outcome(f)' = Outcome(f) /\ Settled(f)' = Settled(f)
         /\ s \in Terminal => Outcome(e)' = "terminal"
         /\ s \in Unlinked => Outcome(e)' = "unlinked"
         /\ s = "received" => Outcome(e)' = "received"
         /\ s = "duplicate" => Outcome(e)' = "duplicate"
         /\ Settled(e)' = a
<1>1. logs'[e] = [status |-> s, lead |-> a] /\ logs'[e] # NoRow
  BY RowTypes DEF Types
<1>2. \A f \in Events \ {e} : logs'[f] = logs[f]
  BY DEF Types
<1> QED
  BY <1>1, <1>2 DEF Outcome, Settled, Terminal, Unlinked

LEMMA ContractInit == Init => Contract!Init
BY DEF Init, Contract!Init, Outcome, Settled, History, Announced

\* An event logged without a lead is rejected, once.
LEMMA RejectStep ==
  ASSUME IInv, NEW j \in Jobs, LogsUnlinked(EventOf[j])
  PROVE  Contract!Reject(EventOf[j]) \/ UNCHANGED Contract!vars
<1> DEFINE e == EventOf[j]
<1>0. Types /\ e \in Events /\ logs \in [Events -> IntakeEventLog \cup {NoRow}]
  BY DEF IInv, Types
<1>1. CASE logs[e] # NoRow
  <2>1. logs' = logs
    BY <1>0, <1>1 DEF LogsUnlinked
  <2> QED
    BY <2>1 DEF LogsUnlinked, Contract!vars, Outcome, Settled, History, Announced
<1>2. CASE logs[e] = NoRow
  <2>1. PICK s \in Unlinked : logs' = [logs EXCEPT ![e] = [status |-> s, lead |-> None]]
    BY <1>0, <1>2 DEF LogsUnlinked
  <2>2. /\ Outcome(e) = "open" /\ Outcome(e)' = "unlinked" /\ Settled(e)' = None
        /\ \A f \in Events \ {e} : Outcome(f)' = Outcome(f) /\ Settled(f)' = Settled(f)
    BY <1>0, <1>2, <2>1, OneSettles
  <2>3. UNCHANGED <<touchpoints, received>>
    BY DEF LogsUnlinked
  <2> QED
    BY <1>0, <2>2, <2>3 DEF Contract!Reject, Contract!Settle, History, Announced
<1> QED
  BY <1>1, <1>2

\* A duplicate is attached to a contact another event has opened.
LEMMA AttachStep ==
  ASSUME IInv, NEW j \in Jobs, CommitDuplicate(j)
  PROVE  Contract!Attach(EventOf[j], found[j]) /\ found[j] \in Attempts
<1> DEFINE e == EventOf[j]
           c == found[j]
<1>0. Types /\ TriesLeft /\ SlotIsExclusive /\ FoundExists
  BY DEF IInv
<1>1. /\ e \in Events /\ c \in Attempts /\ leads[c] # NoRow /\ logs[e] = NoRow
      /\ logs' = [logs EXCEPT ![e] = [status |-> "duplicate", lead |-> c]]
  BY <1>0, DuplicateCommits
<1>2. /\ touchpoints' = touchpoints \cup {[id |-> Attempt(j), lead |-> c, event |-> e]}
      /\ Announced' = Announced
  BY DEF CommitDuplicate, Announced
<1>3. /\ Outcome(e) = "open" /\ Outcome(e)' = "duplicate" /\ Settled(e)' = c
      /\ \A f \in Events \ {e} : Outcome(f)' = Outcome(f) /\ Settled(f)' = Settled(f)
  BY <1>0, <1>1, OneSettles
<1>4. \E f \in Events : Settled(f) = c
  BY <1>1 DEF IInv, OutcomesAgree, LeadOpenedOnce, OpenersOf, Settled
<1>5. \A a \in Attempts :
        History(a)' = IF a = c THEN History(a) \cup {e} ELSE History(a)
  BY <1>2, HistoryAdd
<1> QED
  BY <1>1, <1>2, <1>3, <1>4, <1>5
     DEF Contract!Attach, Contract!Settle, Contract!Opened

\* A new lead opens a contact no event had opened.
LEMMA OpenStep ==
  ASSUME IInv, NEW j \in Jobs, CommitLead(j)
  PROVE  /\ Attempt(j) \in Attempts
         /\ \/ Contract!Capture(EventOf[j], Attempt(j))
            \/ Contract!Close(EventOf[j], Attempt(j))
<1> DEFINE e == EventOf[j]
           c == Attempt(j)
<1>0. Types /\ TriesLeft /\ SlotIsExclusive /\ RowsAreFresh
  BY DEF IInv
<1>1. /\ e \in Events /\ c \in Attempts /\ leads[c] = NoRow /\ logs[e] = NoRow
      /\ logs' = [logs EXCEPT ![e] = [status |-> LogStatus(j), lead |-> c]]
      /\ LogStatus(j) \in Terminal \cup {"received"}
      /\ LogStatus(j) = "received" <=> verdict[j] = "capture"
  BY <1>0, LeadCommits
<1>2. Announced' = Announced
  BY DEF CommitLead, Announced
<1>3. ~ \E f \in Events : Settled(f) = c
  BY <1>1 DEF IInv, OutcomesAgree, LinkedLeadExists, Settled
<1>4. History(c) = {}
  BY <1>1, TouchesAreLogged DEF History
<1>5. CASE verdict[j] = "capture"
  <2>1. touchpoints' = touchpoints \cup {[id |-> c, lead |-> c, event |-> e]}
    BY <1>5 DEF CommitLead
  <2>2. \A a \in Attempts : History(a)' = IF a = c THEN {e} ELSE History(a)
    <3>1. ASSUME NEW a \in Attempts
          PROVE  History(a)' = IF a = c THEN History(a) \cup {e} ELSE History(a)
      BY <2>1, HistoryAdd
    <3>2. ASSUME NEW a \in Attempts, a = c PROVE History(a) = {}
      BY <1>4, <3>2, Zenon
    <3> QED
      BY <3>1, <3>2
  <2>3. /\ Outcome(e) = "open" /\ Outcome(e)' = "received"
        /\ \A f \in Events : Settled(f)' = IF f = e THEN c ELSE Settled(f)
        /\ \A f \in Events \ {e} : Outcome(f)' = Outcome(f)
    BY <1>0, <1>1, <1>5, OneSettles
  <2>4. Contract!Capture(e, c)
    BY <1>1, <1>2, <1>3, <2>2, <2>3
       DEF Contract!Capture, Contract!Settle, Contract!Opened
  <2> QED
    BY <1>1, <2>4
<1>6. CASE verdict[j] # "capture"
  <2>1. \A a \in Attempts : History(a)' = History(a)
    BY <1>6 DEF CommitLead, History
  <2>2. /\ Outcome(e) = "open" /\ Outcome(e)' = "terminal"
        /\ \A f \in Events : Settled(f)' = IF f = e THEN c ELSE Settled(f)
        /\ \A f \in Events \ {e} : Outcome(f)' = Outcome(f)
    BY <1>0, <1>1, <1>6, OneSettles
  <2>3. Contract!Close(e, c)
    BY <1>1, <1>2, <1>3, <2>1, <2>2
       DEF Contract!Close, Contract!Settle, Contract!Opened
  <2> QED
    BY <1>1, <2>3
<1> QED
  BY <1>5, <1>6

\* The worker gets LeadReceived for a contact not yet announced, or again.
LEMMA AnnounceStep ==
  ASSUME IInv, NEW j \in Jobs, ReturnLead(j)
  PROVE  (\E c \in Attempts : Contract!Announce(c)) \/ UNCHANGED Contract!vars
<1>1. UNCHANGED <<leads, logs, touchpoints>>
  BY DEF ReturnLead, tables
<1>2. CASE verdict[j] # "capture"
  BY <1>1, <1>2 DEF ReturnLead, Contract!vars, Outcome, Settled, History, Announced
<1>3. CASE verdict[j] = "capture"
  <2>1. Attempt(j) \in Attempts /\ EventOf[j] \in Events
    BY AttemptType DEF IInv, ReturnLead, Running
  <2>2. logs[EventOf[j]] = [status |-> "received", lead |-> Attempt(j)]
        /\ logs[EventOf[j]] # NoRow
    BY <1>3 DEF IInv, CommittedRecorded, ReturnLead
  <2>3. Outcome(EventOf[j]) = "received" /\ Settled(EventOf[j]) = Attempt(j)
    BY <2>2, OutcomeOf
  <2>4. Announced' = Announced \cup {Attempt(j)}
    BY <1>3, AnnouncedAdd DEF ReturnLead
  <2>5. CASE Attempt(j) \in Announced
    BY <1>1, <2>4, <2>5 DEF Contract!vars, Outcome, Settled, History, Announced
  <2>6. CASE Attempt(j) \notin Announced
    BY <1>1, <2>1, <2>3, <2>4, <2>6
       DEF Contract!Announce, Outcome, Settled, History
  <2> QED
    BY <2>5, <2>6
<1> QED
  BY <1>2, <1>3

LEMMA ContractStep ==
  ASSUME IInv, [Next]_vars
  PROVE  [Contract!Next]_(Contract!vars)
<1>1. CASE UNCHANGED <<logs, touchpoints, received>>
  BY <1>1 DEF Contract!vars, Outcome, Settled, History, Announced
<1>2. ASSUME NEW j \in Jobs, LogUnroutable(j) \/ LogFetchFailed(j)
      PROVE LogsUnlinked(EventOf[j])
  BY <1>2 DEF LogUnroutable, LogFetchFailed, LogsUnlinked, Unlinked
<1>3. ASSUME NEW j \in Jobs,
             \/ EnqueueDelivery(j) \/ StartAttempt(j) \/ Filter(j)
             \/ CheckPreFlight(j) \/ FetchFields(j) \/ FetchRefused(j)
             \/ ReserveSlot(j) \/ Redelivered(j) \/ Dropped(j)
             \/ QueryMisses(j) \/ QueryHits(j)
             \/ FlushLead(j)
             \/ \E x \in {"failure", "assertion", "multiple", "unique"} : Raise(j, x)
      PROVE UNCHANGED <<logs, touchpoints, received>>
  BY FilterShape, <1>3 DEF EnqueueDelivery, StartAttempt, CheckPreFlight, FetchFields,
     FetchRefused, ReserveSlot, Redelivered, Dropped, QueryMisses, QueryHits, FlushLead,
     Raise, tables
<1>4. CASE UNCHANGED vars \/ ChannelChanges \/ TenantActivates
  BY <1>1, <1>4 DEF vars, ChannelChanges, TenantActivates, tables
<1>5. ASSUME NEW j \in Jobs, LogUnroutable(j) \/ LogFetchFailed(j)
      PROVE  [Contract!Next]_(Contract!vars)
  BY <1>2, <1>5, RejectStep DEF Contract!Next
<1>6. ASSUME NEW j \in Jobs, CommitDuplicate(j)
      PROVE  [Contract!Next]_(Contract!vars)
  BY <1>6, AttachStep DEF Contract!Next
<1>7. ASSUME NEW j \in Jobs, CommitLead(j)
      PROVE  [Contract!Next]_(Contract!vars)
  <2>1. EventOf[j] \in Events
    OBVIOUS
  <2>2. PICK a \in Attempts : Contract!Capture(EventOf[j], a) \/ Contract!Close(EventOf[j], a)
    BY <1>7, OpenStep
  <2> QED
    BY <2>1, <2>2 DEF Contract!Next
<1>8. ASSUME NEW j \in Jobs, ReturnLead(j)
      PROVE  [Contract!Next]_(Contract!vars)
  BY <1>8, AnnounceStep DEF Contract!Next
<1>9. ASSUME UNCHANGED <<logs, touchpoints, received>>
      PROVE  [Contract!Next]_(Contract!vars)
  BY <1>1, <1>9
<1> QED
  BY <1>3, <1>4, <1>5, <1>6, <1>7, <1>8, <1>9, StepCases

\* Lead intake implements the contract: one outcome for each event, for good,
\* in every interleaving of deliveries, workers, retries and crashes.
THEOREM Refinement == Spec => KeepsContract
<1>1. Init => Contract!Init
  BY ContractInit
<1>2. IInv /\ [Next]_vars => [Contract!Next]_(Contract!vars)
  BY ContractStep
<1> QED
  BY <1>1, <1>2, Inductive, PTL DEF Spec, KeepsContract, Contract!Spec

-----------------------------------------------------------------------------
(* What the contract is worth to lead intake.                              *)

Abstract == INSTANCE IntakeContractProofs WITH
  Contacts <- Attempts,
  outcome <- [e \in Events |-> Outcome(e)],
  contactOf <- [e \in Events |-> Settled(e)],
  history <- [a \in Attempts |-> History(a)],
  announced <- Announced

\* The touchpoints of a lead are those of the events logged for it, one event
\* opened it, and LeadReceived was returned only for leads with such an event:
\* the three tables agree because every implementation of the contract has them do.
THEOREM LeadHistories == Spec => []Contract!HistoriesFaithful
<1>1. None \notin Attempts
  OBVIOUS
<1>2. Abstract!Spec => []Abstract!HistoriesFaithful
  BY <1>1, Abstract!HistorySafety
<1>3. Contract!Spec => Abstract!Spec
  <2>1. Contract!Init => Abstract!Init
    BY DEF Contract!Init, Abstract!Init
  <2>2. [Contract!Next]_(Contract!vars) => [Abstract!Next]_(Abstract!vars)
    BY DEF Contract!Next, Abstract!Next, Contract!vars, Abstract!vars, Contract!Reject,
       Abstract!Reject, Contract!Capture, Abstract!Capture, Contract!Attach, Abstract!Attach,
       Contract!Close, Abstract!Close, Contract!Announce, Abstract!Announce,
       Contract!Settle, Abstract!Settle, Contract!Opened, Abstract!Opened
  <2> QED
    BY <2>1, <2>2, PTL DEF Contract!Spec, Abstract!Spec
<1>4. Abstract!HistoriesFaithful => Contract!HistoriesFaithful
  BY DEF Contract!HistoriesFaithful, Abstract!HistoriesFaithful, Contract!Opened, Abstract!Opened
<1> QED
  BY <1>2, <1>3, <1>4, Refinement, PTL DEF KeepsContract

-----------------------------------------------------------------------------
(* Stored phones.                                                          *)

\* What find_duplicate looks for, looked for again, is the same.
LEMMA KeysAreFixed == \A key \in Keys : NormalisePhone(key) = key
<1> SUFFICES ASSUME NEW p \in Phones PROVE NormalisePhone(NormalisePhone(p)) = NormalisePhone(p)
  BY DEF Keys, PhoneKey
<1> QED
  BY PhoneAssumption, NormaliseIdempotent

\* A stored phone is its own key, whatever formats the events write numbers in:
\* every lead is found again by the phone it was stored with (get_lead_by_phone).
THEOREM PhoneKeySafety == Spec => []PhonesAreKeys
<1>1. Types => PhonesAreKeys
  <2> SUFFICES ASSUME Types, NEW a \in Attempts, leads[a] # NoRow, leads[a].phone # None
               PROVE  leads[a].phone = NormalisePhone(leads[a].phone)
    BY DEF PhonesAreKeys
  <2>1. leads[a] \in Lead
    BY DEF Types
  <2>2. leads[a].phone \in Keys
    BY <2>1 DEF Lead
  <2> QED
    BY <2>2, KeysAreFixed
<1> QED
  BY <1>1, TypeCorrect, PTL

-----------------------------------------------------------------------------
(* A job runs down.                                                        *)

\* The most steps a job can take from a place on before its attempt is over.
Ahead == [ended |-> 0, dead |-> 0, queued |-> 1, undelivered |-> 2, committed |-> 2,
          finalise |-> 3, attach |-> 3, insert |-> 4, dedup_name |-> 5, dedup_email |-> 6,
          dedup_phone |-> 7, reserve |-> 8, preflight |-> 9, fetch_failed |-> 9,
          fetch |-> 10, filter |-> 10]

\* With the attempts the queue has still to give it.
StepsLeft(j) == 10 * (MaxTries - tries[j]) + Ahead[pc[j]]

CountsAreNat == \A j \in Jobs : StepsLeft(j) \in Nat

JobsGoDown ==
  \A j \in Jobs : /\ WorkerStep(j) \/ Abort(j) => StepsLeft(j)' < StepsLeft(j)
                  /\ StepsLeft(j)' <= StepsLeft(j)

\* Every step of a job, failures included, lowers a natural number that no other
\* step raises: neither the conflicts it loses nor its retries go on for ever.
RunsDown == []CountsAreNat /\ [][JobsGoDown]_vars

LEMMA AheadIsNat == \A p \in Running \cup Resting : Ahead[p] \in Nat
BY DEF Ahead, Running, Resting, Holding, Dedup

\* One step on its way, or an attempt begun.
LEMMA OneStepDown ==
  ASSUME Types, NEW j \in Jobs, NEW p \in Running \cup Resting,
         pc' = [pc EXCEPT ![j] = p],
         \/ tries' = tries /\ Ahead[p] < Ahead[pc[j]]
         \/ /\ tries' = [tries EXCEPT ![j] = @ + 1]
            /\ Ahead[p] < 10 + Ahead[pc[j]]
  PROVE  /\ StepsLeft(j)' < StepsLeft(j)
         /\ \A k \in Jobs \ {j} : StepsLeft(k)' = StepsLeft(k)
<1>1. /\ pc \in [Jobs -> Running \cup Resting] /\ tries \in [Jobs -> 0..MaxTries]
      /\ MaxTries \in Nat
  BY MaxTriesAssumption DEF Types
<1>2. Ahead[p] \in Nat /\ Ahead[pc[j]] \in Nat /\ tries[j] \in Nat
  BY <1>1, AheadIsNat
<1>3. \A k \in Jobs \ {j} : pc'[k] = pc[k] /\ tries'[k] = tries[k]
  BY <1>1
<1>4. pc'[j] = p /\ (tries'[j] = tries[j] \/ tries'[j] = tries[j] + 1)
  BY <1>1
<1>5. StepsLeft(j)' < StepsLeft(j)
  BY <1>1, <1>2, <1>4 DEF StepsLeft
<1> QED
  BY <1>3, <1>5 DEF StepsLeft

LEMMA RunDownStep ==
  ASSUME IInv, [Next]_vars
  PROVE  JobsGoDown
<1>0. /\ Types /\ pc \in [Jobs -> Running \cup Resting] /\ tries \in [Jobs -> 0..MaxTries]
      /\ MaxTries \in Nat
  BY MaxTriesAssumption DEF IInv, Types
<1> DEFINE Down(j) == /\ StepsLeft(j)' < StepsLeft(j)
                      /\ \A k \in Jobs \ {j} : StepsLeft(k)' = StepsLeft(k)
<1>1. ASSUME NEW j \in Jobs, EnqueueDelivery(j) \/ LogUnroutable(j) \/ LogFetchFailed(j)
                              \/ Redelivered(j) \/ Dropped(j) \/ CommitDuplicate(j)
                              \/ ReturnLead(j)
      PROVE  Down(j)
  <2>1. /\ pc[j] \in {"undelivered", "fetch_failed", "reserve", "filter", "attach", "committed"}
        /\ tries' = tries
        /\ \/ pc' = [pc EXCEPT ![j] = "ended"]
           \/ pc[j] = "undelivered" /\ pc' = [pc EXCEPT ![j] = "queued"]
    BY <1>1 DEF EnqueueDelivery, LogUnroutable, LogFetchFailed, Redelivered, Dropped,
       CommitDuplicate, ReturnLead, Finish, local
  <2>2. \A q \in {"undelivered", "fetch_failed", "reserve", "filter", "attach", "committed"} :
          Ahead["ended"] < Ahead[q]
    BY DEF Ahead
  <2>3. Ahead["queued"] < Ahead["undelivered"] /\ {"ended", "queued"} \subseteq Resting
    BY DEF Ahead, Resting
  <2> QED
    BY <1>0, <2>1, <2>2, <2>3, OneStepDown
<1>2. ASSUME NEW j \in Jobs, NEW x, pc[j] \in Running, Raise(j, x)
      PROVE  Down(j)
  <2>1. \A q \in Running : Ahead["dead"] < Ahead[q] /\ Ahead["queued"] < Ahead[q]
    BY DEF Ahead, Running, Holding, Dedup
  <2>2. {"dead", "queued"} \subseteq Resting
    BY DEF Resting
  <2> QED
    BY <1>0, <1>2, <2>1, <2>2, OneStepDown DEF Raise
<1>3. ASSUME NEW j \in Jobs, StartAttempt(j) PROVE Down(j)
  <2>1. /\ Ahead["fetch"] < 10 + Ahead["queued"] /\ Ahead["filter"] < 10 + Ahead["queued"]
        /\ {"fetch", "filter"} \subseteq Running
    BY DEF Ahead, Running
  <2> QED
    BY <1>0, <1>3, <2>1, OneStepDown DEF StartAttempt
<1>4. ASSUME NEW j \in Jobs, Filter(j) \/ CheckPreFlight(j) \/ FetchFields(j) \/ FetchRefused(j)
      PROVE  Down(j)
  <2>1. /\ tries' = tries
        /\ \/ pc[j] \in {"filter", "preflight", "fetch"} /\ pc' = [pc EXCEPT ![j] = "reserve"]
           \/ pc[j] = "filter" /\ pc' = [pc EXCEPT ![j] = "preflight"]
           \/ pc[j] = "fetch" /\ pc' = [pc EXCEPT ![j] = "fetch_failed"]
    BY <1>4, FilterShape DEF CheckPreFlight, FetchFields, FetchRefused, local
  <2>2. /\ \A q \in {"filter", "preflight", "fetch"} : Ahead["reserve"] < Ahead[q]
        /\ Ahead["preflight"] < Ahead["filter"] /\ Ahead["fetch_failed"] < Ahead["fetch"]
        /\ {"reserve", "preflight", "fetch_failed"} \subseteq Running
    BY DEF Ahead, Running
  <2> QED
    BY <1>0, <2>1, <2>2, OneStepDown
<1>5. ASSUME NEW j \in Jobs, ReserveSlot(j) \/ QueryMisses(j) \/ QueryHits(j)
      PROVE  Down(j)
  <2>1. /\ tries' = tries
        /\ \/ pc[j] = "reserve" /\ pc' = [pc EXCEPT ![j] = "dedup_phone"]
           \/ pc[j] = "reserve" /\ pc' = [pc EXCEPT ![j] = "insert"]
           \/ pc[j] \in Dedup /\ pc' = [pc EXCEPT ![j] = NextQuery[pc[j]]]
           \/ pc[j] \in Dedup /\ pc' = [pc EXCEPT ![j] = "attach"]
    BY <1>0, <1>5 DEF ReserveSlot, QueryMisses, QueryHits, local
  <2>2. /\ Ahead["dedup_phone"] < Ahead["reserve"] /\ Ahead["insert"] < Ahead["reserve"]
        /\ \A q \in Dedup : /\ Ahead["attach"] < Ahead[q] /\ Ahead[NextQuery[q]] < Ahead[q]
                            /\ NextQuery[q] \in Running
        /\ {"dedup_phone", "insert", "attach"} \subseteq Running
    BY DEF Ahead, Running, Holding, Dedup, NextQuery
  <2> QED
    BY <1>0, <2>1, <2>2, OneStepDown
<1>6. ASSUME NEW j \in Jobs, FlushLead(j) \/ CommitLead(j) PROVE Down(j)
  <2>1. /\ tries' = tries
        /\ \/ pc[j] = "insert" /\ pc' = [pc EXCEPT ![j] = "finalise"]
           \/ pc[j] = "finalise" /\ pc' = [pc EXCEPT ![j] = "committed"]
    BY <1>6 DEF FlushLead, CommitLead, local
  <2>2. /\ Ahead["finalise"] < Ahead["insert"] /\ Ahead["committed"] < Ahead["finalise"]
        /\ {"finalise", "committed"} \subseteq Running
    BY DEF Ahead, Running, Holding
  <2> QED
    BY <1>0, <2>1, <2>2, OneStepDown
<1>7. \A j \in Jobs : StepsLeft(j) \in Nat
  BY <1>0, AheadIsNat DEF StepsLeft
<1>8. ASSUME NEW j \in Jobs, Down(j) PROVE \A k \in Jobs : StepsLeft(k)' <= StepsLeft(k)
  <2>1. \A k \in Jobs : StepsLeft(k)' \in Nat
    BY TypesStep, AheadIsNat, MaxTriesAssumption DEF IInv, Types, StepsLeft
  <2> HIDE DEF StepsLeft
  <2>2. StepsLeft(j)' <= StepsLeft(j)
    BY <1>7, <1>8, <2>1
  <2>3. ASSUME NEW k \in Jobs \ {j} PROVE StepsLeft(k)' <= StepsLeft(k)
    BY <1>7, <1>8, <2>1, <2>3
  <2> QED
    BY <2>2, <2>3
<1>9. ASSUME NEW j \in Jobs, WorkerStep(j) \/ Abort(j) PROVE StepsLeft(j)' < StepsLeft(j)
  <2>1. ASSUME NEW x, Raise(j, x), pc[j] \in Running PROVE StepsLeft(j)' < StepsLeft(j)
    BY <1>2, <2>1
  <2>2. CASE Abort(j) \/ RedeliveredUnlinked(j) \/ QueryAmbiguous(j) \/ FlushRefused(j)
    BY <2>1, <2>2 DEF Abort, RedeliveredUnlinked, QueryAmbiguous, FlushRefused, Running,
       Holding, Dedup
  <2>3. CASE IgnoreStatus(j)
    BY <1>1, <2>3 DEF IgnoreStatus, Dropped, Identified
  <2> QED
    BY <1>1, <1>3, <1>4, <1>5, <1>6, <1>9, <2>2, <2>3 DEF WorkerStep
<1>10. CASE UNCHANGED vars \/ ChannelChanges \/ TenantActivates
  <2>1. UNCHANGED <<pc, tries>>
    BY <1>10 DEF vars, ChannelChanges, TenantActivates, local
  <2>2. \A k \in Jobs : StepsLeft(k)' = StepsLeft(k)
    BY <2>1 DEF StepsLeft
  <2> QED
    BY <1>7, <1>9, <2>2 DEF JobsGoDown
<1> HIDE DEF Down
<1>11. (\E j \in Jobs : Down(j)) \/ UNCHANGED vars \/ ChannelChanges \/ TenantActivates
  BY <1>1, <1>2, <1>3, <1>4, <1>5, <1>6, StepCases
<1> QED
  BY <1>8, <1>9, <1>10, <1>11 DEF JobsGoDown

\* Every job comes to an end unless it is kept waiting: the part of EveryJobEnds that
\* needs no fairness.
THEOREM JobsRunDown == Spec => RunsDown
<1>1. IInv => CountsAreNat
  BY AheadIsNat, MaxTriesAssumption DEF IInv, Types, StepsLeft, CountsAreNat
<1>2. IInv /\ [Next]_vars => [JobsGoDown]_vars
  BY RunDownStep
<1> QED
  BY <1>1, <1>2, Inductive, PTL DEF Spec, RunsDown

=============================================================================
