------------------------- MODULE LeadPrivacyProofs -------------------------
(***************************************************************************)
(* For every number of events, requests and phones: leads stay unique by   *)
(* phone while erasures free phones, purged leads stay purged, every purge *)
(* is audited and an erasure reaches what its leads have until it locks.   *)
(***************************************************************************)
EXTENDS LeadPrivacy, TLAPS

USE PhoneOfAssumption, PastAssumption, RequestAssumption, SentinelAssumption

\* A capture not yet done has written no lead; without it a commit could
\* overwrite a row.
FreshUntilDone == \A e \in Events : cpc[e] # "done" => leads[e] = NoRow

\* An empty lead is one without a phone.
GoneIsEmpty == \A l \in Events :
  leads[l] # NoRow /\ leads[l].stage \in Gone => leads[l].phone = None

\* A duplicate hangs on a lead that exists.
HitExists == \A e \in Events :
  cpc[e] = "attach" => hit[e] \in Events /\ leads[hit[e]] # NoRow

\* Purges work on leads that exist, and the old leads do.
PurgesExisting ==
  /\ \A l \in Past : leads[l] # NoRow
  /\ \A t \in Purgers : \A l \in todo[t] \cup held[t] : leads[l] # NoRow

IInv == /\ Types /\ PurgesExisting /\ FreshUntilDone /\ GoneIsEmpty /\ HitExists
        /\ OnePhonePerLead /\ PurgesAudited

LEMMA NoRowIsNoLead == NoRow \notin Lead
BY DEF Lead, Gone

LEMMA InitOK == Init => IInv
<1> SUFFICES ASSUME Init PROVE IInv
  OBVIOUS
<1>1. \A e \in Events : [phone |-> PhoneOf[e], stage |-> "captured"] \in Lead
  BY DEF Lead
<1>2. Types
  BY <1>1 DEF Init, Types, Raw
<1>3. FreshUntilDone /\ GoneIsEmpty /\ HitExists
  BY DEF Init, FreshUntilDone, GoneIsEmpty, HitExists, Gone
<1>6. PurgesExisting
  BY <1>1, NoRowIsNoLead DEF Init, PurgesExisting
<1>4. OnePhonePerLead
  BY DEF Init, OnePhonePerLead
<1>5. PurgesAudited
  BY DEF Init, PurgesAudited
<1> QED
  BY <1>2, <1>3, <1>4, <1>5, <1>6 DEF IInv

-----------------------------------------------------------------------------
\* What a step may do to leads: nothing, add one for a flushed capture, or empty
\* those a purge holds.
LEMMA LeadsChange ==
  ASSUME Types, [Next]_vars
  PROVE  \/ UNCHANGED leads
         \/ \E e \in Events : CommitLead(e)
         \/ \E r \in Requests : CommitErasure(r)
         \/ CommitSweep
BY DEF Next, CaptureStep, RequestStep, SweepStep, FindDuplicate, CommitDuplicate,
       FlushLead, CaptureFails, FindLeads, FindDue, Select, PurgeLead, EraseLogs,
       SweepLogs, FlushLogs, PurgeFails, SweepAgain, vars, rows

\* A commit of a purge empties exactly the leads it holds.
LEMMA PurgeEmpties ==
  ASSUME Types, NEW t \in Purgers, NEW s \in Gone, CommitPurge(t, s)
  PROVE  \A l \in Events : leads'[l] = IF l \in held[t] THEN [phone |-> None, stage |-> s]
                                                      ELSE leads[l]
BY DEF CommitPurge

LEMMA TypesStep == IInv /\ [Next]_vars => Types'
<1> SUFFICES ASSUME IInv, [Next]_vars PROVE Types'
  OBVIOUS
<1>0. Types /\ HitExists
  BY DEF IInv, Types
<1> USE DEF Types, rows, audit, capture, purge, Purgers
<1>1. CASE UNCHANGED vars
  BY <1>0, <1>1 DEF vars
<1>2. ASSUME NEW e \in Events, FindDuplicate(e) PROVE Types'
  BY <1>0, <1>2 DEF FindDuplicate, WithPhone
<1>3. ASSUME NEW e \in Events, CommitDuplicate(e) PROVE Types'
  BY <1>0, <1>3 DEF CommitDuplicate, Record, HitExists, Raw
<1>4. ASSUME NEW e \in Events, FlushLead(e) \/ CaptureFails(e) PROVE Types'
  BY <1>0, <1>4 DEF FlushLead, CaptureFails
<1>5. ASSUME NEW e \in Events, CommitLead(e) PROVE Types'
  <2>1. [phone |-> PhoneOf[e], stage |-> "captured"] \in Lead
    BY DEF Lead
  <2> QED
    BY <1>0, <1>5, <2>1 DEF CommitLead, Record, Raw
<1>6. ASSUME NEW t \in Purgers, NEW S \in SUBSET Events, Select(t, S),
             ppc' = [ppc EXCEPT ![t] = "done"] \/ ppc' = [ppc EXCEPT ![t] = "purging"]
      PROVE Types'
  BY <1>0, <1>6 DEF Select, LinkedTo
<1>7. ASSUME NEW r \in Requests, FindLeads(r) PROVE Types'
  <2>1. r \in Purgers /\ WithPhone(RequestFor[r]) \in SUBSET Events
    BY DEF WithPhone
  <2> QED
    BY <1>6, <1>7, <2>1 DEF FindLeads
<1>8. CASE FindDue
  <2>1. Sweep \in Purgers /\ {l \in AgedLeads : leads[l].stage \notin Gone} \in SUBSET Events
    OBVIOUS
  <2> QED
    BY <1>6, <1>8, <2>1 DEF FindDue
<1>9. ASSUME NEW t \in Purgers, NEW l \in Events, PurgeLead(t, l) PROVE Types'
  BY <1>0, <1>9 DEF PurgeLead, LinkedTo
<1>10. ASSUME NEW r \in Requests, EraseLogs(r) PROVE Types'
  BY <1>0, <1>10 DEF EraseLogs, LinkedTo
<1>11. CASE SweepLogs \/ SweepAgain
  BY <1>0, <1>11 DEF SweepLogs, SweepAgain
<1>12. ASSUME NEW t \in Purgers, NEW s \in Gone, CommitPurge(t, s),
              erasureLog' \subseteq Events, retentionLog' \subseteq Events
       PROVE Types'
  <2>1. [phone |-> None, stage |-> s] \in Lead
    BY DEF Lead
  <2> QED
    BY <1>0, <1>12, <2>1 DEF CommitPurge, Release, Overwritten, Raw
<1>13. ASSUME NEW r \in Requests, CommitErasure(r) PROVE Types'
  <2>1. "erased" \in Gone /\ r \in Purgers /\ held[r] \subseteq Events
    BY <1>0 DEF Gone
  <2> QED
    BY <1>0, <1>12, <1>13, <2>1 DEF CommitErasure
<1>14. CASE CommitSweep
  <2>1. "anonymised" \in Gone /\ Sweep \in Purgers /\ held[Sweep] \subseteq Events
    BY <1>0 DEF Gone
  <2> QED
    BY <1>0, <1>12, <1>14, <2>1 DEF CommitSweep
<1>15. ASSUME NEW t \in Purgers, PurgeFails(t) PROVE Types'
  BY <1>0, <1>15 DEF PurgeFails, Release
<1>16. ASSUME NEW t \in Purgers, FlushLogs(t) PROVE Types'
  BY <1>0, <1>16 DEF FlushLogs
<1> QED
  BY <1>1, <1>2, <1>3, <1>4, <1>5, <1>7, <1>8, <1>9, <1>10, <1>11, <1>13, <1>14,
     <1>15, <1>16 DEF Next, CaptureStep, RequestStep, SweepStep

-----------------------------------------------------------------------------
\* One lemma for each other part of the invariant.
\* A purge leaves the captures alone.
LEMMA PurgeFrame ==
  ASSUME [Next]_vars
  PROVE  (\E e \in Events : CaptureStep(e)) \/ UNCHANGED <<cpc, hit>>
BY DEF Next, RequestStep, SweepStep, FindLeads, FindDue, Select, PurgeLead, EraseLogs,
       SweepLogs, FlushLogs, PurgeFails, SweepAgain, CommitErasure, CommitSweep,
       CommitPurge, vars, capture

\* A row of leads is never deleted.
LEMMA RowsStay ==
  ASSUME IInv, [Next]_vars, NEW l \in Events, leads[l] # NoRow
  PROVE  leads'[l] # NoRow
<1>0. Types
  BY DEF IInv
<1>1. CASE UNCHANGED leads
  BY <1>1
<1>2. ASSUME NEW e \in Events, CommitLead(e) PROVE leads'[l] # NoRow
  <2>1. [phone |-> PhoneOf[e], stage |-> "captured"] # NoRow
    BY NoRowIsNoLead DEF Lead
  <2> QED
    BY <1>0, <1>2, <2>1 DEF CommitLead, Types
<1>3. ASSUME NEW t \in Purgers, NEW s \in Gone, CommitPurge(t, s)
      PROVE leads'[l] # NoRow
  <2>1. [phone |-> None, stage |-> s] # NoRow
    BY NoRowIsNoLead DEF Lead
  <2> QED
    BY <1>0, <1>3, <2>1, PurgeEmpties
<1>4. "erased" \in Gone /\ "anonymised" \in Gone
  BY DEF Gone
<1> QED
  BY <1>0, <1>1, <1>2, <1>3, <1>4, LeadsChange DEF CommitErasure, CommitSweep, Purgers

LEMMA ExistingStep == IInv /\ [Next]_vars => PurgesExisting'
<1> SUFFICES ASSUME IInv, [Next]_vars PROVE PurgesExisting'
  OBVIOUS
<1>0. Types /\ PurgesExisting
  BY DEF IInv
<1>1. \A l \in Events : leads[l] # NoRow => leads'[l] # NoRow
  BY RowsStay
<1> DEFINE Read == \A t \in Purgers : \A l \in todo'[t] \cup held'[t] :
                     l \in Events /\ leads[l] # NoRow
<1>2. CASE UNCHANGED <<todo, held>>
  <2>1. Read
    BY <1>0, <1>2 DEF PurgesExisting, Types
  <2> QED
    BY <1>0, <1>1, <2>1 DEF PurgesExisting
<1>3. ASSUME NEW t \in Purgers, NEW S \in SUBSET Events, Select(t, S),
             \A l \in S : leads[l] # NoRow
      PROVE Read
  BY <1>0, <1>3 DEF Select, PurgesExisting, Types
<1>4. ASSUME NEW r \in Requests, FindLeads(r) PROVE Read
  <2>1. r \in Purgers /\ WithPhone(RequestFor[r]) \in SUBSET Events
    BY DEF WithPhone, Purgers
  <2>2. \A l \in WithPhone(RequestFor[r]) : leads[l] # NoRow
    BY DEF WithPhone
  <2> QED
    BY <1>3, <1>4, <2>1, <2>2 DEF FindLeads
<1>5. CASE FindDue
  <2> DEFINE S == {l \in AgedLeads : leads[l].stage \notin Gone}
  <2>1. Sweep \in Purgers /\ S \in SUBSET Events /\ \A l \in S : leads[l] # NoRow
    BY <1>0 DEF Purgers, PurgesExisting
  <2>2. Select(Sweep, S)
    BY <1>5 DEF FindDue
  <2> HIDE DEF S
  <2>3. Read
    BY <1>3, <2>1, <2>2
  <2> QED
    BY <1>0, <1>1, <2>3 DEF PurgesExisting
<1>6. ASSUME NEW t \in Purgers, NEW l \in Events, PurgeLead(t, l) PROVE Read
  BY <1>0, <1>6 DEF PurgeLead, PurgesExisting, Types
<1>7. ASSUME NEW t \in Purgers, NEW s \in Gone, CommitPurge(t, s) PROVE Read
  BY <1>0, <1>7 DEF CommitPurge, Release, PurgesExisting, Types
<1>8. ASSUME NEW t \in Purgers, PurgeFails(t) PROVE Read
  BY <1>0, <1>8 DEF PurgeFails, Release, PurgesExisting, Types
<1>9. "erased" \in Gone /\ "anonymised" \in Gone /\ Sweep \in Purgers /\ Requests \subseteq Purgers
  BY DEF Gone, Purgers
<1>10. ASSUME NEW e \in Events, CaptureStep(e) PROVE UNCHANGED <<todo, held>>
  BY <1>10 DEF CaptureStep, FindDuplicate, CommitDuplicate, Record, FlushLead,
               CaptureFails, CommitLead, purge
<1>11. ASSUME NEW t \in Purgers, EraseLogs(t) \/ FlushLogs(t) PROVE UNCHANGED <<todo, held>>
  BY <1>11 DEF EraseLogs, FlushLogs, Ready
<1>12. CASE SweepLogs \/ SweepAgain
  <2>1. UNCHANGED <<todo, held>>
    BY <1>12 DEF SweepLogs, SweepAgain
  <2> QED
    BY <1>2, <2>1
<1>13. ASSUME NEW r \in Requests, CommitErasure(r) PROVE Read
  BY <1>7, <1>9, <1>13 DEF CommitErasure
<1>14. CASE CommitSweep
  <2>1. Read
    BY <1>7, <1>9, <1>14 DEF CommitSweep
  <2> QED
    BY <1>0, <1>1, <2>1 DEF PurgesExisting
<1>15. ASSUME Read PROVE PurgesExisting'
  BY <1>0, <1>1, <1>15 DEF PurgesExisting
<1>16. CASE UNCHANGED vars
  BY <1>2, <1>16 DEF vars
<1> QED
  BY <1>2, <1>4, <1>5, <1>6, <1>8, <1>9, <1>10, <1>11, <1>12, <1>13, <1>14, <1>15, <1>16
     DEF Next, RequestStep, SweepStep

LEMMA FreshStep == IInv /\ [Next]_vars => FreshUntilDone'
<1> SUFFICES ASSUME IInv, [Next]_vars PROVE FreshUntilDone'
  OBVIOUS
<1>0. Types /\ FreshUntilDone /\ PurgesExisting
  BY DEF IInv
<1> USE DEF FreshUntilDone
<1>1. \A e \in Events : cpc[e] = "done" => cpc'[e] = "done"
  <2>1. ASSUME NEW e \in Events, CaptureStep(e)
        PROVE \A f \in Events : cpc[f] = "done" => cpc'[f] = "done"
    BY <1>0, <2>1 DEF CaptureStep, FindDuplicate, CommitDuplicate, Record, FlushLead,
                      CaptureFails, CommitLead, Types
  <2> QED
    BY <2>1, PurgeFrame
<1>2. CASE UNCHANGED leads
  BY <1>0, <1>1, <1>2
<1>3. ASSUME NEW e \in Events, CommitLead(e) PROVE FreshUntilDone'
  BY <1>0, <1>1, <1>3 DEF CommitLead, Record, Types
<1>4. ASSUME NEW t \in Purgers, NEW s \in Gone, CommitPurge(t, s)
      PROVE FreshUntilDone'
  BY <1>0, <1>1, <1>4, PurgeEmpties DEF PurgesExisting
<1>5. "erased" \in Gone /\ "anonymised" \in Gone /\ Sweep \in Purgers /\ Requests \subseteq Purgers
  BY DEF Gone, Purgers
<1> QED
  BY <1>0, <1>2, <1>3, <1>4, <1>5, LeadsChange DEF CommitErasure, CommitSweep

LEMMA HitStep == IInv /\ [Next]_vars => HitExists'
<1> SUFFICES ASSUME IInv, [Next]_vars PROVE HitExists'
  OBVIOUS
<1>0. Types /\ HitExists
  BY DEF IInv
<1>1. \A l \in Events : leads[l] # NoRow => leads'[l] # NoRow
  BY RowsStay
<1> DEFINE Good == \A e \in Events : cpc'[e] = "attach" => hit'[e] \in Events /\ leads[hit'[e]] # NoRow
<1>2. ASSUME NEW e \in Events, FindDuplicate(e) PROVE Good
  BY <1>0, <1>2 DEF FindDuplicate, WithPhone, HitExists, Types
<1>3. ASSUME NEW e \in Events, CommitDuplicate(e) \/ CommitLead(e) PROVE Good
  BY <1>0, <1>3 DEF CommitDuplicate, CommitLead, Record, HitExists, Types
<1>4. ASSUME NEW e \in Events, FlushLead(e) \/ CaptureFails(e) PROVE Good
  BY <1>0, <1>4 DEF FlushLead, CaptureFails, HitExists, Types
<1>5. ASSUME UNCHANGED <<cpc, hit>> PROVE Good
  BY <1>0, <1>5 DEF HitExists
<1>6. Good
  BY <1>2, <1>3, <1>4, <1>5, PurgeFrame DEF CaptureStep
<1> QED
  BY <1>1, <1>6 DEF HitExists

LEMMA GoneStep == IInv /\ [Next]_vars => GoneIsEmpty'
<1> SUFFICES ASSUME IInv, [Next]_vars PROVE GoneIsEmpty'
  OBVIOUS
<1>0. Types /\ GoneIsEmpty
  BY DEF IInv
<1> USE DEF GoneIsEmpty
<1>1. CASE UNCHANGED leads
  BY <1>0, <1>1
<1>2. ASSUME NEW e \in Events, CommitLead(e) PROVE GoneIsEmpty'
  <2>1. \A l \in Events : leads'[l] = IF l = e THEN [phone |-> PhoneOf[e], stage |-> "captured"]
                                               ELSE leads[l]
    BY <1>0, <1>2 DEF CommitLead, Types
  <2> QED
    BY <1>0, <2>1 DEF Gone
<1>3. ASSUME NEW t \in Purgers, NEW s \in Gone, CommitPurge(t, s) PROVE GoneIsEmpty'
  <2>1. \A l \in Events : leads'[l] = IF l \in held[t] THEN [phone |-> None, stage |-> s]
                                                      ELSE leads[l]
    BY <1>0, <1>3, PurgeEmpties
  <2> QED
    BY <1>0, <2>1
<1>4. "erased" \in Gone /\ "anonymised" \in Gone /\ Sweep \in Purgers /\ Requests \subseteq Purgers
  BY DEF Gone, Purgers
<1> QED
  BY <1>0, <1>1, <1>2, <1>3, <1>4, LeadsChange DEF CommitErasure, CommitSweep

LEMMA AuditStep == IInv /\ [Next]_vars => PurgesAudited'
<1> SUFFICES ASSUME IInv, [Next]_vars PROVE PurgesAudited'
  OBVIOUS
<1>0. Types /\ PurgesAudited
  BY DEF IInv
<1> USE DEF PurgesAudited
<1>1. erasureLog \subseteq erasureLog' /\ retentionLog \subseteq retentionLog'
  BY DEF Next, CaptureStep, RequestStep, SweepStep, FindDuplicate, CommitDuplicate,
         Record, FlushLead, CaptureFails, CommitLead, FindLeads, FindDue, Select,
         PurgeLead, EraseLogs, SweepLogs, FlushLogs, PurgeFails, SweepAgain,
         CommitErasure, CommitSweep, vars, audit
<1>2. CASE UNCHANGED leads
  BY <1>0, <1>1, <1>2
<1>3. ASSUME NEW e \in Events, CommitLead(e) PROVE PurgesAudited'
  <2>1. \A l \in Events : leads'[l] = IF l = e THEN [phone |-> PhoneOf[e], stage |-> "captured"]
                                               ELSE leads[l]
    BY <1>0, <1>3 DEF CommitLead, Types
  <2> QED
    BY <1>0, <1>1, <2>1
<1>4. ASSUME NEW r \in Requests, CommitErasure(r) PROVE PurgesAudited'
  <2>1. r \in Purgers /\ "erased" \in Gone
    BY DEF Purgers, Gone
  <2>2. \A l \in Events : leads'[l] = IF l \in held[r] THEN [phone |-> None, stage |-> "erased"]
                                                      ELSE leads[l]
    BY <1>0, <1>4, <2>1, PurgeEmpties DEF CommitErasure
  <2> QED
    BY <1>0, <1>1, <1>4, <2>2 DEF CommitErasure
<1>5. CASE CommitSweep
  <2>1. Sweep \in Purgers /\ "anonymised" \in Gone
    BY DEF Purgers, Gone
  <2>2. \A l \in Events : leads'[l] = IF l \in held[Sweep] THEN [phone |-> None, stage |-> "anonymised"]
                                                      ELSE leads[l]
    BY <1>0, <1>5, <2>1, PurgeEmpties DEF CommitSweep
  <2> QED
    BY <1>0, <1>1, <1>5, <2>2 DEF CommitSweep
<1> QED
  BY <1>0, <1>2, <1>3, <1>4, <1>5, LeadsChange

\* OnePhonePerLead, said of a table L of leads and a table C of where captures are.
Unique(L, C) ==
  /\ \A l, m \in Events :
       (L[l] # NoRow /\ L[m] # NoRow /\ L[l].phone # None) =>
          (L[l].phone = L[m].phone => l = m)
  /\ \A e, l \in Events : C[e] = "flushed" /\ L[l] # NoRow => L[l].phone # PhoneOf[e]
  /\ \A e, f \in Events :
       (C[e] = "flushed" /\ C[f] = "flushed") => (PhoneOf[e] = PhoneOf[f] => e = f)

LEMMA UniqueSaid ==
  /\ OnePhonePerLead <=> Unique(leads, cpc)
  /\ OnePhonePerLead' <=> Unique(leads', cpc')
<1>1. OnePhonePerLead <=> Unique(leads, cpc)
  BY DEF OnePhonePerLead, Unique, Taken, Contested, WithPhone
<1>2. OnePhonePerLead' <=> Unique(leads', cpc')
  BY DEF OnePhonePerLead, Unique, Taken, Contested, WithPhone
<1> QED
  BY <1>1, <1>2

\* The unique index: only a flushed capture adds a phone, and while it is flushed
\* nobody has the phone or comes to have it.
LEMMA PhoneStep == IInv /\ [Next]_vars => OnePhonePerLead'
<1> SUFFICES ASSUME IInv, [Next]_vars PROVE Unique(leads', cpc')
  BY UniqueSaid
<1>0. Types /\ FreshUntilDone /\ Unique(leads, cpc)
  BY UniqueSaid DEF IInv
<1> DEFINE Shrinks == \A e \in Events : cpc'[e] = "flushed" => cpc[e] = "flushed"
<1>1. CASE UNCHANGED leads /\ Shrinks
  BY <1>0, <1>1 DEF Unique
<1>2. ASSUME NEW e \in Events, FlushLead(e) PROVE Unique(leads', cpc')
  <2>1. UNCHANGED leads /\ cpc' = [cpc EXCEPT ![e] = "flushed"]
    BY <1>2 DEF FlushLead, rows
  <2>2. /\ \A l \in Events : leads[l] # NoRow => leads[l].phone # PhoneOf[e]
        /\ \A f \in Events \ {e} : cpc[f] = "flushed" => PhoneOf[f] # PhoneOf[e]
    BY <1>2 DEF FlushLead, Taken, Contested, WithPhone
  <2>3. \A f \in Events : cpc'[f] = "flushed" => f = e \/ cpc[f] = "flushed"
    BY <1>0, <2>1 DEF Types
  <2> QED
    BY <1>0, <2>1, <2>2, <2>3 DEF Unique
<1>3. ASSUME NEW e \in Events, CommitLead(e) PROVE Unique(leads', cpc')
  <2>1. \A l \in Events : leads'[l] = IF l = e THEN [phone |-> PhoneOf[e], stage |-> "captured"]
                                               ELSE leads[l]
    BY <1>0, <1>3 DEF CommitLead, Types
  <2>2. cpc[e] = "flushed" /\ \A f \in Events : cpc'[f] = IF f = e THEN "done" ELSE cpc[f]
    BY <1>0, <1>3 DEF CommitLead, Record, Types
  <2> QED
    BY <1>0, <2>1, <2>2 DEF Unique
<1>4. ASSUME NEW t \in Purgers, NEW s \in Gone, CommitPurge(t, s)
      PROVE Unique(leads', cpc')
  <2>1. \A l \in Events : leads'[l] = IF l \in held[t] THEN [phone |-> None, stage |-> s]
                                                      ELSE leads[l]
    BY <1>0, <1>4, PurgeEmpties
  <2>2. UNCHANGED cpc
    BY <1>4 DEF CommitPurge, capture
  <2>3. \A l \in Events : leads'[l] # NoRow /\ leads'[l].phone # None => leads'[l] = leads[l]
    BY <2>1
  <2>4. \A e \in Events : PhoneOf[e] # None
    OBVIOUS
  <2>5. \A l, m \in Events :
          (leads'[l] # NoRow /\ leads'[m] # NoRow /\ leads'[l].phone # None) =>
             (leads'[l].phone = leads'[m].phone => l = m)
    BY <1>0, <2>3 DEF Unique
  <2>6. \A e, l \in Events : cpc[e] = "flushed" /\ leads'[l] # NoRow
                             => leads'[l].phone # PhoneOf[e]
    BY <1>0, <2>3, <2>4 DEF Unique
  <2> QED
    BY <1>0, <2>2, <2>5, <2>6 DEF Unique
<1>5. "erased" \in Gone /\ "anonymised" \in Gone /\ Sweep \in Purgers /\ Requests \subseteq Purgers
  BY DEF Gone, Purgers
<1>6. (\E e \in Events : FlushLead(e)) \/ Shrinks
  <2>1. ASSUME NEW e \in Events, CaptureStep(e), ~FlushLead(e) PROVE Shrinks
    BY <1>0, <2>1 DEF CaptureStep, FindDuplicate, CommitDuplicate, Record,
                      CaptureFails, CommitLead, Types
  <2> QED
    BY <2>1, PurgeFrame
<1> QED
  BY <1>0, <1>1, <1>2, <1>3, <1>4, <1>5, <1>6, LeadsChange DEF CommitErasure, CommitSweep

-----------------------------------------------------------------------------
THEOREM Inductive == Spec => []IInv
<1>1. IInv /\ [Next]_vars => IInv'
  BY TypesStep, ExistingStep, FreshStep, HitStep, GoneStep, PhoneStep, AuditStep DEF IInv
<1> QED
  BY InitOK, <1>1, PTL DEF Spec

\* Every transaction is somewhere in its code and every row well formed.
THEOREM TypeCorrect == Spec => []Types
BY Inductive, PTL DEF IInv

\* However many captures and purges overlap, and although purges free phones, no
\* two leads share a phone.
THEOREM PhoneSafety == Spec => []OnePhonePerLead
BY Inductive, PTL DEF IInv

\* A purge and its audit row are one commit.
THEOREM AuditSafety == Spec => []PurgesAudited
BY Inductive, PTL DEF IInv

\* A purged lead never gets personal data again: a capture writes only the row
\* it opens, and a purge only empties.
THEOREM PurgeSafety == Spec => PurgedStaysPurged
<1> DEFINE Purged(l) == leads[l] # NoRow /\ leads[l].stage \in Gone
           Keeps == \A l \in Events : Purged(l) =>
                      leads'[l].phone = None /\ leads'[l].stage \in Gone
<1>1. ASSUME IInv, [Next]_vars PROVE Keeps
  <2>0. Types /\ GoneIsEmpty /\ FreshUntilDone
    BY <1>1 DEF IInv
  <2>1. CASE UNCHANGED leads
    BY <2>0, <2>1 DEF GoneIsEmpty
  <2>2. ASSUME NEW e \in Events, CommitLead(e) PROVE Keeps
    <3>1. leads[e] = NoRow /\ \A l \in Events \ {e} : leads'[l] = leads[l]
      BY <2>0, <2>2 DEF CommitLead, FreshUntilDone, Types
    <3> QED
      BY <2>0, <3>1 DEF GoneIsEmpty
  <2>3. ASSUME NEW t \in Purgers, NEW s \in Gone, CommitPurge(t, s) PROVE Keeps
    <3>1. \A l \in Events : leads'[l] = IF l \in held[t] THEN [phone |-> None, stage |-> s]
                                                        ELSE leads[l]
      BY <2>0, <2>3, PurgeEmpties
    <3> QED
      BY <2>0, <3>1 DEF GoneIsEmpty
  <2>4. "erased" \in Gone /\ "anonymised" \in Gone /\ Sweep \in Purgers /\ Requests \subseteq Purgers
    BY DEF Gone, Purgers
  <2> QED
    BY <1>1, <2>0, <2>1, <2>2, <2>3, <2>4, LeadsChange DEF CommitErasure, CommitSweep
<1>2. IInv /\ [Next]_vars => [Keeps]_vars
  BY <1>1
<1> QED
  BY Inductive, <1>2, PTL DEF Spec, PurgedStaysPurged

-----------------------------------------------------------------------------
(* An erasure reaches what its leads have until it locks them.             *)

\* An event with a log row has been captured, and no capture writes it again.
RecordedDone == \A e \in Events : linked[e] # None => cpc[e] = "done"

\* Of each event an erasure has read, either the lead is still on its list, or the
\* replaced touchpoint and log row are among its writes, the log row soon.
Pursued(r) ==
  \A e \in history[r] :
    /\ linked[e] \in Events
    /\ ppc[r] \in {"purging", "logs"} => linked[e] \in todo[r] \/ e \in touched[r]
    /\ ppc[r] = "writing" => e \in touched[r] /\ e \in logged[r]
    /\ ppc[r] = "purging" => linked[e] \in todo[r] \/ e \in logged[r]
    /\ ppc[r] = "logs" =>
         linked[e] \in todo[r] \/ e \in logged[r] \/ linked[e] = current[r]
    /\ ppc[r] = "done" => logRaw[e] \in Gone /\ touchRaw[e] \in Gone
AllPursued == \A r \in Requests : Pursued(r)

\* What a commit writes of an event not recorded before: the event is linked.
LEMMA LinksStay ==
  ASSUME Types, RecordedDone, [Next]_vars, NEW e \in Events, linked[e] # None
  PROVE  /\ linked'[e] = linked[e] /\ cpc'[e] = "done"
         /\ logRaw[e] \in Gone => logRaw'[e] \in Gone
         /\ touchRaw[e] \in Gone => touchRaw'[e] \in Gone
<1>0. /\ cpc[e] = "done" /\ cpc \in [Events -> {"queued", "attach", "insert", "flushed", "done"}]
      /\ linked \in [Events -> Events \cup {None}]
      /\ logRaw \in [Events -> Raw] /\ touchRaw \in [Events -> Raw]
  BY DEF Types, RecordedDone
<1>1. ASSUME NEW f \in Events, CommitDuplicate(f) \/ CommitLead(f)
      PROVE  /\ linked'[e] = linked[e] /\ cpc'[e] = "done"
             /\ logRaw'[e] = logRaw[e] /\ touchRaw'[e] = touchRaw[e]
  BY <1>0, <1>1 DEF CommitDuplicate, CommitLead, Record
<1>2. ASSUME NEW f \in Events, FindDuplicate(f) \/ FlushLead(f) \/ CaptureFails(f)
      PROVE  cpc'[e] = "done" /\ UNCHANGED <<linked, logRaw, touchRaw>>
  BY <1>0, <1>2 DEF FindDuplicate, FlushLead, CaptureFails, rows
<1>3. ASSUME NEW t \in Purgers, NEW s \in Gone, CommitPurge(t, s)
      PROVE  /\ linked' = linked /\ cpc' = cpc
             /\ logRaw[e] \in Gone => logRaw'[e] \in Gone
             /\ touchRaw[e] \in Gone => touchRaw'[e] \in Gone
  BY <1>3 DEF CommitPurge, Overwritten, capture
<1>4. "erased" \in Gone /\ "anonymised" \in Gone /\ Sweep \in Purgers /\ Requests \subseteq Purgers
  BY DEF Gone, Purgers
<1>5. ASSUME \/ UNCHANGED vars \/ FindDue \/ SweepLogs \/ SweepAgain
             \/ \E r \in Requests : FindLeads(r) \/ EraseLogs(r)
             \/ \E t \in Purgers : PurgeFails(t) \/ FlushLogs(t)
             \/ \E t \in Purgers, l \in Events : PurgeLead(t, l)
      PROVE  UNCHANGED <<cpc, linked, logRaw, touchRaw>>
  BY <1>5 DEF vars, FindDue, FindLeads, Select, SweepLogs, SweepAgain, EraseLogs,
              FlushLogs, PurgeFails, PurgeLead, rows, capture
<1> QED
  BY <1>0, <1>1, <1>2, <1>3, <1>4, <1>5
     DEF Next, CaptureStep, RequestStep, SweepStep, CommitErasure, CommitSweep

LEMMA RecordedStep ==
  ASSUME Types, RecordedDone, [Next]_vars
  PROVE  RecordedDone'
<1> SUFFICES ASSUME NEW e \in Events, linked[e] = None, linked'[e] # None
             PROVE  cpc'[e] = "done"
  BY LinksStay DEF RecordedDone
<1>0. /\ linked \in [Events -> Events \cup {None}]
      /\ cpc \in [Events -> {"queued", "attach", "insert", "flushed", "done"}]
  BY DEF Types
<1>1. ASSUME NEW f \in Events, CommitDuplicate(f) \/ CommitLead(f) PROVE cpc'[e] = "done"
  BY <1>0, <1>1 DEF CommitDuplicate, CommitLead, Record
<1>2. \/ \E f \in Events : CommitDuplicate(f) \/ CommitLead(f)
      \/ linked' = linked
  BY DEF Next, CaptureStep, RequestStep, SweepStep, FindDuplicate, FlushLead, CaptureFails,
         FindLeads, FindDue, Select, PurgeLead, EraseLogs, SweepLogs, FlushLogs,
         CommitErasure, CommitSweep, CommitPurge, PurgeFails, SweepAgain, vars, rows
<1> QED
  BY <1>1, <1>2

\* What a purge has of its own no other step touches.
LEMMA PurgeApart ==
  ASSUME Types, [Next]_vars, NEW r \in Requests
  PROVE  \/ RequestStep(r) \/ PurgeFails(r)
         \/ UNCHANGED <<ppc[r], todo[r], held[r], touched[r], logged[r], current[r], history[r]>>
<1> DEFINE Own == <<ppc[r], todo[r], held[r], touched[r], logged[r], current[r], history[r]>>
<1>0. /\ r \in Purgers /\ r # Sweep
      /\ ppc \in [Purgers -> {"idle", "purging", "logs", "swept", "writing", "done"}]
      /\ current \in [Purgers -> Events \cup {None}]
      /\ \A f \in {todo, held, touched, logged, history} : f \in [Purgers -> SUBSET Events]
  BY DEF Types, Purgers
<1>1. ASSUME NEW t \in Purgers, t # r,
             \/ \E S \in SUBSET Events : Select(t, S) /\ ppc' = [ppc EXCEPT ![t] = ppc'[t]]
             \/ \E l \in Events : PurgeLead(t, l)
             \/ EraseLogs(t) \/ FlushLogs(t) \/ PurgeFails(t)
             \/ \E s \in Gone : CommitPurge(t, s)
      PROVE UNCHANGED Own
  <2>1. CASE \E S \in SUBSET Events : Select(t, S) /\ ppc' = [ppc EXCEPT ![t] = ppc'[t]]
    BY <1>0, <1>1, <2>1 DEF Select
  <2>2. CASE \E l \in Events : PurgeLead(t, l)
    BY <1>0, <1>1, <2>2 DEF PurgeLead
  <2>3. CASE EraseLogs(t) \/ FlushLogs(t)
    BY <1>0, <1>1, <2>3 DEF EraseLogs, FlushLogs, Ready
  <2>4. CASE PurgeFails(t)
    BY <1>0, <1>1, <2>4 DEF PurgeFails, Release
  <2>5. CASE \E s \in Gone : CommitPurge(t, s)
    BY <1>0, <1>1, <2>5 DEF CommitPurge, Release
  <2> QED
    BY <1>1, <2>1, <2>2, <2>3, <2>4, <2>5
<1>2. ASSUME NEW t \in Requests, t # r, FindLeads(t) PROVE UNCHANGED Own
  <2>1. Select(t, WithPhone(RequestFor[t])) /\ \E x : ppc' = [ppc EXCEPT ![t] = x]
    BY <1>2 DEF FindLeads
  <2> QED
    BY <1>0, <1>2, <2>1 DEF Select, Purgers
<1>3. ASSUME FindDue PROVE UNCHANGED Own
  BY <1>0, <1>3 DEF FindDue, Select, Purgers
<1>4. ASSUME SweepLogs \/ SweepAgain PROVE UNCHANGED Own
  BY <1>0, <1>4 DEF SweepLogs, SweepAgain, Purgers
<1>5. ASSUME (\E e \in Events : CaptureStep(e)) \/ UNCHANGED vars PROVE UNCHANGED Own
  BY <1>5 DEF CaptureStep, FindDuplicate, CommitDuplicate, FlushLead, CommitLead, Record,
               CaptureFails, vars, purge
<1>6. "erased" \in Gone /\ "anonymised" \in Gone /\ Sweep \in Purgers /\ Requests \subseteq Purgers
  BY DEF Gone, Purgers
<1>7. ASSUME NEW t \in Requests, t # r, RequestStep(t) PROVE UNCHANGED Own
  BY <1>1, <1>2, <1>6, <1>7 DEF RequestStep, CommitErasure
<1>8. ASSUME SweepStep PROVE UNCHANGED Own
  BY <1>0, <1>1, <1>3, <1>4, <1>6, <1>8 DEF SweepStep, CommitSweep
<1> HIDE DEF Own
<1>9. ASSUME NEW t \in Purgers, PurgeFails(t), t # r PROVE UNCHANGED Own
  BY <1>1, <1>9
<1>10. CASE RequestStep(r) \/ PurgeFails(r)
  BY <1>10
<1> QED
  BY <1>5, <1>7, <1>8, <1>9, <1>10, Zenon DEF Next, Own

LEMMA PursuedStep ==
  ASSUME Types, RecordedDone, AllPursued, [Next]_vars, NEW r \in Requests
  PROVE  Pursued(r)'
<1> DEFINE Own == <<ppc[r], todo[r], touched[r], logged[r], current[r], history[r]>>
<1>0. /\ Pursued(r) /\ r \in Purgers /\ r # Sweep /\ history[r] \subseteq Events
      /\ \A t \in Purgers : todo[t] \subseteq Events /\ history[t] \subseteq Events
      /\ linked \in [Events -> Events \cup {None}]
      /\ ppc \in [Purgers -> {"idle", "purging", "logs", "swept", "writing", "done"}]
      /\ current \in [Purgers -> Events \cup {None}]
      /\ \A f \in {todo, held, touched, logged, history} : f \in [Purgers -> SUBSET Events]
  BY DEF AllPursued, Types, Purgers
<1>1. \A e \in history[r] :
        /\ e \in Events /\ linked[e] \in Events /\ linked'[e] = linked[e]
        /\ logRaw[e] \in Gone => logRaw'[e] \in Gone
        /\ touchRaw[e] \in Gone => touchRaw'[e] \in Gone
  BY <1>0, LinksStay DEF Pursued
<1>2. CASE UNCHANGED Own
  BY <1>0, <1>1, <1>2 DEF Pursued
<1>3. CASE FindLeads(r)
  <2> DEFINE S == WithPhone(RequestFor[r])
  <2>1. /\ todo'[r] = S /\ history'[r] = LinkedTo(S) /\ linked' = linked
        /\ ppc'[r] = IF S = {} THEN "done" ELSE "purging"
    BY <1>0, <1>3 DEF FindLeads, Select, rows
  <2>2. S \subseteq Events
    BY DEF WithPhone
  <2> HIDE DEF S
  <2> QED
    BY <2>1, <2>2 DEF Pursued, LinkedTo
<1>4. ASSUME NEW l \in Events, PurgeLead(r, l) PROVE Pursued(r)'
  <2>1. /\ todo'[r] = todo[r] \ {l} /\ touched'[r] = touched[r] \cup LinkedTo({l})
        /\ current'[r] = l /\ ppc[r] = "purging" /\ ppc'[r] = "logs"
        /\ logged' = logged /\ history'[r] = history[r] \cup LinkedTo({l})
        /\ linked' = linked
    BY <1>0, <1>4 DEF PurgeLead, rows
  <2>2. /\ \A e \in history[r] : linked[e] = l => e \in LinkedTo({l})
        /\ \A e \in LinkedTo({l}) : linked[e] = l
    BY <1>0 DEF LinkedTo
  <2> QED
    BY <1>0, <1>1, <2>1, <2>2 DEF Pursued
<1>5. CASE EraseLogs(r)
  <2>1. /\ logged'[r] = logged[r] \cup LinkedTo({current[r]})
        /\ ppc[r] = "logs" /\ ppc'[r] = "purging"
        /\ UNCHANGED <<todo, touched, history>>
    BY <1>0, <1>5 DEF EraseLogs
  <2>2. \A e \in history[r] : linked[e] = current[r] => e \in LinkedTo({current[r]})
    BY <1>0 DEF LinkedTo
  <2> QED
    BY <1>0, <1>1, <2>1, <2>2 DEF Pursued
<1>6. CASE CommitErasure(r)
  <2>1. /\ ppc[r] = "writing" /\ ppc'[r] = "done" /\ history' = history
        /\ touchRaw' = Overwritten(touchRaw, touched[r], "erased")
        /\ logRaw' = Overwritten(logRaw, logged[r], "erased")
    BY <1>0, <1>6 DEF CommitErasure, CommitPurge
  <2>2. \A e \in history[r] : e \in touched[r] /\ e \in logged[r]
    BY <1>0, <2>1 DEF Pursued
  <2> QED
    BY <1>0, <1>1, <2>1, <2>2 DEF Pursued, Overwritten, Gone
<1>7. CASE PurgeFails(r)
  BY <1>0, <1>7 DEF PurgeFails, Pursued
<1>9. CASE FlushLogs(r)
  <2>1. /\ ppc[r] = "purging" /\ todo[r] = {} /\ ppc'[r] = "writing"
        /\ UNCHANGED <<touched, logged, history>>
    BY <1>0, <1>9 DEF FlushLogs, Ready
  <2> QED
    BY <1>0, <1>1, <2>1 DEF Pursued
<1>8. CASE RequestStep(r)
  BY <1>3, <1>4, <1>5, <1>6, <1>9, <1>8 DEF RequestStep
<1> QED
  BY <1>2, <1>7, <1>8, PurgeApart

\* A request that is done has replaced every payload of its leads, those included
\* that captures committed between its reading a lead and its locking it.
THEOREM ErasureSafety == Spec => []ErasureReachesHistory
<1>1. Init => RecordedDone /\ AllPursued
  BY DEF Init, RecordedDone, AllPursued, Pursued, Purgers
<1>2. IInv /\ RecordedDone /\ AllPursued /\ [Next]_vars => RecordedDone' /\ AllPursued'
  BY RecordedStep, PursuedStep DEF IInv, AllPursued
<1>3. AllPursued => ErasureReachesHistory
  BY DEF AllPursued, Pursued, ErasureReachesHistory
<1> QED
  BY <1>1, <1>2, <1>3, Inductive, PTL DEF Spec

-----------------------------------------------------------------------------
(* Row locks.                                                              *)

\* t has still to update a lead that u has updated and not committed, or is to flush
\* its log rows while u has one of them.
WaitsFor(t, u) == t # u /\ \/ todo[t] \cap held[u] # {}
                           \/ Ready(t) /\ logged[t] \cap LogLocks(u) # {}

\* A row has one holder, and a chain of waits ends at the third transaction: no
\* cycle of waits, however many rows the sweep locks and in whatever order.
LocksInOrder ==
  /\ \A t, u \in Purgers : t # u =>
       held[t] \cap held[u] = {} /\ LogLocks(t) \cap LogLocks(u) = {}
  /\ \A t, u, v, w \in Purgers : ~(WaitsFor(t, u) /\ WaitsFor(u, v) /\ WaitsFor(v, w))

\* An erasure by phone finds one lead at most: it has it still to do, or it has it.
OneLeadAtATime == \A r \in Requests :
  /\ \A l, m \in todo[r] \cup held[r] : l = m
  /\ todo[r] \cap held[r] = {}
  /\ ppc[r] \in {"idle", "done"} => held[r] = {}
  /\ ppc[r] \in {"logs", "writing"} => todo[r] = {}

SweptAll == ppc[Sweep] \in {"swept", "writing"} => todo[Sweep] = {}

\* An erasure replaces log rows of leads it holds.
OwnLogs == \A r \in Requests :
  /\ ppc[r] = "logs" => current[r] \in held[r]
  /\ \A e \in logged[r] : linked[e] \in held[r]

OneHolder == \A t, u \in Purgers : t # u =>
  held[t] \cap held[u] = {} /\ LogLocks(t) \cap LogLocks(u) = {}

LEMMA OneLeadStep ==
  ASSUME IInv, OneLeadAtATime, [Next]_vars
  PROVE  OneLeadAtATime'
<1> SUFFICES ASSUME NEW r \in Requests
             PROVE  /\ \A l, m \in todo'[r] \cup held'[r] : l = m
                    /\ todo'[r] \cap held'[r] = {}
                    /\ ppc'[r] \in {"idle", "done"} => held'[r] = {}
                    /\ ppc'[r] \in {"logs", "writing"} => todo'[r] = {}
  BY DEF OneLeadAtATime
<1>0. /\ Types /\ r \in Purgers /\ r # Sweep
      /\ ppc \in [Purgers -> {"idle", "purging", "logs", "swept", "writing", "done"}]
      /\ \A f \in {todo, held} : f \in [Purgers -> SUBSET Events]
  BY DEF IInv, Types, Purgers
<1>1. CASE UNCHANGED <<ppc[r], todo[r], held[r]>>
  BY <1>1 DEF OneLeadAtATime
<1>2. CASE FindLeads(r)
  <2> DEFINE S == WithPhone(RequestFor[r])
  <2>1. \A l, m \in S : l = m
    BY DEF WithPhone, IInv, OnePhonePerLead
  <2>2. /\ ppc[r] = "idle" /\ todo'[r] = S /\ held' = held
        /\ ppc'[r] \in {"done", "purging"}
    BY <1>0, <1>2 DEF FindLeads, Select
  <2> HIDE DEF S
  <2> QED
    BY <2>1, <2>2 DEF OneLeadAtATime
<1>3. ASSUME NEW l \in Events, PurgeLead(r, l)
      PROVE  /\ todo'[r] = todo[r] \ {l} /\ held'[r] = held[r] \cup {l}
             /\ l \in todo[r] /\ ppc'[r] = "logs"
  BY <1>0, <1>3 DEF PurgeLead
<1>4. CASE EraseLogs(r) \/ FlushLogs(r)
  BY <1>0, <1>4 DEF EraseLogs, FlushLogs, Ready, OneLeadAtATime
<1>5. CASE CommitErasure(r) \/ PurgeFails(r)
  <2>1. held'[r] = {} /\ todo'[r] = {}
    BY <1>0, <1>5 DEF CommitErasure, CommitPurge, PurgeFails, Release, OneLeadAtATime
  <2> QED
    BY <2>1
<1> QED
  BY <1>0, <1>1, <1>2, <1>3, <1>4, <1>5, PurgeApart DEF RequestStep, OneLeadAtATime

LEMMA SweptAllStep ==
  ASSUME IInv, SweptAll, [Next]_vars
  PROVE  SweptAll'
<1>0. /\ Types /\ Sweep \in Purgers /\ Sweep \notin Requests /\ Requests \subseteq Purgers
      /\ ppc \in [Purgers -> {"idle", "purging", "logs", "swept", "writing", "done"}]
      /\ \A f \in {todo, held} : f \in [Purgers -> SUBSET Events]
  BY DEF IInv, Types, Purgers
<1>1. CASE UNCHANGED <<ppc[Sweep], todo[Sweep]>>
  BY <1>1 DEF SweptAll
<1>2. CASE SweepStep \/ PurgeFails(Sweep)
  BY <1>0, <1>2 DEF SweepStep, FindDue, Select, SweepLogs, FlushLogs, Ready, CommitSweep,
     CommitPurge, SweepAgain, PurgeLead, PurgeFails, SweptAll
<1>3. ASSUME NEW r \in Requests, RequestStep(r) \/ PurgeFails(r)
      PROVE UNCHANGED <<ppc[Sweep], todo[Sweep]>>
  BY <1>0, <1>3 DEF RequestStep, FindLeads, Select, EraseLogs, FlushLogs, CommitErasure,
     CommitPurge, PurgeLead, PurgeFails
<1>4. ASSUME (\E e \in Events : CaptureStep(e)) \/ UNCHANGED vars
      PROVE UNCHANGED <<ppc[Sweep], todo[Sweep]>>
  BY <1>4 DEF CaptureStep, FindDuplicate, CommitDuplicate, FlushLead, CommitLead, Record,
               CaptureFails, vars, purge
<1> QED
  BY <1>1, <1>2, <1>3, <1>4 DEF Next, Purgers

LEMMA OwnLogsStep ==
  ASSUME IInv, RecordedDone, OwnLogs, [Next]_vars
  PROVE  OwnLogs'
<1> SUFFICES ASSUME NEW r \in Requests
             PROVE  /\ ppc'[r] = "logs" => current'[r] \in held'[r]
                    /\ \A e \in logged'[r] : linked'[e] \in held'[r]
  BY DEF OwnLogs
<1>0. /\ Types /\ r \in Purgers /\ r # Sweep
      /\ ppc \in [Purgers -> {"idle", "purging", "logs", "swept", "writing", "done"}]
      /\ current \in [Purgers -> Events \cup {None}]
      /\ \A f \in {held, logged} : f \in [Purgers -> SUBSET Events]
  BY DEF IInv, Types, Purgers
<1>1. \A e \in logged[r] : linked'[e] \in held[r]
  BY <1>0, LinksStay DEF OwnLogs
<1>2. CASE UNCHANGED <<ppc[r], held[r], logged[r], current[r]>>
  BY <1>1, <1>2 DEF OwnLogs
<1>3. CASE FindLeads(r) \/ FlushLogs(r)
  <2>1. ppc'[r] # "logs" /\ UNCHANGED <<held, logged>>
    BY <1>0, <1>3 DEF FindLeads, Select, FlushLogs
  <2> QED
    BY <1>1, <2>1
<1>4. ASSUME NEW l \in Events, PurgeLead(r, l)
      PROVE  held'[r] = held[r] \cup {l} /\ current'[r] = l /\ logged' = logged
  BY <1>0, <1>4 DEF PurgeLead
<1>5. CASE EraseLogs(r)
  <2>1. /\ logged'[r] = logged[r] \cup LinkedTo({current[r]}) /\ ppc'[r] # "logs"
        /\ held' = held /\ linked' = linked /\ current[r] \in held[r]
    BY <1>0, <1>5 DEF EraseLogs, rows, OwnLogs
  <2> QED
    BY <1>1, <2>1 DEF LinkedTo
<1>6. CASE CommitErasure(r) \/ PurgeFails(r)
  BY <1>0, <1>6 DEF CommitErasure, CommitPurge, PurgeFails, Release
<1> QED
  BY <1>0, <1>1, <1>2, <1>3, <1>4, <1>5, <1>6, PurgeApart DEF RequestStep

\* Locks on log rows are taken by FlushLogs only.
LEMMA LogLocksStep ==
  ASSUME IInv, [Next]_vars, NEW u \in Purgers, ~FlushLogs(u)
  PROVE  LogLocks(u)' \subseteq LogLocks(u)
<1> USE DEF LogLocks
<1>0. /\ Sweep \in Purgers /\ Requests \subseteq Purgers
      /\ ppc \in [Purgers -> {"idle", "purging", "logs", "swept", "writing", "done"}]
      /\ logged \in [Purgers -> SUBSET Events]
  BY DEF IInv, Types, Purgers
<1>1. CASE UNCHANGED <<ppc, logged>>
  BY <1>1
<1>2. ASSUME NEW t \in Purgers, FlushLogs(t) PROVE LogLocks(u)' \subseteq LogLocks(u)
  BY <1>0, <1>2 DEF FlushLogs
<1>3. ASSUME NEW r \in Requests, FindLeads(r) \/ EraseLogs(r) \/ CommitErasure(r)
      PROVE  LogLocks(u)' \subseteq LogLocks(u)
  BY <1>0, <1>3 DEF FindLeads, Select, EraseLogs, CommitErasure, CommitPurge, Release
<1>4. CASE FindDue \/ SweepLogs \/ CommitSweep \/ SweepAgain
  BY <1>0, <1>4 DEF FindDue, Select, SweepLogs, CommitSweep, CommitPurge, Release, SweepAgain
<1>5. ASSUME NEW t \in Purgers, PurgeFails(t) \/ \E l \in Events : PurgeLead(t, l)
      PROVE  LogLocks(u)' \subseteq LogLocks(u)
  BY <1>0, <1>5 DEF PurgeFails, Release, PurgeLead
<1>6. ASSUME (\E e \in Events : CaptureStep(e)) \/ UNCHANGED vars PROVE UNCHANGED <<ppc, logged>>
  BY <1>6 DEF CaptureStep, FindDuplicate, CommitDuplicate, FlushLead, CommitLead, Record,
               CaptureFails, vars, purge
<1> HIDE DEF LogLocks
<1>7. ASSUME NEW r \in Requests, RequestStep(r) PROVE LogLocks(u)' \subseteq LogLocks(u)
  BY <1>0, <1>2, <1>3, <1>5, <1>7 DEF RequestStep
<1>8. CASE SweepStep
  BY <1>0, <1>2, <1>4, <1>5, <1>8 DEF SweepStep
<1> QED
  BY <1>1, <1>5, <1>6, <1>7, <1>8 DEF Next

LEMMA OneHolderStep ==
  ASSUME IInv, OneHolder, [Next]_vars
  PROVE  OneHolder'
<1>0. held \in [Purgers -> SUBSET Events] /\ Sweep \in Purgers /\ Requests \subseteq Purgers
  BY DEF IInv, Types, Purgers
<1> DEFINE LeadsApart == \A t, u \in Purgers : t # u => held'[t] \cap held'[u] = {}
<1>1. ASSUME NEW t \in Purgers, held' = [held EXCEPT ![t] = {}] PROVE LeadsApart
  BY <1>0, <1>1 DEF OneHolder
<1>2. ASSUME NEW t \in Purgers, NEW l \in Events, PurgeLead(t, l) PROVE LeadsApart
  BY <1>0, <1>2 DEF PurgeLead, OneHolder
<1>3. \/ UNCHANGED held
      \/ \E t \in Purgers : held' = [held EXCEPT ![t] = {}]
      \/ \E t \in Purgers, l \in Events : PurgeLead(t, l)
  BY <1>0 DEF Next, CaptureStep, RequestStep, SweepStep, FindDuplicate, CommitDuplicate,
     FlushLead, CommitLead, Record, CaptureFails, FindLeads, FindDue, Select, EraseLogs,
     SweepLogs, FlushLogs, CommitErasure, CommitSweep, CommitPurge, PurgeFails, Release,
     SweepAgain, vars, purge
<1>4. LeadsApart
  BY <1>1, <1>2, <1>3 DEF OneHolder
<1>5. ASSUME NEW t \in Purgers, NEW u \in Purgers, t # u
      PROVE  LogLocks(t)' \cap LogLocks(u)' = {}
  <2>0. /\ ppc \in [Purgers -> {"idle", "purging", "logs", "swept", "writing", "done"}]
        /\ logged \in [Purgers -> SUBSET Events]
    BY DEF IInv, Types
  <2>1. ASSUME NEW v \in Purgers, NEW w \in Purgers, v # w, FlushLogs(v)
        PROVE  LogLocks(v)' \cap LogLocks(w)' = {}
    BY <2>0, <2>1 DEF FlushLogs, LogLocks
  <2> QED
    BY <1>5, <2>1, LogLocksStep DEF OneHolder
<1> QED
  BY <1>4, <1>5 DEF OneHolder

\* Erasures and the sweep lock the rows of leads and log rows, each in an order of its
\* own, and never come to wait for each other in a circle: PostgreSQL finds no deadlock
\* to break (erase_lead_by_identity, run_retention_sweep).
THEOREM LockSafety == Spec => []LocksInOrder
<1> DEFINE LInv == RecordedDone /\ OneLeadAtATime /\ SweptAll /\ OwnLogs /\ OneHolder
<1>1. Init => LInv
  BY DEF Init, RecordedDone, OneLeadAtATime, SweptAll, OwnLogs, OneHolder, LogLocks, Purgers
<1>2. IInv /\ LInv /\ [Next]_vars => LInv'
  BY RecordedStep, OneLeadStep, SweptAllStep, OwnLogsStep, OneHolderStep DEF IInv
<1>3. ASSUME IInv, LInv PROVE LocksInOrder
  <2>1. \A t \in Purgers : /\ todo[t] \subseteq Events /\ held[t] \subseteq Events
                           /\ LogLocks(t) # {} => todo[t] = {} /\ ~Ready(t)
    BY <1>3 DEF IInv, Types, LogLocks, Ready, OneLeadAtATime, SweptAll, Purgers
  <2>2. \A r \in Requests : held[r] # {} => todo[r] = {}
    BY <1>3 DEF OneLeadAtATime
  <2>3. ASSUME NEW u \in Purgers, NEW v \in Purgers, NEW t \in Purgers,
               WaitsFor(t, u), WaitsFor(u, v)
        PROVE  /\ held[u] # {} /\ todo[t] \cap held[u] # {}
               /\ u \in Requests => todo[u] = {} /\ logged[u] \cap LogLocks(v) # {}
    <3>1. LogLocks(u) = {}
      BY <2>1, <2>3 DEF WaitsFor
    <3>2. todo[t] \cap held[u] # {}
      BY <2>3, <3>1 DEF WaitsFor
    <3> QED
      BY <2>2, <2>3, <3>2 DEF WaitsFor
  <2>4. ASSUME NEW t \in Purgers, NEW u \in Purgers, NEW v \in Purgers, NEW w \in Purgers,
               WaitsFor(t, u), WaitsFor(u, v), WaitsFor(v, w)
        PROVE  FALSE
    <3>1. todo[u] \cap held[v] # {} /\ held[u] # {}
      BY <2>3, <2>4
    <3>2. u = Sweep
      BY <2>3, <2>4, <3>1 DEF Purgers
    <3>3. v \in Requests /\ logged[v] \cap LogLocks(w) # {}
      BY <2>3, <2>4, <3>2 DEF WaitsFor, Purgers
    <3>4. w # Sweep /\ w \in Requests /\ w # v
      BY <2>1, <2>4, <3>1, <3>2, <3>3 DEF WaitsFor, Purgers
    <3>5. PICK e \in logged[v] : e \in logged[w]
      BY <3>3 DEF LogLocks
    <3>6. linked[e] \in held[v] /\ linked[e] \in held[w]
      BY <1>3, <3>3, <3>4, <3>5 DEF OwnLogs
    <3> QED
      BY <1>3, <3>3, <3>4, <3>6 DEF OneHolder, Purgers
  <2> QED
    BY <1>3, <2>4 DEF LocksInOrder, OneHolder
<1> QED
  BY <1>1, <1>2, <1>3, Inductive, PTL DEF Spec

-----------------------------------------------------------------------------
(* An erasure runs down.                                                   *)

\* The most steps a request can take before it is done: it has one lead to erase.
StepsLeft(r) == [idle |-> 5, purging |-> IF todo[r] = {} THEN 2 ELSE 4, logs |-> 3,
                 writing |-> 1, swept |-> 0, done |-> 0][ppc[r]]

\* Unless its transaction is rolled back, every step of an erasure brings it nearer
\* to its end, and captures, the sweep and other requests leave it where it is.
ErasureGoesDown ==
  \A r \in Requests : ~PurgeFails(r) =>
    /\ RequestStep(r) => StepsLeft(r)' < StepsLeft(r)
    /\ StepsLeft(r)' = StepsLeft(r) \/ RequestStep(r)

ErasuresRunDown == [][ErasureGoesDown]_vars

LEMMA ErasureDownStep ==
  ASSUME IInv, OneLeadAtATime, [Next]_vars
  PROVE  ErasureGoesDown
<1> SUFFICES ASSUME NEW r \in Requests, ~PurgeFails(r)
             PROVE  /\ RequestStep(r) => StepsLeft(r)' < StepsLeft(r)
                    /\ StepsLeft(r)' = StepsLeft(r) \/ RequestStep(r)
  BY DEF ErasureGoesDown
<1>0. /\ r \in Purgers /\ r # Sweep
      /\ ppc \in [Purgers -> {"idle", "purging", "logs", "swept", "writing", "done"}]
      /\ \A f \in {todo, held} : f \in [Purgers -> SUBSET Events]
  BY DEF IInv, Types, Purgers
<1>1. ASSUME FindLeads(r) PROVE StepsLeft(r)' < StepsLeft(r)
  <2>1. ppc[r] = "idle" /\ ppc'[r] \in {"done", "purging"}
    BY <1>0, <1>1 DEF FindLeads, Select
  <2> QED
    BY <2>1 DEF StepsLeft
<1>2. ASSUME NEW l \in Events, PurgeLead(r, l) PROVE StepsLeft(r)' < StepsLeft(r)
  <2>1. ppc[r] = "purging" /\ todo[r] # {} /\ ppc'[r] = "logs"
    BY <1>0, <1>2 DEF PurgeLead
  <2> QED
    BY <2>1 DEF StepsLeft
<1>3. ASSUME EraseLogs(r) PROVE StepsLeft(r)' < StepsLeft(r)
  <2>1. ppc[r] = "logs" /\ ppc'[r] = "purging" /\ todo'[r] = todo[r]
    BY <1>0, <1>3 DEF EraseLogs
  <2>2. todo[r] = {}
    BY <1>0, <2>1 DEF OneLeadAtATime
  <2> QED
    BY <2>1, <2>2 DEF StepsLeft
<1>4. ASSUME CommitErasure(r) PROVE StepsLeft(r)' < StepsLeft(r)
  <2>1. ppc[r] = "writing" /\ ppc'[r] = "done"
    BY <1>0, <1>4 DEF CommitErasure, CommitPurge
  <2> QED
    BY <2>1 DEF StepsLeft
<1>7. ASSUME FlushLogs(r) PROVE StepsLeft(r)' < StepsLeft(r)
  <2>1. ppc[r] = "purging" /\ todo[r] = {} /\ ppc'[r] = "writing"
    BY <1>0, <1>7 DEF FlushLogs, Ready
  <2> QED
    BY <2>1 DEF StepsLeft
<1>5. RequestStep(r) => StepsLeft(r)' < StepsLeft(r)
  BY <1>1, <1>2, <1>3, <1>4, <1>7 DEF RequestStep
<1>6. UNCHANGED <<ppc[r], todo[r]>> => StepsLeft(r)' = StepsLeft(r)
  BY DEF StepsLeft
<1> HIDE DEF StepsLeft
<1> QED
  BY <1>5, <1>6, PurgeApart DEF IInv

\* A request comes to an end unless it waits or is rolled back: the part of PurgesEnd
\* that needs no fairness.
THEOREM ErasureRunsDown == Spec => ErasuresRunDown
<1>1. Init => OneLeadAtATime
  BY DEF Init, OneLeadAtATime, Purgers
<1>2. IInv /\ OneLeadAtATime /\ [Next]_vars => OneLeadAtATime'
  BY OneLeadStep
<1>3. IInv /\ OneLeadAtATime /\ [Next]_vars => [ErasureGoesDown]_vars
  BY ErasureDownStep
<1> QED
  BY <1>1, <1>2, <1>3, Inductive, PTL DEF Spec, ErasuresRunDown

=============================================================================
