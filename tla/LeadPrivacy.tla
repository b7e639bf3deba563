---------------------------- MODULE LeadPrivacy ----------------------------
(***************************************************************************)
(* Erasure requests and the retention sweep against captures in flight.    *)
(* All three rewrite the same tables, each in one transaction at READ      *)
(* COMMITTED: a statement reads what is committed when it runs, an UPDATE  *)
(* locks its row until commit, and the ORM writes a row it has read before *)
(* by primary key, whatever happened to the row since.                     *)
(*                                                                         *)
(* Contacts are known by their phone (the e-mail branches are alike).  A   *)
(* lead has the name of the event that opened it.  Of a row only what is   *)
(* personal data is kept: the phone, and whether its raw JSON is the full  *)
(* payload or a tombstone.                                                 *)
(***************************************************************************)
EXTENDS Naturals, FiniteSets

CONSTANTS
  Events,     \* platform_event_ids, each carrying a contact's payload
  PhoneOf,    \* the phone in the payload
  Past,       \* events captured before, each of which opened a lead
  AgedLeads,  \* of those, leads older than lead_data_retention_days
  AgedLogs,   \* and log rows older than intake_log_retention_days
  Requests,   \* erasure requests
  RequestFor, \* the phone each one is about
  Sweep,      \* the daily retention sweep
  Phones, None, NoRow

ASSUME PhoneOfAssumption == PhoneOf \in [Events -> Phones]
ASSUME PastAssumption ==
  /\ Past \subseteq Events /\ AgedLeads \subseteq Past /\ AgedLogs \subseteq Past
  /\ \A e, f \in Past : PhoneOf[e] = PhoneOf[f] => e = f
ASSUME RequestAssumption == RequestFor \in [Requests -> Phones]
ASSUME SentinelAssumption ==
  /\ None \notin Phones \cup Events
  /\ Sweep \notin Requests
  /\ NoRow \notin [phone : Phones \cup {None},
                   stage : {"captured", "erased", "anonymised"}]

Purgers == Requests \cup {Sweep}
Gone == {"erased", "anonymised"}
Lead == [phone : Phones \cup {None}, stage : {"captured"} \cup Gone]
Raw == {"none", "full"} \cup Gone

VARIABLES
  leads,      \* committed rows of leads
  linked,     \* the lead of each event's committed log row and touchpoint
  logRaw,     \* raw_event_json of the committed intake_event_logs rows
  touchRaw,   \* raw_event_json of the committed lead_touchpoints rows
  erasureLog, \* leads named in erasure_event_logs
  retentionLog, \* leads named in retention_event_logs
  cpc, hit,   \* captures in flight, and the lead find_duplicate returned
  ppc,        \* where each purging transaction is
  todo,       \* leads it has read and not yet worked on
  held,       \* leads it has updated, uncommitted
  current,    \* the lead whose log rows it will read next
  touched,    \* events whose touchpoint it has replaced, uncommitted
  logged,     \* events whose log row it will replace, locked once it is "writing"
  history     \* events linked to its leads when it read and when it locked them

rows == <<leads, linked, logRaw, touchRaw>>
audit == <<erasureLog, retentionLog>>
capture == <<cpc, hit>>
purge == <<ppc, todo, held, current, touched, logged, history>>
vars == <<leads, linked, logRaw, touchRaw, erasureLog, retentionLog, cpc, hit,
          ppc, todo, held, current, touched, logged, history>>

Init ==
  /\ leads = [e \in Events |->
       IF e \in Past THEN [phone |-> PhoneOf[e], stage |-> "captured"] ELSE NoRow]
  /\ linked = [e \in Events |-> IF e \in Past THEN e ELSE None]
  /\ logRaw = [e \in Events |-> IF e \in Past THEN "full" ELSE "none"]
  /\ touchRaw = logRaw
  /\ erasureLog = {} /\ retentionLog = {}
  /\ cpc = [e \in Events |-> IF e \in Past THEN "done" ELSE "queued"]
  /\ hit = [e \in Events |-> None]
  /\ ppc = [t \in Purgers |-> "idle"]
  /\ todo = [t \in Purgers |-> {}]
  /\ held = [t \in Purgers |-> {}]
  /\ current = [t \in Purgers |-> None]
  /\ touched = [t \in Purgers |-> {}]
  /\ logged = [t \in Purgers |-> {}]
  /\ history = [t \in Purgers |-> {}]

-----------------------------------------------------------------------------
(* run_capture: reserve the slot, find_duplicate, then one of two commits. *)

WithPhone(p) == {l \in Events : leads[l] # NoRow /\ leads[l].phone = p}

FindDuplicate(e) ==
  /\ cpc[e] = "queued"
  /\ LET found == WithPhone(PhoneOf[e]) IN
       /\ cpc' = [cpc EXCEPT ![e] = IF found = {} THEN "insert" ELSE "attach"]
       /\ IF found = {} THEN UNCHANGED hit
          ELSE \E l \in found : hit' = [hit EXCEPT ![e] = l]
  /\ UNCHANGED <<rows, audit, purge>>

\* Both commits write the event's log row and touchpoint with the full payload.
Record(e, l) ==
  /\ linked' = [linked EXCEPT ![e] = l]
  /\ logRaw' = [logRaw EXCEPT ![e] = "full"]
  /\ touchRaw' = [touchRaw EXCEPT ![e] = "full"]
  /\ cpc' = [cpc EXCEPT ![e] = "done"]
  /\ UNCHANGED <<audit, hit, purge>>

\* Fault: a duplicate refreshes the contact's details.
CommitDuplicateRefresh(e) ==
  /\ cpc[e] = "attach"
  /\ leads' = [leads EXCEPT ![hit[e]].phone = PhoneOf[e]]
  /\ Record(e, hit[e])

\* The touchpoint's foreign key only needs the lead row to exist.
CommitDuplicate(e) ==
  /\ cpc[e] = "attach"
  /\ UNCHANGED leads
  /\ Record(e, hit[e])

\* uq_lead_tenant_phone: an entry of a row a purger has updated, or one another
\* capture has flushed, makes the INSERT wait; a committed one refuses it.
Taken(p) == WithPhone(p) # {}
Contested(e) ==
  \/ \E t \in Purgers : held[t] \cap WithPhone(PhoneOf[e]) # {}
  \/ \E f \in Events \ {e} : cpc[f] = "flushed" /\ PhoneOf[f] = PhoneOf[e]

\* Fault: no unique index.
FlushUnindexed(e) ==
  /\ cpc[e] = "insert"
  /\ cpc' = [cpc EXCEPT ![e] = "flushed"]
  /\ UNCHANGED <<rows, audit, hit, purge>>

FlushLead(e) ==
  /\ cpc[e] = "insert"
  /\ ~Taken(PhoneOf[e]) /\ ~Contested(e)
  /\ cpc' = [cpc EXCEPT ![e] = "flushed"]
  /\ UNCHANGED <<rows, audit, hit, purge>>

CommitLead(e) ==
  /\ cpc[e] = "flushed"
  /\ leads' = [leads EXCEPT ![e] = [phone |-> PhoneOf[e], stage |-> "captured"]]
  /\ Record(e, e)

\* A refused INSERT, or any failure: rollback; the event may be processed again.
CaptureFails(e) ==
  /\ \/ cpc[e] \in {"attach", "flushed"}
     \/ cpc[e] = "insert" /\ Taken(PhoneOf[e]) /\ ~Contested(e)
  /\ cpc' = [cpc EXCEPT ![e] = "queued"]
  /\ hit' = [hit EXCEPT ![e] = None]
  /\ UNCHANGED <<rows, audit, purge>>

-----------------------------------------------------------------------------
(* erase_lead_by_identity and run_retention_sweep.                         *)

LinkedTo(S) == {e \in Events : linked[e] \in S}

\* _find_leads, or get_leads_due_for_anonymisation: the rows are read once.
Select(t, S) ==
  /\ ppc[t] = "idle"
  /\ todo' = [todo EXCEPT ![t] = S]
  /\ history' = [history EXCEPT ![t] = LinkedTo(S)]
  /\ UNCHANGED <<rows, audit, capture, held, current, touched, logged>>

FindLeads(r) ==
  LET S == WithPhone(RequestFor[r]) IN
  /\ Select(r, S)
  /\ ppc' = [ppc EXCEPT ![r] = IF S = {} THEN "done" ELSE "purging"]

FindDue ==
  /\ Select(Sweep, {l \in AgedLeads : leads[l].stage \notin Gone})
  /\ ppc' = [ppc EXCEPT ![Sweep] = "purging"]

\* Fault: the touchpoints come with the query that found the leads (an eager load).
PurgeLeadPreloaded(t, l) ==
  /\ ppc[t] = "purging" /\ l \in todo[t]
  /\ \A u \in Purgers \ {t} : l \notin held[u]
  /\ todo' = [todo EXCEPT ![t] = @ \ {l}]
  /\ held' = [held EXCEPT ![t] = @ \cup {l}]
  /\ touched' = [touched EXCEPT ![t] = @ \cup (LinkedTo({l}) \cap history[t])]
  /\ history' = [history EXCEPT ![t] = @ \cup LinkedTo({l})]
  /\ current' = [current EXCEPT ![t] = IF t = Sweep THEN None ELSE l]
  /\ ppc' = [ppc EXCEPT ![t] = IF t = Sweep THEN "purging" ELSE "logs"]
  /\ UNCHANGED <<rows, audit, capture, logged>>

\* _erase_one, anonymise_lead: the query for the touchpoints flushes the UPDATE
\* of the lead, which waits while another transaction has the row.  It then sees
\* every touchpoint committed until then.  Nobody else updates touchpoints of a
\* lead without having the lead, so their row locks add no wait.
PurgeLead(t, l) ==
  /\ ppc[t] = "purging" /\ l \in todo[t]
  /\ \A u \in Purgers \ {t} : l \notin held[u]
  /\ todo' = [todo EXCEPT ![t] = @ \ {l}]
  /\ held' = [held EXCEPT ![t] = @ \cup {l}]
  /\ touched' = [touched EXCEPT ![t] = @ \cup LinkedTo({l})]
  /\ history' = [history EXCEPT ![t] = @ \cup LinkedTo({l})]
  /\ current' = [current EXCEPT ![t] = IF t = Sweep THEN None ELSE l]
  /\ ppc' = [ppc EXCEPT ![t] = IF t = Sweep THEN "purging" ELSE "logs"]
  /\ UNCHANGED <<rows, audit, capture, logged>>

\* _erase_one: the log rows of the lead.
EraseLogs(r) ==
  /\ ppc[r] = "logs"
  /\ logged' = [logged EXCEPT ![r] = @ \cup LinkedTo({current[r]})]
  /\ current' = [current EXCEPT ![r] = None]
  /\ ppc' = [ppc EXCEPT ![r] = "purging"]
  /\ UNCHANGED <<rows, audit, capture, todo, held, touched, history>>

\* run_retention_sweep: log rows by their own age, whatever their lead.
SweepLogs ==
  /\ ppc[Sweep] = "purging" /\ todo[Sweep] = {}
  /\ logged' = [logged EXCEPT ![Sweep] = AgedLogs]
  /\ ppc' = [ppc EXCEPT ![Sweep] = "swept"]
  /\ UNCHANGED <<rows, audit, capture, todo, held, current, touched, history>>

\* All leads are worked on and their log rows read.
Ready(t) == ppc[t] = (IF t = Sweep THEN "swept" ELSE "purging") /\ todo[t] = {}
LogLocks(t) == IF ppc[t] = "writing" THEN logged[t] ELSE {}

\* session.commit() first flushes the UPDATEs of the log rows, each waiting while
\* another transaction has the row.  The ORM writes them by primary key, so two
\* flushes cannot cross, and taking all of them is one step.
FlushLogs(t) ==
  /\ Ready(t)
  /\ \A u \in Purgers \ {t} : logged[t] \cap LogLocks(u) = {}
  /\ ppc' = [ppc EXCEPT ![t] = "writing"]
  /\ UNCHANGED <<rows, audit, capture, todo, held, current, touched, logged, history>>

Overwritten(f, S, stage) == [e \in Events |-> IF e \in S THEN stage ELSE f[e]]

Release(t) == /\ held' = [held EXCEPT ![t] = {}]
              /\ touched' = [touched EXCEPT ![t] = {}]
              /\ logged' = [logged EXCEPT ![t] = {}]
              /\ current' = [current EXCEPT ![t] = None]

CommitPurge(t, stage) ==
  /\ ppc[t] = "writing"
  /\ leads' = [l \in Events |-> IF l \in held[t]
                                THEN [phone |-> None, stage |-> stage] ELSE leads[l]]
  /\ touchRaw' = Overwritten(touchRaw, touched[t], stage)
  /\ logRaw' = Overwritten(logRaw, logged[t], stage)
  /\ ppc' = [ppc EXCEPT ![t] = "done"]
  /\ Release(t)
  /\ UNCHANGED <<linked, capture, todo, history>>

\* Fault: the audit row in a second transaction, which may not be reached.
CommitErasureUnaudited(r) ==
  /\ CommitPurge(r, "erased")
  /\ UNCHANGED audit

CommitErasure(r) ==
  /\ CommitPurge(r, "erased")
  /\ erasureLog' = erasureLog \cup held[r]
  /\ UNCHANGED retentionLog

CommitSweep ==
  /\ CommitPurge(Sweep, "anonymised")
  /\ retentionLog' = retentionLog \cup held[Sweep]
  /\ UNCHANGED erasureLog

\* Fault: the failed transaction is left open.
PurgeFailsOpen(t) ==
  /\ ppc[t] \in {"purging", "logs", "swept", "writing"}
  /\ ppc' = [ppc EXCEPT ![t] = "idle"]
  /\ todo' = [todo EXCEPT ![t] = {}]
  /\ history' = [history EXCEPT ![t] = {}]
  /\ UNCHANGED <<rows, audit, capture, held, current, touched, logged>>

\* An error or a crash: rollback.  The caller may ask again; the sweep runs daily.
PurgeFails(t) ==
  /\ ppc[t] \in {"purging", "logs", "swept", "writing"}
  /\ ppc' = [ppc EXCEPT ![t] = "idle"]
  /\ todo' = [todo EXCEPT ![t] = {}]
  /\ history' = [history EXCEPT ![t] = {}]
  /\ Release(t)
  /\ UNCHANGED <<rows, audit, capture>>

\* The next day's sweep.
SweepAgain ==
  /\ ppc[Sweep] = "done"
  /\ ppc' = [ppc EXCEPT ![Sweep] = "idle"]
  /\ history' = [history EXCEPT ![Sweep] = {}]
  /\ UNCHANGED <<rows, audit, capture, todo, held, current, touched, logged>>

-----------------------------------------------------------------------------
CaptureStep(e) ==
  FindDuplicate(e) \/ CommitDuplicate(e) \/ FlushLead(e) \/ CommitLead(e) \/ CaptureFails(e)
RequestStep(r) ==
  \/ FindLeads(r) \/ EraseLogs(r) \/ FlushLogs(r) \/ CommitErasure(r)
  \/ \E l \in Events : PurgeLead(r, l)
SweepStep ==
  \/ FindDue \/ SweepLogs \/ FlushLogs(Sweep) \/ CommitSweep \/ SweepAgain
  \/ \E l \in Events : PurgeLead(Sweep, l)

Next ==
  \/ \E e \in Events : CaptureStep(e)
  \/ \E r \in Requests : RequestStep(r)
  \/ SweepStep
  \/ \E t \in Purgers : PurgeFails(t)

Spec == Init /\ [][Next]_vars

\* Requests and the sweep keep working, and Postgres serves the waiters of a row
\* lock in turn; captures and failures need not happen.
FairSpec ==
  /\ Spec /\ WF_vars(SweepStep)
  /\ \A r \in Requests : WF_vars(RequestStep(r))
  /\ \A t \in Purgers : SF_vars(FlushLogs(t)) /\ SF_vars(\E l \in Events : PurgeLead(t, l))

-----------------------------------------------------------------------------
\* Every row is well formed and every transaction is somewhere in its code.
Types ==
  /\ leads \in [Events -> Lead \cup {NoRow}]
  /\ linked \in [Events -> Events \cup {None}]
  /\ logRaw \in [Events -> Raw] /\ touchRaw \in [Events -> Raw]
  /\ erasureLog \subseteq Events /\ retentionLog \subseteq Events
  /\ cpc \in [Events -> {"queued", "attach", "insert", "flushed", "done"}]
  /\ hit \in [Events -> Events \cup {None}]
  /\ ppc \in [Purgers -> {"idle", "purging", "logs", "swept", "writing", "done"}]
  /\ current \in [Purgers -> Events \cup {None}]
  /\ \A f \in {todo, held, touched, logged, history} : f \in [Purgers -> SUBSET Events]

\* No two leads share a phone, committed or about to be, although an erasure
\* gives the phone free while captures of it are in flight.
OnePhonePerLead ==
  /\ \A l, m \in Events :
       (leads[l] # NoRow /\ leads[m] # NoRow /\ leads[l].phone # None) =>
          (leads[l].phone = leads[m].phone => l = m)
  /\ \A e \in Events : cpc[e] = "flushed" => ~Taken(PhoneOf[e]) /\ ~Contested(e)

\* A lead without a phone has been erased or anonymised, for good: neither a
\* capture of a duplicate nor the rollback of another purge brings it back.
PurgedStaysPurged ==
  [][\A l \in Events : leads[l] # NoRow /\ leads[l].stage \in Gone
       => leads'[l].phone = None /\ leads'[l].stage \in Gone]_vars

\* Whoever emptied a lead has left the audit row of it, whatever happened since:
\* purge and audit are one commit.
PurgesAudited ==
  \A l \in Events : leads[l] # NoRow =>
    /\ leads[l].stage = "erased" => l \in erasureLog
    /\ leads[l].stage = "anonymised" => l \in retentionLog

\* A request that is done has replaced, in both tables, the payload of every event
\* of its leads, those included that were committed after it read a lead and before
\* it had the lead's row.
ErasureReachesHistory ==
  \A r \in Requests : ppc[r] = "done" =>
    \A e \in history[r] : logRaw[e] \in Gone /\ touchRaw[e] \in Gone

\* No request waits for ever for a lead or for log rows that another purge has.
PurgesEnd == \A r \in Requests : ppc[r] = "purging" ~> ppc[r] \in {"done", "idle"}

-----------------------------------------------------------------------------
(* What comments and documents say, and the code does not keep.            *)

\* In-flight safety: an erased lead keeps no payload, because a capture still in
\* flight short-circuits before it writes.
ErasedStaysClean ==
  \A e \in Events : linked[e] # None /\ leads[linked[e]].stage = "erased"
    => logRaw[e] # "full" /\ touchRaw[e] # "full"

=============================================================================
