---------------------------- MODULE LeadCapture ----------------------------
(***************************************************************************)
(* The intake core: webhook deliveries of platform events become queued    *)
(* jobs; worker jobs run the capture pipeline against the shared Postgres  *)
(* tables leads, intake_event_logs and lead_touchpoints.                   *)
(*                                                                         *)
(* Each job runs one database transaction at READ COMMITTED.  A statement  *)
(* is one action; what a transaction wrote is invisible to the other jobs  *)
(* until its commit, but an INSERT into a unique index waits for the       *)
(* transaction that holds an uncommitted conflicting entry.  What a        *)
(* transaction holds is a function of the job's pc: a slot from reserve    *)
(* until commit, a new lead row from the flush until commit.               *)
(*                                                                         *)
(* All identity values are those of one tenant: every query and both       *)
(* partial unique indexes of leads carry tenant_id.                        *)
(***************************************************************************)
EXTENDS PhoneFormat

CONSTANTS
  Events,       \* platform_event_ids
  Jobs,         \* webhook deliveries; several may carry the same event
  EventOf,      \* the event a delivery carries
  KindOf,       \* "message" (DM, through the filter), "leadgen" (Lead Ads),
                \* "postback" (of Messenger or Instagram, or a receipt: no mid, the
                \* id is its sender's), "status" (of WhatsApp: no messages, no id)
  Sent,         \* the identity the event itself carries
  Readings,     \* what the model may extract from the text of a message; for
                \* a form, the orders its location may be joined in
  Phones,       \* telephone numbers, as events write them: any characters
  Emails, Names, Places,
  None,         \* an absent column value
  NoRow,        \* no such row in a table
  MaxTries      \* attempts the queue gives a job (WorkerSettings.max_tries)

Identity == [phone : Phones \cup {None}, email : Emails \cup {None},
             name : Names \cup {None}, place : Places \cup {None}]

ASSUME PhoneAssumption ==
  \A p \in Phones : p \in Seq({p[k] : k \in 1..Len(p)})
ASSUME EventOfAssumption == EventOf \in [Jobs -> Events]
ASSUME KindOfAssumption ==
  KindOf \in [Events -> {"message", "leadgen", "postback", "status"}]
ASSUME SentAssumption == Sent \in [Events -> Identity]
ASSUME ReadingsAssumption == Readings \in [Events -> SUBSET Identity]
ASSUME MaxTriesAssumption == MaxTries \in Nat \ {0}

\* A run of a job is an attempt; a row id is the uuid4 drawn in that attempt.
Attempts == Jobs \X (1..MaxTries)
Terminal == {"insufficient_signal", "existing_customer", "pre_flight_blocked"}
Unlinked == {"unroutable", "failed"}

\* What leads.phone may hold and find_duplicate looks for.
PhoneKey == [p \in Phones |-> NormalisePhone(p)]
Keys == {PhoneKey[p] : p \in Phones}

Lead == [phone : Keys \cup {None}, email : Emails \cup {None},
         name : Names \cup {None}, place : Places \cup {None},
         stage : Terminal \cup {"captured"}]
IntakeEventLog ==
  [status : Terminal \cup Unlinked \cup {"received", "duplicate"},
   lead : Attempts \cup {None}]
LeadTouchpoint == [id : Attempts, lead : Attempts, event : Events]

ASSUME SentinelAssumption ==
  /\ None \notin Phones \cup Keys \cup Emails \cup Names \cup Places \cup Attempts
  /\ NoRow \notin Lead \cup IntakeEventLog

VARIABLES
  leads,        \* committed rows of leads
  logs,         \* committed rows of intake_event_logs, by platform_event_id
  touchpoints,  \* committed rows of lead_touchpoints
  received,     \* LeadReceived values returned to the worker, by attempt
  connected,    \* an active ChannelConnection matches the webhooks' account
  tenantReady,  \* the tenant has an ACTIVE config with signals
  pc,           \* where each job is
  tries,        \* attempts each job has used
  ident,        \* the identity the running attempt works with
  verdict,      \* "capture", or the terminal stage the attempt will write
  found,        \* the lead find_duplicate returned
  raised        \* the exception the last failed attempt ended in

tables == <<leads, logs, touchpoints>>
world == <<connected, tenantReady>>
local == <<tries, ident, verdict, found, raised>>
vars == <<leads, logs, touchpoints, received, connected, tenantReady,
          pc, tries, ident, verdict, found, raised>>

Nobody == [phone |-> None, email |-> None, name |-> None, place |-> None]

Dedup == {"dedup_phone", "dedup_email", "dedup_name"}
Holding == Dedup \cup {"attach", "insert", "finalise"}
Running == {"filter", "preflight", "fetch", "fetch_failed", "reserve",
            "committed"} \cup Holding
Resting == {"undelivered", "queued", "ended", "dead"}

Attempt(j) == <<j, tries[j]>>

Init ==
  /\ leads = [a \in Attempts |-> NoRow]
  /\ logs = [e \in Events |-> NoRow]
  /\ touchpoints = {}
  /\ received = {}
  /\ connected \in BOOLEAN
  /\ tenantReady \in BOOLEAN
  /\ pc = [j \in Jobs |-> "undelivered"]
  /\ tries = [j \in Jobs |-> 0]
  /\ ident = [j \in Jobs |-> Nobody]
  /\ verdict = [j \in Jobs |-> "capture"]
  /\ found = [j \in Jobs |-> None]
  /\ raised = [j \in Jobs |-> "nothing"]

-----------------------------------------------------------------------------
(* Postgres: what the transactions of other jobs hold uncommitted.         *)

\* No other transaction holds an uncommitted log row of event e.
SlotFree(e) == \A k \in Jobs : EventOf[k] = e => pc[k] \notin Holding

Stored(phone) == IF phone = None THEN None ELSE PhoneKey[phone]

\* Fault: the phone is stored as the event writes it.
NewLeadAsWritten(j) ==
  [phone |-> ident[j].phone,
   email |-> IF verdict[j] = "capture" THEN ident[j].email ELSE None,
   name |-> IF verdict[j] = "capture" THEN ident[j].name ELSE None,
   place |-> IF verdict[j] = "capture" THEN ident[j].place ELSE None,
   stage |-> IF verdict[j] = "capture" THEN "captured" ELSE verdict[j]]

\* The Lead row the attempt flushes: a terminal row keeps only the phone.
NewLead(j) ==
  LET phone == Stored(ident[j].phone) IN
  IF verdict[j] = "capture"
  THEN [phone |-> phone, email |-> ident[j].email,
        name |-> ident[j].name, place |-> ident[j].place, stage |-> "captured"]
  ELSE [phone |-> phone, email |-> None,
        name |-> None, place |-> None, stage |-> verdict[j]]

\* uq_lead_tenant_phone or uq_lead_tenant_email refuses the two rows together.
Collide(r, s) ==
  \/ r.phone # None /\ r.phone = s.phone
  \/ r.email # None /\ r.email = s.email

\* A committed row, or one another transaction has flushed, collides with r.
CommittedClash(r) == \E a \in Attempts : leads[a] # NoRow /\ Collide(r, leads[a])
PendingClash(j, r) ==
  \E k \in Jobs \ {j} : pc[k] = "finalise" /\ Collide(r, NewLead(k))

-----------------------------------------------------------------------------
(* The two ways out of an attempt.                                         *)

\* The job returns; its local variables are gone.
Finish(j) ==
  /\ pc' = [pc EXCEPT ![j] = "ended"]
  /\ ident' = [ident EXCEPT ![j] = Nobody]
  /\ verdict' = [verdict EXCEPT ![j] = "capture"]
  /\ found' = [found EXCEPT ![j] = None]
  /\ UNCHANGED <<tries, raised>>

\* Faults: one attempt too many; the exception is swallowed.
OneTryTooMany(j, x) ==
  /\ \/ pc' = [pc EXCEPT ![j] = "dead"]
     \/ tries[j] <= MaxTries /\ pc' = [pc EXCEPT ![j] = "queued"]
  /\ raised' = [raised EXCEPT ![j] = x]
  /\ ident' = [ident EXCEPT ![j] = Nobody]
  /\ found' = [found EXCEPT ![j] = None]
  /\ UNCHANGED <<tables, received, world, tries, verdict>>
RaiseSwallowed(j, x) ==
  /\ pc' = [pc EXCEPT ![j] = "ended"]
  /\ raised' = [raised EXCEPT ![j] = x]
  /\ ident' = [ident EXCEPT ![j] = Nobody]
  /\ found' = [found EXCEPT ![j] = None]
  /\ UNCHANGED <<tables, received, world, tries, verdict>>

\* An exception x leaves the session: rollback, then the queue either runs
\* the job again or gives it up.
Raise(j, x) ==
  /\ \/ pc' = [pc EXCEPT ![j] = "dead"]
     \/ tries[j] < MaxTries /\ pc' = [pc EXCEPT ![j] = "queued"]
  /\ raised' = [raised EXCEPT ![j] = x]
  /\ ident' = [ident EXCEPT ![j] = Nobody]
  /\ found' = [found EXCEPT ![j] = None]
  /\ UNCHANGED <<tables, received, world, tries, verdict>>

-----------------------------------------------------------------------------
(* Webhook and tenant: the world around the workers.                       *)

\* An OAuth callback stores an active connection; the daily token refresh (or
\* its absence) takes it out of service again.
ChannelChanges == /\ connected' = ~connected
                  /\ UNCHANGED <<tables, received, tenantReady, pc, local>>

\* create_active commits the tenant's first ACTIVE config; one stays in force.
TenantActivates == /\ ~tenantReady
                   /\ tenantReady' = TRUE
                   /\ UNCHANGED <<tables, received, connected, pc, local>>

\* receive_webhook, a connection found: the delivery becomes a queued job.
EnqueueDelivery(j) ==
  /\ pc[j] = "undelivered" /\ connected
  /\ pc' = [pc EXCEPT ![j] = "queued"]
  /\ UNCHANGED <<tables, received, world, local>>

\* The events that Meta gives an id of their own.
Identified == {e \in Events : KindOf[e] \in {"message", "leadgen"}}

\* receive_webhook, no connection: log_unroutable_event, and Meta gets its 200.
LogUnroutable(j) ==
  LET e == EventOf[j] IN
  /\ pc[j] = "undelivered" /\ ~connected
  /\ e \in Identified
  /\ SlotFree(e)
  /\ logs' = [logs EXCEPT ![e] =
       IF @ = NoRow THEN [status |-> "unroutable", lead |-> None] ELSE @]
  /\ Finish(j)
  /\ UNCHANGED <<leads, touchpoints, received, world>>

\* No connection and no id to log the event under: it is acknowledged, no more.
DropUnroutable(j) ==
  /\ pc[j] = "undelivered" /\ ~connected
  /\ EventOf[j] \notin Identified
  /\ Finish(j)
  /\ UNCHANGED <<tables, received, world>>

-----------------------------------------------------------------------------
(* Failure, at any point of a running attempt.                             *)

\* A filter or database error, a timeout or a worker crash, at any point.
Abort(j) == pc[j] \in Running /\ Raise(j, "failure")

-----------------------------------------------------------------------------
(* run_lead_capture and run_lead_ad_capture up to the event to capture.    *)

StartAttempt(j) ==
  /\ pc[j] = "queued"
  /\ tries' = [tries EXCEPT ![j] = @ + 1]
  /\ ident' = [ident EXCEPT ![j] = Sent[EventOf[j]]]
  /\ verdict' = [verdict EXCEPT ![j] = "capture"]
  /\ pc' = [pc EXCEPT ![j] =
              IF KindOf[EventOf[j]] = "leadgen" THEN "fetch" ELSE "filter"]
  /\ raised' = [raised EXCEPT ![j] = "nothing"]
  /\ UNCHANGED <<tables, received, world, found>>

\* A WhatsApp webhook without messages: run_lead_capture returns.
IgnoreStatus(j) ==
  /\ pc[j] = "filter" /\ KindOf[EventOf[j]] = "status"
  /\ Finish(j)
  /\ UNCHANGED <<tables, received, world>>

Classification == {"NOISE", "EXISTING_CUSTOMER", "LEAD", "UNCLEAR"}
TerminalStage == [NOISE |-> "insufficient_signal",
                  EXISTING_CUSTOMER |-> "existing_customer"]

\* A verdict below the threshold of 0.7 is taken for LEAD, unless it is UNCLEAR.
Calibrate(class, sure) == IF sure \/ class = "UNCLEAR" THEN class ELSE "LEAD"

\* The event goes on unenriched, to become a terminal lead.
FilterTerminal(j, class) ==
  /\ class \in DOMAIN TerminalStage
  /\ verdict' = [verdict EXCEPT ![j] = TerminalStage[class]]
  /\ pc' = [pc EXCEPT ![j] = "reserve"]
  /\ UNCHANGED <<tables, received, world, tries, ident, found, raised>>

Or(a, b) == IF a # None THEN a ELSE b

\* The event's own fields win over the ones the model extracted.
Enrich(own, read) ==
  [phone |-> Or(own.phone, read.phone), email |-> Or(own.email, read.email),
   name |-> Or(own.name, read.name), place |-> Or(own.place, read.place)]

FilterLead(j, class, read) ==
  /\ class \in {"LEAD", "UNCLEAR"}
  /\ ident' = [ident EXCEPT ![j] = Enrich(@, read)]
  /\ pc' = [pc EXCEPT ![j] = "preflight"]
  /\ UNCHANGED <<tables, received, world, tries, verdict, found, raised>>

\* No text at all, or an emoji, a greeting, a filler word: the model is not asked.
FilterStage1(j) ==
  /\ pc[j] = "filter" /\ KindOf[EventOf[j]] # "status"
  /\ FilterTerminal(j, "NOISE")

\* classify_message answers (an answer of no known class raises: Abort).
FilterStage2(j) ==
  /\ pc[j] = "filter" /\ KindOf[EventOf[j]] = "message"
  /\ \E class \in Classification, sure \in BOOLEAN :
       \/ FilterTerminal(j, Calibrate(class, sure))
       \/ \E read \in Readings[EventOf[j]] \cup {Nobody} :
            FilterLead(j, Calibrate(class, sure), read)

CheckPreFlight(j) ==
  /\ pc[j] = "preflight"
  /\ verdict' = [verdict EXCEPT ![j] =
                   IF tenantReady THEN "capture" ELSE "pre_flight_blocked"]
  /\ pc' = [pc EXCEPT ![j] = "reserve"]
  /\ UNCHANGED <<tables, received, world, tries, ident, found, raised>>

\* fetch_lead_fields and normalise_lead_ad_form: Lead Ads skip the filter and
\* the pre-flight check.  The location's parts are joined in the iteration order
\* of a set of strings, which differs from process to process.  (No code deletes
\* a connection or clears its credentials, so they are always found.)
FetchFields(j) ==
  /\ pc[j] = "fetch"
  /\ \E read \in Readings[EventOf[j]] : ident' = [ident EXCEPT ![j] = Enrich(@, read)]
  /\ pc' = [pc EXCEPT ![j] = "reserve"]
  /\ UNCHANGED <<tables, received, world, tries, verdict, found, raised>>

FetchRefused(j) ==
  /\ pc[j] = "fetch"
  /\ pc' = [pc EXCEPT ![j] = "fetch_failed"]
  /\ UNCHANGED <<tables, received, world, local>>

\* Fault: ON CONFLICT DO UPDATE.
LogFetchFailedOver(j) ==
  /\ pc[j] = "fetch_failed"
  /\ SlotFree(EventOf[j])
  /\ logs' = [logs EXCEPT ![EventOf[j]] = [status |-> "failed", lead |-> None]]
  /\ Finish(j)
  /\ UNCHANGED <<leads, touchpoints, received, world>>

\* log_failed_intake_event, then the job returns normally.
LogFetchFailed(j) ==
  LET e == EventOf[j] IN
  /\ pc[j] = "fetch_failed"
  /\ SlotFree(e)
  /\ logs' = [logs EXCEPT ![e] =
       IF @ = NoRow THEN [status |-> "failed", lead |-> None] ELSE @]
  /\ Finish(j)
  /\ UNCHANGED <<leads, touchpoints, received, world>>

-----------------------------------------------------------------------------
(* run_capture and create_terminal_lead.                                   *)

\* Faults: SELECT then INSERT instead of ON CONFLICT; dedup (and its
\* touchpoint) before the redelivery guard; LeadReceived for a redelivery.
ReserveUnguarded(j) ==
  /\ pc[j] = "reserve"
  /\ logs[EventOf[j]] = NoRow
  /\ pc' = [pc EXCEPT ![j] =
              IF verdict[j] = "capture" THEN "dedup_phone" ELSE "insert"]
  /\ UNCHANGED <<tables, received, world, local>>
RedeliveredTouches(j) ==
  LET e == EventOf[j] IN
  /\ pc[j] = "reserve"
  /\ SlotFree(e) /\ logs[e] # NoRow /\ logs[e].lead # None
  /\ touchpoints' = touchpoints \cup
       {[id |-> Attempt(j), lead |-> logs[e].lead, event |-> e]}
  /\ Finish(j)
  /\ UNCHANGED <<leads, logs, received, world>>
RedeliveredAnnounces(j) ==
  LET e == EventOf[j] IN
  /\ pc[j] = "reserve"
  /\ SlotFree(e) /\ logs[e] # NoRow /\ logs[e].lead # None
  /\ received' = received \cup {[by |-> Attempt(j), lead |-> logs[e].lead]}
  /\ Finish(j)
  /\ UNCHANGED <<tables, world>>

\* reserve_event_slot inserts the pending row.
ReserveSlot(j) ==
  LET e == EventOf[j] IN
  /\ pc[j] = "reserve"
  /\ SlotFree(e) /\ logs[e] = NoRow
  /\ pc' = [pc EXCEPT ![j] =
              IF verdict[j] = "capture" THEN "dedup_phone" ELSE "insert"]
  /\ UNCHANGED <<tables, received, world, local>>

\* reserve_event_slot returns None and the slot leads to a lead: a no-op.
Redelivered(j) ==
  LET e == EventOf[j] IN
  /\ pc[j] = "reserve"
  /\ SlotFree(e) /\ logs[e] # NoRow
  /\ logs[e].lead # None
  /\ Finish(j)
  /\ UNCHANGED <<tables, received, world>>

\* reserve_event_slot returns None but no lead is linked: assert fails.
RedeliveredUnlinked(j) ==
  LET e == EventOf[j] IN
  /\ pc[j] = "reserve"
  /\ SlotFree(e) /\ logs[e] # NoRow
  /\ logs[e].lead = None
  /\ Raise(j, "assertion")

\* Fault: the queries run although the event lacks the column.
MatchesNull(j, query) ==
  LET who == ident[j] IN
  {a \in Attempts : leads[a] # NoRow /\
     CASE query = "dedup_phone" -> leads[a].phone = Stored(who.phone)
       [] query = "dedup_email" -> leads[a].email = who.email
       [] query = "dedup_name"  -> leads[a].name = who.name /\ leads[a].place = who.place}

\* The committed leads that one query of find_duplicate selects.
Matches(j, query) ==
  LET who == ident[j] IN
  {a \in Attempts : leads[a] # NoRow /\
     CASE query = "dedup_phone" -> /\ who.phone # None
                                   /\ leads[a].phone = Stored(who.phone)
       [] query = "dedup_email" -> who.email # None /\ leads[a].email = who.email
       [] query = "dedup_name"  -> /\ who.name # None /\ who.place # None
                                   /\ leads[a].name = who.name
                                   /\ leads[a].place = who.place}

NextQuery == [dedup_phone |-> "dedup_email", dedup_email |-> "dedup_name",
              dedup_name |-> "insert"]

\* One query of find_duplicate, scalar_one_or_none: none, one, or too many.
QueryMisses(j) ==
  /\ pc[j] \in Dedup
  /\ Matches(j, pc[j]) = {}
  /\ pc' = [pc EXCEPT ![j] = NextQuery[@]]
  /\ UNCHANGED <<tables, received, world, local>>

QueryHits(j) ==
  /\ pc[j] \in Dedup
  /\ \E a \in Attempts : /\ Matches(j, pc[j]) = {a}
                         /\ found' = [found EXCEPT ![j] = a]
  /\ pc' = [pc EXCEPT ![j] = "attach"]
  /\ UNCHANGED <<tables, received, world, tries, ident, verdict, raised>>

QueryAmbiguous(j) ==
  /\ pc[j] \in Dedup
  /\ \E a, b \in Matches(j, pc[j]) : a # b
  /\ Raise(j, "multiple")

\* Fault: the log row is linked to a lead that is never written.
CommitDuplicateMislinked(j) ==
  /\ pc[j] = "attach"
  /\ touchpoints' = touchpoints \cup
       {[id |-> Attempt(j), lead |-> found[j], event |-> EventOf[j]]}
  /\ logs' = [logs EXCEPT ![EventOf[j]] =
                [status |-> "duplicate", lead |-> Attempt(j)]]
  /\ Finish(j)
  /\ UNCHANGED <<leads, received, world>>

\* A duplicate: touchpoint, finalise_event_log and commit.
CommitDuplicate(j) ==
  /\ pc[j] = "attach"
  /\ touchpoints' = touchpoints \cup
       {[id |-> Attempt(j), lead |-> found[j], event |-> EventOf[j]]}
  /\ logs' = [logs EXCEPT ![EventOf[j]] =
                [status |-> "duplicate", lead |-> found[j]]]
  /\ Finish(j)
  /\ UNCHANGED <<leads, received, world>>

\* Faults: no unique index on leads; the unique violation is retried in place.
FlushUnindexed(j) ==
  /\ pc[j] = "insert"
  /\ pc' = [pc EXCEPT ![j] = "finalise"]
  /\ UNCHANGED <<tables, received, world, local>>
FlushRetriedInPlace(j) ==
  /\ pc[j] = "insert"
  /\ CommittedClash(NewLead(j))
  /\ raised' = [raised EXCEPT ![j] = "unique"]
  /\ UNCHANGED <<tables, received, world, pc, tries, ident, verdict, found>>

\* session.flush() of the new Lead: waits while PendingClash.
FlushLead(j) ==
  /\ pc[j] = "insert"
  /\ ~CommittedClash(NewLead(j)) /\ ~PendingClash(j, NewLead(j))
  /\ pc' = [pc EXCEPT ![j] = "finalise"]
  /\ UNCHANGED <<tables, received, world, local>>

FlushRefused(j) ==
  /\ pc[j] = "insert"
  /\ CommittedClash(NewLead(j))
  /\ Raise(j, "unique")

LogStatus(j) == IF verdict[j] = "capture" THEN "received" ELSE verdict[j]

\* First touchpoint (run_capture only), finalise_event_log and commit.
CommitLead(j) ==
  /\ pc[j] = "finalise"
  /\ leads' = [leads EXCEPT ![Attempt(j)] = NewLead(j)]
  /\ logs' = [logs EXCEPT ![EventOf[j]] =
                [status |-> LogStatus(j), lead |-> Attempt(j)]]
  /\ touchpoints' =
       IF verdict[j] = "capture"
       THEN touchpoints \cup
              {[id |-> Attempt(j), lead |-> Attempt(j), event |-> EventOf[j]]}
       ELSE touchpoints
  /\ pc' = [pc EXCEPT ![j] = "committed"]
  /\ UNCHANGED <<received, world, local>>

\* The pipeline returns: (lead, LeadReceived) for a capture, else (lead, None).
ReturnLead(j) ==
  /\ pc[j] = "committed"
  /\ received' = IF verdict[j] = "capture"
                 THEN received \cup {[by |-> Attempt(j), lead |-> Attempt(j)]}
                 ELSE received
  /\ Finish(j)
  /\ UNCHANGED <<tables, world>>

-----------------------------------------------------------------------------
Filter(j) == FilterStage1(j) \/ FilterStage2(j)

\* A step of the worker running job j.
WorkerStep(j) ==
  \/ StartAttempt(j) \/ IgnoreStatus(j) \/ Filter(j) \/ CheckPreFlight(j)
  \/ FetchFields(j) \/ FetchRefused(j) \/ LogFetchFailed(j)
  \/ ReserveSlot(j) \/ Redelivered(j) \/ RedeliveredUnlinked(j)
  \/ QueryMisses(j) \/ QueryHits(j) \/ QueryAmbiguous(j)
  \/ CommitDuplicate(j) \/ FlushLead(j) \/ FlushRefused(j)
  \/ CommitLead(j) \/ ReturnLead(j)

Next ==
  \/ ChannelChanges \/ TenantActivates
  \/ \E j \in Jobs : \/ EnqueueDelivery(j) \/ LogUnroutable(j) \/ DropUnroutable(j)
                     \/ WorkerStep(j) \/ Abort(j)

Spec == Init /\ [][Next]_vars

\* Workers keep taking steps; nothing is assumed of Meta, tenants or failures.
FairSpec == Spec /\ \A j \in Jobs : WF_vars(WorkerStep(j))

-----------------------------------------------------------------------------
(* Every row is well formed and every job is somewhere in the pipeline.    *)
Types ==
  /\ leads \in [Attempts -> Lead \cup {NoRow}]
  /\ logs \in [Events -> IntakeEventLog \cup {NoRow}]
  /\ touchpoints \subseteq LeadTouchpoint
  /\ received \subseteq [by : Attempts, lead : Attempts]
  /\ connected \in BOOLEAN /\ tenantReady \in BOOLEAN
  /\ pc \in [Jobs -> Running \cup Resting]
  /\ tries \in [Jobs -> 0..MaxTries]
  /\ ident \in [Jobs -> Identity]
  /\ verdict \in [Jobs -> Terminal \cup {"capture"}]
  /\ found \in [Jobs -> Attempts \cup {None}]
  /\ raised \in [Jobs -> {"nothing", "failure", "assertion", "multiple", "unique"}]

\* At most one open transaction works on an event, and none on an event whose
\* outcome is committed: reserve_event_slot's ON CONFLICT (platform_event_id).
SlotIsExclusive ==
  /\ \A j, k \in Jobs : /\ pc[j] \in Holding /\ pc[k] \in Holding
                        /\ EventOf[j] = EventOf[k]
                        => j = k
  /\ \A j \in Jobs : pc[j] \in Holding => logs[EventOf[j]] = NoRow

\* A recorded event has exactly the effect its status says: a received or
\* duplicate event has one touchpoint, on the lead its log row names; any other
\* event has none.  That lead exists, in the stage the status calls for, and
\* each lead was opened by one event.  (run_capture, create_terminal_lead)
TouchesOf(e) == {t \in touchpoints : t.event = e}
TouchesMatchLog ==
  \A e \in Events :
    IF logs[e] # NoRow /\ logs[e].status \in {"received", "duplicate"}
    THEN \E t \in touchpoints : TouchesOf(e) = {t} /\ t.lead = logs[e].lead
    ELSE TouchesOf(e) = {}
LinkedLeadExists ==
  \A e \in Events : logs[e] # NoRow =>
    IF logs[e].status \in Unlinked THEN logs[e].lead = None
    ELSE /\ logs[e].lead \in Attempts /\ leads[logs[e].lead] # NoRow
         /\ logs[e].status = "received" => leads[logs[e].lead].stage = "captured"
         /\ logs[e].status \in Terminal => leads[logs[e].lead].stage = logs[e].status
OpenersOf(a) == {e \in Events : /\ logs[e] # NoRow /\ logs[e].lead = a
                                /\ logs[e].status # "duplicate"}
LeadOpenedOnce ==
  \A a \in Attempts : leads[a] # NoRow => \E e \in Events : OpenersOf(a) = {e}
OutcomesAgree == TouchesMatchLog /\ LinkedLeadExists /\ LeadOpenedOnce

\* No two leads of the tenant, committed or about to be, share a phone or an
\* e-mail address, although find_duplicate reads before the INSERT.
ContactKeysUnique ==
  /\ \A a, b \in Attempts : a # b /\ leads[a] # NoRow /\ leads[b] # NoRow
       => ~Collide(leads[a], leads[b])
  /\ \A j \in Jobs : pc[j] = "finalise" =>
       /\ ~CommittedClash(NewLead(j))
       /\ ~PendingClash(j, NewLead(j))

\* LeadReceived is returned at most once for a lead, over all redeliveries and
\* retries, and only for a captured lead opened by a received event.
ReceivedOncePerLead ==
  /\ \A x, y \in received : x.lead = y.lead => x = y
  /\ \A x \in received : \E e \in Events :
       logs[e] = [status |-> "received", lead |-> x.lead]

\* A job that returns normally, or a webhook answered 200 for want of a
\* connection, has left a row in intake_event_logs for an event with an id.
EndedIsRecorded ==
  \A j \in Jobs : pc[j] = "ended" /\ EventOf[j] \in Identified
    => logs[EventOf[j]] # NoRow

\* Every stored phone is its own key: a lead is found again, by the same number in
\* another format too (deduplicator.py, header; get_lead_by_phone).
PhonesAreKeys ==
  \A a \in Attempts : leads[a] # NoRow /\ leads[a].phone # None
    => leads[a].phone = NormalisePhone(leads[a].phone)

\* An event marked duplicate hangs on a lead that shares its phone, its e-mail
\* or its name and place: find_duplicate never matches on an absent column.
SharesKey(who, lead) ==
  \/ who.phone # None /\ Stored(who.phone) = lead.phone
  \/ who.email # None /\ who.email = lead.email
  \/ /\ who.name # None /\ who.name = lead.name
     /\ who.place # None /\ who.place = lead.place
DuplicateSharesKey ==
  \A e \in Events : logs[e] # NoRow /\ logs[e].status = "duplicate" =>
    \E read \in Readings[e] \cup {Nobody} :
      SharesKey(Enrich(Sent[e], read), leads[logs[e].lead])

\* A redelivery is a true no-op: a job whose event is already recorded changes
\* no table, and the recorded row stays as it is (pipeline.py, header).
RedeliveryIsNoOp ==
  [][\A j \in Jobs : pc'[j] # pc[j] /\ logs[EventOf[j]] # NoRow
       => UNCHANGED tables]_vars

\* The outcome of each event, as the contract sees it.
Outcome(e) ==
  CASE logs[e] = NoRow -> "open"
    [] logs[e] # NoRow /\ logs[e].status \in Terminal -> "terminal"
    [] logs[e] # NoRow /\ logs[e].status \in Unlinked -> "unlinked"
    [] OTHER -> logs[e].status
Settled(e) == IF logs[e] = NoRow THEN None ELSE logs[e].lead
History(a) == {t.event : t \in {t \in touchpoints : t.lead = a}}
Announced == {x.lead : x \in received}

Contract == INSTANCE IntakeContract WITH
  Contacts <- Attempts,
  outcome <- [e \in Events |-> Outcome(e)],
  contactOf <- [e \in Events |-> Settled(e)],
  history <- [a \in Attempts |-> History(a)],
  announced <- Announced

\* Lead intake keeps the contract of IntakeContract.
KeepsContract == Contract!Spec

\* No job waits for ever: not on a slot, not on a unique index entry another
\* transaction holds, not in a loop of retries.
EveryJobEnds == \A j \in Jobs : pc[j] = "queued" ~> pc[j] \in {"ended", "dead"}

-----------------------------------------------------------------------------
(* What comments of the code say, and its behaviour contradicts.           *)

\* assert existing_lead is not None: a recorded event has a lead.
AssertionHolds == \A j \in Jobs : raised[j] # "assertion"

\* Every path claims a slot, the terminal filter branches too: an event whose
\* terminal lead the database refuses is not lost without a row.
TerminalIsLogged ==
  \A j \in Jobs : pc[j] = "dead" /\ raised[j] = "unique" /\ verdict[j] \in Terminal
    => logs[EventOf[j]] # NoRow

=============================================================================
