# Verification of the Lead Intelligence Engine

TLA+ models of the lead intake back end in `src/`, the TLC configurations that check them on small
instances, and TLAPS proofs of their main properties for every value of the constants.

Everything here is translated from the code. Comments and documents of the repository are used only
as statements to check the code against; where the code disagrees with one, a run shows it (section 6).

How to run, in this directory:

    tlc -workers 2 -config MCContact.cfg MCLeadCapture     # any row of the table in section 5
    tlapm LeadCaptureProofs.tla                            # any *Proofs module

## 1. The system

FastAPI processes answer webhooks, uploads, OAuth callbacks and onboarding requests; arq workers run
jobs from Redis and one cron job a day; both share one PostgreSQL database at READ COMMITTED through
SQLAlchemy async sessions made with `expire_on_commit=False` (`core/db.py:31`, `workers/worker.py:22`).
Every hard behaviour comes from there: many processes, no lock but the unique indexes and the row
locks of UPDATE, a commit at the end of each pipeline, and a platform (Meta) that delivers an event
again whenever it likes.

| Component | State it keeps | Operations | What makes it correct |
|---|---|---|---|
| Webhook intake (`api/lead_ingestion.py`) | none; reads `channel_connections`, writes `intake_event_logs` for events it cannot route | the three webhook handlers: find the connection, queue a job or `log_unroutable_event`; 503/500 makes Meta send the event again | an answered event is queued or recorded; an event has one addressee |
| Lead capture pipeline (`pipeline.py`, `intake_logger.py`, `deduplicator.py`) | `leads`, `intake_event_logs`, `lead_touchpoints` | `run_capture_message`, `run_capture`, `create_terminal_lead`, `find_duplicate`, `reserve_event_slot`, `finalise_event_log` | one outcome per event however often it is delivered, one lead per contact, touchpoints that tell the same story as the log |
| Capture jobs (`workers/jobs/lead_ingestion.py`) | arq's queue and tries | `run_lead_capture`, `run_lead_ad_capture` | a job that ends leaves a record; every job ends |
| Two-stage filter, pre-flight | none (reads `tenant_configs`) | `run_filter`, `check_pre_flight` | verdicts decide between capture and a terminal lead |
| Normaliser | none | one function per payload shape, `normalise_phone` | the identity used for deduplication is the one the event carries |
| Erasure (`erasure.py`) | rewrites the three tables, `erasure_event_logs` | `erase_lead_by_identity` | no payload of the contact is left, the audit row is atomic with the erasure |
| Retention sweep (`retention.py`) | same tables, `retention_event_logs` | `run_retention_sweep` | purged leads stay purged, audited |
| Tenant onboarding (`api/onboarding.py`, `tenant_onboarding/pipeline.py`) | `tenants`, arq's queue | `onboard`, `run_pipeline` | an ACTIVE tenant can capture leads |
| Tenants, config registry (`shared/`) | `tenants`, `tenant_configs` | `create_tenant`, `activate_tenant`, `set_onboarding_status`, `create_active` | versions 1, 2, ..., one of them ACTIVE |
| Users (`auth/service.py`) | `users.tenant_id`, the tenant claim at Auth0 | `get_or_create_user`, `set_user_tenant` | a user is linked to the tenant it created |
| Channel connections (`oauth/*.py`) | `channel_connections`; subscriptions at Meta | the three OAuth callbacks | a callback connects all or nothing; every connected account is routable |
| Instagram token refresh (`instagram_token_refresh.py`) | `channel_connections.expires_at`, `status` | `refresh_instagram_tokens`, daily | no token lapses that could have been refreshed |
| File intake (`file_upload_handler.py`, `run_lead_capture_batch`) | the same tables as the pipeline | synchronous and batch uploads | rows captured once, none lost silently |
| Data policy (`data_policy.py`) | none | `strip_sensitive_fields`, Luhn check | sensitive values never stored |
| Token verification (`auth/token.py`) | a cache of signing keys | verify, refetch on an unknown key | a rotated key is picked up, the cache is not hammered |
| Onboarding agents, external clients, encryption, application shell, scripts, empty packages | configuration, connections | HTTP calls, AES-GCM, start-up | - |

**Interactions.** A webhook reads `channel_connections` (written by callbacks, taken out of service by
the refresh job) and queues a capture job. The job reads the tenant's config (written by onboarding)
and writes the three intake tables. Erasure requests and the sweep rewrite the same three tables while
captures are in flight. Onboarding's endpoint commits the tenant, the user's link and the job one after
the other, in two databases and a queue.

**Hard behaviours.** Redelivery while the first delivery is still open; check-then-insert in
`find_duplicate`; crashes and arq retries between any two statements; stale objects in the session's
identity map; row locks taken by several purges; three commits of one pipeline that may be cut apart;
a daily job that works on rows it selected earlier; calls to Meta that succeed before a local rollback.
`PROJECT.json` lists each of them under `hazards`, at the line where it bites, with the property that
would catch it going wrong, or a note saying why none does.

## 2. Modules

| Module | Models | Proofs |
|---|---|---|
| `IntakeContract` | abstract: what becomes of an event, for good | `IntakeContractProofs` |
| `LeadCapture` | webhook routing, the queue, both capture jobs, the pipeline and its tables, statement by statement; refines `IntakeContract` | `LeadCaptureProofs`, `LeadContractProofs` |
| `Characters` | texts as sequences of characters, `re.sub` with a character class | `CharacterProofs` |
| `PhoneFormat` | `normalise_phone`, character by character | `CharacterProofs` |
| `FileIntake` | uploaded files, answered at once or by a batch job, row by row over `IntakeContract` | `FileIntakeProofs` |
| `DataPolicy` | which cells of a row are regulated identifiers: patterns, word boundaries, Luhn check | `CharacterProofs` |
| `LeadPrivacy` | erasure and retention sweep against captures in flight | `LeadPrivacyProofs` |
| `ServiceContract` | abstract: the config versions a tenant's leads are captured with, and its opening | `OnboardingProofs` |
| `Onboarding` | POST /onboarding, the onboarding job, tenants, config registry, the user's link; refines `ServiceContract` | `OnboardingProofs` |
| `ChannelConnections` | OAuth callbacks, lookup by webhooks, daily token refresh | `ChannelProofs` |
| `MCLeadCapture`, `MCFileIntake`, `MCLeadPrivacy`, `MCOnboarding`, `MCChannels` | instances for TLC | |

Operators whose comment begins with *Fault* are not part of any specification: each is a form of the
definition after it with a plausible bug, used to see that a property can fail (section 5).

How the modules join. `LeadCapture` lets `connected` change at any time and `tenantReady` become true
once. Both are justified by the other models: `ChannelConnections` has the rows that `connected`
stands for and the answer of the webhook for every state of them (`Answer`), and
`ServiceContract`, which `Onboarding` implements, is why `tenantReady` never becomes false: a version in
force is only ever followed by the next. `LeadPrivacy` repeats the
capture pipeline in four steps only (slot, dedup, flush, commit), which is what `LeadCapture` shows a
transaction holds between them, because its own question is what the purges do in between.
`FileIntake` does not repeat the pipeline at all: one row is one step of `IntakeContract`, which
`LeadContractProofs` proves of the pipeline, and the events of the other channels take steps of the same
contract on the same tables. Its `ready` is `tenantReady` of `LeadCapture`.

### LeadCapture

| State | Code |
|---|---|
| `leads`, `logs`, `touchpoints` | committed rows; a lead or touchpoint is named by the attempt whose `uuid4` it is, a log row by its `platform_event_id` |
| `pc[j]` | the statement a job is at. What its open transaction holds is a function of it: the slot from `ReserveSlot` to the commit (`Holding`), the flushed lead at `finalise` |
| `PhoneKey` | what `normalise_phone` makes of a number: `leads.phone` and the dedup query hold it, `ident` the number as written |
| `ident`, `verdict`, `found`, `raised` | local variables of the running attempt |
| `tries` | arq's attempts |
| `connected`, `tenantReady`, `received` | a matching active connection; an ACTIVE config; the `LeadReceived` values handed back |

| Actions | Code |
|---|---|
| `EnqueueDelivery`, `LogUnroutable`, `DropUnroutable` | webhook handlers, `repository.log_unroutable_event`; an event without an id of its own is acknowledged and leaves nothing |
| `StartAttempt`, `IgnoreStatus` | `run_lead_capture`, up to the early return for a WhatsApp webhook without messages |
| `FilterStage1`, `FilterStage2` with `Calibrate`, `FilterTerminal`, `FilterLead` | `run_filter`: the word lists, then the model's class and its confidence, then the branch taken by `run_capture_message` |
| `CheckPreFlight` | `check_pre_flight` on the capture branch |
| `FetchFields`, `FetchRefused`, `LogFetchFailed` | `run_lead_ad_capture` |
| `ReserveSlot`, `Redelivered`, `RedeliveredUnlinked` | the three results of `reserve_event_slot` (INSERT ... ON CONFLICT DO NOTHING) |
| `QueryMisses`, `QueryHits`, `QueryAmbiguous` | each `scalar_one_or_none` of `find_duplicate` |
| `CommitDuplicate` | touchpoint, log row and commit of the duplicate branch |
| `FlushLead`, `FlushRefused`, `CommitLead`, `ReturnLead` | the capture and terminal branches |
| `Raise`, `Abort` | an exception leaves the session, at any statement |

PostgreSQL is modelled by what its unique indexes do: a job that inserts a slot another open
transaction holds waits (`SlotFree`) and then sees what that transaction did; an INSERT into `leads`
waits for a flushed row with the same phone or e-mail (`PendingClash`) and is refused by a committed
one (`CommittedClash`). A READ COMMITTED query sees the tables as they are when it runs.

A webhook answered 503 or 500 changes nothing, and Meta sends the event again: it is no step of the
model. That includes the answer to an account with two active connections. The early return of
`run_lead_ad_capture` for a connection that is gone is unreachable: no code deletes a connection or
clears its credentials. arq repeats a job after `Retry` or a cancellation and gives others up, while
the comment at `worker.py:36` has one retry on any failure: `Raise` allows both, so that what is shown
holds under either reading.

An event's kind is *message*, *leadgen*, *postback* (of Messenger or Instagram, without `mid`: its
`platform_event_id` is its sender's, so two of them are two deliveries of one event, and it has no text, so
stage 1 calls it noise) or *status* (of WhatsApp: no message in it).

### FileIntake and DataPolicy

| State | Code |
|---|---|
| `outcome`, `contactOf`, `history`, `announced` | the tables as `IntakeContract` has them; a row is its event, because `platform_event_id` is a hash of its content |
| `blocked`, `extra` | leads of rows without identity, named by upload, attempt and place; `leads.extra_fields` |
| `pc`, `at`, `tries`, `skipped` | where an upload or its job is, the row its loop is at, arq's attempts, rows logged `batch_row_failed` |
| `answer` | the `lead_ids` of the response |

| Actions | Code |
|---|---|
| `RefuseFile`, `HaltUpload`, `AcceptUpload`, `EnqueueBatch`, `EnqueueFails` | `handle_file_upload` up to the row loop: suffix, size and row count, pre-flight, the threshold of the synchronous path |
| `BlockRow` | `_write_blocked_lead` and its copy in the job |
| `CaptureRow`, `AttachRow`, `RedeliverRow` | `run_capture` of a row, as `IntakeContract!Capture`, `!Attach` or no change |
| `FailRequest`, `AnswerRequest` | the two ends of a request |
| `StartBatch`, `SkipRow`, `FinishBatch`, `InterruptBatch` | `run_lead_capture_batch`: attempts, the except clause around a row, cancellation |
| `TenantActivates`, `OtherIntake`, `ReturnReceived` | onboarding and the other channels |

A file is its sequence of rows: its suffix, size and parsing are one refusal (`Readable`). A CSV row longer
than the header line (`Ragged`) has a header `None` whose `strip()` raises, in the request and in the job.
`DataPolicy` works on cells as sequences of ASCII characters, one for each kind that the five regular
expressions tell apart: the digits, a letter in both cases, the underscore (a word character that no pattern
has, so `\b` is not at it), space and hyphen (separators of every pattern), a tab (white space: of the
Aadhaar pattern only) and a full stop (none of these). Digits and letters beyond ASCII, which `\d` and `\b` of
Python also know, are left out. `CardShaped` and `HasCard` follow `re.finditer`: leftmost, greedy, without
overlap. `Kept` is where the two paths part: the request strips regulated cells and the job does not.

Since every settled row is a step of `IntakeContract`, the contract's promises hold in `FileIntake` by
construction and are no result about the upload code; what is checked is what the two loops make of those
steps: the answer, the rows a cut job has dealt with, what is stored of a row, and that uploads end.

### LeadPrivacy

`FindDuplicate`, `CommitDuplicate`, `FlushLead`, `CommitLead`, `CaptureFails` are captures;
`FindLeads`, `PurgeLead`, `EraseLogs`, `FlushLogs`, `CommitErasure` are `erase_lead_by_identity`; `FindDue`,
`PurgeLead`, `SweepLogs`, `FlushLogs`, `CommitSweep`, `SweepAgain` are `run_retention_sweep`; `PurgeFails` is a
rollback anywhere. The ORM reads a lead once, writes it by primary key later, and the query after the
write flushes it: `PurgeLead` is that UPDATE, which waits for the row lock (`held`) of another purge and then
sees the touchpoints committed meanwhile. Touchpoints are only updated by whoever has their lead, so their
locks add no wait. Log rows are updated by an erasure through their lead and by the sweep through their age:
`session.commit()` flushes them (`FlushLogs`), which waits for the log rows another purge has (`LogLocks`). The
ORM writes them in the order of their primary keys, so two flushes cannot cross and one step stands for all. A
sweep that selected a lead before an erasure committed therefore relabels the erased lead
`anonymised`; this is in the model. Contacts are known by phone; the e-mail branches of the code are
the same with another column. No worker registers the sweep (`worker.py:43`); it is modelled as
`docs/compliance.md:201-205` schedules it.

### Onboarding

A tenant is named by the POST that creates it. `Begin`, `CreateTenant`, `SetUserTenant`, `Enqueue`,
`UpdateMetadata` are the commits and calls of `onboard`; `StartAttempt`, `StartFails` (the write of RUNNING, which
stands before the `try`: if it raises, nothing marks the tenant), `RunAgents`, `CreateActive`,
`ActivateTenant`, `Complete`, `PipelineRaises`, `MarkFailed` those of `run_pipeline`, `FinishJob` arq's
striking the job off: cut between the two, a COMPLETE tenant is run again. `seen` is the
tenant's status in the session's identity map, which `activate_tenant` tests: a second attempt after
the activation raises there and marks the tenant FAILED. `DiesUnmarked` is the except clause that raises
itself, after a failed flush (PendingRollbackError) or with the database away; `Cancelled` is a worker
that stops: `CancelledError` is no `Exception`, nothing is marked, and arq runs the job again. One
attempt of a job runs at a time (arq's in-progress key). `Login` is any request of the user:
`get_or_create_user` copies the tenant claim of the token over the stored link.

### ChannelConnections

A row is named by its callback and its account. `Plan` is what the user granted: the accounts a
callback subscribes, one call after the other (`ConnectPage`, `ConnectLinked`/`SkipLinked`,
`ConnectInstagram`, `ConnectWaba`); `Commit` is the one commit at the end; `FlowFails` rolls back what
is local and leaves what Meta subscribed. `StartSweep` selects the rows, `LeaveFresh`, `MarkLapsed`,
`MarkUnreadable`, `Refresh` are the branches for one row (each but the first commits), `RefreshRefused`
the unguarded call, `InterruptSweep` a crash. Time is counted in days: `Life` and `Window` stand for
60 and 7; a callback's commit is on the day of its last call; a run of the job ends on the day it
starts; a day may pass without a run. `decrypt_credentials` failing is a choice.

## 3. The abstract specifications

`IntakeContract` is what the rest of the system may rely on, without tables, transactions or queues:
each event is settled once and for good as *received* (it opened a contact), *duplicate* (it was added
to one), *terminal* (it opened a contact that is not pursued) or *unlinked*; a contact is announced at
most once, and only if an event was received for it. `LeadCapture!KeepsContract` is the refinement, with
the mapping written out in the module: outcome and contact of an event from its log row, the history of
a contact from its touchpoints, announcements from the returned `LeadReceived` values. TLC checks it in
run `contact` and `LeadContractProofs!Refinement` proves it. `IntakeContractProofs!HistorySafety` proves what
follows for every system that keeps the contract. `FileIntake` does not refine the contract but is built on it.

`ServiceContract` is what onboarding owes a tenant and lead capture relies on: one config version is in force,
versions follow each other one at a time and none is withdrawn, and the tenant is opened once, after it has
one. Attempts, crashes, FAILED marks and the archived rows are not in it. `Onboarding!KeepsService` is the
refinement; run `onboarding` checks it and `OnboardingProofs!ServiceRefinement` proves it.

## 4. Fairness

* `LeadCapture!FairSpec` and `Onboarding!FairSpec`: weak fairness of the steps of a running job, because
  arq workers keep polling and a coroutine whose awaits return goes on. Failures, deliveries, requests,
  and everything of Meta or of tenants need not happen.
* `FileIntake!FairSpec`: weak fairness of the steps of an upload that is under way (`UploadStep`), which
  include the failure of a row; clients, interruptions, activation and the other channels need not happen.
* `LeadPrivacy!FairSpec`: weak fairness of requests and sweep, and strong fairness of the UPDATEs that
  take row locks (`PurgeLead`, `FlushLogs`): PostgreSQL queues the waiters of a row, so a purge cannot be
  overtaken for ever by others. Captures and failures need not happen.
* `ChannelConnections` has no fairness: days may pass without a run, and its properties are about runs
  that did take place.

`CHECK_DEADLOCK FALSE` in every configuration: when all jobs have ended and all requests are answered
the system rests. A job that waits for ever is a violation of the liveness properties, not a deadlock of
the whole system.

## 5. Runs

| Run | Module, configuration | Instance | Checks |
|---|---|---|---|
| `contact` | MCLeadCapture, MCContact | a WhatsApp message delivered twice and a Lead Ads form with the same number in another format, two attempts a job | `Types`, `SlotIsExclusive`, `OutcomesAgree`, `ContactKeysUnique`, `ReceivedOncePerLead`, `EndedIsRecorded`, `PhonesAreKeys`, `RedeliveryIsNoOp`, `KeepsContract` |
| `names` | MCLeadCapture, MCNames | three forms of one name and town, one with letters for a phone, one with an e-mail address, the third with a dash for a phone and that address or with nothing; a WhatsApp status webhook; one attempt | `DuplicateSharesKey`, `EveryJobEnds` |
| `upload` | MCFileIntake, MCUpload | a file of two rows, one of the first of them alone, one of three with the same two and a ragged one, one of four rows; thresholds 2 and 3, two attempts; one message of another channel | `Types`, `AnswerCoversFile`, `BatchAccounted`, `RefusedWritesNothing`, `SlipsAreKept`, `ReuploadAgrees`, `EveryUploadEnds` |
| `purge` | MCLeadPrivacy, MCPurge | two old leads, two captures, two erasure requests, the sweep | `OnePhonePerLead`, `PurgesAudited`, `ErasureReachesHistory`, `PurgedStaysPurged`, `PurgesEnd` |
| `onboarding` | MCOnboarding | two requests of one user, two attempts a job | `Types`, `ActiveHasConfig`, `VersionsInOrder`, `KeepsService`, `UserStaysLinked`, `EveryJobEnds` |
| `channels` | MCChannels | a Facebook page with its Instagram account, the Instagram login of that account, a WhatsApp signup; six days of two overlapping token windows | `Types`, `FlowIsAtomic`, `KeptFresh`, `ConnectedIsRoutable`, `RowsLiveForward` |
| `assertion`, `noise` | MCLeadCapture | see section 6 | violations |
| `stripped` | MCFileIntake | see section 6 | violation |
| `in_flight` | MCLeadPrivacy | see section 6 | violation |
| `reconnect`, `starved` | MCChannels | see section 6 | violations |

What the passing runs show:

* `contact`: a redelivery meets the first delivery before, during and after its transaction, with a crash
  at any statement and a retry; a second event of the contact meets both. Two deliveries are what it takes
  for a slot to be contended; the third job holds the phone that its holder then wants.
  The two deliveries are interchangeable (symmetry), and the run has no liveness property.
* `names`: the third dedup key is the one without an index. The run reaches two leads with the same name
  and town, the ambiguous query that follows, contacts merged on the empty phone (section 6), and
  transactions that wait for the index entry of a flushed lead, which in turn may be committed or rolled
  back. It shows that every job still ends and that no match is on an absent column. Each event is delivered
  once: who holds a slot waits for index entries only, and who holds an index entry waits, if at all, for
  the next index, in one order for all, so waits for a slot add nothing to the liveness question.
* `upload`: the threshold and the row limit are both crossed; a row is first met by the request, by the
  job, by another upload of it or by another channel's contact; the job is cut after any row and starts over.
  Two uploads of one row, either of which may have answered 500 before, are answered with one lead
  (`ReuploadAgrees`). The cells are a card number of the least length, a number one digit longer that is none, a
  branch code in mixed case, identity numbers with a tab, behind a full stop and before an underscore, beside a
  harmless remark. `SlipsAreKept` tries every change of one digit of each cell of 13 to 19 digits that is a card
  number: none may be held back for it.
* `purge`: a capture between any two statements of two erasures and a sweep that lock the same rows in
  different orders. Two requests and a sweep are the smallest group in which a lock passes on while a
  third waits. The run reaches waits for log rows too: a request whose lead another one has erased meets the
  sweep, which passes the lead over and takes its old log row. `ErasureReachesHistory` requires the rows that a
  capture commits between the erasure's reading of the lead and its having the row.
* `onboarding`: both POSTs pass the check before either links the user; each job is cut at any commit and
  run again, so that a second version replaces the first. `KeepsService` is the refinement of
  `ServiceContract`: `inForce` is the number of the ACTIVE version (0 without one), `open` the ACTIVE tenants.
  The user logs in at any time with any claim his tokens can have, or none: `UserStaysLinked` says that this
  never unlinks him and only ever links him to a tenant he created, and which exists.
* `channels`: `Life = 4`, `Window = 3`, six days: long enough for a token to be refreshed, to come into
  its window again and to lapse; the boundaries (first day of the window, last day, day of expiry) are all
  reached, and days without a run.

Named bounds: `MaxTries` (2, as in `WorkerSettings`; 1 in `names`, whose question is about
interleavings), `LastDay` (6 days), `Threshold` and `MaxRows` (2 and 3, for
`_SYNC_THRESHOLD` = 100 and `_MAX_ROWS` = 5000: what counts is a file on either side of each), and the
sets of the configuration. Nothing else is bounded: a
failed capture of `LeadPrivacy` may be processed again and again, its sweep runs every day for ever.

Every property of a passing run has a *Fault* that violates it under the same configuration
(`PROJECT.json`, `mutants`), for example SELECT then INSERT in place of ON CONFLICT for
`SlotIsExclusive`, a unique violation retried in place for `EveryJobEnds`, a doubled digit that is not reduced for
`SlipsAreKept`, a job that stops at the first bad row for `BatchAccounted`, a refresh window that ends a
day early for `KeptFresh`.

## 6. What the code does not keep

Each of these is a run that TLC ends with a counterexample.

* `assertion` - `pipeline.py:48` asserts that a taken slot has a lead. `log_unroutable_event` and
  `log_failed_intake_event` take slots without one, so an event first seen before its channel was
  connected, or whose first fetch failed, dies in the assertion at every later delivery.
* `noise` - `pipeline.py:10`: every path claims a slot. The terminal branches insert without dedup: a
  second NOISE message of a known phone violates `uq_lead_tenant_phone`, and its log row goes with the
  rollback.
* `stripped` - `docs/compliance.md:88-90`: `normalise_file_row` calls `strip_sensitive_fields` after building
  `extra_fields`; `data_policy.py:38`: extra fields are stored after stripping. The function makes no such call,
  only the synchronous upload does: a batch job stores the regulated cells of every row it captures first. The
  run is about `extra_fields`. The `raw_event_json` of a row's lead, touchpoint and log entry keeps all cells on
  both paths, which `data_policy.py:37` asks for ("source-of-truth audit trail") while its line 115 says that
  removed values are never stored; the model leaves that column out.
* `in_flight` - `erasure.py:80-81`: the idempotency guard protects an erasure from captures in flight. A
  capture that has its duplicate's id writes the full payload to the erased lead afterwards.
* `reconnect` - `docs/meta-integration-implementation.md:159`: check for an active connection before
  creating one. No callback does; an account connected twice answers 500 to every webhook.
* `starved` - `instagram_token_refresh.py:72`: refresh all tokens in the window. One refused call ends the
  loop, each day, and a token that the select returns later lapses although it was never refused.

Further behaviours, which the models have, and which `hazards` notes where they matter:

* name and location, the third key of `find_duplicate`, have no unique index: two forms of one contact captured
  at once become two leads, and every later event of that contact fails with MultipleResultsFound
  (`QueryAmbiguous`, reached in run `names`). `models.py:34` calls a lead de-duplicated, but the comment at lines
  40-41 speaks of the indexes of phone and e-mail, which do what it says (`ContactKeysUnique`);
* the location of a form is joined in the order of a Python set, so one person's two forms may give two keys;
* an old token's tenant claim moves its user back to an earlier tenant of his own, although
  `auth/service.py` calls the link DB-owned; a tenant whose job was never queued, a RUNNING mark
  after the last cancelled attempt and a FAILED mark on an ACTIVE tenant stay as they are;
* a FAILED tenant has no way to retry; a lead first seen as noise absorbs the contact's later enquiries; the
  sweep is not registered with any worker;
* a phone without a digit ("n/a", "-") normalises to the empty string, which is not NULL: all contacts of a
  tenant who write such a phone are one lead (`normalise_phone`, `deduplicator.py:22`). The numbers are
  stripped, not brought to E.164: the same number with and without its country code stays two;
* Messenger and Instagram events without `mid` take their sender's id for a slot: every later one is a
  redelivery of the first. If no connection is found for them nothing is recorded at all (`DropUnroutable`);
* rows without identity are inserted again by every upload and by every attempt of a batch job, although
  `normaliser.py:79` speaks of re-uploads as duplicates;
* a card pattern is matched greedily: a card number that follows a digit group after one separator is
  tested together with it and may pass as no card.

## 7. Proofs

Each theorem holds for every set of events, jobs, contacts, users, accounts and flows and every value of
the numbers, under the `ASSUME`s of the module, which only give constants their types, keep the sentinels
`None` and `NoRow` out of the data, rows apart from messages and from the names of anonymous leads, and say
`MaxTries > 0`, `Window < Life`, and that an Instagram login grants Instagram accounts.
TLC evaluates every assumption in a passing run.

| Theorem | Statement |
|---|---|
| `LeadCaptureProofs`: `TypeCorrect`, `SlotSafety`, `OutcomeSafety`, `KeySafety`, `AnnouncementSafety`, `NothingSkipped` | `Spec => []` of `Types`, `SlotIsExclusive`, `OutcomesAgree`, `ContactKeysUnique`, `ReceivedOncePerLead`, `EndedIsRecorded` |
| `LeadContractProofs`: `RedeliverySafety`, `MatchSafety`, `PhoneKeySafety`, `Refinement`, `LeadHistories`, `JobsRunDown` | `RedeliveryIsNoOp`, `DuplicateSharesKey`, `PhonesAreKeys`; `LeadCapture` implements `IntakeContract` and so keeps faithful histories; capture jobs run down |
| `FileIntakeProofs`: `TypeCorrect`, `AnswerSafety`, `BatchSafety`, `RefusalSafety`, `SlipSafety`, `ReuploadSafety`, `UploadsRunDown` | `Types`, `AnswerCoversFile`, `BatchAccounted`, `RefusedWritesNothing`, `SlipsAreKept`, `ReuploadAgrees`; uploads run down |
| `CharacterProofs`: `NormaliseIdempotent`, `DigitsSurvive`, `LuhnDetectsSlips`, `CardIsCard`, `CardAloneIsFound`, `DigitsRegulated`, `SlipIsHarmless` | facts about the operators on texts, for texts of every length |
| `IntakeContractProofs`: `HistorySafety` | `HistoriesFaithful` of everything that keeps the contract |
| `LeadPrivacyProofs`: `PhoneSafety`, `AuditSafety`, `PurgeSafety`, `ErasureSafety`, `LockSafety`, `ErasureRunsDown` | `OnePhonePerLead`, `PurgesAudited`, `PurgedStaysPurged`, `ErasureReachesHistory`; purges never wait for each other's leads and log rows in a circle; requests run down |
| `OnboardingProofs`: `TypeCorrect`, `ConfigSafety`, `VersionSafety`, `LinkSafety`, `ServiceRefinement`, `ServiceSafety`, `JobsRunDown` | `Types`, `ActiveHasConfig`, `VersionsInOrder`, `UserStaysLinked`, `KeepsService`; a config in force and an ACTIVE status stay; onboarding jobs run down |
| `ChannelProofs`: `TypeCorrect`, `AtomicFlows`, `Freshness`, `Routability`, `Monotonicity` | `Types`, `FlowIsAtomic`, `KeptFresh`, `ConnectedIsRoutable`, `RowsLiveForward` |

The inductive invariants, and why the checked ones are not inductive alone:

* **LeadCapture** (`IInv`): the named invariants plus `TriesLeft` (a queued job has a try left, so the
  next attempt is in range and new), `RowsAreFresh` (no lead has the id of an attempt that has not
  committed; otherwise `CommitLead` could overwrite a row), `FoundExists` (the duplicate branch hangs on a
  lead that is there), `CommittedRecorded` (between commit and return the log says what was committed) and
  `ReceivedByCreator` (only the attempt that made the lead announces it, hence once). `StepCases` splits
  `Next` once for all lemmas; one lemma per part of the invariant follows. `LeadCommits` and
  `DuplicateCommits` say what the two commits write, and are what `OutcomesAgree` and the refinement rest on.
  `KeysStep` is the core: a flushed row collides neither with a committed nor with another flushed row, so
  the check-then-insert of `find_duplicate` is harmless for the indexed keys.
* **DuplicateSharesKey** needs `Traced`: the identity a running attempt works with is a reading of its
  event, and at `attach` it shares a key with the lead in `found`. That survives because
  a lead row, once written, stays (`LeadsKept`). `MatchesShare` shows that what a query selects shares a key
  in the sense of the property (`SharesKey`, with normalised phones on both sides).
* **Refinement**: the initial states map to `Contract!Init`; each of the four kinds of commit maps to the
  contract action of its name, `ReturnLead` to `Announce`, everything else to a stutter. `OneSettles` needs that
  the event was open (`SlotIsExclusive`), `Announce` that it has not happened (`ReceivedByCreator`).
  `LeadHistories` needs nothing of the pipeline any more: it is `IntakeContractProofs!HistorySafety` under the
  refinement mapping.
* **FileIntake** (`IInv`): the contract's own invariant `CInv`, preserved because the module is built on the
  contract's actions (a lemma, `ContractStep`, not a result), and on top of it `Placed` (only an upload past the
  checks has attempts or rows behind it), `RowsPursued` (a settled row is in the history of its contact, never
  closed or unlinked), `Collected` (the answer so far covers the rows so far), `Accounted` (the job's rows so
  far are held or skipped), `Sourced` (a recorded row comes from an upload that was admitted), `Remembered` (the
  answer so far has for each identified row the lead the row came to, which never changes: hence
  `ReuploadAgrees`) and `HarmlessStays` (a captured row keeps every cell that may be stored). That attempts cut
  short lose nothing is `Accounted` being re-established from `at = 1` while histories only grow.
* **LeadPrivacy** (`IInv`): `FreshUntilDone` (a commit writes a new row), `GoneIsEmpty` (a purged lead has
  no phone), `HitExists`, `PurgesExisting` (purges only touch rows that are there). A purge frees a phone
  only at its commit, and a flush waits for whoever has the row: that is `PhoneStep`.
  `ErasureReachesHistory` has its own two: `RecordedDone` (a linked event's capture is done, so its rows are
  not written again but by purges)
  and `AllPursued` (each event of a lead it has read is on its list until it is replaced, those it finds only
  once it has the row included).
  `LockSafety` rests on `OnePhonePerLead`: an erasure by phone finds one lead at most (`OneLeadAtATime`), so
  once it holds a lead it waits at most for log rows, and who holds log rows waits for nobody. Two erasures hold
  different leads and with them different log rows (`OwnLogs`), so an erasure that holds a lead waits for the
  sweep alone, and then the sweep is at its commit: a chain of waits ends at the third transaction. The order in
  which the code locks the leads is therefore free.
* **Onboarding** (`IInv`): `RowsExist`, `TriesLeft`, `Numbering` (an attempt that has not written its config has
  a version number to spare: it is at most one version to an attempt), `InOrder` (config before ACTIVE before
  COMPLETE) and `LinksOwn` (links and the claims of tokens name tenants their user created). `ActivatedNumbered`
  is the lemma about `create_active`: it takes versions 1..n with n ACTIVE to 1..n+1 with n+1 ACTIVE. For the
  refinement `InForceIsLast` reads the version in force off the numbering, and `ServiceWrites` and `OpenedBy`
  say that only `create_active` moves it and only `activate_tenant` opens a tenant; `InOrder` is what makes that
  a step `Open` of the contract. Whether `activate_tenant` may meet an ACTIVE tenant again does not matter
  there: it would be a stutter.
* **ChannelConnections** (`Inv`): `Progress` (a session has every stop visited so far), `RowsSound` (only
  Instagram rows expire and only they are marked) and `SweepSound` (a running job has put beyond its window
  every row it does not still have to look at, including those connected meanwhile, whose life is longer
  than the window: this is where `Window < Life` is used).

* **Characters, PhoneFormat, DataPolicy**: the operators recurse over the positions of a text, as recursive
  functions, and what they compute is proved for texts of every length. A library theorem about induction
  takes a predicate as parameter, which the provers cannot instantiate; one about the well-foundedness of `<`
  takes a set, and sets can be named: `LeastNumber` is that theorem, `Induct` its form "a set that has 0 and
  with n also n + 1 has all". A recursive function is a CHOOSE, so it must first be shown to exist:
  `FiniteRecursion` does it for functions on 0..N, and `OnlyByPosition` and `LuhnByPosition` give from it the
  equations that the rest uses. `HasCard` recurses from a match to the end of it, not to the next number;
  `CardSearch` obtains its value as the least set closed under the search.
  `NormaliseIdempotent` rests on `OnlyIdentity` (a text of listed characters is left as it is), and
  `DigitsSurvive`, that normalising neither loses nor moves a digit, so that numbers with different digits are
  never stored as one, on `OnlyTwice` (cleaning for a class and then for part of it).
  `LuhnDetectsSlips` compares the running totals of two texts that differ in one place: equal before it, apart
  by the same non-zero amount below ten from it on, because doubling and reducing is injective on digits
  (`WeighOfDigit`). `CardsOfDigits` shows that a text of digits is one word, so that its only candidate is the
  whole of it, and `Shapes` that no other pattern fits 13 digits or more.
* **PhonesAreKeys** is then `NormaliseIdempotent` and an invariant (`KeysAreFixed`): each stored phone is NULL
  or the normal form of some number. `PhoneAssumption` says only that a phone is a finite sequence.
* **SlipsAreKept** is `HarmlessStays` and `SlipIsHarmless`.
  `CellsAssumption` says that cells are sequences of the characters the patterns tell apart.

* **Running down** (`JobsRunDown`, `UploadsRunDown`, `ErasureRunsDown`): the half of each liveness property that
  needs no fairness. `StepsLeft` counts the steps an attempt may still take (`Ahead`) and the attempts the queue
  has still to give; every step of the job, upload or request lowers it, whatever fails or is cut off, and no
  step of anybody else raises it. So no retry, conflict or cancellation goes on for ever, and a job that does
  not end has been kept waiting: that nobody waits for ever is what TLC checks under fairness. The exception is
  an erasure that is rolled back (`PurgeFails`): its caller may ask again as often as it likes.

Only model-checked: the liveness properties (`EveryJobEnds` of both modules, `EveryUploadEnds`,
`PurgesEnd`), since liveness under fairness and `ENABLED` are out of the reach of the proof system, and the
counterexamples of section 6. Every invariant and action property of a passing run has a theorem. No module
proved about declares a `RECURSIVE` operator: sequences of steps are `pc` values, maxima come from the folds
of the community modules.

## 8. Not modelled, and why

* The text of a message: the filter's word lists and the language model's answer are a choice over every
  class, sure or unsure, and what a text may be read as is a constant of the instance. The calibration of the
  answer is modelled. Payload shapes: one event per delivery.
* The cache of signing keys (`auth/token.py`): planned. The race of two first requests of one user
  (`auth/service.py:19`): one insert fails on the unique `auth0_sub` and that request answers 500; nothing
  else of the system depends on it.
* The parsing of CSV and XLSX, and the classification tables of `data_policy.py`, which are documentation.
* Signature checks, JWT, AES-GCM, HMAC of the OAuth state: valid or not, no state.
* Onboarding agents and HTTP clients: one step that answers or raises.
* Read-only endpoints, logging, settings, migrations, scripts, empty packages.
* In `LeadCapture`, several tenants: every query and index carries `tenant_id`, so tenants do not interact
  except through `platform_event_id`, which is unique over all tenants and modelled so.
* Loss of Redis data: arq's queue is taken as durable.

## 9. Plan

Done, in this order, by importance: the capture pipeline and its contract; privacy; onboarding;
connections and refresh; file intake with the data policy; phone formats; the contract of a tenant's service.
Next:

1. **SigningKeys**: the JWKS cache of `auth/token.py`, with rotation, its time to live and the refetch on an
   unknown key. Properties: a token signed with a rotated key is accepted after one refetch; a token with an
   unknown key causes at most one fetch. Three keys, four ticks.
2. **Retention with two ages**: the leads' and the logs' own ages as time, for the hazard at `retention.py:57`.
3. **A directory of connections** as an abstract specification that `ChannelConnections` implements, which
   closes the argument for `connected` in `LeadCapture` as `ServiceContract` does for `tenantReady`.
