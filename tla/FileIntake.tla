----------------------------- MODULE FileIntake -----------------------------
(***************************************************************************)
(* Uploaded CSV and XLSX files.  A short file is worked through, row by    *)
(* row, while its request waits; a long one becomes a job on the queue.    *)
(* What run_capture does with a row is one step of IntakeContract, which   *)
(* LeadCapture is shown to implement: here the contract stands for it, so  *)
(* that rows of several uploads and the events of the other channels meet  *)
(* in the same tables.  That the contract holds here is by construction.   *)
(*                                                                         *)
(* platform_event_id is a hash of a row's content, so a row stands for its *)
(* event, and a lead is named by the event that opened it.  A row without  *)
(* name, phone and e-mail claims no slot; its lead is named by the place   *)
(* and the attempt that wrote it.                                          *)
(***************************************************************************)
EXTENDS DataPolicy

CONSTANTS
  Uploads,      \* requests to upload_leads
  Rows,         \* row contents
  FileOf,       \* the rows of each upload
  Readable,     \* uploads of a supported suffix, below 10 MB, that parse
  Anonymous,    \* rows without name, phone and e-mail
  Ragged,       \* rows with more cells than the file has headers
  CellsOf,      \* the non-empty cells of a row under unknown headers
  Messages,     \* events of the other channels
  Threshold,    \* _SYNC_THRESHOLD
  MaxRows,      \* _MAX_ROWS
  MaxTries,     \* attempts the queue gives a job (WorkerSettings.max_tries)
  None

ASSUME FileAssumption == FileOf \in [Uploads -> Seq(Rows)]
ASSUME CellsAssumption == CellsOf \in [Rows -> SUBSET Seq(Character)]
ASSUME BoundAssumption == Threshold \in Nat /\ MaxRows \in Nat /\ MaxTries \in Nat \ {0}
ASSUME EventAssumption == None \notin Rows \cup Messages /\ Rows \cap Messages = {}

VARIABLES
  outcome, contactOf, history, announced,  \* the tables, as IntakeContract has them
  blocked,      \* leads of anonymous rows
  extra,        \* leads.extra_fields, by lead
  ready,        \* the tenant has an ACTIVE config with signals
  pc,           \* where each upload is
  at,           \* the row its loop is at
  tries,        \* attempts its job has used
  answer,       \* lead_ids of the response
  skipped       \* rows the running attempt logged as batch_row_failed

intake == <<outcome, contactOf, history, announced>>
tables == <<intake, blocked, extra>>
vars == <<outcome, contactOf, history, announced, blocked, extra, ready,
          pc, at, tries, answer, skipped>>

Events == Rows \cup Messages
Slots == Uploads \X (0..MaxTries) \X (1..MaxRows)
Leads == Events \cup Slots
Intake == INSTANCE IntakeContract WITH Contacts <- Events

ASSUME LeadAssumption == Events \cap Slots = {}

Init ==
  /\ Intake!Init
  /\ blocked = {}
  /\ extra = [l \in Leads |-> {}]
  /\ ready \in BOOLEAN
  /\ pc = [u \in Uploads |-> "new"]
  /\ at = [u \in Uploads |-> 1]
  /\ tries = [u \in Uploads |-> 0]
  /\ answer = [u \in Uploads |-> <<>>]
  /\ skipped = [u \in Uploads |-> {}]

Size(u) == Len(FileOf[u])
Short(u) == Size(u) <= Threshold
Row(u) == FileOf[u][at[u]]

Goto(u, place) == pc' = [pc EXCEPT ![u] = place]

-----------------------------------------------------------------------------
(* handle_file_upload up to the row loop.                                  *)

\* 422, 413, or a parser error; nothing has been read from the database.
RefuseFile(u) ==
  /\ pc[u] = "new"
  /\ u \notin Readable \/ Size(u) > MaxRows
  /\ Goto(u, "refused")
  /\ UNCHANGED <<tables, ready, at, tries, answer, skipped>>

Accepted(u) == pc[u] = "new" /\ u \in Readable /\ Size(u) <= MaxRows

HaltUpload(u) ==
  /\ Accepted(u) /\ ~ready
  /\ Goto(u, "refused")
  /\ UNCHANGED <<tables, ready, at, tries, answer, skipped>>

\* Fault: the rows are worked through without a pre-flight check.
AcceptUnchecked(u) ==
  /\ Accepted(u) /\ Short(u)
  /\ Goto(u, "request")
  /\ UNCHANGED <<tables, ready, at, tries, answer, skipped>>

AcceptUpload(u) ==
  /\ Accepted(u) /\ ready /\ Short(u)
  /\ Goto(u, "request")
  /\ UNCHANGED <<tables, ready, at, tries, answer, skipped>>

\* The client has its answer (mode async) as soon as the job is queued.
EnqueueBatch(u) ==
  /\ Accepted(u) /\ ready /\ ~Short(u)
  /\ Goto(u, "queued")
  /\ UNCHANGED <<tables, ready, at, tries, answer, skipped>>

EnqueueFails(u) ==
  /\ Accepted(u) /\ ready /\ ~Short(u)
  /\ Goto(u, "failed")
  /\ UNCHANGED <<tables, ready, at, tries, answer, skipped>>

-----------------------------------------------------------------------------
(* run_lead_capture_batch: the start and the ends of an attempt.           *)

StartBatch(u) ==
  /\ pc[u] = "queued"
  /\ tries' = [tries EXCEPT ![u] = @ + 1]
  /\ at' = [at EXCEPT ![u] = 1]
  /\ skipped' = [skipped EXCEPT ![u] = {}]
  /\ Goto(u, IF ready THEN "batch" ELSE "ended")
  /\ UNCHANGED <<tables, ready, answer>>

FinishBatch(u) ==
  /\ pc[u] = "batch" /\ at[u] > Size(u)
  /\ Goto(u, "ended")
  /\ UNCHANGED <<tables, ready, at, tries, answer, skipped>>

\* Fault: one attempt more than the queue was told.
InterruptOnceMore(u) ==
  /\ pc[u] = "batch"
  /\ \/ Goto(u, "dead")
     \/ tries[u] <= MaxTries /\ Goto(u, "queued")
  /\ UNCHANGED <<tables, ready, at, tries, answer, skipped>>

\* job_timeout, a crash or a shutdown: CancelledError is no Exception, the loop
\* does not catch it.  The queue runs the job again, from the first row, or gives
\* it up; so it does when the pre-flight query or a rollback raises.
InterruptBatch(u) ==
  /\ pc[u] = "batch"
  /\ \/ Goto(u, "dead")
     \/ tries[u] < MaxTries /\ Goto(u, "queued")
  /\ UNCHANGED <<tables, ready, at, tries, answer, skipped>>

-----------------------------------------------------------------------------
(* One row.  Both loops take the same steps; they differ in what they      *)
(* strip, in what an exception does, and in the ids the request collects.  *)

\* Constant, so that each cell is classified once.
Harmless == [r \in Rows |-> Strip(CellsOf[r])]

\* The extra_fields a lead of the row gets: only the request strips them.
Kept(u) == IF pc[u] = "request" THEN Harmless[Row(u)] ELSE CellsOf[Row(u)]

InLoop(u) == pc[u] \in {"request", "batch"} /\ at[u] <= Size(u)

\* Fault: a lead id is collected for new leads only.
DoneSilently(u, lead) ==
  /\ at' = [at EXCEPT ![u] = @ + 1]
  /\ answer' = IF pc[u] = "request" /\ outcome[Row(u)] = "open"
               THEN [answer EXCEPT ![u] = Append(@, lead)] ELSE answer
  /\ UNCHANGED <<ready, pc, tries, skipped>>

\* The row came to a lead; on to the next.
Done(u, lead) ==
  /\ at' = [at EXCEPT ![u] = @ + 1]
  /\ answer' = IF pc[u] = "request"
               THEN [answer EXCEPT ![u] = Append(@, lead)] ELSE answer
  /\ UNCHANGED <<ready, pc, tries, skipped>>

\* normalise_file_row: a header of None has no strip().
Sound(u) == InLoop(u) /\ Row(u) \notin Ragged

\* _write_blocked_lead, and its copy in the job.
BlockRow(u) ==
  LET slot == <<u, tries[u], at[u]>> IN
  /\ Sound(u) /\ Row(u) \in Anonymous
  /\ blocked' = blocked \cup {slot}
  /\ extra' = [extra EXCEPT ![slot] = Kept(u)]
  /\ Done(u, slot)
  /\ UNCHANGED intake

Identified(u) == Sound(u) /\ Row(u) \notin Anonymous

\* run_capture: a new lead, a touchpoint on a known one, or a slot taken before.
CaptureRow(u) ==
  /\ Identified(u)
  /\ Intake!Capture(Row(u), Row(u))
  /\ extra' = [extra EXCEPT ![Row(u)] = Kept(u)]
  /\ Done(u, Row(u))
  /\ UNCHANGED blocked

AttachRow(u) ==
  /\ Identified(u)
  /\ \E lead \in Events : Intake!Attach(Row(u), lead) /\ Done(u, lead)
  /\ UNCHANGED <<blocked, extra>>

\* Fault: a known row is taken to have a lead of its own.
RedeliverRowAnew(u) ==
  /\ Identified(u)
  /\ outcome[Row(u)] # "open"
  /\ Done(u, Row(u))
  /\ UNCHANGED tables

RedeliverRow(u) ==
  /\ Identified(u)
  /\ outcome[Row(u)] # "open"
  /\ Done(u, contactOf[Row(u)])
  /\ UNCHANGED tables

\* An exception anywhere in the row, the database's, MultipleResultsFound or
\* that of a ragged row, or the end of the process: the request answers 500 at
\* best, and what it committed stays.
FailRequest(u) ==
  /\ pc[u] = "request"
  /\ Goto(u, "failed")
  /\ UNCHANGED <<tables, ready, at, tries, answer, skipped>>

\* Faults: the loop ends at the first exception; it tries the row again.
StopAtFailure(u) ==
  /\ pc[u] = "batch" /\ InLoop(u)
  /\ Goto(u, "ended")
  /\ skipped' = [skipped EXCEPT ![u] = @ \cup {at[u]}]
  /\ UNCHANGED <<tables, ready, at, tries, answer>>
RepeatFailure(u) ==
  /\ pc[u] = "batch" /\ InLoop(u)
  /\ skipped' = [skipped EXCEPT ![u] = @ \cup {at[u]}]
  /\ UNCHANGED <<tables, ready, pc, at, tries, answer>>

\* The job rolls the row back, logs batch_row_failed and goes on.
SkipRow(u) ==
  /\ pc[u] = "batch" /\ InLoop(u)
  /\ at' = [at EXCEPT ![u] = @ + 1]
  /\ skipped' = [skipped EXCEPT ![u] = @ \cup {at[u]}]
  /\ UNCHANGED <<tables, ready, pc, tries, answer>>

AnswerRequest(u) ==
  /\ pc[u] = "request" /\ at[u] > Size(u)
  /\ Goto(u, "answered")
  /\ UNCHANGED <<tables, ready, at, tries, answer, skipped>>

-----------------------------------------------------------------------------
(* The world around the uploads.                                           *)

\* create_active commits the tenant's first ACTIVE config; one stays in force
\* (KeepsService in Onboarding), and TenantConfigCreate wants signals.
TenantActivates ==
  /\ ~ready /\ ready' = TRUE
  /\ UNCHANGED <<tables, pc, at, tries, answer, skipped>>

\* Jobs of the other channels settle their events in the same tables.
OtherIntake(e) ==
  /\ \/ Intake!Capture(e, e) \/ Intake!Close(e, e) \/ Intake!Reject(e)
     \/ \E lead \in Events : Intake!Attach(e, lead)
  /\ UNCHANGED <<blocked, extra, ready, pc, at, tries, answer, skipped>>

\* run_capture returns LeadReceived to their job (both loops of this module drop
\* it); a crash after the commit loses it.
ReturnReceived(e) ==
  /\ Intake!Announce(e)
  /\ UNCHANGED <<blocked, extra, ready, pc, at, tries, answer, skipped>>

-----------------------------------------------------------------------------
\* The server and the workers go on with what they have accepted.
UploadStep(u) ==
  \/ BlockRow(u) \/ CaptureRow(u) \/ AttachRow(u) \/ RedeliverRow(u)
  \/ FailRequest(u) \/ SkipRow(u) \/ AnswerRequest(u)
  \/ StartBatch(u) \/ FinishBatch(u)

Next ==
  \/ TenantActivates
  \/ \E e \in Messages : OtherIntake(e) \/ ReturnReceived(e)
  \/ \E u \in Uploads :
       \/ RefuseFile(u) \/ HaltUpload(u) \/ AcceptUpload(u)
       \/ EnqueueBatch(u) \/ EnqueueFails(u)
       \/ UploadStep(u) \/ InterruptBatch(u)

Spec == Init /\ [][Next]_vars

\* Nothing is assumed of clients, tenants, other channels or interruptions.
FairSpec == Spec /\ \A u \in Uploads : WF_vars(UploadStep(u))

-----------------------------------------------------------------------------
(* Every upload is somewhere in its file.                                  *)
Places == {"new", "refused", "request", "failed", "answered",
           "queued", "batch", "ended", "dead"}
Types ==
  /\ Intake!Types
  /\ blocked \subseteq Slots
  /\ extra \in [Leads -> SUBSET UNION {CellsOf[r] : r \in Rows}]
  /\ ready \in BOOLEAN
  /\ pc \in [Uploads -> Places]
  /\ at \in [Uploads -> Nat] /\ \A u \in Uploads : at[u] \in 1..(Size(u) + 1)
  /\ tries \in [Uploads -> 0..MaxTries]
  /\ answer \in [Uploads -> Seq(Leads)]
  /\ skipped \in [Uploads -> SUBSET Nat]

\* The lead that holds row i of upload u as the attempt t wrote it.
HeldBy(u, t, i, lead) ==
  IF FileOf[u][i] \in Anonymous THEN lead = <<u, t, i>> /\ lead \in blocked
  ELSE lead \in Events /\ FileOf[u][i] \in history[lead]

\* The answer to a short file lists, row by row, a lead that holds the row,
\* whether the row was new, a duplicate or known from another upload, and
\* whatever the other channels captured in between (handle_file_upload).
AnswerCoversFile ==
  \A u \in Uploads : pc[u] = "answered" =>
    /\ Len(answer[u]) = Size(u)
    /\ \A i \in 1..Size(u) : HeldBy(u, 0, i, answer[u][i])

\* "Never discard": when a job comes to its end, each of its rows is held by a
\* lead or was logged as failed, in spite of attempts cut short before it.
BatchAccounted ==
  \A u \in Uploads : pc[u] = "ended" =>
    \A i \in 1..Size(u) \ skipped[u] : \E lead \in Leads : HeldBy(u, tries[u], i, lead)

\* An upload refused, for the file or for the tenant, writes no row: what is
\* recorded comes from uploads that passed the pre-flight check.
RefusedWritesNothing ==
  /\ \A slot \in blocked : pc[slot[1]] \notin {"new", "refused"}
  /\ \A r \in Rows : outcome[r] # "open" => \E u \in Uploads :
       pc[u] \notin {"new", "refused"} /\ \E i \in 1..Size(u) : FileOf[u][i] = r
  /\ blocked # {} \/ (\E r \in Rows : outcome[r] # "open") => ready

\* No regulated cell gets into extra_fields, whichever way a row came: "after
\* building extra_fields, call strip_sensitive_fields" in normalise_file_row
\* (docs/compliance.md), "stored after sensitive field stripping" (data_policy.py).
RegulatedIsStripped ==
  \A lead \in blocked \cup {r \in Rows : outcome[r] = "received"} :
    \A cell \in extra[lead] : ~Regulated(cell)

\* Constant: the cells of a row that might be card numbers, and those of them that
\* would not be taken for one with any one digit of theirs changed.
Numbers == [r \in Rows |-> {cell \in CellsOf[r] :
              Len(cell) \in 13..19 /\ \A k \in 1..Len(cell) : cell[k] \in Digit}]
SlipProof == [r \in Rows |-> {cell \in Numbers[r] :
                \A k \in 1..Len(cell), d \in Digit :
                  d # cell[k] => ~Regulated([cell EXCEPT ![k] = d])}]

\* A captured row has lost a long number only if the check digit tells it from a
\* slip of it: with any one digit changed the cell would have been stored
\* (_luhn_valid, strip_sensitive_fields).
SlipsAreKept ==
  \A r \in Rows : outcome[r] = "received" => Numbers[r] \ extra[r] \subseteq SlipProof[r]

\* A row has one lead for good: two answers to files that share an identified row
\* name the same lead for it, although other channels and jobs captured between
\* them, or the first upload of the row ended in a 500 (run_capture's redelivery).
ReuploadAgrees ==
  \A u, v \in Uploads : pc[u] = "answered" /\ pc[v] = "answered" =>
    \A i \in 1..Size(u), j \in 1..Size(v) :
      FileOf[u][i] = FileOf[v][j] /\ FileOf[u][i] \notin Anonymous
        => answer[u][i] = answer[v][j]

\* A request that was accepted gets an answer, a queued job comes to an end.
EveryUploadEnds ==
  \A u \in Uploads : pc[u] \in {"request", "queued"}
    ~> pc[u] \in {"answered", "failed", "ended", "dead"}
=============================================================================
