-------------------------- MODULE FileIntakeProofs --------------------------
(***************************************************************************)
(* The answers and the jobs of file intake account for every row, and name *)
(* one lead for it, for any set of files, uploads and other events.        *)
(***************************************************************************)
EXTENDS FileIntake, CharacterProofs

Contract == INSTANCE IntakeContractProofs WITH Contacts <- Events

USE FileAssumption, CellsAssumption, BoundAssumption, EventAssumption, LeadAssumption

\* The two instances of the contract are one.
LEMMA SameContract ==
  /\ Intake!Init <=> Contract!Init
  /\ Intake!Types <=> Contract!Types
  /\ [Intake!Next]_intake <=> [Contract!Next]_(Contract!vars)
<1>1. \A e, o, c : Intake!Settle(e, o, c) <=> Contract!Settle(e, o, c)
  BY DEF Intake!Settle, Contract!Settle
<1>2. \A c : Intake!Opened(c) <=> Contract!Opened(c)
  BY DEF Intake!Opened, Contract!Opened
<1>3. Intake!Next <=> Contract!Next
  BY <1>1, <1>2 DEF Intake!Next, Contract!Next, Intake!Reject, Contract!Reject,
    Intake!Capture, Contract!Capture, Intake!Attach, Contract!Attach,
    Intake!Close, Contract!Close, Intake!Announce, Contract!Announce
<1> QED
  BY <1>2, <1>3 DEF Intake!Init, Contract!Init, Intake!Types, Contract!Types,
    Intake!Outcome, Contract!Outcome, intake, Contract!vars

\* The row a loop is at is one of the file's.
LEMMA RowInFile ==
  ASSUME Types, NEW u \in Uploads, InLoop(u)
  PROVE  at[u] \in 1..Size(u) /\ Row(u) \in Rows /\ FileOf[u][at[u]] = Row(u)
<1>1. FileOf[u] \in Seq(Rows) /\ at[u] \in Nat /\ at[u] \in 1..(Size(u) + 1)
  BY DEF Types
<1>2. Size(u) \in Nat /\ at[u] <= Size(u)
  BY <1>1 DEF Size, InLoop
<1> QED
  BY <1>1, <1>2 DEF Size, Row

\* Each step is a step of the contract, or leaves its tables alone.
LEMMA ContractStep == Types /\ [Next]_vars => [Intake!Next]_intake
<1> SUFFICES ASSUME Types, Next PROVE [Intake!Next]_intake
  BY DEF vars, intake
<1> USE DEF tables, intake
<1>1. ASSUME NEW e \in Messages, OtherIntake(e) PROVE Intake!Next
  BY <1>1 DEF OtherIntake, Intake!Next, Events
<1>2. ASSUME NEW e \in Messages, ReturnReceived(e) PROVE Intake!Next
  BY <1>2 DEF ReturnReceived, Intake!Next, Events
<1>3. ASSUME NEW u \in Uploads, CaptureRow(u) PROVE Intake!Next
  <2>1. Row(u) \in Events /\ Intake!Capture(Row(u), Row(u))
    BY <1>3, RowInFile DEF CaptureRow, Identified, Sound, Events
  <2> QED
    BY <2>1 DEF Intake!Next
<1>4. ASSUME NEW u \in Uploads, AttachRow(u) PROVE Intake!Next
  <2>1. Row(u) \in Events /\ \E lead \in Events : Intake!Attach(Row(u), lead)
    BY <1>4, RowInFile DEF AttachRow, Identified, Sound, Events
  <2> QED
    BY <2>1 DEF Intake!Next
<1>5. ASSUME NEW u \in Uploads, BlockRow(u) \/ RedeliverRow(u) PROVE UNCHANGED intake
  BY <1>5 DEF BlockRow, RedeliverRow
<1>6. TenantActivates => UNCHANGED intake
  BY DEF TenantActivates
<1>7. ASSUME NEW u \in Uploads,
             \/ RefuseFile(u) \/ HaltUpload(u) \/ AcceptUpload(u) \/ EnqueueBatch(u)
             \/ EnqueueFails(u) \/ FailRequest(u) \/ SkipRow(u) \/ AnswerRequest(u)
             \/ StartBatch(u) \/ FinishBatch(u) \/ InterruptBatch(u)
      PROVE  UNCHANGED intake
  BY <1>7 DEF RefuseFile, HaltUpload, AcceptUpload, EnqueueBatch, EnqueueFails, FailRequest,
    SkipRow, AnswerRequest, StartBatch, FinishBatch, InterruptBatch
<1> QED
  BY <1>1, <1>2, <1>3, <1>4, <1>5, <1>6, <1>7 DEF Next, UploadStep

-----------------------------------------------------------------------------
(* The strengthened invariant.                                             *)

Ran(u) == pc[u] \notin {"new", "refused"}

\* Where an upload is tells what it has passed on its way.
Placed ==
  \A u \in Uploads :
    /\ Ran(u) => ready /\ Size(u) <= MaxRows
    /\ pc[u] \in {"request", "answered"} => Short(u)
    /\ pc[u] \in {"queued", "batch", "ended", "dead"} => ~Short(u)
    /\ Short(u) => tries[u] = 0
    /\ pc[u] = "batch" => tries[u] > 0
    /\ pc[u] \in {"answered", "ended"} => at[u] = Size(u) + 1
    /\ pc[u] = "queued" => tries[u] < MaxTries
    /\ pc[u] = "new" => at[u] = 1 /\ answer[u] = <<>> /\ tries[u] = 0

\* No row is closed or rejected: rows skip the filter.
RowsPursued ==
  \A r \in Rows : outcome[r] # "open" =>
    outcome[r] \in {"received", "duplicate"} /\ contactOf[r] \in Events

\* A request has collected a lead for each row before the one it is at.
Collected ==
  \A u \in Uploads : pc[u] \in {"request", "answered"} =>
    /\ Len(answer[u]) = at[u] - 1
    /\ \A i \in 1..(at[u] - 1) : HeldBy(u, 0, i, answer[u][i])

\* A job has a lead for each row before the one it is at, or has logged it.
Accounted ==
  \A u \in Uploads : pc[u] \in {"batch", "ended"} =>
    \A i \in 1..(at[u] - 1) \ skipped[u] : \E lead \in Leads : HeldBy(u, tries[u], i, lead)

\* What is recorded comes from uploads that ran.
Sourced ==
  /\ \A slot \in blocked : Ran(slot[1])
  /\ \A r \in Rows : outcome[r] # "open" => \E u \in Uploads :
       Ran(u) /\ \E i \in 1..Size(u) : FileOf[u][i] = r

\* A request has collected for each identified row the lead the row came to.
Remembered ==
  \A u \in Uploads : pc[u] \in {"request", "answered"} =>
    \A i \in 1..(at[u] - 1) : FileOf[u][i] \notin Anonymous =>
      /\ outcome[FileOf[u][i]] # "open"
      /\ answer[u][i] = contactOf[FileOf[u][i]]

\* A captured row has every cell that may be stored.
HarmlessStays ==
  \A r \in Rows : outcome[r] = "received" => Harmless[r] \subseteq extra[r]

IInv ==
  /\ Types /\ Contract!CInv
  /\ Placed /\ RowsPursued /\ Collected /\ Accounted /\ Sourced /\ Remembered
  /\ HarmlessStays

\* The numbers and sequences an upload has.
LEMMA UploadTypes ==
  ASSUME Types, NEW u \in Uploads
  PROVE  /\ FileOf[u] \in Seq(Rows) /\ Size(u) \in Nat
         /\ at[u] \in Nat /\ 1 <= at[u] /\ at[u] <= Size(u) + 1
         /\ tries[u] \in Nat /\ tries[u] <= MaxTries
         /\ answer[u] \in Seq(Leads)
         /\ Threshold \in Nat /\ MaxRows \in Nat /\ MaxTries \in Nat
BY DEF Types, Size

LEMMA InitInv == Init => IInv
<1> SUFFICES ASSUME Init PROVE IInv
  OBVIOUS
<1>1. Contract!CInv
  <2>1. Contract!Init
    BY SameContract DEF Init
  <2> QED
    BY <2>1, Contract!ContractInit, EventAssumption DEF Events
<1>2. Intake!Types
  BY <1>1, SameContract DEF Contract!CInv
<1>3. Types
  <2>1. \A u \in Uploads : Size(u) \in Nat
    BY DEF Size
  <2>2. <<>> \in Seq(Leads)
    OBVIOUS
  <2> QED
    BY <1>2, <2>1, <2>2 DEF Init, Types, Places
<1>4. outcome = [e \in Events |-> "open"] /\ Rows \subseteq Events
  BY DEF Init, Intake!Init, Events
<1> QED
  BY <1>1, <1>3, <1>4 DEF Init, IInv, Placed, Ran, RowsPursued, Collected, Accounted, Sourced,
    Remembered, HarmlessStays

-----------------------------------------------------------------------------
(* What no step takes away, and what a row comes to.                       *)

LEMMA ContractKept ==
  ASSUME IInv, [Next]_vars
  PROVE  Contract!CInv' /\ Intake!Types'
<1>1. [Contract!Next]_(Contract!vars)
  BY ContractStep, SameContract DEF IInv
<1>2. Contract!CInv'
  BY <1>1, Contract!ContractPreserved, EventAssumption DEF IInv, Events
<1>3. Contract!Types'
  BY <1>2 DEF Contract!CInv
<1> QED
  BY <1>2, <1>3 DEF Contract!Types, Intake!Types, Contract!Outcome, Intake!Outcome

\* A contact no event has opened has no history, so histories only grow.
LEMMA HistoryGrows ==
  ASSUME IInv, [Next]_vars
  PROVE  \A lead \in Events : history[lead] \subseteq history'[lead]
<1>1. history \in [Events -> SUBSET Events]
  BY SameContract DEF IInv, Types, Intake!Types
<1>2. \A c \in Events : ~Intake!Opened(c) => history[c] = {}
  BY DEF IInv, Contract!CInv, Contract!HistoriesFaithful, Intake!Opened
<1>3. [Intake!Next]_intake
  BY ContractStep DEF IInv
<1> QED
  BY <1>1, <1>2, <1>3 DEF Intake!Next, Intake!Reject, Intake!Capture, Intake!Attach, Intake!Close,
    Intake!Announce, Intake!Settle, intake

LEMMA BlockedGrows == [Next]_vars => blocked \subseteq blocked'
BY DEF Next, vars, tables, UploadStep, TenantActivates, OtherIntake, ReturnReceived, RefuseFile,
  HaltUpload, AcceptUpload, EnqueueBatch, EnqueueFails, FailRequest, SkipRow, AnswerRequest,
  StartBatch, FinishBatch, InterruptBatch, BlockRow, CaptureRow, AttachRow, RedeliverRow

LEMMA HeldStays ==
  ASSUME IInv, [Next]_vars
  PROVE  \A u, t, i, lead : HeldBy(u, t, i, lead) => HeldBy(u, t, i, lead)'
BY HistoryGrows, BlockedGrows DEF HeldBy

RowStep(u) == BlockRow(u) \/ CaptureRow(u) \/ AttachRow(u) \/ RedeliverRow(u)

\* Whatever run_capture or the blocked write makes of a row, a lead holds it.
LEMMA RowStores ==
  ASSUME IInv, NEW u \in Uploads, RowStep(u)
  PROVE  /\ InLoop(u)
         /\ \E lead \in Leads : /\ Done(u, lead)
                                /\ \A t, i : t = tries[u] /\ i = at[u]
                                     => HeldBy(u, t, i, lead)'
<1>0. InLoop(u) /\ Row(u) \in Rows /\ Row(u) \in Events /\ FileOf[u][at[u]] = Row(u)
      /\ at[u] \in 1..Size(u)
  <2>1. InLoop(u)
    BY DEF RowStep, BlockRow, CaptureRow, AttachRow, RedeliverRow, Identified, Sound
  <2> QED
    BY <2>1, RowInFile DEF IInv, Events
<1>1. history \in [Events -> SUBSET Events]
  BY DEF IInv, Types, Intake!Types
<1>2. CASE BlockRow(u)
  <2>1. Size(u) <= MaxRows
    BY <1>0 DEF InLoop, IInv, Placed, Ran
  <2>2. <<u, tries[u], at[u]>> \in Slots
    BY <1>0, <2>1, UploadTypes DEF Slots, IInv
  <2> QED
    BY <1>0, <1>2, <2>2 DEF BlockRow, HeldBy, Leads
<1>3. CASE CaptureRow(u)
  <2>1. Done(u, Row(u)) /\ Row(u) \notin Anonymous
        /\ history' = [history EXCEPT ![Row(u)] = {Row(u)}]
    BY <1>3 DEF CaptureRow, Identified, Intake!Capture
  <2> QED
    BY <1>0, <1>1, <2>1 DEF HeldBy, Leads
<1>4. CASE AttachRow(u)
  <2>1. PICK lead \in Events : Intake!Attach(Row(u), lead) /\ Done(u, lead)
    BY <1>4 DEF AttachRow
  <2>2. Row(u) \notin Anonymous /\ Row(u) \in history'[lead]
    BY <1>1, <1>4, <2>1 DEF AttachRow, Identified, Intake!Attach
  <2> QED
    BY <1>0, <2>1, <2>2 DEF HeldBy, Leads
<1>5. CASE RedeliverRow(u)
  <2>1. Done(u, contactOf[Row(u)]) /\ Row(u) \notin Anonymous /\ outcome[Row(u)] # "open"
        /\ history' = history
    BY <1>5 DEF RedeliverRow, Identified, tables, intake
  <2>2. contactOf[Row(u)] \in Events /\ outcome[Row(u)] \in {"received", "duplicate"}
    BY <1>0, <2>1 DEF IInv, RowsPursued
  <2>3. Row(u) \in history[contactOf[Row(u)]]
    BY <1>0, <2>2 DEF IInv, Contract!CInv, Contract!HistoriesFaithful
  <2> QED
    BY <1>0, <2>1, <2>2, <2>3 DEF HeldBy, Leads
<1> QED
  BY <1>2, <1>3, <1>4, <1>5 DEF RowStep

-----------------------------------------------------------------------------
(* The invariant is inductive.  A step is one of the world's, one that     *)
(* brings a row to a lead, or one that only moves an upload.               *)

Move(u) ==
  \/ RefuseFile(u) \/ HaltUpload(u) \/ AcceptUpload(u) \/ EnqueueBatch(u)
  \/ EnqueueFails(u) \/ FailRequest(u) \/ SkipRow(u) \/ AnswerRequest(u)
  \/ StartBatch(u) \/ FinishBatch(u) \/ InterruptBatch(u)

LEMMA Steps ==
  ASSUME [Next]_vars
  PROVE  \/ UNCHANGED <<blocked, extra, pc, at, tries, answer, skipped>> /\ (ready' = ready \/ ready' = TRUE)
         \/ \E u \in Uploads : RowStep(u)
         \/ \E u \in Uploads : Move(u)
BY DEF Next, vars, UploadStep, RowStep, Move, TenantActivates, OtherIntake, ReturnReceived, tables

LEMMA MoveFrame ==
  ASSUME NEW u, Move(u)
  PROVE  UNCHANGED <<tables, ready, answer>>
BY DEF Move, RefuseFile, HaltUpload, AcceptUpload, EnqueueBatch, EnqueueFails, FailRequest,
  SkipRow, AnswerRequest, StartBatch, FinishBatch, InterruptBatch

LEMMA RowFrame ==
  ASSUME NEW u, RowStep(u)
  PROVE  UNCHANGED <<announced, ready, pc, tries, skipped>>
BY DEF RowStep, BlockRow, CaptureRow, AttachRow, RedeliverRow, Done, Intake!Capture,
  Intake!Attach, Intake!Settle, tables, intake

\* The blocked write fills the row's own slot.
LEMMA BlockedSlot ==
  ASSUME IInv, NEW u \in Uploads, BlockRow(u)
  PROVE  \E slot \in Slots : /\ blocked' = blocked \cup {slot}
                            /\ extra' = [extra EXCEPT ![slot] = Kept(u)]
<1>1. at[u] \in 1..Size(u) /\ Size(u) <= MaxRows
  BY RowInFile DEF BlockRow, Sound, InLoop, IInv, Placed, Ran
<1>2. <<u, tries[u], at[u]>> \in Slots
  BY <1>1, UploadTypes DEF Slots, IInv
<1> QED
  BY <1>2 DEF BlockRow

\* A row step writes extra_fields of at most one lead: the row's own slot, or
\* the lead the row opens.
LEMMA RowExtra ==
  ASSUME IInv, NEW u \in Uploads, RowStep(u)
  PROVE  \/ extra' = extra /\ blocked' = blocked
         \/ \E slot \in Slots : /\ blocked' = blocked \cup {slot}
                                /\ extra' = [extra EXCEPT ![slot] = Kept(u)]
         \/ CaptureRow(u) /\ blocked' = blocked
            /\ extra' = [extra EXCEPT ![Row(u)] = Kept(u)]
BY BlockedSlot DEF RowStep, CaptureRow, AttachRow, RedeliverRow, tables, intake

LEMMA KeptTypes ==
  ASSUME Types, NEW u \in Uploads, InLoop(u)
  PROVE  /\ Kept(u) \subseteq CellsOf[Row(u)]
         /\ Harmless[Row(u)] \subseteq Kept(u)
BY RowInFile DEF Kept, Harmless, Strip

LEMMA TypesStep ==
  ASSUME IInv, [Next]_vars
  PROVE  Types'
<1>1. Types /\ Intake!Types'
  BY ContractKept DEF IInv
<1>2. \A u \in Uploads : Size(u) \in Nat /\ FileOf[u] \in Seq(Rows)
  BY DEF Size
<1>3. CASE UNCHANGED <<blocked, extra, pc, at, tries, answer, skipped>> /\ (ready' = ready \/ ready' = TRUE)
  BY <1>1, <1>3 DEF Types
<1>4. ASSUME NEW u \in Uploads, RowStep(u) PROVE Types'
  <2>1. InLoop(u) /\ at[u] \in 1..Size(u) /\ Row(u) \in Rows
    BY <1>4, RowStores, RowInFile DEF IInv
  <2>2. PICK lead \in Leads : Done(u, lead)
    BY <1>4, RowStores
  <2>3. answer' \in [Uploads -> Seq(Leads)] /\ at' = [at EXCEPT ![u] = at[u] + 1]
    BY <1>1, <2>2, UploadTypes DEF Done, Types
  <2>4. at' \in [Uploads -> Nat] /\ \A v \in Uploads : at'[v] \in 1..(Size(v) + 1)
    BY <1>1, <1>2, <2>1, <2>3 DEF Types
  <2>5. Kept(u) \in SUBSET UNION {CellsOf[r] : r \in Rows}
    BY <1>1, <2>1, KeptTypes
  <2>6. blocked' \subseteq Slots /\ extra' \in [Leads -> SUBSET UNION {CellsOf[r] : r \in Rows}]
    <3>1. blocked \subseteq Slots /\ extra \in [Leads -> SUBSET UNION {CellsOf[r] : r \in Rows}]
      BY <1>1 DEF Types
    <3>2. \/ extra' = extra
          \/ \E l \in Leads : extra' = [extra EXCEPT ![l] = Kept(u)]
      BY <1>4, <2>1, RowExtra DEF Leads, Events
    <3>3. blocked' \subseteq Slots
      BY <1>4, <3>1, RowExtra
    <3> QED
      BY <2>5, <3>1, <3>2, <3>3
  <2>7. UNCHANGED <<ready, pc, tries, skipped>>
    BY <1>4, RowFrame
  <2> QED
    BY <1>1, <2>3, <2>4, <2>6, <2>7 DEF Types
<1>5. ASSUME NEW u \in Uploads, Move(u) PROVE Types'
  <2>1. UNCHANGED <<tables, ready, answer>>
    BY <1>5, MoveFrame
  <2>2. pc' \in [Uploads -> Places]
    BY <1>1, <1>5 DEF Move, Types, Places, Goto, RefuseFile, HaltUpload, AcceptUpload,
      EnqueueBatch, EnqueueFails, FailRequest, SkipRow, AnswerRequest, StartBatch, FinishBatch,
      InterruptBatch
  <2>3. at' \in [Uploads -> Nat] /\ \A v \in Uploads : at'[v] \in 1..(Size(v) + 1)
    <3>1. \/ at' = at \/ at' = [at EXCEPT ![u] = 1]
          \/ (at[u] <= Size(u) /\ at' = [at EXCEPT ![u] = at[u] + 1])
      BY <1>5 DEF Move, RefuseFile, HaltUpload, AcceptUpload, EnqueueBatch, EnqueueFails,
        FailRequest, SkipRow, AnswerRequest, StartBatch, FinishBatch, InterruptBatch, InLoop
    <3>2. at' \in [Uploads -> Nat]
      BY <1>1, <3>1, UploadTypes DEF Types
    <3>3. ASSUME NEW v \in Uploads PROVE at'[v] \in 1..(Size(v) + 1)
      <4>1. at'[v] \in {at[v], 1} \/ (at[v] <= Size(v) /\ at'[v] = at[v] + 1)
        BY <1>1, <3>1 DEF Types
      <4> QED
        BY <1>1, <4>1, UploadTypes
    <3> QED
      BY <3>2, <3>3
  <2>4. tries' \in [Uploads -> 0..MaxTries]
    <3>1. tries' = tries \/ (pc[u] = "queued" /\ tries' = [tries EXCEPT ![u] = @ + 1])
      BY <1>5 DEF Move, RefuseFile, HaltUpload, AcceptUpload, EnqueueBatch, EnqueueFails,
        FailRequest, SkipRow, AnswerRequest, StartBatch, FinishBatch, InterruptBatch
    <3>2. tries \in [Uploads -> 0..MaxTries]
      BY <1>1 DEF Types
    <3>3. pc[u] = "queued" => tries[u] < MaxTries
      BY DEF IInv, Placed
    <3>4. pc[u] = "queued" => tries[u] + 1 \in 0..MaxTries
      BY <3>2, <3>3, BoundAssumption
    <3> QED
      BY <3>1, <3>2, <3>4
  <2>5. skipped' \in [Uploads -> SUBSET Nat]
    <3>1. \/ skipped' = skipped \/ skipped' = [skipped EXCEPT ![u] = {}]
          \/ skipped' = [skipped EXCEPT ![u] = skipped[u] \cup {at[u]}]
      BY <1>5 DEF Move, RefuseFile, HaltUpload, AcceptUpload, EnqueueBatch, EnqueueFails,
        FailRequest, SkipRow, AnswerRequest, StartBatch, FinishBatch, InterruptBatch
    <3>2. skipped \in [Uploads -> SUBSET Nat] /\ skipped[u] \cup {at[u]} \in SUBSET Nat
      BY <1>1, UploadTypes DEF Types
    <3> QED
      BY <3>1, <3>2
  <2> QED
    BY <1>1, <2>1, <2>2, <2>3, <2>4, <2>5 DEF Types, tables
<1> QED
  BY <1>3, <1>4, <1>5, Steps

LEMMA PlacedStep ==
  ASSUME IInv, [Next]_vars
  PROVE  Placed'
<1>1. Placed /\ Types
  BY DEF IInv
<1>2. CASE UNCHANGED <<blocked, extra, pc, at, tries, answer, skipped>> /\ (ready' = ready \/ ready' = TRUE)
  BY <1>1, <1>2 DEF Placed, Ran
<1>3. ASSUME NEW u \in Uploads, RowStep(u) PROVE Placed'
  <2>1. InLoop(u) /\ \E lead : Done(u, lead)
    BY <1>3, RowStores
  <2>2. UNCHANGED <<ready, pc, tries>>
    BY <1>3, RowFrame
  <2>3. \A v \in Uploads : v # u => at'[v] = at[v] /\ answer'[v] = answer[v]
    BY <1>1, <2>1 DEF Done, Types
  <2> QED
    BY <1>1, <2>1, <2>2, <2>3 DEF Placed, Ran, InLoop
<1>4. ASSUME NEW u \in Uploads, Move(u), NEW v \in Uploads
      PROVE  /\ Ran(v)' => ready' /\ Size(v) <= MaxRows
             /\ pc'[v] \in {"request", "answered"} => Short(v)
             /\ pc'[v] \in {"queued", "batch", "ended", "dead"} => ~Short(v)
             /\ Short(v) => tries'[v] = 0
             /\ pc'[v] = "batch" => tries'[v] > 0
             /\ pc'[v] \in {"answered", "ended"} => at'[v] = Size(v) + 1
             /\ pc'[v] = "queued" => tries'[v] < MaxTries
             /\ pc'[v] = "new" => at'[v] = 1 /\ answer'[v] = <<>> /\ tries'[v] = 0
  <2>1. CASE v # u
    <3>1. pc'[v] = pc[v] /\ at'[v] = at[v] /\ tries'[v] = tries[v]
      BY <1>1, <1>4, <2>1 DEF Types, Move, Goto, RefuseFile, HaltUpload, AcceptUpload,
        EnqueueBatch, EnqueueFails, FailRequest, SkipRow, AnswerRequest, StartBatch,
        FinishBatch, InterruptBatch
    <3> QED
      BY <1>1, <1>4, <3>1, MoveFrame DEF Placed, Ran
  <2>2. CASE v = u
    <3>0. UNCHANGED <<ready, answer>>
      BY <1>4, MoveFrame
    <3> USE <1>1, <2>2, <3>0, UploadTypes DEF Types, Placed, Ran, Goto
    <3>1. CASE RefuseFile(u) \/ HaltUpload(u)
      BY <3>1 DEF RefuseFile, HaltUpload
    <3>2. CASE AcceptUpload(u) \/ EnqueueBatch(u) \/ EnqueueFails(u)
      BY <3>2 DEF AcceptUpload, EnqueueBatch, EnqueueFails, Accepted
    <3>3. CASE FailRequest(u)
      <4>1. pc[u] = "request" /\ pc'[u] = "failed" /\ at'[u] = at[u] /\ tries'[u] = tries[u]
        BY <3>3 DEF FailRequest
      <4>2. ready /\ Size(u) <= MaxRows /\ (Short(u) => tries[u] = 0)
        BY <4>1
      <4> QED
        BY <4>1, <4>2
    <3>4. CASE SkipRow(u)
      BY <3>4 DEF SkipRow
    <3>5. CASE StartBatch(u)
      BY <3>5 DEF StartBatch
    <3>6. CASE FinishBatch(u)
      <4>1. at[u] > Size(u) /\ at[u] <= Size(u) + 1 /\ at[u] \in Nat /\ Size(u) \in Nat
        BY <1>1, <3>6, UploadTypes DEF FinishBatch
      <4>2. at[u] = Size(u) + 1
        BY ONLY <4>1
      <4>3. pc[u] = "batch" /\ pc'[u] = "ended" /\ at'[u] = Size(u) + 1 /\ tries'[u] = tries[u]
        BY <3>6, <4>2 DEF FinishBatch
      <4>4. ready /\ Size(u) <= MaxRows /\ ~Short(u)
        BY <4>3
      <4>5. Short(v) <=> Short(u)
        BY <2>2
      <4> QED
        BY <4>3, <4>4, <4>5
    <3>7. CASE InterruptBatch(u)
      BY <3>7 DEF InterruptBatch
    <3>8. CASE AnswerRequest(u)
      <4>1. at[u] > Size(u) /\ at[u] <= Size(u) + 1 /\ at[u] \in Nat /\ Size(u) \in Nat
        BY <1>1, <3>8, UploadTypes DEF AnswerRequest
      <4>2. at[u] = Size(u) + 1
        BY ONLY <4>1
      <4>3. pc[u] = "request" /\ pc'[u] = "answered" /\ at'[u] = Size(u) + 1 /\ tries'[u] = tries[u]
        BY <3>8, <4>2 DEF AnswerRequest
      <4>4. ready /\ Size(u) <= MaxRows /\ Short(u) /\ tries[u] = 0
        BY <4>3
      <4>5. Short(v) <=> Short(u)
        BY <2>2
      <4> QED
        BY <4>3, <4>4, <4>5
    <3> QED
      BY <1>4, <3>1, <3>2, <3>3, <3>4, <3>5, <3>6, <3>7, <3>8 DEF Move
  <2> QED
    BY <2>1, <2>2
<1>5. ASSUME NEW u \in Uploads, Move(u) PROVE Placed'
  BY <1>4, <1>5 DEF Placed
<1> QED
  BY <1>2, <1>3, <1>5, Steps

LEMMA PursuedStep ==
  ASSUME IInv, [Next]_vars
  PROVE  RowsPursued'
<1>1. RowsPursued /\ Types /\ Intake!Types
  BY DEF IInv, Types
<1>2. outcome \in [Events -> Intake!Outcome] /\ contactOf \in [Events -> Events \cup {None}]
      /\ Rows \subseteq Events
  BY <1>1 DEF Intake!Types, Events
<1>3. ASSUME NEW e \in Messages, OtherIntake(e) PROVE RowsPursued'
  <2>1. \A r \in Rows : r # e /\ outcome'[r] = outcome[r] /\ contactOf'[r] = contactOf[r]
    BY <1>2, <1>3 DEF OtherIntake, Intake!Capture, Intake!Attach, Intake!Close, Intake!Reject,
      Intake!Settle, Events
  <2> QED
    BY <1>1, <2>1 DEF RowsPursued
<1>4. ASSUME NEW u \in Uploads, CaptureRow(u) PROVE RowsPursued'
  <2>1. Row(u) \in Events /\ Intake!Capture(Row(u), Row(u))
    BY <1>1, <1>4, RowInFile DEF CaptureRow, Identified, Sound, Events
  <2> QED
    BY <1>1, <1>2, <2>1 DEF RowsPursued, Intake!Capture, Intake!Settle
<1>5. ASSUME NEW u \in Uploads, AttachRow(u) PROVE RowsPursued'
  <2>1. \E lead \in Events : Intake!Attach(Row(u), lead)
    BY <1>5 DEF AttachRow
  <2> QED
    BY <1>1, <1>2, <2>1 DEF RowsPursued, Intake!Attach, Intake!Settle
<1>6. CASE UNCHANGED <<outcome, contactOf>>
  BY <1>1, <1>6 DEF RowsPursued
<1>7. ASSUME NEW u \in Uploads, Move(u) \/ BlockRow(u) \/ RedeliverRow(u)
      PROVE  UNCHANGED <<outcome, contactOf>>
  BY <1>7, MoveFrame DEF tables, intake, BlockRow, RedeliverRow
<1>8. ASSUME TenantActivates \/ UNCHANGED vars \/ \E e \in Messages : ReturnReceived(e)
      PROVE  UNCHANGED <<outcome, contactOf>>
  BY <1>8 DEF TenantActivates, ReturnReceived, Intake!Announce, tables, intake, vars
<1> QED
  BY <1>3, <1>4, <1>5, <1>6, <1>7, <1>8 DEF Next, UploadStep, Move

\* What a row step does to its own upload and to the others.
LEMMA DoneAt ==
  ASSUME Types, NEW u \in Uploads, NEW lead \in Leads, Done(u, lead)
  PROVE  /\ at'[u] = at[u] + 1
         /\ pc[u] = "request" => answer'[u] = Append(answer[u], lead)
         /\ \A v \in Uploads : v # u => at'[v] = at[v] /\ answer'[v] = answer[v]
BY DEF Done, Types

\* Moves start a request with nothing collected, and never change a row's place
\* in a running one.
LEMMA MovePlaces ==
  ASSUME IInv, NEW u \in Uploads, Move(u), NEW v \in Uploads
  PROVE  /\ answer' = answer
         /\ pc'[v] \in {"request", "answered"} =>
              \/ pc[v] \in {"request", "answered"} /\ at'[v] = at[v]
              \/ at'[v] = 1 /\ answer[v] = <<>>
         /\ pc'[v] \in {"batch", "ended"} =>
              \/ /\ pc[v] \in {"batch", "ended"} /\ tries'[v] = tries[v]
                 /\ at'[v] = at[v] /\ skipped'[v] = skipped[v]
              \/ /\ pc[v] \in {"batch", "ended"} /\ tries'[v] = tries[v]
                 /\ at'[v] = at[v] + 1 /\ skipped'[v] = skipped[v] \cup {at[v]}
              \/ at'[v] = 1
         /\ Ran(v) => Ran(v)'
         /\ tries[v] \in Nat /\ tries'[v] >= tries[v]
<1>1. Types /\ answer' = answer
  BY MoveFrame DEF IInv
<1>2. pc[v] = "new" => at[v] = 1 /\ answer[v] = <<>>
  BY DEF IInv, Placed
<1>3. tries[v] \in Nat
  BY <1>1, UploadTypes
<1>4. CASE v # u
  <2>1. UNCHANGED <<pc[v], at[v], tries[v], skipped[v]>>
    BY <1>1, <1>4 DEF Types, Move, Goto, RefuseFile, HaltUpload, AcceptUpload,
      EnqueueBatch, EnqueueFails, FailRequest, SkipRow, AnswerRequest, StartBatch,
      FinishBatch, InterruptBatch
  <2> QED
    BY <1>1, <1>3, <2>1 DEF Ran
<1>5. CASE v = u
  BY <1>1, <1>2, <1>3, <1>5 DEF Ran, Types, Move, Goto, RefuseFile, HaltUpload, AcceptUpload,
    EnqueueBatch, EnqueueFails, FailRequest, SkipRow, AnswerRequest, StartBatch,
    FinishBatch, InterruptBatch, Accepted
<1> QED
  BY <1>4, <1>5

LEMMA CollectedStep ==
  ASSUME IInv, [Next]_vars
  PROVE  Collected'
<1>1. Collected /\ Types /\ Placed
  BY DEF IInv
<1>2. SUFFICES ASSUME NEW v \in Uploads, pc'[v] \in {"request", "answered"}
               PROVE  /\ Len(answer'[v]) = at'[v] - 1
                      /\ \A i \in 1..(at'[v] - 1) : HeldBy(v, 0, i, answer[v][i])'
  BY DEF Collected
<1>3. \A i, lead : HeldBy(v, 0, i, lead) => HeldBy(v, 0, i, lead)'
  BY HeldStays
<1>4. CASE UNCHANGED <<blocked, extra, pc, at, tries, answer, skipped>>
  <2>1. Len(answer[v]) = at[v] - 1 /\ \A i \in 1..(at[v] - 1) : HeldBy(v, 0, i, answer[v][i])
    BY <1>1, <1>2, <1>4 DEF Collected
  <2> QED
    BY <1>3, <1>4, <2>1 DEF HeldBy
<1>5. ASSUME NEW u \in Uploads, RowStep(u)
      PROVE  /\ Len(answer'[v]) = at'[v] - 1
             /\ \A i \in 1..(at'[v] - 1) : HeldBy(v, 0, i, answer[v][i])'
  <2>1. pc' = pc /\ pc[v] \in {"request", "answered"}
    BY <1>2, <1>5, RowFrame
  <2>2. Len(answer[v]) = at[v] - 1 /\ \A i \in 1..(at[v] - 1) : HeldBy(v, 0, i, answer[v][i])
    BY <1>1, <2>1 DEF Collected
  <2>3. PICK lead \in Leads : /\ Done(u, lead)
                              /\ \A t, i : t = tries[u] /\ i = at[u] => HeldBy(u, t, i, lead)'
    BY <1>5, RowStores
  <2>4. InLoop(u)
    BY <1>5, RowStores
  <2>5. CASE v # u
    <3>1. at'[v] = at[v] /\ answer'[v] = answer[v]
      BY <1>1, <2>3, <2>5, DoneAt
    <3> QED
      BY <1>3, <2>2, <3>1 DEF HeldBy
  <2>6. CASE v = u
    <3>1. pc[u] = "request" /\ tries[u] = 0
      BY <1>1, <2>1, <2>4, <2>6 DEF InLoop, Placed
    <3>2. at'[v] = at[v] + 1 /\ answer'[v] = Append(answer[v], lead)
      BY <1>1, <2>3, <2>6, <3>1, DoneAt
    <3>3. at[v] \in Nat /\ answer[v] \in Seq(Leads)
      BY <1>1, UploadTypes
    <3>4. Len(answer'[v]) = at'[v] - 1 /\ answer'[v][at[v]] = lead
      BY <2>2, <3>2, <3>3
    <3>5. \A i \in 1..(at[v] - 1) : answer'[v][i] = answer[v][i]
      BY <2>2, <3>2, <3>3
    <3>6. \A i \in 1..(at'[v] - 1) : i \in 1..(at[v] - 1) \/ i = at[v]
      BY <3>2, <3>3
    <3>7. \A i : i = at[v] => HeldBy(v, 0, i, lead)'
      BY <2>3, <2>6, <3>1
    <3> QED
      BY <1>3, <2>2, <3>4, <3>5, <3>6, <3>7 DEF HeldBy
  <2> QED
    BY <2>5, <2>6
<1>6. ASSUME NEW u \in Uploads, Move(u)
      PROVE  /\ Len(answer'[v]) = at'[v] - 1
             /\ \A i \in 1..(at'[v] - 1) : HeldBy(v, 0, i, answer[v][i])'
  <2>1. answer' = answer
    BY <1>6, MovePlaces
  <2>2. CASE pc[v] \in {"request", "answered"} /\ at'[v] = at[v]
    <3>1. Len(answer[v]) = at[v] - 1 /\ \A i \in 1..(at[v] - 1) : HeldBy(v, 0, i, answer[v][i])
      BY <1>1, <2>2 DEF Collected
    <3> QED
      BY <1>3, <2>1, <2>2, <3>1 DEF HeldBy
  <2>3. CASE at'[v] = 1 /\ answer[v] = <<>>
    BY <2>1, <2>3
  <2> QED
    BY <1>2, <1>6, <2>2, <2>3, MovePlaces
<1> QED
  BY <1>4, <1>5, <1>6, Steps

LEMMA AccountedStep ==
  ASSUME IInv, [Next]_vars
  PROVE  Accounted'
<1>1. Accounted /\ Types /\ Placed
  BY DEF IInv
<1>2. SUFFICES ASSUME NEW v \in Uploads, pc'[v] \in {"batch", "ended"},
                      NEW i \in 1..(at'[v] - 1), i \notin skipped'[v]
               PROVE  \E lead \in Leads : HeldBy(v, tries[v], i, lead)'
  BY DEF Accounted
<1>3. at[v] \in Nat
  BY <1>1, UploadTypes
<1>4. ASSUME pc[v] \in {"batch", "ended"}, tries'[v] = tries[v], i \in 1..(at[v] - 1),
             i \notin skipped[v]
      PROVE  \E lead \in Leads : HeldBy(v, tries[v], i, lead)'
  <2>1. PICK lead \in Leads : HeldBy(v, tries[v], i, lead)
    BY <1>1, <1>4 DEF Accounted
  <2>2. \A t : HeldBy(v, t, i, lead) => HeldBy(v, t, i, lead)'
    BY HeldStays
  <2> QED
    BY <1>4, <2>1, <2>2 DEF HeldBy
<1>5. CASE UNCHANGED <<blocked, extra, pc, at, tries, answer, skipped>>
  BY <1>2, <1>4, <1>5
<1>6. ASSUME NEW u \in Uploads, RowStep(u)
      PROVE  \E lead \in Leads : HeldBy(v, tries[v], i, lead)'
  <2>1. UNCHANGED <<pc, tries, skipped>>
    BY <1>6, RowFrame
  <2>2. PICK lead \in Leads : /\ Done(u, lead)
                              /\ \A t, k : t = tries[u] /\ k = at[u] => HeldBy(u, t, k, lead)'
    BY <1>6, RowStores
  <2>3. at'[u] = at[u] + 1 /\ (v # u => at'[v] = at[v])
    BY <1>1, <2>2, DoneAt
  <2>4. CASE i \in 1..(at[v] - 1)
    BY <1>2, <1>4, <2>1, <2>4
  <2>5. CASE i \notin 1..(at[v] - 1)
    <3>1. v = u /\ i = at[u]
      BY <1>2, <1>3, <2>3, <2>5
    <3> QED
      BY <2>1, <2>2, <3>1 DEF HeldBy
  <2> QED
    BY <2>4, <2>5
<1>7. ASSUME NEW u \in Uploads, Move(u)
      PROVE  \E lead \in Leads : HeldBy(v, tries[v], i, lead)'
  BY <1>2, <1>3, <1>4, <1>7, MovePlaces
<1> QED
  BY <1>5, <1>6, <1>7, Steps

LEMMA SourcedStep ==
  ASSUME IInv, [Next]_vars
  PROVE  Sourced'
<1>1. Sourced /\ Types /\ Intake!Types
  BY DEF IInv, Types
<1>2. \A v \in Uploads : Ran(v) => Ran(v)'
  <2>1. CASE UNCHANGED pc
    BY <2>1 DEF Ran
  <2>2. ASSUME NEW u \in Uploads, Move(u) PROVE \A v \in Uploads : Ran(v) => Ran(v)'
    BY <2>2, MovePlaces
  <2>3. ASSUME NEW u \in Uploads, RowStep(u) PROVE UNCHANGED pc
    BY <2>3, RowFrame
  <2> QED
    BY <2>1, <2>2, <2>3, Steps
<1>3. outcome \in [Events -> Intake!Outcome] /\ Rows \subseteq Events /\ blocked \subseteq Slots
  BY <1>1 DEF Types, Intake!Types, Events
<1>4. \A slot \in Slots : slot[1] \in Uploads
  BY DEF Slots
<1>5. ASSUME blocked' = blocked,
             \A r \in Rows : outcome'[r] # "open" =>
               \/ outcome[r] # "open"
               \/ \E u \in Uploads : Ran(u) /\ \E i \in 1..Size(u) : FileOf[u][i] = r
      PROVE  Sourced'
  BY <1>1, <1>2, <1>3, <1>4, <1>5 DEF Sourced
<1>6. ASSUME NEW u \in Uploads, InLoop(u)
      PROVE  Ran(u) /\ \E i \in 1..Size(u) : FileOf[u][i] = Row(u)
  BY <1>1, <1>6, RowInFile DEF InLoop, Ran
<1>7. ASSUME NEW e \in Messages, OtherIntake(e) PROVE Sourced'
  <2>1. \A r \in Rows : r # e /\ outcome'[r] = outcome[r]
    BY <1>3, <1>7 DEF OtherIntake, Intake!Capture, Intake!Attach, Intake!Close, Intake!Reject,
      Intake!Settle
  <2> QED
    BY <1>5, <1>7, <2>1 DEF OtherIntake
<1>8. ASSUME NEW u \in Uploads, CaptureRow(u) \/ AttachRow(u) PROVE Sourced'
  <2>1. InLoop(u) /\ blocked' = blocked
    BY <1>8 DEF CaptureRow, AttachRow, Identified, Sound
  <2>2. \A r \in Rows : r # Row(u) => outcome'[r] = outcome[r]
    BY <1>3, <1>8 DEF CaptureRow, AttachRow, Intake!Capture, Intake!Attach, Intake!Settle
  <2> QED
    BY <1>5, <1>6, <2>1, <2>2
<1>9. ASSUME NEW u \in Uploads, BlockRow(u) PROVE Sourced'
  <2>1. /\ InLoop(u) /\ outcome' = outcome
        /\ blocked' = blocked \cup {<<u, tries[u], at[u]>>}
    BY <1>9 DEF BlockRow, Sound, intake
  <2>2. Ran(u) /\ <<u, tries[u], at[u]>>[1] = u
    BY <1>6, <2>1
  <2> QED
    BY <1>1, <1>2, <1>3, <1>4, <2>1, <2>2 DEF Sourced
<1>10. CASE UNCHANGED <<outcome, blocked>>
  BY <1>5, <1>10
<1>11. ASSUME NEW u \in Uploads, Move(u) \/ RedeliverRow(u)
       PROVE  UNCHANGED <<outcome, blocked>>
  BY <1>11, MoveFrame DEF tables, intake, RedeliverRow
<1>12. ASSUME TenantActivates \/ UNCHANGED vars \/ \E e \in Messages : ReturnReceived(e)
       PROVE  UNCHANGED <<outcome, blocked>>
  BY <1>12 DEF TenantActivates, ReturnReceived, Intake!Announce, tables, intake, vars
<1> QED
  BY <1>7, <1>8, <1>9, <1>10, <1>11, <1>12 DEF Next, UploadStep, Move

\* An outcome is for good.
LEMMA ContactStays ==
  ASSUME IInv, [Next]_vars, NEW e \in Events, outcome[e] # "open"
  PROVE  outcome'[e] = outcome[e] /\ contactOf'[e] = contactOf[e]
<1>1. outcome \in [Events -> Intake!Outcome] /\ contactOf \in [Events -> Events \cup {None}]
  BY DEF IInv, Types, Intake!Types
<1>2. [Intake!Next]_intake
  BY ContractStep DEF IInv
<1> QED
  BY <1>1, <1>2 DEF Intake!Next, Intake!Reject, Intake!Capture, Intake!Attach, Intake!Close,
    Intake!Announce, Intake!Settle, intake

\* The lead collected for an identified row is the one the row came to.
LEMMA RowAnswers ==
  ASSUME IInv, NEW u \in Uploads, RowStep(u)
  PROVE  \E lead \in Leads : /\ Done(u, lead)
                             /\ Row(u) \notin Anonymous =>
                                  outcome'[Row(u)] # "open" /\ contactOf'[Row(u)] = lead
<1>1. InLoop(u) /\ Row(u) \in Events /\ Row(u) \in Rows
  BY RowStores, RowInFile DEF IInv, Events
<1>2. outcome \in [Events -> Intake!Outcome] /\ contactOf \in [Events -> Events \cup {None}]
  BY DEF IInv, Types, Intake!Types
<1>3. CASE BlockRow(u)
  BY <1>3, RowStores DEF BlockRow
<1>4. CASE CaptureRow(u)
  BY <1>1, <1>2, <1>4 DEF CaptureRow, Intake!Capture, Intake!Settle, Leads
<1>5. CASE AttachRow(u)
  BY <1>1, <1>2, <1>5 DEF AttachRow, Intake!Attach, Intake!Settle, Leads
<1>6. CASE RedeliverRow(u)
  <2>1. outcome[Row(u)] # "open" /\ Done(u, contactOf[Row(u)])
        /\ outcome' = outcome /\ contactOf' = contactOf
    BY <1>6 DEF RedeliverRow, tables, intake
  <2>2. contactOf[Row(u)] \in Leads
    BY <1>1, <2>1 DEF IInv, RowsPursued, Leads
  <2> QED
    BY <2>1, <2>2
<1> QED
  BY <1>3, <1>4, <1>5, <1>6 DEF RowStep

LEMMA RememberedStep ==
  ASSUME IInv, [Next]_vars
  PROVE  Remembered'
<1>1. Remembered /\ Types /\ Collected
  BY DEF IInv
<1>2. SUFFICES ASSUME NEW v \in Uploads, pc'[v] \in {"request", "answered"},
                      NEW i \in 1..(at'[v] - 1), FileOf[v][i] \notin Anonymous
               PROVE  /\ outcome'[FileOf[v][i]] # "open"
                      /\ answer'[v][i] = contactOf'[FileOf[v][i]]
  BY DEF Remembered
<1>3. /\ at[v] \in Nat /\ at'[v] \in Nat /\ Size(v) \in Nat /\ at'[v] <= Size(v) + 1
      /\ answer[v] \in Seq(Leads)
  <2>1. at'[v] \in Nat /\ at'[v] \in 1..(Size(v) + 1)
    BY TypesStep DEF Types, Size
  <2> QED
    BY <1>1, <2>1, UploadTypes
<1>4. i \in 1..Size(v) /\ FileOf[v][i] \in Events
  BY <1>3, UploadTypes, <1>1 DEF Size, Events
\* A row collected before this step.
<1>5. ASSUME pc[v] \in {"request", "answered"}, i \in 1..(at[v] - 1),
             answer'[v][i] = answer[v][i]
      PROVE  outcome'[FileOf[v][i]] # "open" /\ answer'[v][i] = contactOf'[FileOf[v][i]]
  BY <1>1, <1>2, <1>4, <1>5, ContactStays DEF Remembered
<1>6. CASE UNCHANGED <<blocked, extra, pc, at, tries, answer, skipped>>
  BY <1>2, <1>5, <1>6
<1>7. ASSUME NEW u \in Uploads, RowStep(u)
      PROVE  outcome'[FileOf[v][i]] # "open" /\ answer'[v][i] = contactOf'[FileOf[v][i]]
  <2>1. pc' = pc /\ InLoop(u)
    BY <1>7, RowFrame, RowStores
  <2>2. PICK lead \in Leads : /\ Done(u, lead)
                              /\ Row(u) \notin Anonymous =>
                                   outcome'[Row(u)] # "open" /\ contactOf'[Row(u)] = lead
    BY <1>7, RowAnswers
  <2>3. CASE v # u
    BY <1>1, <1>2, <1>5, <2>1, <2>2, <2>3, DoneAt
  <2>4. CASE v = u
    <3>1. Len(answer[v]) = at[v] - 1
      BY <1>1, <1>2, <2>1 DEF Collected
    <3>2. pc[u] = "request"
      BY <1>2, <2>1, <2>4 DEF InLoop
    <3>3. at'[v] = at[v] + 1 /\ answer'[v] = Append(answer[v], lead)
      BY <1>1, <2>2, <2>4, <3>2, DoneAt
    <3>4. CASE i = at[v]
      <4>1. answer'[v][i] = lead /\ FileOf[v][i] = Row(u)
        BY <1>3, <2>4, <3>1, <3>3, <3>4 DEF Row
      <4> QED
        BY <1>2, <2>2, <4>1
    <3>5. CASE i # at[v]
      <4>1. i \in 1..(at[v] - 1)
        BY <1>2, <1>3, <3>3, <3>5
      <4>2. answer'[v][i] = answer[v][i]
        BY <1>3, <3>1, <3>3, <4>1
      <4> QED
        BY <1>2, <1>5, <2>1, <4>1, <4>2
    <3> QED
      BY <3>4, <3>5
  <2> QED
    BY <2>3, <2>4
<1>8. ASSUME NEW u \in Uploads, Move(u)
      PROVE  outcome'[FileOf[v][i]] # "open" /\ answer'[v][i] = contactOf'[FileOf[v][i]]
  BY <1>2, <1>5, <1>8, MovePlaces
<1> QED
  BY <1>6, <1>7, <1>8, Steps

LEMMA HarmlessStep ==
  ASSUME IInv, [Next]_vars
  PROVE  HarmlessStays'
<1>1. HarmlessStays /\ Types /\ Intake!Types
  BY DEF IInv, Types
<1>2. /\ outcome \in [Events -> Intake!Outcome] /\ Rows \subseteq Events
      /\ extra \in [Leads -> SUBSET UNION {CellsOf[r] : r \in Rows}]
      /\ Events \subseteq Leads /\ Events \cap Slots = {}
  BY <1>1 DEF Types, Intake!Types, Events, Leads
<1>3. ASSUME \A r \in Rows : extra'[r] = extra[r],
             \A r \in Rows : outcome'[r] = "received" => outcome[r] = "received"
      PROVE  HarmlessStays'
  BY <1>1, <1>3 DEF HarmlessStays, Harmless
<1>4. ASSUME NEW u \in Uploads, RowStep(u) PROVE HarmlessStays'
  <2>1. CASE CaptureRow(u)
    <3>1. /\ InLoop(u) /\ Row(u) \in Rows
          /\ extra' = [extra EXCEPT ![Row(u)] = Kept(u)]
          /\ outcome' = [outcome EXCEPT ![Row(u)] = "received"]
      BY <1>1, <2>1, RowInFile DEF CaptureRow, Identified, Sound, Intake!Capture, Intake!Settle
    <3>2. Harmless[Row(u)] \subseteq Kept(u)
      BY <1>1, <3>1, KeptTypes
    <3>3. extra'[Row(u)] = Kept(u) /\ \A r \in Rows : r # Row(u) =>
            extra'[r] = extra[r] /\ outcome'[r] = outcome[r]
      BY <1>2, <3>1
    <3> QED
      BY <1>1, <3>1, <3>2, <3>3 DEF HarmlessStays, Harmless
  <2>2. CASE BlockRow(u)
    <3>1. \E slot \in Slots : extra' = [extra EXCEPT ![slot] = Kept(u)]
      BY <1>4, <2>2, BlockedSlot
    <3>2. outcome' = outcome
      BY <2>2 DEF BlockRow, intake
    <3> QED
      BY <1>2, <1>3, <3>1, <3>2
  <2>3. CASE AttachRow(u)
    BY <1>2, <1>3, <2>3 DEF AttachRow, Intake!Attach, Intake!Settle
  <2>4. CASE RedeliverRow(u)
    BY <1>3, <2>4 DEF RedeliverRow, tables, intake
  <2> QED
    BY <1>4, <2>1, <2>2, <2>3, <2>4 DEF RowStep
<1>5. ASSUME NEW e \in Messages, OtherIntake(e) PROVE HarmlessStays'
  <2>1. \A r \in Rows : r # e /\ outcome'[r] = outcome[r]
    BY <1>2, <1>5 DEF OtherIntake, Intake!Capture, Intake!Attach, Intake!Close, Intake!Reject,
      Intake!Settle
  <2> QED
    BY <1>3, <1>5, <2>1 DEF OtherIntake
<1>6. ASSUME NEW u \in Uploads, Move(u) PROVE HarmlessStays'
  BY <1>3, <1>6, MoveFrame DEF tables, intake
<1>7. ASSUME TenantActivates \/ UNCHANGED vars \/ \E e \in Messages : ReturnReceived(e)
      PROVE  HarmlessStays'
  BY <1>3, <1>7 DEF TenantActivates, ReturnReceived, Intake!Announce, tables, intake, vars
<1> QED
  BY <1>4, <1>5, <1>6, <1>7 DEF Next, UploadStep, Move, RowStep

LEMMA InvPreserved == IInv /\ [Next]_vars => IInv'
BY ContractKept, TypesStep, PlacedStep, PursuedStep, CollectedStep, AccountedStep, SourcedStep,
  RememberedStep, HarmlessStep DEF IInv

-----------------------------------------------------------------------------
(* The theorems.                                                           *)

LEMMA Invariance == Spec => []IInv
BY InitInv, InvPreserved, PTL DEF Spec

\* Every reachable state is well formed.
THEOREM TypeCorrect == Spec => []Types
<1>1. IInv => Types
  BY DEF IInv
<1> QED
  BY <1>1, Invariance, PTL

\* The answer to a request lists a lead for each of its rows (handle_file_upload).
THEOREM AnswerSafety == Spec => []AnswerCoversFile
<1>1. IInv => AnswerCoversFile
  <2> SUFFICES ASSUME IInv, NEW u \in Uploads, pc[u] = "answered"
               PROVE  /\ Len(answer[u]) = Size(u)
                      /\ \A i \in 1..Size(u) : HeldBy(u, 0, i, answer[u][i])
    BY DEF AnswerCoversFile
  <2>1. at[u] = Size(u) + 1 /\ Size(u) \in Nat
    BY UploadTypes DEF IInv, Placed
  <2>2. at[u] - 1 = Size(u)
    BY ONLY <2>1
  <2> QED
    BY <2>2 DEF IInv, Collected
<1> QED
  BY <1>1, Invariance, PTL

\* A job that ended has a lead or a logged failure for each of its rows
\* (run_lead_capture_batch).
THEOREM BatchSafety == Spec => []BatchAccounted
<1>1. IInv => BatchAccounted
  <2> SUFFICES ASSUME IInv, NEW u \in Uploads, pc[u] = "ended"
               PROVE  \A i \in 1..Size(u) \ skipped[u] :
                        \E lead \in Leads : HeldBy(u, tries[u], i, lead)
    BY DEF BatchAccounted
  <2>1. at[u] = Size(u) + 1 /\ Size(u) \in Nat
    BY UploadTypes DEF IInv, Placed
  <2>2. at[u] - 1 = Size(u)
    BY ONLY <2>1
  <2> QED
    BY <2>2 DEF IInv, Accounted
<1> QED
  BY <1>1, Invariance, PTL

\* Refused uploads write nothing (handle_file_upload, check_pre_flight).
THEOREM RefusalSafety == Spec => []RefusedWritesNothing
<1>1. IInv => RefusedWritesNothing
  <2> SUFFICES ASSUME IInv PROVE RefusedWritesNothing
    OBVIOUS
  <2>1. \A slot \in blocked : slot[1] \in Uploads
    BY DEF IInv, Types, Slots
  <2> QED
    BY <2>1 DEF IInv, RefusedWritesNothing, Sourced, Placed, Ran
<1> QED
  BY <1>1, Invariance, PTL

\* Two answers name one lead for a row they share, whatever happened between
\* the uploads (handle_file_upload, run_capture).
THEOREM ReuploadSafety == Spec => []ReuploadAgrees
<1>1. IInv => ReuploadAgrees
  <2> SUFFICES ASSUME IInv, NEW u \in Uploads, NEW v \in Uploads,
                      pc[u] = "answered", pc[v] = "answered"
               PROVE  \A i \in 1..Size(u), j \in 1..Size(v) :
                        FileOf[u][i] = FileOf[v][j] /\ FileOf[u][i] \notin Anonymous
                          => answer[u][i] = answer[v][j]
    BY Zenon DEF ReuploadAgrees
  <2>1. /\ at[u] = Size(u) + 1 /\ Size(u) \in Nat
        /\ at[v] = Size(v) + 1 /\ Size(v) \in Nat
    BY UploadTypes DEF IInv, Placed
  <2>2. at[u] - 1 = Size(u) /\ at[v] - 1 = Size(v)
    BY ONLY <2>1
  <2> QED
    BY <2>2 DEF IInv, Remembered
<1> QED
  BY <1>1, Invariance, PTL

\* A number that is held back is told from its slips by the check digit.
LEMMA HeldBackIsSlipProof ==
  ASSUME NEW r \in Rows
  PROVE  Numbers[r] \ Harmless[r] \subseteq SlipProof[r]
<1> SUFFICES ASSUME NEW cell \in Numbers[r], cell \notin Harmless[r]
             PROVE  cell \in SlipProof[r]
  OBVIOUS
<1>1. /\ cell \in CellsOf[r] /\ Len(cell) \in 13..19
      /\ \A k \in 1..Len(cell) : cell[k] \in Digit
  BY DEF Numbers
<1>2. cell \in Seq(Digit)
  <2>1. cell \in Seq(Character) /\ \A k \in 1..Len(cell) : cell[k] \in Digit
    BY <1>1
  <2> HIDE DEF Numbers
  <2> QED
    BY ONLY <2>1, TextOver
<1>3. Regulated(cell)
  BY <1>1 DEF Harmless, Strip
<1>4. HasCard(cell)
  BY <1>1, <1>2, <1>3, DigitsRegulated, CardsOfDigits
<1>5. \A k \in 1..Len(cell), d \in Digit : d # cell[k] => ~Regulated([cell EXCEPT ![k] = d])
  BY <1>2, <1>4, SlipIsHarmless
<1> QED
  BY <1>5 DEF SlipProof

\* A captured row has lost a long number only if every slip of it would have been
\* stored (_luhn_valid, strip_sensitive_fields), whatever stands in the files.
THEOREM SlipSafety == Spec => []SlipsAreKept
<1>1. IInv => SlipsAreKept
  <2> SUFFICES ASSUME IInv, NEW r \in Rows, outcome[r] = "received"
               PROVE  Numbers[r] \ extra[r] \subseteq SlipProof[r]
    BY DEF SlipsAreKept
  <2>1. Harmless[r] \subseteq extra[r]
    BY DEF IInv, HarmlessStays
  <2> QED
    BY <2>1, HeldBackIsSlipProof
<1> QED
  BY <1>1, Invariance, PTL

-----------------------------------------------------------------------------
(* An upload runs down.                                                    *)

\* The most steps an upload can take before its request or its attempt is over.
Ahead(u) == [new |-> Size(u) + 3, request |-> Size(u) + 2 - at[u],
             batch |-> Size(u) + 3 - at[u], queued |-> 1,
             refused |-> 0, failed |-> 0, answered |-> 0, ended |-> 0, dead |-> 0][pc[u]]

\* With the attempts the queue has still to give its job.
StepsLeft(u) == (Size(u) + 2) * (MaxTries - tries[u]) + Ahead(u)

CountsAreNat == \A u \in Uploads : StepsLeft(u) \in Nat

UploadsGoDown ==
  \A u \in Uploads : /\ UploadStep(u) \/ InterruptBatch(u) => StepsLeft(u)' < StepsLeft(u)
                     /\ StepsLeft(u)' <= StepsLeft(u)

\* Every step of a loop over a file, skipped rows, failures and interruptions
\* included, lowers a natural number that no other step raises.
RunsDown == []CountsAreNat /\ [][UploadsGoDown]_vars

LEMMA AheadIsNat ==
  ASSUME Types, NEW u \in Uploads
  PROVE  /\ Ahead(u) \in Nat
         /\ pc[u] = "batch" => Ahead(u) > 1
BY UploadTypes DEF Ahead, Types, Places

AheadsAreNat == \A u \in Uploads : Ahead(u) \in Nat

LEMMA AheadCounts == Types => AheadsAreNat
BY AheadIsNat DEF AheadsAreNat

LEMMA CountIsNat == Types => CountsAreNat
<1> SUFFICES ASSUME Types, NEW u \in Uploads PROVE StepsLeft(u) \in Nat
  BY DEF CountsAreNat
<1>1. Size(u) + 2 \in Nat /\ MaxTries - tries[u] \in Nat /\ Ahead(u) \in Nat
  BY AheadIsNat, UploadTypes
<1>2. \A a, b, c \in Nat : a * b + c \in Nat
  OBVIOUS
<1> QED
  BY <1>1, <1>2 DEF StepsLeft

\* One step on its way, or an attempt begun.
LEMMA OneStepDown ==
  ASSUME Types, Types', NEW u \in Uploads,
         \/ tries'[u] = tries[u] /\ Ahead(u)' < Ahead(u)
         \/ tries'[u] = tries[u] + 1 /\ Ahead(u)' < Size(u) + 2 + Ahead(u)
  PROVE  StepsLeft(u)' < StepsLeft(u)
<1>1. /\ Size(u) + 2 \in Nat /\ MaxTries \in Nat /\ tries[u] \in Nat
      /\ Ahead(u) \in Nat
  BY AheadIsNat, UploadTypes
<1>2. Ahead(u)' \in Nat
  <2>1. Types' => AheadsAreNat'
    BY AheadCounts, PTL
  <2> QED
    BY <2>1 DEF AheadsAreNat
<1>3. \A k, m, t, a, b \in Nat :
        /\ a < b => k * (m - t) + a < k * (m - t) + b
        /\ a < k + b => k * (m - (t + 1)) + a < k * (m - t) + b
  <2> SUFFICES ASSUME NEW k \in Nat, NEW m \in Nat, NEW t \in Nat, NEW a \in Nat, NEW b \in Nat
               PROVE  /\ a < b => k * (m - t) + a < k * (m - t) + b
                      /\ a < k + b => k * (m - (t + 1)) + a < k * (m - t) + b
    OBVIOUS
  <2>1. k * (m - t) \in Int
    OBVIOUS
  <2>2. k * (m - (t + 1)) = k * (m - t) - k
    OBVIOUS
  <2> QED
    BY <2>1, <2>2
<1>5. StepsLeft(u)' = (Size(u) + 2) * (MaxTries - tries'[u]) + Ahead(u)'
  BY DEF StepsLeft, Size
<1> QED
  BY <1>1, <1>2, <1>3, <1>5 DEF StepsLeft

LEMMA RunDownStep ==
  ASSUME IInv, [Next]_vars
  PROVE  UploadsGoDown
<1>0. Types /\ CountsAreNat /\ Types'
  BY TypesStep, CountIsNat DEF IInv
<1>a. Types' => CountsAreNat'
  BY CountIsNat, PTL
<1>b. \A u \in Uploads : StepsLeft(u) \in Nat /\ StepsLeft(u)' \in Nat
  BY <1>0, <1>a DEF CountsAreNat
<1>1. ASSUME NEW u \in Uploads, RowStep(u) PROVE StepsLeft(u)' < StepsLeft(u)
  <2>1. PICK lead \in Leads : InLoop(u) /\ Done(u, lead)
    BY <1>1, RowStores
  <2>2. tries' = tries /\ pc' = pc /\ at'[u] = at[u] + 1 /\ pc[u] \in {"request", "batch"}
    BY <1>0, <2>1 DEF Done, InLoop, Types
  <2>3. Ahead(u)' < Ahead(u)
    BY <1>0, <2>2, UploadTypes DEF Ahead, Size
  <2> QED
    BY <1>0, <2>2, <2>3, OneStepDown
<1>2. ASSUME NEW u \in Uploads, Move(u) PROVE StepsLeft(u)' < StepsLeft(u)
  <2>0. Size(u) \in Nat /\ at[u] \in Nat /\ 1 <= at[u] /\ at[u] <= Size(u) + 1
    BY <1>0, UploadTypes
  <2>1. CASE StartBatch(u)
    <3>1. /\ tries'[u] = tries[u] + 1 /\ at'[u] = 1 /\ pc[u] = "queued"
          /\ pc'[u] \in {"batch", "ended"}
      BY <1>0, <2>1 DEF StartBatch, Goto, Types
    <3>2. Ahead(u)' < Size(u) + 2 + Ahead(u)
      BY <2>0, <3>1 DEF Ahead, Size
    <3> QED
      BY <1>0, <3>1, <3>2, OneStepDown
  <2>2. CASE SkipRow(u)
    <3>1. tries' = tries /\ pc' = pc /\ at'[u] = at[u] + 1 /\ pc[u] = "batch"
      BY <1>0, <2>2 DEF SkipRow, Types
    <3>2. Ahead(u)' < Ahead(u)
      BY <2>0, <3>1 DEF Ahead, Size
    <3> QED
      BY <1>0, <3>1, <3>2, OneStepDown
  <2>3. CASE ~StartBatch(u) /\ ~SkipRow(u)
    <3>1. /\ tries' = tries /\ at' = at
          /\ \/ pc[u] = "new" /\ pc'[u] \in {"refused", "request", "queued", "failed"}
             \/ pc[u] = "request" /\ pc'[u] \in {"failed", "answered"}
             \/ pc[u] = "batch" /\ pc'[u] \in {"ended", "dead", "queued"}
      BY <1>0, <1>2, <2>3 DEF Move, RefuseFile, HaltUpload, AcceptUpload, EnqueueBatch,
        EnqueueFails, FailRequest, AnswerRequest, FinishBatch, InterruptBatch, Accepted,
        Goto, Types
    <3>2. Ahead(u)' < Ahead(u)
      BY <2>0, <3>1 DEF Ahead, Size
    <3> QED
      BY <1>0, <3>1, <3>2, OneStepDown
  <2> QED
    BY <2>1, <2>2, <2>3
<1>3. ASSUME NEW u \in Uploads, RowStep(u) \/ Move(u), NEW v \in Uploads \ {u}
      PROVE  StepsLeft(v)' = StepsLeft(v)
  <2>1. CASE RowStep(u)
    <3>1. at' = [at EXCEPT ![u] = @ + 1]
      BY <2>1, RowStores DEF Done
    <3> QED
      BY <1>0, <2>1, <3>1, RowFrame DEF Types, StepsLeft, Ahead, Size
  <2>2. ASSUME Move(u) PROVE tries'[v] = tries[v] /\ at'[v] = at[v] /\ pc'[v] = pc[v]
    BY <1>0, <2>2 DEF Move, RefuseFile, HaltUpload, AcceptUpload,
      EnqueueBatch, EnqueueFails, FailRequest, SkipRow, AnswerRequest, StartBatch,
      FinishBatch, InterruptBatch, Goto, Types
  <2> QED
    BY <1>3, <2>1, <2>2 DEF StepsLeft, Ahead, Size
<1>5. \A u \in Uploads : StepsLeft(u)' <= StepsLeft(u)
  <2>1. CASE \E u \in Uploads : RowStep(u) \/ Move(u)
    <3> HIDE DEF StepsLeft
    <3>1. PICK u \in Uploads : RowStep(u) \/ Move(u)
      BY <2>1
    <3>2. StepsLeft(u)' <= StepsLeft(u)
      BY <1>1, <1>2, <1>b, <3>1
    <3>3. \A v \in Uploads \ {u} : StepsLeft(v)' <= StepsLeft(v)
      BY <1>3, <1>b, <3>1
    <3> QED
      BY <3>2, <3>3
  <2>2. CASE UNCHANGED <<pc, at, tries>>
    <3>1. \A u \in Uploads : StepsLeft(u)' = StepsLeft(u)
      BY <2>2 DEF StepsLeft, Ahead, Size
    <3> HIDE DEF StepsLeft
    <3> QED
      BY <1>b, <3>1
  <2> QED
    BY <2>1, <2>2, Steps
<1>6. \A u \in Uploads : UploadStep(u) \/ InterruptBatch(u) => RowStep(u) \/ Move(u)
  BY DEF UploadStep, RowStep, Move
<1> QED
  BY <1>1, <1>2, <1>5, <1>6 DEF UploadsGoDown

\* Every upload comes to an end unless it is kept waiting: the part of
\* EveryUploadEnds that needs no fairness.
THEOREM UploadsRunDown == Spec => RunsDown
<1>1. IInv => CountsAreNat
  BY CountIsNat DEF IInv
<1>2. IInv /\ [Next]_vars => [UploadsGoDown]_vars
  BY RunDownStep
<1> QED
  BY <1>1, <1>2, Invariance, PTL DEF Spec, RunsDown

=============================================================================
