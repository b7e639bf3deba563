--------------------------- MODULE ChannelProofs ---------------------------
(***************************************************************************)
(* Proofs about the channel connections.  Inv adds to the checked          *)
(* invariants what a flow at work has in its session (Progress), which     *)
(* rows expire (RowsSound), and that a running refresh job has dealt with  *)
(* every row it no longer has to look at (SweepSound).                     *)
(***************************************************************************)
EXTENDS ChannelConnections, TLAPS

AtWork(f) == pc[f] \in {"callback", "exchange", "visit"}

Progress ==
  \A f \in Flows :
    /\ added[f] \subseteq subscribed
    /\ KindOf[f] = "instagram" => added[f] \subseteq Instagram
    /\ AtWork(f) =>
         \A i \in 1 .. at[f] - 1 :
           \/ Plan[f][i] \subseteq added[f]
           \/ KindOf[f] = "facebook" /\ Plan[f][i] \subseteq Instagram

RowsSound ==
  \A r \in Rows : conns[r] # NoRow =>
    /\ conns[r].expires = None => conns[r].status = "active"
    /\ conns[r].expires # None => r[2] \in Instagram

SweepSound ==
  /\ \A d \in swept : d <= today
  /\ \A r \in todo : Active(r)
  /\ sweeping => \A r \in Rows \ todo :
       Active(r) /\ Expiring(r) => conns[r].expires >= today + Window

Inv == Types /\ FlowIsAtomic /\ Progress /\ RowsSound /\ SweepSound /\ KeptFresh

LEMMA InitInv == Init => Inv
<1> SUFFICES ASSUME Init PROVE Inv
    OBVIOUS
<1>1. Types
  <2>1. \A f \in Flows : at[f] \in 1 .. Len(Plan[f]) + 1 /\ added[f] = {}
    BY PlanAssumption DEF Init
  <2>2. conns \in [Rows -> Row \cup {NoRow}] /\ today \in Days
    BY LastDayAssumption DEF Init, Days
  <2>3. pc \in [Flows -> {"callback", "exchange", "visit", "connected", "failed"}]
    BY DEF Init
  <2>4. at \in [Flows -> Nat] /\ added \in [Flows -> SUBSET Accounts]
    BY DEF Init
  <2> QED
    BY <2>1, <2>2, <2>3, <2>4 DEF Init, Types
<1>2. FlowIsAtomic
  <2> SUFFICES ASSUME NEW f \in Flows PROVE Held(f) = {} /\ pc[f] # "connected"
      BY DEF FlowIsAtomic
  <2> QED
    BY KindAssumption DEF Init, Held, Rows
<1>3. Progress
  BY DEF Init, Progress
<1>4. RowsSound /\ SweepSound /\ KeptFresh
  BY DEF Init, RowsSound, SweepSound, KeptFresh, Rows
<1> QED
  BY <1>1, <1>2, <1>3, <1>4 DEF Inv

-----------------------------------------------------------------------------
(* Callbacks.  Before its commit a flow touches no row.                    *)

LEMMA RowsUntouched ==
  ASSUME Inv, UNCHANGED <<conns, today, sweep>>
  PROVE  RowsSound' /\ SweepSound' /\ KeptFresh'
BY DEF Inv, RowsSound, SweepSound, KeptFresh, Active, Expiring, sweep

LEMMA MoveOn ==
  ASSUME Inv, NEW f \in Flows,
         VerifyState(f) \/ Authorised(f) \/ FlowFails(f)
  PROVE  Inv'
<1>1. UNCHANGED <<conns, subscribed, at, today, sweep>>
  BY DEF VerifyState, Authorised, FlowFails
<1>2. RowsSound' /\ SweepSound' /\ KeptFresh'
  BY <1>1, RowsUntouched
<1>3. Types'
  BY <1>1, SMTT(30) DEF Inv, Types, VerifyState, Authorised, FlowFails, sweep
<1>4. FlowIsAtomic'
  <2> SUFFICES ASSUME NEW g \in Flows
               PROVE  /\ pc'[g] # "connected" => Held(g)' = {}
                      /\ Held(g)' \subseteq subscribed'
                      /\ pc'[g] = "connected" => pc[g] = "connected"
      BY <1>1 DEF FlowIsAtomic, Inv, Held
  <2>1. Held(g)' = Held(g)
    BY <1>1 DEF Held
  <2>2. /\ pc'[g] = "connected" <=> pc[g] = "connected"
    BY DEF VerifyState, Authorised, FlowFails, Inv, Types
  <2> QED
    BY <1>1, <2>1, <2>2 DEF Inv, FlowIsAtomic
<1>5. Progress'
  BY <1>1, SMTT(30) DEF Inv, Types, Progress, AtWork, VerifyState, Authorised, FlowFails
<1> QED
  BY <1>2, <1>3, <1>4, <1>5 DEF Inv

\* A stop of the plan is subscribed and added, or is a linked account skipped.
LEMMA StopStep ==
  ASSUME Inv, NEW f \in Flows, Subscribe(f) \/ SkipLinked(f)
  PROVE  Inv'
<1> DEFINE stop == Plan[f][at[f]]
<1>1. /\ UNCHANGED <<conns, pc, today, sweep>>
      /\ pc[f] = "visit"
      /\ at' = [at EXCEPT ![f] = @ + 1]
      /\ subscribed \subseteq subscribed'
      /\ at[f] \in 1 .. Len(Plan[f])
      /\ stop \subseteq Accounts
  BY PlanAssumption DEF Subscribe, SkipLinked, AtLinked, AtStop, Inv, Types
<1>2. RowsSound' /\ SweepSound' /\ KeptFresh'
  BY <1>1, RowsUntouched
<1>3. Types'
  <2>1. subscribed' \subseteq Accounts /\ added' \in [Flows -> SUBSET Accounts]
    BY <1>1 DEF Subscribe, SkipLinked, Inv, Types
  <2>2. at' \in [Flows -> Nat] /\ \A g \in Flows : at'[g] \in 1 .. Len(Plan[g]) + 1
    BY <1>1, PlanAssumption DEF Inv, Types
  <2>3. \A g \in Flows : added'[g] # {} => pc'[g] = "visit"
    BY <1>1 DEF Subscribe, SkipLinked, Inv, Types
  <2> QED
    BY <1>1, <2>1, <2>2, <2>3 DEF Inv, Types, sweep
<1>4. FlowIsAtomic'
  BY <1>1 DEF Inv, FlowIsAtomic, Held
<1>5. Progress'
  <2>1. CASE Subscribe(f)
    <3>1. KindOf[f] = "instagram" => stop \subseteq Instagram
      BY <1>1, PlanAssumption
    <3>2. /\ subscribed' = subscribed \cup stop
          /\ added' = [added EXCEPT ![f] = @ \cup stop]
      BY <2>1 DEF Subscribe
    <3> SUFFICES ASSUME NEW g \in Flows
                 PROVE  /\ added'[g] \subseteq subscribed'
                        /\ KindOf[g] = "instagram" => added'[g] \subseteq Instagram
                        /\ AtWork(g)' =>
                             \A i \in 1 .. at'[g] - 1 :
                               \/ Plan[g][i] \subseteq added'[g]
                               \/ KindOf[g] = "facebook" /\ Plan[g][i] \subseteq Instagram
        BY DEF Progress
    <3>3. CASE g = f
      <4>1. added'[f] = added[f] \cup stop /\ at'[f] - 1 = at[f]
        BY <1>1, <3>2 DEF Inv, Types
      <4>2. AtWork(f)
        BY <1>1 DEF AtWork
      <4>3. /\ added[f] \subseteq subscribed
            /\ KindOf[f] = "instagram" => added[f] \subseteq Instagram
            /\ \A i \in 1 .. at[f] - 1 :
                 \/ Plan[f][i] \subseteq added[f]
                 \/ KindOf[f] = "facebook" /\ Plan[f][i] \subseteq Instagram
        BY <4>2 DEF Inv, Progress
      <4>4. ASSUME NEW i \in 1 .. at[f]
            PROVE  i \in 1 .. at[f] - 1 \/ Plan[f][i] \subseteq added'[f]
        BY <1>1, <4>1
      <4>5. \A i \in 1 .. at[f] :
              \/ Plan[f][i] \subseteq added'[f]
              \/ KindOf[f] = "facebook" /\ Plan[f][i] \subseteq Instagram
        BY <4>1, <4>3, <4>4
      <4> HIDE DEF stop
      <4> QED
        BY <3>1, <3>2, <3>3, <4>1, <4>3, <4>5
    <3>4. CASE g # f
      <4>1. added'[g] = added[g] /\ at'[g] = at[g] /\ pc'[g] = pc[g]
        BY <1>1, <3>2, <3>4 DEF Inv, Types
      <4> QED
        BY <1>1, <4>1 DEF Inv, Progress, AtWork
    <3> QED
      BY <3>3, <3>4
  <2>2. CASE SkipLinked(f)
    <3>1. /\ KindOf[f] = "facebook" /\ stop \subseteq Instagram
          /\ added' = added /\ subscribed' = subscribed
      BY <2>2 DEF SkipLinked, AtLinked
    <3>2. \A g \in Flows : at'[g] = IF g = f THEN at[f] + 1 ELSE at[g]
      BY <1>1 DEF Inv, Types
    <3> QED
      BY <1>1, <3>1, <3>2 DEF Inv, Types, Progress, AtWork
  <2> QED
    BY <2>1, <2>2
<1> QED
  BY <1>2, <1>3, <1>4, <1>5 DEF Inv

LEMMA CommitStep ==
  ASSUME Inv, NEW f \in Flows, Commit(f)
  PROVE  Inv'
<1> DEFINE new == [status |-> "active", expires |-> ExpiresAt(f)]
<1>1. /\ pc[f] = "visit" /\ at[f] = Len(Plan[f]) + 1
      /\ added' = [added EXCEPT ![f] = {}]
      /\ pc' = [pc EXCEPT ![f] = "connected"]
      /\ UNCHANGED <<subscribed, at, today, sweep>>
      /\ Held(f) = {}
  <2>1. Len(Plan[f]) \in Nat /\ at[f] \in 1 .. Len(Plan[f]) + 1
    BY PlanAssumption DEF Inv, Types
  <2>2. pc[f] = "visit" /\ at[f] > Len(Plan[f])
    BY DEF Commit
  <2>3. Held(f) = {}
    BY <2>2 DEF Inv, FlowIsAtomic
  <2>4. at[f] = Len(Plan[f]) + 1
    BY <2>1, <2>2
  <2> QED
    BY <2>2, <2>3, <2>4 DEF Commit
<1>2. new \in Row /\ new # NoRow
  BY SentinelAssumption, LifeAssumption DEF ExpiresAt, Row, Inv, Types, Days
<1>3. /\ conns' \in [Rows -> Row \cup {NoRow}]
      /\ \A g \in Flows, a \in Accounts :
           conns'[<<g, a>>] = IF g = f /\ a \in added[f] THEN new ELSE conns[<<g, a>>]
  BY <1>2 DEF Commit, NewRows, Rows, Inv, Types
<1>4. /\ Held(f)' = added[f]
      /\ \A g \in Flows : g # f => Held(g)' = Held(g)
  BY <1>1, <1>2, <1>3 DEF Held, Inv, Types
<1>5. \A r \in Rows : \/ conns'[r] = conns[r]
                      \/ r[1] = f /\ r[2] \in added[f] /\ conns'[r] = new
  BY <1>3 DEF Rows
<1>6. Types'
  <2>1. \A g \in Flows : added'[g] # {} => pc'[g] = "visit"
    BY <1>1 DEF Inv, Types
  <2>2. pc' \in [Flows -> {"callback", "exchange", "visit", "connected", "failed"}]
        /\ added' \in [Flows -> SUBSET Accounts]
    BY <1>1 DEF Inv, Types
  <2> QED
    BY <1>1, <1>3, <2>1, <2>2 DEF Inv, Types, sweep
<1>7. FlowIsAtomic'
  <2> SUFFICES ASSUME NEW g \in Flows
               PROVE  /\ pc'[g] # "connected" => Held(g)' = {}
                      /\ Held(g)' \subseteq subscribed'
                      /\ pc'[g] = "connected" =>
                           \A i \in 1 .. Len(Plan[g]) :
                             \/ Plan[g][i] \subseteq Held(g)'
                             \/ KindOf[g] = "facebook" /\ Plan[g][i] \subseteq Instagram
      BY DEF FlowIsAtomic
  <2>1. CASE g = f
    <3>1. pc'[g] = "connected"
      BY <1>1, <2>1 DEF Inv, Types
    <3>2. AtWork(f) /\ 1 .. at[f] - 1 = 1 .. Len(Plan[f])
      BY <1>1, PlanAssumption DEF AtWork
    <3> QED
      BY <1>1, <1>4, <2>1, <3>1, <3>2 DEF Inv, Progress
  <2>2. CASE g # f
    BY <1>1, <1>4, <2>2 DEF Inv, Types, FlowIsAtomic
  <2> QED
    BY <2>1, <2>2
<1>8. Progress'
  BY <1>1 DEF Inv, Types, Progress, AtWork
<1>9. /\ new.expires = None \/ new.expires = today + Life
      /\ new.expires # None => added[f] \subseteq Instagram
  BY SentinelAssumption DEF ExpiresAt, Inv, Progress
<1>10. RowsSound'
  BY <1>5, <1>9 DEF Inv, RowsSound
<1>11. SweepSound'
  <2>1. \A r \in todo : Active(r)'
    <3> SUFFICES ASSUME NEW r \in todo PROVE Active(r)'
        OBVIOUS
    <3>1. r \in Rows /\ Active(r)
      BY DEF Inv, Types, SweepSound
    <3> QED
      BY <1>2, <1>5, <3>1 DEF Active
  <2>2. ASSUME NEW r \in Rows \ todo, sweeping, Active(r)', Expiring(r)'
        PROVE  conns'[r].expires >= today + Window
    <3>1. today \in Nat
      BY LastDayAssumption DEF Inv, Types, Days
    <3>2. CASE conns'[r] = conns[r]
      BY <2>2, <3>2 DEF Inv, SweepSound, Active, Expiring
    <3>3. CASE conns'[r] = new
      <4>1. conns'[r].expires = today + Life
        BY <1>9, <2>2, <3>3 DEF Expiring
      <4> QED
        BY <3>1, <4>1, LifeAssumption
    <3> QED
      BY <1>5, <3>2, <3>3
  <2> QED
    BY <1>1, <2>1, <2>2 DEF Inv, SweepSound, sweep
<1>12. KeptFresh'
  <2> SUFFICES ASSUME NEW d \in swept, NEW r \in Rows, Active(r)', Expiring(r)'
               PROVE  conns'[r].expires >= d + Window
      BY <1>1 DEF KeptFresh, sweep
  <2>1. d \in Nat /\ today \in Nat /\ d <= today
    BY LastDayAssumption DEF Inv, Types, Days, SweepSound
  <2>2. CASE conns'[r] = conns[r]
    BY <2>2 DEF Inv, KeptFresh, Active, Expiring
  <2>3. CASE conns'[r] = new
    <3>1. new.expires = today + Life
      BY <1>9, <2>3 DEF Expiring
    <3> QED
      BY <2>1, <2>3, <3>1, LifeAssumption
  <2> QED
    BY <1>5, <2>2, <2>3
<1> QED
  BY <1>6, <1>7, <1>8, <1>10, <1>11, <1>12 DEF Inv

-----------------------------------------------------------------------------
(* The refresh job.  Away from conns it touches nothing a flow works with. *)

LEMMA FlowUntouched ==
  ASSUME Inv, UNCHANGED <<subscribed, flow>>,
         \A f \in Flows : Held(f)' = Held(f)
  PROVE  FlowIsAtomic' /\ Progress'
BY DEF Inv, FlowIsAtomic, Progress, AtWork, flow

\* The fields of a row that expires are a number and a status.
LEMMA RowFacts ==
  ASSUME Inv, NEW r \in Rows, conns[r] # NoRow
  PROVE  /\ conns[r] \in Row
         /\ Expiring(r) => conns[r].expires \in Nat
         /\ today \in Nat
BY LastDayAssumption DEF Inv, Types, Row, Expiring, Days

LEMMA LookStep ==
  ASSUME Inv, NEW r \in Rows,
         LeaveFresh(r) \/ MarkLapsed(r) \/ MarkUnreadable(r) \/ Refresh(r)
  PROVE  Inv'
<1>1. /\ sweeping /\ r \in todo /\ todo' = todo \ {r}
      /\ UNCHANGED <<subscribed, flow, today, sweeping, begun, swept, refused>>
  BY DEF LeaveFresh, MarkLapsed, MarkUnreadable, Refresh, Looked
<1>2. Active(r) /\ conns[r] # NoRow /\ conns[r] \in Row /\ today \in Nat
  BY <1>1, RowFacts DEF Inv, SweepSound, Active
<1>3. /\ \A s \in Rows : s # r => conns'[s] = conns[s]
      /\ conns'[r] \in Row
      /\ conns' \in [Rows -> Row \cup {NoRow}]
  <2>1. CASE UNCHANGED conns
    BY <1>2, <2>1 DEF Inv, Types
  <2>2. CASE conns' = [conns EXCEPT ![r].status = "expired"]
    <3>1. [conns[r] EXCEPT !.status = "expired"] \in Row
      BY <1>2 DEF Row
    <3> QED
      BY <2>2, <3>1 DEF Inv, Types
  <2>3. CASE conns' = [conns EXCEPT ![r].expires = today + Life]
    <3>1. [conns[r] EXCEPT !.expires = today + Life] \in Row
      BY <1>2, LifeAssumption DEF Row
    <3> QED
      BY <2>3, <3>1 DEF Inv, Types
  <2> QED
    BY <2>1, <2>2, <2>3 DEF LeaveFresh, MarkLapsed, MarkUnreadable, Refresh
<1>4. \A s \in Rows : conns'[s] = NoRow <=> conns[s] = NoRow
  BY <1>2, <1>3, SentinelAssumption
<1>5. FlowIsAtomic' /\ Progress'
  <2>1. \A f \in Flows : Held(f)' = Held(f)
    BY <1>4 DEF Held, Rows
  <2> QED
    BY <1>1, <2>1, FlowUntouched
<1>6. Types'
  BY <1>1, <1>3 DEF Inv, Types, flow
\* What the look leaves of the row: the window is met, or it is expired.
<1>7. /\ Active(r)' /\ Expiring(r)' => conns'[r].expires >= today + Window
      /\ conns'[r].expires = None => conns'[r] = conns[r]
      /\ conns'[r].expires # None => conns[r].expires # None
  <2>1. CASE LeaveFresh(r)
    BY <1>2, <2>1, RowFacts, LifeAssumption DEF LeaveFresh, Left, Active, Expiring
  <2>2. CASE MarkLapsed(r) \/ MarkUnreadable(r)
    <3>1. conns'[r] = [conns[r] EXCEPT !.status = "expired"] /\ Expiring(r)
      BY <2>2 DEF MarkLapsed, MarkUnreadable, Due, Inv, Types
    <3> QED
      BY <1>2, <3>1 DEF Active, Expiring, Row
  <2>3. CASE Refresh(r)
    <3>1. conns'[r] = [conns[r] EXCEPT !.expires = today + Life] /\ Expiring(r)
      BY <2>3 DEF Refresh, Due, Inv, Types
    <3>2. conns'[r].expires = today + Life
      BY <1>2, <3>1 DEF Row
    <3> QED
      BY <1>2, <3>1, <3>2, LifeAssumption, SentinelAssumption DEF Expiring
  <2> QED
    BY <2>1, <2>2, <2>3
<1>8. RowsSound'
  BY <1>2, <1>3, <1>7 DEF Inv, RowsSound
<1>9. SweepSound'
  <2>1. \A s \in todo' : Active(s)'
    BY <1>1, <1>3 DEF Inv, Types, SweepSound, Active
  <2>2. ASSUME NEW s \in Rows \ todo', Active(s)', Expiring(s)'
        PROVE  conns'[s].expires >= today + Window
    BY <1>1, <1>3, <1>7, <2>2 DEF Inv, SweepSound, Active, Expiring
  <2> QED
    BY <1>1, <2>1, <2>2 DEF Inv, SweepSound
<1>10. KeptFresh'
  <2> SUFFICES ASSUME NEW d \in swept, NEW s \in Rows, Active(s)', Expiring(s)'
               PROVE  conns'[s].expires >= d + Window
      BY <1>1 DEF KeptFresh
  <2>1. CASE s # r
    BY <1>3, <2>1 DEF Inv, KeptFresh, Active, Expiring
  <2>2. CASE s = r
    <3>1. d \in Nat /\ d <= today
      BY LastDayAssumption DEF Inv, Types, Days, SweepSound
    <3>2. conns'[r].expires \in Nat
      BY <1>3, <2>2, SentinelAssumption DEF Expiring, Row
    <3> QED
      BY <1>2, <1>7, <2>2, <3>1, <3>2, LifeAssumption
  <2> QED
    BY <2>1, <2>2
<1> QED
  BY <1>5, <1>6, <1>8, <1>9, <1>10 DEF Inv

LEMMA SweepStep ==
  ASSUME Inv,
         \/ StartSweep \/ FinishSweep \/ InterruptSweep \/ NextDay
         \/ \E r \in Rows : RefreshRefused(r)
  PROVE  Inv'
<1>1. UNCHANGED <<conns, subscribed, flow>>
  BY DEF StartSweep, FinishSweep, InterruptSweep, NextDay, RefreshRefused, Ours
<1>2. FlowIsAtomic' /\ Progress'
  BY <1>1, FlowUntouched DEF Held
<1>3. RowsSound'
  BY <1>1 DEF Inv, RowsSound
<1>4. today \in Nat /\ swept \subseteq Nat /\ today \in Days
  BY LastDayAssumption DEF Inv, Types, Days
<1>5. CASE StartSweep
  <2>1. Types'
    BY <1>1, <1>5 DEF StartSweep, Ours, Inv, Types, flow
  <2>2. SweepSound'
    <3>1. \A r \in Rows : Active(r) /\ Expiring(r) => r[2] \in Instagram
      BY DEF Inv, RowsSound, Expiring
    <3>2. \A r \in Rows : Active(r) /\ Expiring(r) => r \in todo'
      BY <1>5, <3>1 DEF StartSweep
    <3> QED
      BY <1>1, <1>5, <3>2 DEF StartSweep, Ours, Inv, SweepSound, Active, Expiring
  <2>3. KeptFresh'
    BY <1>1, <1>5 DEF StartSweep, Inv, KeptFresh, Active, Expiring
  <2> QED
    BY <1>2, <1>3, <2>1, <2>2, <2>3 DEF Inv
<1>6. CASE FinishSweep
  <2>1. Types'
    BY <1>1, <1>4, <1>6 DEF FinishSweep, Ours, Inv, Types, flow
  <2>2. SweepSound'
    <3>1. /\ ~sweeping' /\ todo' = {} /\ today' = today
          /\ swept' = swept \cup {today}
      BY <1>6 DEF FinishSweep, Ours, Inv, Types
    <3>2. \A d \in swept : d <= today
      BY DEF Inv, SweepSound
    <3>3. today <= today
      BY <1>4
    <3>4. \A d \in swept' : d <= today'
      BY <3>1, <3>2, <3>3
    <3> QED
      BY <3>1, <3>4 DEF SweepSound
  <2>3. KeptFresh'
    <3>1. \A r \in Rows : Active(r) /\ Expiring(r) =>
            conns[r].expires >= today + Window
      BY <1>6 DEF FinishSweep, Inv, SweepSound
    <3> QED
      BY <1>1, <1>6, <3>1 DEF FinishSweep, Inv, KeptFresh, Active, Expiring
  <2> QED
    BY <1>2, <1>3, <2>1, <2>2, <2>3 DEF Inv
<1>7. CASE InterruptSweep \/ \E r \in Rows : RefreshRefused(r)
  <2>1. /\ sweeping' = FALSE /\ todo' = {} /\ begun' \subseteq begun
        /\ UNCHANGED <<today, swept>> /\ refused' \subseteq Rows
    BY <1>7 DEF InterruptSweep, RefreshRefused, Ours, Inv, Types
  <2>2. Types'
    BY <1>1, <2>1 DEF Inv, Types, flow
  <2>3. SweepSound' /\ KeptFresh'
    BY <1>1, <2>1 DEF Inv, SweepSound, KeptFresh, Active, Expiring
  <2> QED
    BY <1>2, <1>3, <2>2, <2>3 DEF Inv
<1>8. CASE NextDay
  <2>1. /\ ~sweeping /\ today' = today + 1 /\ today' \in Days
        /\ UNCHANGED <<conns, sweep>>
    BY <1>4, <1>8, LastDayAssumption DEF NextDay, Days
  <2>2. Types'
    BY <1>1, <2>1 DEF Inv, Types, flow, sweep
  <2>3. SweepSound'
    BY <1>4, <2>1 DEF Inv, SweepSound, Active, sweep
  <2>4. KeptFresh'
    BY <2>1 DEF Inv, KeptFresh, Active, Expiring, sweep
  <2> QED
    BY <1>2, <1>3, <2>2, <2>3, <2>4 DEF Inv
<1> QED
  BY <1>5, <1>6, <1>7, <1>8

-----------------------------------------------------------------------------
LEMMA CallbackCases ==
  ASSUME NEW f \in Flows, Callback(f)
  PROVE  \/ VerifyState(f) \/ Authorised(f) \/ FlowFails(f)
         \/ Subscribe(f) \/ SkipLinked(f)
         \/ Commit(f)
BY DEF Callback, FacebookPages, InstagramAccount, SignupWabas, ConnectPage,
       ConnectLinked, ConnectInstagram, ConnectWaba

LEMMA StepInv == Inv /\ [Next]_vars => Inv'
<1> SUFFICES ASSUME Inv, [Next]_vars PROVE Inv'
    OBVIOUS
<1>1. ASSUME NEW f \in Flows, Callback(f) PROVE Inv'
  BY <1>1, CallbackCases, MoveOn, StopStep, CommitStep
<1>2. ASSUME NEW r \in Rows, Look(r) PROVE Inv'
  BY <1>2, LookStep, SweepStep DEF Look
<1>3. CASE StartSweep \/ FinishSweep \/ InterruptSweep \/ NextDay
  BY <1>3, SweepStep
<1>4. CASE UNCHANGED vars
  <2>1. UNCHANGED <<conns, today, sweep>> /\ UNCHANGED <<subscribed, flow>>
    BY <1>4 DEF vars
  <2>2. FlowIsAtomic' /\ Progress'
    BY <2>1, FlowUntouched DEF Held
  <2>3. Types'
    BY <2>1 DEF Inv, Types, flow, sweep
  <2> QED
    BY <2>1, <2>2, <2>3, RowsUntouched DEF Inv
<1> QED
  BY <1>1, <1>2, <1>3, <1>4 DEF Next

THEOREM Inductive == Spec => []Inv
BY InitInv, StepInv, PTL DEF Spec

\* Rows, sessions and positions are well formed (channel_connections).
THEOREM TypeCorrect == Spec => []Types
<1>1. Inv => Types
  BY DEF Inv
<1> QED
  BY <1>1, Inductive, PTL

\* A callback commits all its connections or none (exchange_facebook_code,
\* exchange_instagram_code, exchange_whatsapp_signup_code).
THEOREM AtomicFlows == Spec => []FlowIsAtomic
<1>1. Inv => FlowIsAtomic
  BY DEF Inv
<1> QED
  BY <1>1, Inductive, PTL

\* A refresh job that ran to its end left no token in its window
\* (refresh_instagram_tokens).
THEOREM Freshness == Spec => []KeptFresh
<1>1. Inv => KeptFresh
  BY DEF Inv
<1> QED
  BY <1>1, Inductive, PTL

\* A connection that does not expire stays routable
\* (get_connection_by_page_or_ig_account_id).
THEOREM Routability == Spec => []ConnectedIsRoutable
<1>1. Inv => ConnectedIsRoutable
  <2> SUFFICES ASSUME Inv, NEW r \in Rows, conns[r] # NoRow, ~Expiring(r)
               PROVE  Answer(r[2]) # "unknown_connection"
      BY DEF ConnectedIsRoutable
  <2>1. r \in Connections(r[2])
    BY DEF Inv, RowsSound, Expiring, Connections, Active
  <2> QED
    BY <2>1 DEF Answer
<1> QED
  BY <1>1, Inductive, PTL

\* No row goes back: neither disappears nor revives nor loses time
\* (refresh_instagram_tokens and the callbacks).
THEOREM Monotonicity == Spec => RowsLiveForward
<1> DEFINE Forward(r) ==
      conns[r] # NoRow =>
        /\ conns'[r] # NoRow
        /\ ~Active(r) \/ ~Expiring(r) => conns'[r] = conns[r]
        /\ Expiring(r) => conns'[r].expires >= conns[r].expires
<1>1. Inv /\ [Next]_vars => [\A r \in Rows : Forward(r)]_vars
  <2> SUFFICES ASSUME Inv, Next, NEW r \in Rows, conns[r] # NoRow PROVE Forward(r)
      BY DEF vars
  <2>1. CASE UNCHANGED conns
    BY <2>1, RowFacts
  <2>2. ASSUME NEW f \in Flows, Callback(f) PROVE Forward(r)
    <3>1. CASE Commit(f)
      <4>1. r[1] # f
        BY <3>1 DEF Commit, Inv, FlowIsAtomic, Held, Rows
      <4>2. conns'[r] = conns[r]
        BY <3>1, <4>1 DEF Commit, NewRows
      <4> QED
        BY <4>2, RowFacts
    <3>2. CASE ~Commit(f)
      BY <2>1, <2>2, <3>2, CallbackCases
         DEF VerifyState, Authorised, FlowFails, Subscribe, SkipLinked
    <3> QED
      BY <3>1, <3>2
  <2>3. ASSUME NEW s \in Rows, Look(s) PROVE Forward(r)
    <3>1. s \in todo /\ Active(s)
      BY <2>3 DEF Look, LeaveFresh, MarkLapsed, MarkUnreadable, Refresh,
                  RefreshRefused, Looked, Inv, SweepSound
    <3>2. CASE MarkLapsed(s) \/ MarkUnreadable(s)
      <4>1. conns' = [conns EXCEPT ![s].status = "expired"] /\ Expiring(s)
        BY <3>2 DEF MarkLapsed, MarkUnreadable, Due
      <4>2. CASE r = s
        <5>1. conns'[r] = [conns[r] EXCEPT !.status = "expired"]
          BY <4>1, <4>2 DEF Inv, Types
        <5>2. /\ conns'[r] \in Row /\ conns'[r].expires = conns[r].expires
          BY <5>1, RowFacts DEF Row
        <5> QED
          BY <3>1, <4>1, <4>2, <5>2, RowFacts, SentinelAssumption
      <4>3. CASE r # s
        BY <4>1, <4>3, RowFacts DEF Inv, Types
      <4> QED
        BY <4>2, <4>3
    <3>3. CASE Refresh(s)
      <4>1. conns' = [conns EXCEPT ![s].expires = today + Life] /\ Due(s)
        BY <3>3 DEF Refresh
      <4>2. CASE r = s
        <5>1. conns'[r] = [conns[r] EXCEPT !.expires = today + Life]
          BY <4>1, <4>2 DEF Inv, Types
        <5>2. conns'[r] \in Row /\ conns'[r].expires = today + Life
          BY <5>1, RowFacts, LifeAssumption DEF Row
        <5>3. conns[r].expires <= today + Window
          BY <4>1, <4>2, RowFacts, LifeAssumption DEF Due, Left
        <5> QED
          BY <3>1, <4>1, <4>2, <5>2, <5>3, RowFacts, SentinelAssumption, LifeAssumption
             DEF Due
      <4>3. CASE r # s
        BY <4>1, <4>3, RowFacts DEF Inv, Types
      <4> QED
        BY <4>2, <4>3
    <3>4. CASE LeaveFresh(s) \/ RefreshRefused(s)
      BY <2>1, <3>4 DEF LeaveFresh, RefreshRefused, Ours
    <3> QED
      BY <2>3, <3>2, <3>3, <3>4 DEF Look
  <2>4. CASE StartSweep \/ FinishSweep \/ InterruptSweep \/ NextDay
    BY <2>1, <2>4 DEF StartSweep, FinishSweep, InterruptSweep, NextDay, Ours
  <2> QED
    BY <2>2, <2>3, <2>4 DEF Next
<1> QED
  BY <1>1, Inductive, PTL DEF Spec, RowsLiveForward

=============================================================================
