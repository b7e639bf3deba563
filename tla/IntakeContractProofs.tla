------------------------ MODULE IntakeContractProofs ------------------------
(***************************************************************************)
(* What the contract of IntakeContract is worth: its histories are         *)
(* faithful, for every number of events and contacts.                      *)
(***************************************************************************)
EXTENDS IntakeContract, TLAPS

\* Settling an open event e for c leaves every other event as it was.
LEMMA SettleStep ==
  ASSUME Types, NEW e \in Events, NEW o \in Outcome, NEW c \in Contacts \cup {None},
         Settle(e, o, c)
  PROVE  /\ outcome' \in [Events -> Outcome]
         /\ contactOf' \in [Events -> Contacts \cup {None}]
         /\ announced' = announced
         /\ outcome[e] = "open" /\ outcome'[e] = o /\ contactOf'[e] = c
         /\ \A f \in Events \ {e} : outcome'[f] = outcome[f] /\ contactOf'[f] = contactOf[f]
BY DEF Types, Settle

\* An open event belongs to no contact: without it an opener could be counted
\* for a contact before it is settled.
OpenIsFree == \A e \in Events : outcome[e] = "open" => contactOf[e] = None

CInv == Types /\ OpenIsFree /\ HistoriesFaithful

LEMMA ContractInit ==
  ASSUME None \notin Contacts, Init
  PROVE  CInv
BY DEF Init, CInv, Types, Outcome, OpenIsFree, HistoriesFaithful, Opened

LEMMA ContractPreserved ==
  ASSUME None \notin Contacts, CInv, [Next]_vars
  PROVE  CInv'
<1> USE DEF CInv
<1>0. "open" \in Outcome /\ \A o \in {"received", "duplicate", "terminal", "unlinked"} : o \in Outcome
  BY DEF Outcome
<1>1. CASE UNCHANGED vars
  BY <1>1 DEF vars, Types, OpenIsFree, HistoriesFaithful, Opened
<1>2. ASSUME NEW e \in Events, Reject(e) PROVE CInv'
  <2>1. Settle(e, "unlinked", None) /\ history' = history
    BY <1>2 DEF Reject
  <2> QED
    BY <1>0, <2>1, SettleStep DEF Types, OpenIsFree, HistoriesFaithful, Opened
<1>3. ASSUME NEW e \in Events, NEW c \in Contacts, Capture(e, c) PROVE CInv'
  <2>1. Settle(e, "received", c) /\ history' = [history EXCEPT ![c] = {e}]
    BY <1>3 DEF Capture
  <2>2. \A f \in Events : contactOf[f] # c
    BY <1>3 DEF Capture, Opened
  <2> QED
    BY <1>0, <2>1, <2>2, SettleStep DEF Types, OpenIsFree, HistoriesFaithful, Opened
<1>4. ASSUME NEW e \in Events, NEW c \in Contacts, Attach(e, c) PROVE CInv'
  <2>1. /\ Settle(e, "duplicate", c) /\ history' = [history EXCEPT ![c] = @ \cup {e}]
        /\ Opened(c)
    BY <1>4 DEF Attach
  <2>2. (\A d \in Contacts : Opened(d) =>
          \E f \in Events : contactOf[f] = d /\ outcome[f] # "duplicate")'
    <3> SUFFICES ASSUME NEW d \in Contacts, Opened(d)'
                 PROVE  \E f \in Events : contactOf'[f] = d /\ outcome'[f] # "duplicate"
      OBVIOUS
    <3>1. Opened(d)
      BY <1>0, <2>1, SettleStep DEF Opened
    <3>2. PICK f \in Events : contactOf[f] = d /\ outcome[f] # "duplicate"
      BY <3>1 DEF HistoriesFaithful
    <3>3. f # e
      BY <2>1, <3>2, SettleStep, <1>0 DEF OpenIsFree
    <3> QED
      BY <1>0, <2>1, <3>2, <3>3, SettleStep
  <2>3. (Types /\ OpenIsFree)'
    BY <1>0, <2>1, SettleStep DEF Types, OpenIsFree
  <2>4. (\A d \in Contacts : history[d] =
          {f \in Events : contactOf[f] = d /\ outcome[f] \in {"received", "duplicate"}})'
    BY <1>0, <2>1, SettleStep DEF Types, OpenIsFree, HistoriesFaithful
  <2>5. (\A d \in Contacts : \A f, g \in Events :
          /\ contactOf[f] = d /\ contactOf[g] = d
          /\ outcome[f] # "duplicate" /\ outcome[g] # "duplicate"
          => f = g)'
    BY <1>0, <2>1, SettleStep DEF HistoriesFaithful
  <2>6. (\A d \in announced : \E f \in history[d] : outcome[f] = "received")'
    BY <1>0, <2>1, SettleStep DEF Types, HistoriesFaithful
  <2> QED
    BY <2>2, <2>3, <2>4, <2>5, <2>6 DEF HistoriesFaithful
<1>5. ASSUME NEW e \in Events, NEW c \in Contacts, Close(e, c) PROVE CInv'
  <2>1. Settle(e, "terminal", c) /\ history' = history
    BY <1>5 DEF Close
  <2>2. \A f \in Events : contactOf[f] # c
    BY <1>5 DEF Close, Opened
  <2> QED
    BY <1>0, <2>1, <2>2, SettleStep DEF Types, OpenIsFree, HistoriesFaithful, Opened
<1>6. ASSUME NEW c \in Contacts, Announce(c) PROVE CInv'
  BY <1>6 DEF Announce, Types, OpenIsFree, HistoriesFaithful, Opened
<1> QED
  BY <1>1, <1>2, <1>3, <1>4, <1>5, <1>6 DEF Next

\* Any implementation of the contract keeps histories faithful: with Refinement,
\* lead intake does.
THEOREM HistorySafety ==
  ASSUME None \notin Contacts
  PROVE  Spec => []HistoriesFaithful
<1>1. CInv => HistoriesFaithful
  BY DEF CInv
<1>2. CInv /\ [Next]_vars => CInv'
  BY ContractPreserved
<1>3. Init => CInv
  BY ContractInit
<1> QED
  BY <1>1, <1>2, <1>3, PTL DEF Spec

=============================================================================
