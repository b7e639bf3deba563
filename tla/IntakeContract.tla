--------------------------- MODULE IntakeContract ---------------------------
(***************************************************************************)
(* What lead intake promises of each platform event, whatever the number   *)
(* of deliveries, workers, retries and crashes: one outcome, for good.     *)
(*   received   it opened a contact and is the first entry of its history  *)
(*   duplicate  it was added to the history of a contact already open      *)
(*   terminal   it opened a contact that is not pursued (noise, blocked)   *)
(*   unlinked   it was logged without any contact                          *)
(* and a contact is announced (LeadReceived) at most once, only if an      *)
(* event was received for it.                                              *)
(***************************************************************************)
CONSTANTS Events, Contacts, None

VARIABLES outcome, contactOf, history, announced
vars == <<outcome, contactOf, history, announced>>

Outcome == {"open", "received", "duplicate", "terminal", "unlinked"}

Init ==
  /\ outcome = [e \in Events |-> "open"]
  /\ contactOf = [e \in Events |-> None]
  /\ history = [c \in Contacts |-> {}]
  /\ announced = {}

Opened(c) == \E e \in Events : contactOf[e] = c

Settle(e, o, c) ==
  /\ outcome[e] = "open"
  /\ outcome' = [outcome EXCEPT ![e] = o]
  /\ contactOf' = [contactOf EXCEPT ![e] = c]
  /\ UNCHANGED announced

Capture(e, c) == /\ ~Opened(c)
                 /\ Settle(e, "received", c)
                 /\ history' = [history EXCEPT ![c] = {e}]

Attach(e, c) == /\ Opened(c)
                /\ Settle(e, "duplicate", c)
                /\ history' = [history EXCEPT ![c] = @ \cup {e}]

Close(e, c) == /\ ~Opened(c)
               /\ Settle(e, "terminal", c)
               /\ UNCHANGED history

Reject(e) == /\ Settle(e, "unlinked", None)
             /\ UNCHANGED history

Announce(c) ==
  /\ c \notin announced
  /\ \E e \in Events : contactOf[e] = c /\ outcome[e] = "received"
  /\ announced' = announced \cup {c}
  /\ UNCHANGED <<outcome, contactOf, history>>

Next ==
  \/ \E e \in Events : Reject(e)
  \/ \E e \in Events, c \in Contacts :
       Capture(e, c) \/ Attach(e, c) \/ Close(e, c)
  \/ \E c \in Contacts : Announce(c)

Spec == Init /\ [][Next]_vars

-----------------------------------------------------------------------------
(* Well-formed outcomes.                                                   *)
Types ==
  /\ outcome \in [Events -> Outcome]
  /\ contactOf \in [Events -> Contacts \cup {None}]
  /\ history \in [Contacts -> SUBSET Events]
  /\ announced \subseteq Contacts

\* Whoever keeps the contract (run_capture, create_terminal_lead) keeps faithful
\* histories: a contact's history is exactly the events received or duplicated for it,
\* exactly one event opened it if any came to it, and only a contact opened by a
\* received event is announced.
HistoriesFaithful ==
  /\ \A c \in Contacts : history[c] =
       {e \in Events : contactOf[e] = c /\ outcome[e] \in {"received", "duplicate"}}
  /\ \A c \in Contacts : \A e, f \in Events :
       /\ contactOf[e] = c /\ contactOf[f] = c
       /\ outcome[e] # "duplicate" /\ outcome[f] # "duplicate"
       => e = f
  /\ \A c \in Contacts : Opened(c) =>
       \E e \in Events : contactOf[e] = c /\ outcome[e] # "duplicate"
  /\ \A c \in announced : \E e \in history[c] : outcome[e] = "received"
=============================================================================
