------------------------- MODULE ChannelConnections -------------------------
(***************************************************************************)
(* The channel connections of tenants: how an OAuth callback creates them  *)
(* (oauth/facebook.py, oauth/instagram.py, oauth/whatsapp.py), how a       *)
(* webhook finds the one it is for (api/lead_ingestion.py), and how the    *)
(* daily cron job keeps Instagram tokens alive                             *)
(* (instagram_token_refresh.py).  A flow is one OAuth callback; it inserts *)
(* at most one row per account it discovers, so a row is named by its flow *)
(* and its account.  Time is counted in days.                              *)
(***************************************************************************)
EXTENDS Integers, Sequences, FiniteSets

CONSTANTS
  Accounts,   \* page ids, Instagram account ids and WhatsApp phone_number_ids
  Instagram,  \* the accounts that are Instagram accounts
  Flows,      \* OAuth callbacks, of any tenant
  KindOf,     \* the sign-in a flow comes from
  Plan,       \* what the flow's user granted: the sets of accounts it
              \* subscribes one after the other (a page, the Instagram account
              \* linked to the page before it, the phones of a WABA)
  Life,       \* days an Instagram token lives (expires_in, about 60)
  Window,     \* days before its expiry in which it is refreshed (7)
  LastDay,    \* the bound on time
  None, NoRow

ASSUME InstagramAssumption == Instagram \subseteq Accounts
ASSUME KindAssumption == KindOf \in [Flows -> {"facebook", "instagram", "whatsapp"}]
ASSUME PlanAssumption ==
  /\ Plan \in [Flows -> Seq(SUBSET Accounts)]
  /\ \A f \in Flows : KindOf[f] = "instagram" =>
       \A i \in 1 .. Len(Plan[f]) : Plan[f][i] \subseteq Instagram
ASSUME LifeAssumption == Life \in Nat /\ Window \in Nat /\ Window < Life
ASSUME LastDayAssumption == LastDay \in Nat

Rows == Flows \X Accounts
Days == 0 .. LastDay
Row == [status : {"active", "expired"}, expires : Nat \cup {None}]

ASSUME SentinelAssumption == None \notin Nat /\ NoRow \notin Row

VARIABLES
  conns,       \* channel_connections: the committed rows
  subscribed,  \* accounts whose events Meta sends to the webhook
  pc, at,      \* per flow: where it is, and the next stop of its plan
  added,       \* per flow: accounts whose row is in its open session
  today,
  sweeping,    \* whether the refresh job runs
  todo,        \* the connections it has still to look at
  begun,       \* days on which it ran, unless it was interrupted
  swept,       \* days on which it ran to its end
  refused      \* rows whose refresh call Meta refused
flow == <<pc, at, added>>
sweep == <<sweeping, todo, begun, swept, refused>>
vars == <<conns, subscribed, flow, today, sweep>>

\* The WhatsApp callback has no state parameter: its user is authenticated.
Init ==
  /\ conns = [r \in Rows |-> NoRow]
  /\ subscribed = {}
  /\ pc = [f \in Flows |-> IF KindOf[f] = "whatsapp" THEN "exchange" ELSE "callback"]
  /\ at = [f \in Flows |-> 1]
  /\ added = [f \in Flows |-> {}]
  /\ today = 0
  /\ sweeping = FALSE
  /\ todo = {} /\ begun = {} /\ swept = {} /\ refused = {}

-----------------------------------------------------------------------------
(* OAuth callbacks.                                                        *)

\* verify_state of the signed state parameter.
VerifyState(f) ==
  /\ pc[f] = "callback"
  /\ pc' = [pc EXCEPT ![f] = "exchange"]
  /\ UNCHANGED <<conns, subscribed, at, added, today, sweep>>

\* The chain of calls from the code to a token and the accounts it covers.
Authorised(f) ==
  /\ pc[f] = "exchange"
  /\ pc' = [pc EXCEPT ![f] = "visit"]
  /\ UNCHANGED <<conns, subscribed, at, added, today, sweep>>

\* _fetch_page_accounts raises when the user granted no page.
FacebookPages(f) == KindOf[f] = "facebook" /\ Plan[f] # <<>> /\ Authorised(f)
InstagramAccount(f) == KindOf[f] = "instagram" /\ Authorised(f)
SignupWabas(f) == KindOf[f] = "whatsapp" /\ Authorised(f)

\* A page token and a WhatsApp token do not expire; an Instagram login's does,
\* unlike that of the same account reached through its page.  (A callback takes
\* seconds: the day of its last call to Meta is that of its commit.)
ExpiresAt(f) == IF KindOf[f] = "instagram" THEN today + Life ELSE None
NewRows(f, accounts) ==
  [r \in Rows |-> IF r[1] = f /\ r[2] \in accounts
                  THEN [status |-> "active", expires |-> ExpiresAt(f)]
                  ELSE conns[r]]

AtStop(f) == pc[f] = "visit" /\ at[f] <= Len(Plan[f])

\* Fault: a commit after every account.
SubscribeCommitting(f) ==
  /\ AtStop(f)
  /\ subscribed' = subscribed \cup Plan[f][at[f]]
  /\ conns' = NewRows(f, Plan[f][at[f]])
  /\ at' = [at EXCEPT ![f] = @ + 1]
  /\ UNCHANGED <<pc, added, today, sweep>>

\* One call to subscribed_apps, then session.add of a row per account.
Subscribe(f) ==
  /\ AtStop(f)
  /\ subscribed' = subscribed \cup Plan[f][at[f]]
  /\ added' = [added EXCEPT ![f] = @ \cup Plan[f][at[f]]]
  /\ at' = [at EXCEPT ![f] = @ + 1]
  /\ UNCHANGED <<conns, pc, today, sweep>>

AtLinked(f) == AtStop(f) /\ Plan[f][at[f]] \subseteq Instagram
ConnectPage(f) == KindOf[f] = "facebook" /\ ~AtLinked(f) /\ Subscribe(f)
ConnectLinked(f) == KindOf[f] = "facebook" /\ AtLinked(f) /\ Subscribe(f)
ConnectInstagram(f) == KindOf[f] = "instagram" /\ Subscribe(f)
ConnectWaba(f) == KindOf[f] = "whatsapp" /\ Subscribe(f)

\* Fault: the loop moves on twice.
SkipLinkedTwice(f) ==
  /\ KindOf[f] = "facebook" /\ AtLinked(f)
  /\ at' = [at EXCEPT ![f] = @ + 2]
  /\ UNCHANGED <<conns, subscribed, pc, added, today, sweep>>

\* _fetch_connected_ig_account returns None: no account is linked any more, or
\* the Graph call failed.
SkipLinked(f) ==
  /\ KindOf[f] = "facebook" /\ AtLinked(f)
  /\ at' = [at EXCEPT ![f] = @ + 1]
  /\ UNCHANGED <<conns, subscribed, pc, added, today, sweep>>

\* The one commit at the end of the flow.
Commit(f) ==
  /\ pc[f] = "visit" /\ at[f] > Len(Plan[f])
  /\ conns' = NewRows(f, added[f])
  /\ added' = [added EXCEPT ![f] = {}]
  /\ pc' = [pc EXCEPT ![f] = "connected"]
  /\ UNCHANGED <<subscribed, at, today, sweep>>

\* A bad state (403), a refused Graph call or a failed commit (502), a crash:
\* the session is rolled back, what Meta subscribed stays subscribed.
FlowFails(f) ==
  /\ pc[f] \in {"callback", "exchange", "visit"}
  /\ pc' = [pc EXCEPT ![f] = "failed"]
  /\ added' = [added EXCEPT ![f] = {}]
  /\ UNCHANGED <<conns, subscribed, at, today, sweep>>

-----------------------------------------------------------------------------
(* Webhooks: they read the connections and change none.                     *)

Active(r) == conns[r] # NoRow /\ conns[r].status = "active"
\* The rows get_whatsapp_connection_by_phone_number_id and
\* get_connection_by_page_or_ig_account_id select.
Connections(account) == {r \in Rows : r[2] = account /\ Active(r)}

\* What the webhook does with an event of the account: log_unroutable_event,
\* enqueue_job for the one connection, or 500, because scalar_one_or_none raises
\* MultipleResultsFound.  LeadCapture models what follows.
Answer(account) ==
  CASE Connections(account) = {} -> "unknown_connection"
    [] \E r \in Rows : Connections(account) = {r} -> "received"
    [] OTHER -> "error"

-----------------------------------------------------------------------------
(* The daily refresh of Instagram tokens.                                  *)

Ours == <<conns, subscribed, flow, today>>
Expiring(r) == conns[r] # NoRow /\ conns[r].expires # None
Left(r) == conns[r].expires - today

\* Fault: the select lacks the condition on status.
StartSweepAll ==
  /\ ~sweeping /\ today \notin begun
  /\ sweeping' = TRUE
  /\ todo' = {r \in Rows : r[2] \in Instagram /\ conns[r] # NoRow}
  /\ begun' = begun \cup {today}
  /\ UNCHANGED <<Ours, swept, refused>>

\* Once a day; now is read and the rows are selected here.
StartSweep ==
  /\ ~sweeping /\ today \notin begun
  /\ sweeping' = TRUE
  /\ todo' = {r \in Rows : r[2] \in Instagram /\ Active(r)}
  /\ begun' = begun \cup {today}
  /\ UNCHANGED <<Ours, swept, refused>>

Looked(r) ==
  /\ sweeping /\ r \in todo
  /\ todo' = todo \ {r}
  /\ UNCHANGED <<subscribed, flow, today, sweeping, begun, swept, refused>>

\* Fault: the window ends a day early.
LeaveFreshEarly(r) ==
  /\ Expiring(r) => Left(r) >= Window - 1
  /\ Looked(r)
  /\ UNCHANGED conns

\* No expiry, or more than the window left.
LeaveFresh(r) ==
  /\ Expiring(r) => Left(r) >= Window
  /\ Looked(r)
  /\ UNCHANGED conns

\* now >= expires_at.
MarkLapsed(r) ==
  /\ Expiring(r) /\ Left(r) <= 0
  /\ Looked(r)
  /\ conns' = [conns EXCEPT ![r].status = "expired"]

Due(r) == Expiring(r) /\ Left(r) \in 1 .. Window - 1

\* Fault: decryption before the test of expires_at.
MarkUnreadableEarly(r) ==
  /\ Looked(r)
  /\ conns' = [conns EXCEPT ![r].status = "expired"]

\* decrypt_credentials raises.
MarkUnreadable(r) ==
  /\ Due(r)
  /\ Looked(r)
  /\ conns' = [conns EXCEPT ![r].status = "expired"]

Refresh(r) ==
  /\ Due(r)
  /\ Looked(r)
  /\ conns' = [conns EXCEPT ![r].expires = today + Life]

\* _call_refresh_api raises: the job ends there, and arq does not retry it.
RefreshRefused(r) ==
  /\ Due(r)
  /\ sweeping /\ r \in todo
  /\ refused' = refused \cup {r}
  /\ sweeping' = FALSE /\ todo' = {}
  /\ UNCHANGED <<Ours, begun, swept>>

FinishSweep ==
  /\ sweeping /\ todo = {}
  /\ sweeping' = FALSE
  /\ swept' = swept \cup {today}
  /\ UNCHANGED <<Ours, todo, begun, refused>>

\* A crash, a shutdown or arq's job_timeout; arq may run the job once more.
InterruptSweep ==
  /\ sweeping
  /\ sweeping' = FALSE /\ todo' = {}
  /\ begun' = begun \ {today}
  /\ UNCHANGED <<Ours, swept, refused>>

\* A run ends on the day it starts; a day may pass without one.
NextDay ==
  /\ ~sweeping /\ today < LastDay
  /\ today' = today + 1
  /\ UNCHANGED <<conns, subscribed, flow, sweep>>

-----------------------------------------------------------------------------
Callback(f) ==
  \/ VerifyState(f) \/ FlowFails(f)
  \/ FacebookPages(f) \/ InstagramAccount(f) \/ SignupWabas(f)
  \/ ConnectPage(f) \/ ConnectLinked(f) \/ SkipLinked(f)
  \/ ConnectInstagram(f) \/ ConnectWaba(f) \/ Commit(f)
Look(r) ==
  \/ LeaveFresh(r) \/ MarkLapsed(r) \/ MarkUnreadable(r)
  \/ Refresh(r) \/ RefreshRefused(r)

Next ==
  \/ \E f \in Flows : Callback(f)
  \/ \E r \in Rows : Look(r)
  \/ StartSweep \/ FinishSweep \/ InterruptSweep \/ NextDay
Spec == Init /\ [][Next]_vars

-----------------------------------------------------------------------------
(* Properties.                                                             *)

\* Rows, sessions and positions are well formed; only a flow at work has rows
\* in an open session, and the refresh job only looks at rows while it runs.
Types ==
  /\ conns \in [Rows -> Row \cup {NoRow}]
  /\ subscribed \subseteq Accounts
  /\ pc \in [Flows -> {"callback", "exchange", "visit", "connected", "failed"}]
  /\ at \in [Flows -> Nat]
  /\ added \in [Flows -> SUBSET Accounts]
  /\ today \in Days /\ sweeping \in BOOLEAN
  /\ todo \subseteq Rows /\ begun \subseteq Days /\ swept \subseteq Days
  /\ refused \subseteq Rows
  /\ \A f \in Flows : at[f] \in 1 .. Len(Plan[f]) + 1
  /\ \A f \in Flows : added[f] # {} => pc[f] = "visit"
  /\ todo # {} => sweeping

\* A callback connects all it was granted or nothing: no row of a flow that
\* failed or is at work is committed, a connected flow has a row for every
\* account but those linked to a page, and whatever has a row is subscribed
\* (one commit at the end, after the calls to subscribed_apps).
Held(f) == {a \in Accounts : conns[<<f, a>>] # NoRow}
FlowIsAtomic ==
  \A f \in Flows :
    /\ pc[f] # "connected" => Held(f) = {}
    /\ Held(f) \subseteq subscribed
    /\ pc[f] = "connected" =>
         \A i \in 1 .. Len(Plan[f]) :
           \/ Plan[f][i] \subseteq Held(f)
           \/ KindOf[f] = "facebook" /\ Plan[f][i] \subseteq Instagram

\* After a refresh job has run to its end on a day, every token that was within
\* its window that day has been refreshed or its connection marked expired: an
\* active connection lapses only when no run ended during its whole window.
KeptFresh ==
  \A d \in swept, r \in Rows :
    Active(r) /\ Expiring(r) => conns[r].expires >= d + Window

\* No connection disappears; one that does not expire is never touched by the
\* refresh job, an expired one never comes back, a token never loses time.
RowsLiveForward ==
  [][\A r \in Rows : conns[r] # NoRow =>
       /\ conns'[r] # NoRow
       /\ ~Active(r) \/ ~Expiring(r) => conns'[r] = conns[r]
       /\ Expiring(r) => conns'[r].expires >= conns[r].expires]_vars

\* An account connected with a token that does not expire is routable from then
\* on: none of its events is dropped as unroutable.
ConnectedIsRoutable ==
  \A r \in Rows : conns[r] # NoRow /\ ~Expiring(r) =>
    Answer(r[2]) # "unknown_connection"

\* "Check for existing active channel_connection before creating": an event of
\* a subscribed account has one addressee, and the webhook does not fail on it.
EventsHaveOneAddressee == \A a \in subscribed : Answer(a) # "error"

\* "Refresh all active Instagram tokens within the refresh window": a token the
\* job had every day of its window to refresh, and that Meta never refused to
\* refresh, does not lapse.
RefusalIsContained ==
  \A r \in Rows : Active(r) /\ Expiring(r) /\ Left(r) <= 0 /\ r \notin refused =>
    ~ (conns[r].expires - Window + 1 .. conns[r].expires - 1 \subseteq begun)

=============================================================================
