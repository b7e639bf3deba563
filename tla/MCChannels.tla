----------------------------- MODULE MCChannels -----------------------------
(***************************************************************************)
(* Callbacks for TLC: Facebook with a page and its linked Instagram        *)
(* account, the Instagram login of the same account, a WhatsApp signup.    *)
(***************************************************************************)
EXTENDS ChannelConnections, TLC

CONSTANTS f1, f2, f3, page, ig1, ig2, ph1, ph2

Kinds == f1 :> "facebook" @@ f2 :> "instagram" @@ f3 :> "whatsapp"
Plans == f1 :> <<{page}, {ig1}>> @@ f2 :> <<{ig1}>> @@ f3 :> <<{ph1}, {}>>

\* Two Instagram logins, of two accounts.
Logins == [f \in Flows |-> "instagram"]
Apart == f1 :> <<{ig1}>> @@ f2 :> <<{ig2}>>

=============================================================================
