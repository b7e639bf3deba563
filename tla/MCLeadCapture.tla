--------------------------- MODULE MCLeadCapture ---------------------------
(***************************************************************************)
(* Instances of LeadCapture for TLC: who delivers which event, and whose   *)
(* contact details the events carry.                                       *)
(***************************************************************************)
EXTENDS LeadCapture, TLC

CONSTANTS e1, e2, e3, e4, j1, j2, j3, j4, m1, n1, c1

\* One number in two formats, and what forms hold where no number is known.
Plain == <<"+", "9", "1">>
Spaced == <<"+", "9", " ", "1">>
NotKnown == <<"n", "a">>
Dash == <<"-">>
Written == {Plain, Spaced, NotKnown, Dash}

Known(phone, email, name, place) ==
  [phone |-> phone, email |-> email, name |-> name, place |-> place]

\* Two deliveries of e1, one of e2.
TwiceAndOnce == j1 :> e1 @@ j2 :> e1 @@ j3 :> e2
\* The two deliveries of e1 are interchangeable.
Redeliveries == Permutations({j1, j2})

\* A WhatsApp message and a Lead Ads form of one contact, who writes the same
\* number in another format there.
MessageAndForm == e1 :> "message" @@ e2 :> "leadgen"
SamePhone == e1 :> Known(Plain, None, n1, None) @@ e2 :> Known(Spaced, m1, n1, c1)
\* The text adds nothing to what is known of the sender.
NothingSaid == [e \in Events |-> {Nobody}]

\* Three forms, each delivered once.
OnceEach == j1 :> e1 @@ j2 :> e2 @@ j3 :> e3

\* Three forms of one name and town: one has letters for a phone, one an e-mail
\* address; the third may have a dash for a phone and that address, or nothing
\* that identifies anybody.  And a WhatsApp webhook without a message.
FormsAndNotice == OnceEach @@ j4 :> e4
NoticeLast == e4 :> "status" @@ [e \in Events |-> "leadgen"]
NoNumber == e1 :> Known(NotKnown, None, n1, c1) @@ e2 :> Known(None, m1, n1, c1)
         @@ e3 :> Nobody @@ e4 :> Nobody
AllOrNothing == e3 :> {Known(Dash, m1, n1, c1), Nobody}
             @@ [e \in Events |-> {Nobody}]

\* Two messages of one WhatsApp sender, each delivered once.
OneEach == j1 :> e1 @@ j2 :> e2
Messages == [e \in Events |-> "message"]
SameSender == [e \in Events |-> Known(Plain, None, n1, None)]

=============================================================================
