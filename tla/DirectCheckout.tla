--------------------------- MODULE DirectCheckout ---------------------------
(***************************************************************************)
(* The direct agent's checkout (app/direct/checkout.py): a turn prepares a *)
(* proposal, the customer confirms it by its code in a later message, and  *)
(* execute_checkout makes the cart in the store, once, under a journal     *)
(* (app/direct/checkout_journal.py) that it writes before the request.     *)
(* What a turn knows of the conversation is what earlier replies recorded  *)
(* as delivered say (app/direct/history.py).                               *)
(*                                                                         *)
(* Messages of one conversation, by inbound id.  The queues around a turn  *)
(* (Inbox, Outbox) may run it again, on its own or beside another: all     *)
(* that is taken from them is that the first accepted reply stays.         *)
(***************************************************************************)
EXTENDS Naturals

CONSTANTS MaxMessage,   \* bound of the model: messages of the conversation
          MaxProposal,  \* bound of the model: proposals prepared
          Runners,      \* workers that run turns
          Facts         \* name, variant and price the store may show

ASSUME CheckoutAssumption ==
  /\ MaxMessage \in Nat
  /\ MaxProposal \in Nat

Messages  == 1..MaxMessage
Proposals == 1..MaxProposal

\* What a reply's direct_checkout may say: status and proposal, 0 for none.
Nothing  == [status |-> "nothing", proposal |-> 0]
NoReply  == [status |-> "unanswered", proposal |-> 0]
Absent   == [kind |-> "absent", code |-> 0]
Says(status, p) == [status |-> status, proposal |-> p]

VARIABLES asks,      \* what each message says
          reply,     \* the accepted reply, as far as direct_checkout goes
          shown,     \* it is recorded as delivered
          reviewed,  \* what each proposal says of the product; {} if not made
          stale,     \* its ten minutes are over
          offered,   \* what the store shows of the product now
          journal,   \* ai_direct_checkout_executions
          posts,     \* history: POSTs sent for each proposal
          cart,      \* the cart the store made of it
          turn       \* what each runner does

checkoutVars == <<asks, reply, shown, reviewed, stale, offered, journal, posts, cart, turn>>
talkVars     == <<asks, reply, shown, reviewed, stale, offered>>
storeVars    == <<journal, posts, cart>>

Off == [at |-> "off", message |-> 0, seen |-> Nothing, answer |-> Nothing]

CheckoutInit ==
  /\ asks = [m \in Messages |-> Absent]
  /\ reply = [m \in Messages |-> NoReply]
  /\ shown = [m \in Messages |-> FALSE]
  /\ reviewed = [p \in Proposals |-> {}]
  /\ stale = [p \in Proposals |-> FALSE]
  /\ offered \in Facts
  /\ journal = [p \in Proposals |-> "none"]
  /\ posts = [p \in Proposals |-> 0]
  /\ cart = [p \in Proposals |-> "none"]
  /\ turn = [r \in Runners |-> Off]

Asked(r) == asks[turn[r].message]
Code(r)  == Asked(r).code
Known(r)  == turn[r].seen

At(r, place) == turn[r].at = place

Goes(r, from, to) == At(r, from) /\ turn' = [turn EXCEPT ![r].at = to]

Answers(r, from, says) ==
  /\ At(r, from)
  /\ turn' = [turn EXCEPT ![r].at = "answering", ![r].answer = says, ![r].seen = Nothing]

-----------------------------------------------------------------------------
(* The turn *)

Latest(rows) == {reply[k] : k \in {k \in rows : \A j \in rows : j <= k}}

\* Variant: a reply counts once it is accepted.
PreviousAccepted(m) ==
  LET earlier == {k \in Messages : k < m /\ reply[k] # NoReply}
  IN  IF earlier = {} THEN {Nothing} ELSE Latest(earlier)

\* load_history: what the latest earlier message with a delivered reply says.
Previous(m) ==
  LET earlier == {k \in Messages : k < m /\ shown[k]}
  IN  IF earlier = {} THEN {Nothing} ELSE Latest(earlier)

Begin(r, m) ==
  /\ turn[r] = Off
  /\ asks[m] # Absent /\ reply[m] = NoReply
  /\ \E seen \in Previous(m) :
       turn' = [turn EXCEPT ![r] = [at |-> "reading", message |-> m, seen |-> seen, answer |-> Nothing]]
  /\ UNCHANGED <<talkVars, storeVars>>

\* The model calls prepare_checkout: current facts under a new id.
Propose(r) ==
  /\ At(r, "reading") /\ Asked(r).kind \in {"text", "no"}
  /\ Asked(r).kind = "no" => Known(r).status # "awaiting"
  /\ \E p \in Proposals :
       /\ reviewed[p] = {} /\ \A q \in Proposals : q < p => reviewed[q] # {}
       /\ reviewed' = [reviewed EXCEPT ![p] = {offered}]
       /\ Answers(r, "reading", Says("awaiting", p))
  /\ UNCHANGED <<asks, reply, shown, stale, offered, storeVars>>

\* Any other reply carries what the last one said: the model's words, a "sim",
\* a command with an attachment, a cancellation that comes too late.
Carry(r) ==
  /\ At(r, "reading")
  /\ Asked(r).kind = "no" => Known(r).status # "awaiting"
  /\ Asked(r).kind = "cancel" => Known(r).proposal = Code(r)
  /\ Asked(r).kind = "confirm" => Known(r).proposal = Code(r)
  /\ Answers(r, "reading", Known(r))
  /\ UNCHANGED <<talkVars, storeVars>>

\* A proposal is discarded, a command does not fit, checkout is disabled, the
\* proposal has expired, or the turn fails and apologises.
DropProposal(r) ==
  /\ Answers(r, "reading", Nothing)
  /\ UNCHANGED <<talkVars, storeVars>>

\* handle_checkout_command's last checks before execute_checkout.
Recognise(r) ==
  /\ Goes(r, "reading", "confirming")
  /\ Asked(r).kind = "confirm" /\ Known(r).proposal = Code(r)
  /\ ~stale[Code(r)]
  /\ UNCHANGED <<talkVars, storeVars>>

-----------------------------------------------------------------------------
(* execute_checkout *)

\* The INSERT returns a row.
Owns(p) == journal[p] = "none"

ClaimProposal(r) ==
  LET p == Code(r) IN
  /\ At(r, "confirming")
  /\ IF Owns(p)
       THEN Goes(r, "confirming", "claimed") /\ journal' = [journal EXCEPT ![p] = "started"]
       ELSE Answers(r, "confirming", Says(journal[p], p)) /\ UNCHANGED journal
  /\ UNCHANGED <<talkVars, posts, cart>>

\* The journal cannot be reached; the INSERT may be in it all the same.
ClaimFails(r) ==
  LET p == Code(r) IN
  /\ At(r, "confirming")
  /\ Answers(r, "confirming", Says("unknown", p))
  /\ \/ Owns(p) /\ journal' = [journal EXCEPT ![p] = "started"]
     \/ UNCHANGED journal
  /\ UNCHANGED <<talkVars, posts, cart>>

Revalidates(r) ==
  /\ Goes(r, "claimed", "checked")
  /\ reviewed[Code(r)] = {offered}
  /\ UNCHANGED <<talkVars, storeVars>>

\* Other facts, no stock, or no answer in time.
Objects(r) ==
  /\ Goes(r, "claimed", "objecting")
  /\ UNCHANGED <<talkVars, storeVars>>

\* Variant: the UPDATE names the proposal only.
FinishAnyhow(p, status) == journal' = [journal EXCEPT ![p] = status]

\* The UPDATE names the status 'started'; another one raises.
Finish(p, status) ==
  journal[p] = "started" /\ journal' = [journal EXCEPT ![p] = status]

Reject(r) ==
  LET p == Code(r) IN
  /\ At(r, "objecting")
  /\ \/ Finish(p, "rejected") /\ Answers(r, "objecting", Nothing)
     \/ (Finish(p, "rejected") \/ UNCHANGED journal) /\ Answers(r, "objecting", Says("unknown", p))
  /\ UNCHANGED <<talkVars, posts, cart>>

\* create_cart: the request leaves.
Send(r) ==
  /\ Goes(r, "checked", "sent")
  /\ posts' = [posts EXCEPT ![Code(r)] = @ + 1]
  /\ UNCHANGED <<talkVars, journal, cart>>

\* The answer and the complete cart are as reviewed.
Verifies(r) ==
  /\ Goes(r, "sent", "verified")
  /\ cart[Code(r)] = "reviewed"
  /\ UNCHANGED <<talkVars, storeVars>>

\* Anything else within 30 seconds.
Doubts(r) ==
  /\ Goes(r, "sent", "doubting")
  /\ UNCHANGED <<talkVars, storeVars>>

\* The receipt; when its write raises, committed or not, the doubt is recorded.
Complete(r) ==
  LET p == Code(r) IN
  /\ At(r, "verified")
  /\ \/ Finish(p, "completed") /\ Answers(r, "verified", Says("completed", p))
     \/ (Finish(p, "completed") \/ UNCHANGED journal) /\ Goes(r, "verified", "doubting")
  /\ UNCHANGED <<talkVars, posts, cart>>

\* Variant: what could not be confirmed is recorded as rejected.
RecordRejection(r) ==
  LET p == Code(r) IN
  /\ At(r, "doubting")
  /\ Answers(r, "doubting", Nothing)
  /\ Finish(p, "rejected") \/ UNCHANGED journal
  /\ UNCHANGED <<talkVars, posts, cart>>

RecordDoubt(r) ==
  LET p == Code(r) IN
  /\ At(r, "doubting")
  /\ Answers(r, "doubting", Says("unknown", p))
  /\ Finish(p, "unknown") \/ UNCHANGED journal
  /\ UNCHANGED <<talkVars, posts, cart>>

-----------------------------------------------------------------------------
(* Around the turn *)

\* enqueue_accepted_outbound: the first reply to a message stays.
Accept(r) ==
  LET m == turn[r].message IN
  /\ At(r, "answering")
  /\ reply' = IF reply[m] = NoReply THEN [reply EXCEPT ![m] = turn[r].answer] ELSE reply
  /\ turn' = [turn EXCEPT ![r] = Off]
  /\ UNCHANGED <<asks, shown, reviewed, stale, offered, storeVars>>

\* The process dies or the turn is cancelled; the inbox may run it again.
TurnEnds(r) ==
  /\ turn[r] # Off
  /\ turn' = [turn EXCEPT ![r] = Off]
  /\ UNCHANGED <<talkVars, storeVars>>

\* insert_agent_response with provider_send_ok.
Deliver(m) ==
  /\ reply[m] # NoReply /\ ~shown[m]
  /\ shown' = [shown EXCEPT ![m] = TRUE]
  /\ UNCHANGED <<asks, reply, reviewed, stale, offered, storeVars, turn>>

\* The customer writes: text, a plain refusal, a command with the code of any
\* proposal there is.
CustomerWrites(m) ==
  /\ asks[m] = Absent /\ \A k \in Messages : k < m => asks[k] # Absent
  /\ \E kind \in {"text", "no", "confirm", "cancel"}, p \in Proposals \cup {0} :
       /\ IF kind \in {"text", "no"} THEN p = 0 ELSE p # 0 /\ reviewed[p] # {}
       /\ asks' = [asks EXCEPT ![m] = [kind |-> kind, code |-> p]]
  /\ UNCHANGED <<reply, shown, reviewed, stale, offered, storeVars, turn>>

\* The store makes the cart of a request, perhaps long after the agent gave up.
Lands(p) ==
  /\ posts[p] > 0 /\ cart[p] = "none"
  /\ \E c \in {"reviewed", "other"} : cart' = [cart EXCEPT ![p] = c]
  /\ UNCHANGED <<talkVars, journal, posts, turn>>

Expire(p) ==
  /\ reviewed[p] # {} /\ ~stale[p]
  /\ stale' = [stale EXCEPT ![p] = TRUE]
  /\ UNCHANGED <<asks, reply, shown, reviewed, offered, storeVars, turn>>

Reprice ==
  /\ \E f \in Facts \ {offered} : offered' = f
  /\ UNCHANGED <<asks, reply, shown, reviewed, stale, storeVars, turn>>

TurnStep(r) ==
  \/ \E m \in Messages : Begin(r, m)
  \/ Propose(r) \/ Carry(r) \/ DropProposal(r) \/ Recognise(r)
  \/ ClaimProposal(r) \/ ClaimFails(r) \/ Revalidates(r) \/ Objects(r) \/ Reject(r)
  \/ Send(r) \/ Verifies(r) \/ Doubts(r) \/ Complete(r) \/ RecordDoubt(r)
  \/ Accept(r) \/ TurnEnds(r)

CheckoutNext ==
  \/ \E r \in Runners : TurnStep(r)
  \/ \E m \in Messages : Deliver(m) \/ CustomerWrites(m)
  \/ \E p \in Proposals : Lands(p) \/ Expire(p)
  \/ Reprice

CheckoutSpec == CheckoutInit /\ [][CheckoutNext]_checkoutVars

-----------------------------------------------------------------------------
(* Properties *)

\* However often a confirmation is repeated, run again or cut short, the store
\* gets one request for a proposal ("At most one POST per proposal, even after
\* crashes or failed delivery").
AtMostOnePost == \A p \in Proposals : posts[p] <= 1

\* A delivered reply showed proposal p, and a later message confirmed it by its
\* code.
Consented(p) ==
  \E m, n \in Messages :
    /\ m < n /\ shown[m] /\ reply[m] = Says("awaiting", p)
    /\ asks[n] = [kind |-> "confirm", code |-> p]

\* A cart is only asked for when an earlier delivered reply showed the proposal
\* and a later message confirmed it by its code.
OnlyWithConsent == \A p \in Proposals : posts[p] > 0 => Consented(p)

\* What the journal and the replies say is so, although the store may act long
\* after the agent gave up: completed means the cart is there as reviewed,
\* rejected that none was asked for.
ReceiptsAreTrue ==
  \A p \in Proposals :
    /\ journal[p] = "completed" => cart[p] = "reviewed"
    /\ journal[p] = "rejected"  => posts[p] = 0
    /\ \A m \in Messages : reply[m] = Says("completed", p) => cart[p] = "reviewed"

\* The checkout keeps what PurchasePromise promises: its turns, repeated, cut
\* short or side by side, take one step of the promise at a time or none.
Purchase ==
  INSTANCE PurchasePromise WITH
    consent <- {p \in Proposals : Consented(p)},
    verdict <- [p \in Proposals |-> IF journal[p] \in {"none", "started"} THEN "open" ELSE journal[p]]

KeepsPurchasePromise == Purchase!PurchaseSpec

-----------------------------------------------------------------------------
(* The inductive invariant *)

JournalStatus == {"started", "completed", "rejected", "unknown"}
Places == {"off", "reading", "confirming", "claimed", "checked", "objecting",
           "sent", "verified", "doubting", "answering"}
Talk   == [status : JournalStatus \cup {"nothing", "unanswered", "awaiting"}, proposal : {0} \cup Proposals]

CheckoutTypeOK ==
  /\ asks \in [Messages -> [kind : {"absent", "text", "no", "confirm", "cancel"},
                            code : {0} \cup Proposals]]
  /\ reply \in [Messages -> Talk]
  /\ shown \in [Messages -> BOOLEAN]
  /\ reviewed \in [Proposals -> SUBSET Facts]
  /\ stale \in [Proposals -> BOOLEAN]
  /\ offered \in Facts
  /\ journal \in [Proposals -> JournalStatus \cup {"none"}]
  /\ posts \in [Proposals -> Nat]
  /\ cart \in [Proposals -> {"none", "reviewed", "other"}]
  /\ turn \in [Runners -> [at : Places, message : {0} \cup Messages, seen : Talk, answer : Talk]]

\* The proposal was shown to the customer before message m.
ShownBefore(p, m) == \E k \in Messages : k < m /\ shown[k] /\ reply[k] = Says("awaiting", p)

\* Whatever names a proposal comes after its review.
TalkIsShown ==
  /\ \A m \in Messages : shown[m] => reply[m] # NoReply
  /\ \A m \in Messages, p \in Proposals :
       reply[m].proposal = p => reply[m].status = "awaiting" \/ ShownBefore(p, m)
  /\ \A r \in Runners, p \in Proposals :
       turn[r].seen.proposal = p => ShownBefore(p, turn[r].message)
  /\ \A r \in Runners, p \in Proposals :
       turn[r].answer.proposal = p =>
         turn[r].answer.status = "awaiting" \/ ShownBefore(p, turn[r].message)

Unsent    == {"claimed", "checked", "objecting"}
Executing == Unsent \cup {"sent", "verified", "doubting"}
Executes(r, p) == turn[r].at \in Executing /\ Code(r) = p

\* A turn past the command has the confirmation it acts on.
TurnsHaveOrders ==
  /\ \A m \in Messages : asks[m].kind = "confirm" => asks[m].code # 0
  /\ \A r \in Runners :
       /\ turn[r].at # "off" => turn[r].message \in Messages /\ asks[turn[r].message] # Absent
       /\ turn[r].at \in Executing \cup {"confirming"} =>
            /\ Asked(r).kind = "confirm" /\ Code(r) \in Proposals
            /\ Known(r).proposal = Code(r)

\* The claim has one owner, and the journal says how far it may have come.
ClaimHasOneOwner ==
  \A p \in Proposals :
    /\ \A r, s \in Runners : Executes(r, p) /\ Executes(s, p) => r = s
    /\ journal[p] \in {"none", "rejected"} => posts[p] = 0
    /\ \A r \in Runners : Executes(r, p) =>
         /\ journal[p] = "started" \/ (journal[p] = "completed" /\ turn[r].at = "doubting")
         /\ posts[p] = 0 <=> turn[r].at \in Unsent
         /\ turn[r].at = "verified" => cart[p] = "reviewed"

LinksAreTrue ==
  \A r \in Runners, p \in Proposals :
    turn[r].seen = Says("completed", p) \/ turn[r].answer = Says("completed", p)
      => cart[p] = "reviewed"

CheckoutInv ==
  /\ CheckoutTypeOK
  /\ TalkIsShown
  /\ TurnsHaveOrders
  /\ ClaimHasOneOwner
  /\ LinksAreTrue
  /\ AtMostOnePost
  /\ OnlyWithConsent
  /\ ReceiptsAreTrue

=============================================================================
