# Formal models of NSAgent

TLA+ models of the agent whose source is under `src/`, the TLC runs that check them on
small instances, and the TLAPS proofs that carry every safety property of the passing
runs to every value of the constants. `PROJECT.json` lists components, runs, hazards,
theorems, and for each definition the source lines it stands for; this file explains how
they hang together.

The agent answers shop customers on WhatsApp (Brevo) and Instagram (Meta). It
runs as serverless processes that may be stopped at any line, over PostgreSQL
queues with leases and retries, and calls four services that answer late, twice
or not at all: the channel providers, the store (Tray), the payment provider
(Mercado Pago) and the language model. What is hard about it is therefore the
same everywhere: two processes doing the same work, a process that stops between
two writes, a call whose outcome is unknown. The models are about that. What a
reply says is left out; where a model needs "the agent decides", it is a
nondeterministic choice.

Contents

1. The system: inventory
2. The models, one by one
3. Runs and bounds
4. Fairness
5. Proofs
6. What only TLC shows
7. Findings
8. What is not modelled
9. Plan

---------------------------------------------------------------------------

## 1. The system: inventory

### 1.1 How a message travels

```
 provider --webhook--> http/ --enqueue--> ai_inbound_inbox
                         |                      |  process_inbox_batch (cron, webhook)
                         |  busy: drain          v  drain_lock_deferred_inbound
                         +-----------------> conversation lock (process + advisory)
                                                |
                                                v  one turn: pipeline, direct agent,
                                                |  sales agent, tools, verification
                          ai_story_analysis_jobs|<--- Story preflight defers the row
                                                v
                         ai_outbound_outbox <-- enqueue_accepted_outbound
                                                |  dispatched inline, or by
                                                v  process_outbox_batch (cron)
                                             provider
 Mercado Pago --webhook--> pix_settlement --lookup/POST--> store orders
 store events --cron--> tray_webhook_consumer --orders--> ai_pix_payments
                                              --products--> ai_catalog_index <-- turns
 one turn: takeover? -> memory of the purchase -> cart, order in the store
           -> draft -> review -> reply --quarter-hourly--> learning batches
```

`dispatch_pending_queues` (`app/ingress/dispatch.py`) is the engine: after every
accepted webhook, and from pg_cron every 15 seconds
(`docs/story-analysis-worker.md:8`), it gathers an inbox batch and an outbox
batch, then takes one Story job, then an inbox batch again if there was one.
`vercel.json` adds daily crons (`process-inbox`, `process-outbox`, `tray-sync`,
`attendance-learning`, ...).

### 1.2 Components that are modelled

| Component | State it keeps | Operations | Hard behaviour | What makes it correct |
|---|---|---|---|---|
| Outbound queue `ingress/outbox.py`, `outbox_worker.py` | rows with status, attempts, lease and owner, `delivery_parts`; response rows | accept (unique per inbound), inline claim and send, batch claim, dead-letter, checkpoint, mark sent/failed, record response | inline turn and cron on one row; a batch leased at once and sent one by one; provider delivers and answers an error, and the next route repeats the message; death between two writes | sent means all parts went out; one envelope a message; a copy needs a cause and copies are bounded; every reply settles |
| Inbound queue and worker `ingress/inbox.py`, `worker.py`, `busy.py` | rows with status, attempts, lease, Story job; ids in `ai_inbound_messages` | enqueue, batch claim, drain, burst merge, turn, marks, Story deferral | marks without an owner; merged bursts; retry after an exception; three doors into a conversation | no message dropped; one turn at a time; in order; every message settles |
| Conversation lock `ops/conversation_lock.py` | table of counted asyncio locks per process, an advisory lock per session | acquire with time-outs, release, fall-back of the webhook | tasks between look-up and wait; a time-out that leaves a thread waiting in the database; a lost unlock; a session the server ends under a turn | one turn at a time in every process, and across processes unless the database is down or has dropped a turn's session; the table does not grow |
| PIX settlement `commerce/pix_*.py`, order events in `tray/tray_webhook_consumer.py` | `ai_pix_payments` (status, settlement, error, order), event cursor | create, notification, poll, customer's question, claim, look-up, order POST, marks, cron retry and requeue, event confirmation | four callers that nothing serialises; a POST whose answer is lost; marks over newer marks; payments of one cart | no second order without a known cause; no unpaid order; no order forgotten; an approved payment is noticed, never stranded, and settled |
| Direct checkout `direct/checkout.py`, `checkout_journal.py`, `history.py` | journal of executions; what delivered replies say | prepare, review, command, claim, revalidate, POST, verify, receipt | a turn run twice or cut short; replies accepted and not delivered; a cart made after the agent gave up | one POST for a proposal; only with consent; receipts are true |
| Story analysis jobs `stories/story_analysis_jobs.py`, `story_analysis_worker.py` | job row (lease, attempts, generation, expiry), Redis copies, waiting inbox rows | claim, save, error, publish, renew, unlink, wait and resume | analyst works on an old copy of the row; time-out while the thread saves; unlinking meanwhile | no evidence of an older generation; the first result stays; waiters are released |
| Store events `tray/tray_webhook_consumer.py`, catalogue index `catalog/index/`, `catalog/retrieval/present.py`, `catalog/media/url_health.py` | event cursor; rows with stamps and availability | poll a page, apply in order, save the cursor; write back what a turn ranked; withdraw stale rows | two cron routes poll at once; turns write older data beside them; an event that fails for good | the cursor passes nothing unapplied; the stream moves on; what is on offer is recent |
| Commerce memory `core/db.py` (session), `memory/context_resume.py`; cart `commerce/cart_service.py`; order `commerce/order_service.py`, `sales/checkout_flow.py` | durable session, states told with replies; carts and orders of the store | merge and resume; add, set, take out by a second cart; review, confirm, post, look up | a reply that is lost takes its state along; reads that swallow their errors; carts forgotten when a turn begins; calls whose answer is lost or that are done late; a cart changed between review and order | nothing else leaves the cart, nothing enters twice; what is ordered was reviewed, once; every exception is named |
| Human takeover `ops/human_takeover.py`, `ops/handoff_*.py` | the attendants' row, the agent's pause of a thread | check before a turn, stamp, seed, transfer | several writers of one pause; flags nobody takes back; the agent's own messages told like an attendant's; a database that fails open | no answer over an attendant who was noted; no silence without a cause |
| Attendance learning `learning/attendance_learning.py`, `cursor.py` | reviews, cursor | review by a gate, link, batch, save | two batches, replies recorded out of order, messages of no workspace, links that come late | no reply left unreviewed; evidence counted once |
| Model calls `ops/turn_runtime.py`, `llm/openai_gateway.py`, review loop `verify/response_critique.py` | budget, reservations, attempts of a turn | reserve, give back, fall back, promote, review, repair | one logical call with two attempts; a handful of calls for everything | the reply and the review of a repair are paid for |
| Store circuit breaker `tray/tray_circuit_breaker.py`, `_request` of `tray_adapter_client.py` | state, failures, half-open probe flag | admit, report success, failure, auth failure | requests admitted before the trip report after it; ends nobody reports | one probe; refusals end |

### 1.3 The other components

| Component (directory under `src/app/`, files / lines) | State and operations | Interaction, and what would make it correct |
|---|---|---|
| Channels (`channels`, 13 / 3 111) | parsing of payloads, media, provider clients; no state | called by webhooks and the outbox; sends are idempotent only as far as the outbox makes them |
| Webhooks and routes (`http`, 11 / 2 071; `api/`) | none | enqueue, verify, dispatch; the fall-back of the lock is theirs |
| Direct agent loop (`direct`, 18 / 1 997) | none beyond a turn | model loop over read-only tools; may only propose |
| Agents and pipeline (`agents`, 12 / 2 879; `message_pipeline.py`) | none beyond a turn | order of the exits of a turn; exactly one exit answers |
| Sales agent (`sales`, 48 / 14 215; `sales_agent.py`) | commerce session, read at the start and written at the end of a turn | sequential rules over text; what it does to cart and order is modelled |
| Verification (`verify`, 12 / 5 654) | none beyond a turn | judges a draft; a claim must have a source; what it may spend is modelled |
| Catalogue (`catalog`, 58 / 14 151) | index rows, image index | search is pure; the index's writers are modelled |
| Commerce services (`commerce`, 18 / 9 850, without cart, order and PIX) | shipping, checkout data, commerce session | pure decisions of a turn; the session is modelled |
| Store tools (`tray`, 8 / 2 461, without events and circuit) | none | names and payloads of calls |
| Language model gateway (`llm`, 19 / 6 150, without the calls' budget) | none | prompts, schemas, error mapping |
| Memory (`memory`, 15 / 4 505, without the resumed purchase) | contact memories with versions, summaries, proposals | row locks; a stale version must not overwrite |
| Persona, instruction extensions (`persona`, 13 / 2 907) | versions and their states | one active persona a workspace (`FOR UPDATE`) |
| Learning proposals, remarketing (`learning`, 11 / 2 896, without the attendance batches) | canary, remarketing claims (`SKIP LOCKED`) | the remarketing cron is switched off (`http/cron.py:192`) |
| Identity (`identity`, 9 / 2 184) | contacts, names | upserts and heuristics |
| Operations (`ops`, 19 / 3 981, without lock, takeover and budget) | archives, projections, metrics | derived data |
| Evaluation (`evaluation`, 23 / 1 786) | campaign budget under a row lock | the budget is not overspent |
| Configuration (`configuration`, 4 / 312) | published bundles | read once for a turn |
| Core, schema (`core`, 8 / 3 619; `sql/001`-`037`, `supabase/`) | connections, audit rows, defaults and unique keys | taken into the guards of the modules that use the tables |
| Story evidence and matching (`stories`, 27 / 8 899, without the jobs) | associations of Stories and products | a manual association wins |
| Scripts, tests, evals, docs, knowledge | - | not part of the running program |

### 1.4 Hazards

`PROJECT.json` lists forty, each with its line and the properties that would
catch it. They fall into few families:

- **two actors, one row** (outbox inline/cron, PIX's four callers, the doors into
  a conversation, requests of the circuit, tasks in the lock's table, overlapping
  polls and batches, the writers of a pause);
- **state read before a suspension and used after it** (`delivery_parts` copied at
  the claim, marks by row id, the burst that copies its anchor's lease after a
  sleep, an analyst's copy of the job, a turn's reading of history, a product
  written back, a cart between review and order);
- **a call whose outcome is unknown** (provider sends, order POST, cart POST,
  journal INSERT, `wait_for` around a thread, a model call and its fall-back);
- **one step of several failing** (photos part by part, marks of a group, receipt
  after the cart, probe without a report, the second cart of a removal);
- **something that must happen in the end** (dead workers on the last attempt,
  hopeless messages, waiting turns, stale claims, an event that can never be
  applied, a silence);
- **a handful for everything** (attempts, calls of a turn).

---------------------------------------------------------------------------

## 2. The models, one by one

Conventions. Every SQL transaction is one action, and so is every provider call;
a process may die between any two. A lease lapses, a back-off ends and a ten
minute limit passes by an action of its own, so time is a choice and not a
number. Where a column is only compared to `now()`, the model has the result of
the comparison. `history:` marks a variable that no code has and properties read.
An operator with a comment `Variant:` is a plausible mistake: it is not used by
the specification, and each property of the runs is refuted when one of them
takes the place of the operator it varies.

### 2.1 Outbox, ReplyPromise

`Outbox.tla`: table `ai_outbound_outbox`. A *dispatcher* is an inbound turn that
accepted a reply and sends it at once, a *cron worker* one run of
`process_outbox_batch`.

| Action | Code |
|---|---|
| `Enqueue` | `enqueue_accepted_outbound`, `enqueue_outbound`: one row for an inbound, the second caller gets the first's row |
| `ClaimInline`, `ReadStatus` | `dispatch_accepted_outbound`'s claim of `pending`/`failed` rows, and the read of the row's status when it gets none |
| `ClaimBatch`, `PickRow` | `claim_pending_outbox`: obsolete rows become dead, up to `limit` others are leased together; then one by one |
| `SendPart`, `RecordPart` | one provider call by one route (delivered or not, acknowledged or not), and the checkpoint of an acknowledged part in `delivery_parts` |
| `MarkSent`, `MarkFailed`, `RecordResponse` | the outcome under the owner guard, and `insert_agent_response` |
| `LeaseExpires`, `BackoffElapses`, `BecomesObsolete`, `Crash` | time, a later inbound message, a process that stops |

The lease owner is a fresh uuid per claim in the code and the process in the
model; a process runs one claim at a time and writes only to rows of that claim,
so nothing is lost.

A part has up to `NRoutes` ways to its customer within one claim: a WhatsApp text goes
by the transactional call and, after any answer that is no success, by the
conversation (`brevo_client.py:379-406`); a Meta part tries its end points one after
the other. `tried` counts those that were answered so, and each of them may have
delivered the part all the same. So a claim can put a part out once by each route, and
`CopiesBounded` bounds the copies by attempts times routes. A WhatsApp reply
with pictures is several messages in the code and one part here, because once one of
them is acknowledged nothing of it is sent again.

`ReplyPromise.tla` says what the queue promises, without
leases, workers or attempts: at most one reply to a message, closed once, as
delivered only if all of it reached the provider. `KeepsPromise` is the
refinement; the mapping (`Promise`) reads the outcome off `status` and what
reached the customer off `delivered`. `NoReplyForgotten` is the safety half of
`Settles`: in every state a reply that is not closed is in reach of a batch, in the
hands of somebody whose lease runs, or stranded in the one way section 4 names.

### 2.2 Inbox

`Inbox.tla`: table `ai_inbound_inbox`, the turn, and the lock as far as the
worker uses it. `merge` says whether bursts are merged on the channel (not so on
Instagram), chosen in `Init`.

| Action | Code |
|---|---|
| `Enqueue`, `ClaimBatch`, `PickRow`, `AcquireLock` | arrival; the batch claim with "no earlier unfinished turn"; the wait for the lock |
| `DrainClaim` | `drain_lock_deferred_inbound`, claiming inside the lock |
| `MergeBurst` | `claim_conversation_burst` after the burst window; it copies the anchor's lease |
| `ClaimInbound`, `Silence`, `Accept`, `Dispatch` | `claim_inbound_message` under the last id of the group, and the exits of the turn |
| `Mark` | the marks of the group's rows, one statement each, by id and without an owner |
| `Defer` | the Story preflight: attempt given back, row waits for the job |
| `Raise`, `Leave`, `Crash` | an exception, whose handler marks the anchor failed; release; death |
| `LeaseExpires`, `BackoffElapses`, `JobSettles`, `OutboxSettles` | time, `StoryJobs`, and `Outbox` |

The reply's own life is `Outbox`: here it is accepted, sent or dead. The lock has one
holder at a time, as `ConversationLock` shows while the database is there and keeps
the sessions of running turns. What `Inbox` shows is shown under that condition.

`ConversationsGoOn` is the safety half of `MessagesSettle`, where bursts are not
merged: the claim holds a row back for every earlier unfinished one, so the question
is whether some row of the conversation can always go on. `OnlyWaits` says of a row
that nothing but time stands before its claim.

### 2.3 PixSettlement

`PixSettlement.tla`: `ai_pix_payments` settled on behalf of the Mercado Pago
webhook, the customer's question, the cron and the store's order events, plus polls
that only refresh. `Webhook`/`Ask` begin a request; `Fetch`, `Apply` and `ReadRow`
are `refresh_pix_payment_status` and the reading that follows it; `Decide` is what
`settle_approved_pix_payment` does up to and with the claim; `Lookup`, `Create`,
`Mark` follow it. `RequeueStale`, `ListRetryable` and `NextListed` are the cron;
`TakeEvent`, `ReadOrder`, `Verify` and `Confirm` the event consumer. `FetchFails`,
`LookupFails`, `CreateFails`, `EventFails` and `Crash` are what goes wrong,
`PostLands` an order POST that arrives after its sender gave up.

Choices worth knowing: the store and Mercado Pago are external and modelled from
the calls made to them; an order's total is the expected amount of the payment
that created it; a page of events has one event; a `503` leaves the
notification to be sent again; `settlement_status = 'skipped'` exists in the
schema and is written by no path, so it is left out.

`SettlementPromise.tla` says what all of this is for, without claims, workers, notices
and retries: only money paid in full buys an order, a cart is ordered once, and a
payment is reported settled only with an order of its cart and amount, whose number
is not forgotten again. A cart with an excuse may be ordered a second time, and the
promise says which excuses there are. `KeepsSettlementPromise` is the refinement:
`paid` are the payments Mercado Pago approved and charged as the checkout expects
(`PaidInFull`), `order` is the store's, `record` is `mp_tray_order_id`, `astray` the
POSTs given up by their sender, `settled` the rows marked completed. `NoneStranded`
and `NoticesAreKept` are the safety halves of `Settles` and `PaidIsNoticed`.

### 2.4 ConversationLock

`ConversationLock.tla`: one conversation (conversations share no entry). A step is what
a task does without suspending. `Register`, `TakeLocal`, `GiveUpLocal`, `Drop` are the
table; `TakeDatabase`, `DatabaseBusy`, `DatabaseDown`, `BackOut` the advisory lock and
its time-outs; `OrphanEnds` and `GhostEnds` what a thread that nobody waits for leaves
behind; `ReleaseDatabase`, `ReleaseLocal` the way out; `ProcessDies` takes a process and
its sessions away. The advisory lock lives in a session of its own, idle while the turn
runs and looked at by nobody before it is released: `SessionEnds` is the server ending
it (a restart, a fail-over, an idle disconnect). The turn does not notice, a turn of
another process may take the lock, and the unlock that fails later is swallowed.
`SerialUnlessUncovered` therefore names two ways for turns of different processes to
overlap, a turn that began with the database down (`degraded`) and one whose session has
ended since (`lost`), and says that there is no third and that a process never overlaps
with itself. `FallsBack` are webhook requests, which go on with the process's lock
alone. A database is configured (without one the code has the local lock only, which is
the degraded case), and its sessions are the client's own; a pooler that hands out
sessions by transaction would make the advisory lock meaningless, and is not modelled.

### 2.5 TrayCircuit

`TrayCircuit.tla`: the breaker under its lock, and the one use of it. `Admit`,
`Look` (the health view), and the ends of a request: `Success`, `AuthFailure`,
`Transient`, `ClientError`, and `Unreported` for the ends `_request` does not
report. `half_open_successes` is 1, as the only construction has it.

### 2.6 StoryJobs

`StoryJobs.tla`: one job (jobs share nothing), its analysts, the Redis copies, and
the turns (`Readers`) that ask. Evidence is named by the generation its analyst
was asked for. `ClaimJob`/`GiveUp`, `Concludes`/`TimesOut`, `FinishJob`/`WriteFails`,
`Publish`, `AnalystDies` are the worker; a timed-out analyst may write both what
its thread found and the error, in either order. `Ask`, `ReadCache`, `ReadRow`,
`FillCache`, `Resume`, `TurnDies` are the turn; `Unlink` the administrator; the
rest is time and eviction. A failed job expires after two minutes, so a waiter
taken up later may renew it; `MaxGeneration` bounds that.

`EvidencePromise.tla` is the job without analysts, leases and copies: a generation
comes to one end, only a new generation reopens it, and a turn uses the evidence of
the generation it was promised, or none. `KeepsEvidencePromise` maps `outcome` to the
row's status while that is `ready` or `failed`, and `used` to what turns filled in
from Redis or from the row. `WaitersAreServed` is the safety half of `WaitersResume`.

### 2.7 DirectCheckout

`DirectCheckout.tla`: the messages of one conversation, the proposals prepared in
it, and the runners that may run the same turn, alone or beside each other (that is
all that is taken from the queues around them). `Begin` reads the history:
what the latest earlier message with a *delivered* reply says. `Propose`, `Carry`,
`DropProposal`, `Recognise` are the reading of a message; `ClaimProposal` or
`ClaimFails` (the INSERT may be in the journal all the same), `Revalidates` or
`Objects`, `Reject`, `Send`, `Verifies` or `Doubts`, `Complete`, `RecordDoubt` are
`execute_checkout`; `Accept`, `Deliver`, `TurnEnds` surround it, and `Lands`,
`Expire`, `Reprice`, `CustomerWrites` are the world.

`PurchasePromise.tla` is the checkout without messages, turns and crashes: the cart of
a proposal is asked for at most once, after consent and before a verdict, a verdict is
final, and a cart made as reviewed is reported only where it is there.
`KeepsPurchasePromise` maps consent to what was shown, delivered and then confirmed by
its code (`Consented`), and the verdict to the journal.

### 2.8 CatalogIndex, StoreEvents

`CatalogIndex.tla`: the rows of `ai_catalog_index` and every writer of theirs but
the store's events. The store's log numbers its changes, so a row's content is the
number of the change it reflects. `ReadStore`/`ReadIndex` and `WriteBack` are a
turn (or the nightly warming) that ranks products and writes them back,
`LoseWrite` an error the writer swallows, `MarkStale` the cron that withdraws.

`StoreEvents.tla` extends it with the consumer: `List` reads a page after the
cursor; `ApplyDelete`, `ApplyInvalidate`, `ApplyRead`/`ApplyReadFails`,
`ApplyWrite` apply a product's event (delete the row, read the product from the
store, write it, or only empty the snapshot cache beyond the budget of reads);
`ApplyOther` is an order's or a withdrawn variant's; `Stop` and `Save` end the
poll at the first failure and move the cursor, `Abandon` leaves it. Two routes
poll, and nothing keeps them apart. An order's event is `PixSettlement`'s
`TakeEvent`.

### 2.9 CustomerMemory, ShoppingCart, AssistedOrder

`CustomerMemory.tla`: what a turn knows of the purchase. `Remembered` is the last
state delivered, completed from the richest delivered (`Merge`, `Score`) and from
the durable session; `Keep` writes the session before the reply is sent, `Tell` is
a delivered reply. Three things make this memory weaker than it looks, and all three are
in it. A merge with nothing takes the other side whole (`context_resume.py:186-187`),
so a durable session written by a turn whose reply was lost may be all that is known.
Each of the reads swallows its errors (`db.py:1397-1399`, `1601-1603`): the `Ways` are
which of them answered and which side went first; and `KeepBadly` is a session written
without having read the old one, or not written. And before a turn is thought about,
`Starts` may forget the cart (`Expired`: too old, or orphaned,
`dialogue_phase.py:193-270`) or all of the purchase (`Renewed`: a new request,
`context_boundaries.py:10-31`). What the code decides there from ages and words is a
choice. A cart cleared in the middle of a turn (`answer_council.py:1105`,
`payment_service.py:271`) leaves the same state for the next one as one forgotten at
its start, and is covered by that.

`ShoppingCart.tla`: `Wish` begins a turn; `LookInCart`, `SetQuantity`, `Reread` are a
change of one thing; `Prepare`, `PostOne`, `Recheck`, `Verify` are
`create_cart_items_checkout` with the cart read again after a doubtful answer;
`Snapshot`, `DropCart`, `Copy`, `Compare`, `Undo`, `Discard` are `rebuild_cart_without`,
which makes a second cart; `KeepDeal`, `DeliverDeal` and `Perish` end the turn. A call
whose answer is lost is done, not done, or still on its way (`Given`), and then done at
any later step, of this turn or of another (`LandsLate`). A read shows the cart as it
is, or as it may have been (`Readings`): the store's read model may lag, as the code
says itself (`cart_service.py:1545-1546`). A late call or a lagging read can make the
agent post a thing again, so the properties exclude these two causes, which `strays`
records, and no others: `OthersStay` holds whatever fails or is forgotten as long as
nothing was late; `AsManyAsAsked` as long as, besides, one thing is asked for at a time;
`OneCart`, for any requests, as long as nothing was late and no cart may have been left
behind. The store is taken to answer for the session it was asked about.

`AssistedOrder.tla`: `Review`, `Confirm`/`Decline`, `ReadFacts` (the cart read
again and compared with the hash that was reviewed), `LookUp`, `PostOrder`, `KeepTurn`,
`Answer`, and changes of the cart in the chat or on the site; `OrderLandsLate` is an
order whose POST was given up. `excuses` is history: each way in which the trace of an
order may be lost (a memory unread, passed over or begun anew, a reply lost with nothing
kept, a refusal that was none, a list that lags, a late order), or in which a turn may
know of a review that nobody was shown (`adopted`).

### 2.10 HumanTakeover

`HumanTakeover.tla`: two threads of a customer, turns that check
(`CheckRow`, `CheckPause`, `Seed`, `Leave`), the agent's and the
attendants' messages (`Reply`, `Record`, `AttendantWrites`, `CustomerMessage`), `Assume`,
`Release`, and the transfer (`Transfer`). Time-stamps are ages that
saturate, which is exact for comparisons with the idle time.

The webhook tells of the agent's own messages as it does of an attendant's
(`brevo_webhook.py:298-302`), and they are told apart by a reply recorded in the last
120 seconds (`human_takeover.py:321-343`), in both directions imperfectly. The record
is written after the reply was sent (`Reply`, then `Record`), and the 120 seconds pass
(`GrowsOld`): the webhook of an own message that comes between, or afterwards, stamps the
pause as if an attendant had written (`OwnMessageReturns`). `SilenceHasCause` names this
as a cause of its own; only a thread that shows a takeover is stamped.

### 2.11 AttendanceLearning

`AttendanceLearning.tla`: per message a turn that a gate may review (`Decide`),
whose reply is recorded at once or by the outbox's cron, committed later, and
linked to the review (`Link`); batches `Start`, `Fetch`, `Write` each review,
`Save` the cursor, or `Break` off.

A batch reads the messages of one workspace (`view`), or all when it could not find
out which it has (`cursor.py:82-83`), while the cursor is one for all of them. A message
answered in the webhook, with media that cannot be viewed, is never given a workspace
(`brevo_webhook.py:231-274`), so a batch that has one passes over its delivered reply,
and no later batch goes back. `home` is each message's workspace or none, and `missed`
records the replies passed over for that reason or because they were seen too late;
`NoneLeftBehind` is about all others.

### 2.12 CallBudget

`CallBudget.tla`: the enforced budget of one turn. `Work` is any call before the
draft, by the Responses API or directly by Chat Completions if the primary fails
before it registers; `FallBack` gives the last reservation back and calls again;
`CallEnds` is the end of either. `BeginReview`, `Judge`, `Repair` are
`_run_response_critique_loop` with its checks of what it can afford. The ranking's
own check (`rerank.py:114`) only calls less, and the published limit that replaces
the environment's (`message_pipeline.py:248`) is bound before the first of these
calls, so both are covered by the choices made here. Left out: the shadow gateway,
whose second call is counted without having been planned for; the direct agent's
rounds, which get a budget of their own; and the Story job, whose calls run two at
a time (`story_identity_verifier.py:133`): there, the refund of one may take the
other's reservation or be refused, so a job can be charged a call too many for each
pair, of its fourteen.

### 2.13 How the models compose

The queues meet in few places, and each model takes from its neighbour what the
neighbour's checks establish: `Inbox` uses a reply that is accepted, sent or dead
(`Outbox`, `ReplyPromise`) and a lock with one holder (`ConversationLock`, where it
covers the turn); `DirectCheckout` uses an envelope that stays once accepted
(`OneRowPerInbound`) and turns that may be run again; a row deferred for a Story uses a
job that ends (`WaitersResume`). `StoreEvents` shares the index with `CatalogIndex`, and
cart and order share `CustomerMemory`, so these are composed in their modules.
`MCComponents`, `MCRecords`, `MCDispatch` and `MCTraySync` run several of the models in
one configuration: parts that share no state, of which each behaviour runs one, so that
each is checked completely without a product of their states.

---------------------------------------------------------------------------

## 3. Runs and bounds

| Run | Instance | States | Shows |
|---|---|---|---|
| `outbox` | 2 rows, 1 cron worker with a batch of 2, 2 attempts by 2 routes, and either a photo reply of two parts contended by 2 dispatchers, or two text replies dispatched one at a time with 1 unclear answer each | 1 294 816 | no reply forgotten, a recorded answer went out, copies bounded and with a cause, current resume points, refinement of `ReplyPromise` |
| `inbox` | 2 rows of a conversation, 2 workers, 2 attempts, merged or not | 764 803 | nothing dropped, one turn, in order, no conversation blocked for good |
| `pix` | 2 workers, 2 orders, and either 1 payment with 2 faults and a question, or 2 payments of a cart with totals 1 and 2, charged 1 or 2 | 1 167 097 | approvals noticed, no payment stranded, refinement of `SettlementPromise` |
| `components` | lock: 3 tasks, 2 processes; circuit: 3 requests, threshold 2; checkout: 2 messages, 2 proposals, 2 runners; Stories: 2 analysts, 1 turn, 2 generations; events: 1 product, 3 changes, 2 polls, 1 turn, 1 mishap | 414 546 | the safety of the five, refinement of `PurchasePromise` and `EvidencePromise` |
| `dispatch` | inbox: 2 messages, 1 worker with a batch of 2; outbox: 1 row; Stories: 1 analyst, 1 turn; 2 attempts each | 118 321 | every message, reply and waiting turn is settled |
| `sync` | PIX: 1 payment, 2 workers, 1 fault; events: 1 product, 2 changes, 2 polls of pages of 2, 1 mishap | 223 642 | approved payments are noticed and settled, the stream moves |
| `records` | cart: 2 things up to 2 pieces, 2 turns, 2 slips; order: 4 turns, 1 edit, 2 shocks; takeover: 2 turns, 2 acts, 1 outage; learning: 2 messages (one of a workspace, one of none), 2 replies, 2 batches of 1, 1 failure; calls: ceilings 1 and 3, raised to 4, 2 repairs | 1 881 332 | the safety of the five |
| `inbox_twice`, `inbox_stuck`, `circuit_stuck`, `index_stale`, `takeover_evidence` | as `inbox` and the parts above; 1 product and 3 days; 1 turn and 3 acts | - | the findings of section 7 |

Every passing run takes one to three minutes with two workers.

Why these are enough. *Attempts* 2 separate a first and a last attempt, the cases the
guards tell apart; the schema's 8 adds repetitions. *Workers*: every race of the code is
between a holder and one other process; three parties occur where two dispatchers and
the cron meet (`outbox`), and three tasks in the lock, where a third task makes the
difference between the last user and not. *Rows*: a batch needs two to be leased
together and sent one by one, a conversation two for order and bursts. *Parts* 2 has a
first part, a last one, and a checkpoint between them; *routes* 2 are a first and a last
one. *Orders* 2 is the first duplicate. *Faults* 2 lets the handling of a fault fail.
*Generations* 2 is one that is stale. *Things* 2 is one to take out and one that must
stay. *Turns*: 2 of the cart are an attempt and its repetition, 4 of the order a change,
a review, a confirmation and its repetition, or a confirmation of a cart that was
changed on the site, and the next. *Slips* and *shocks* 2 are a call given up and the
one that lands late, or a mishap and one while it is handled. *Workspaces* 1 and none
are the two sides of the batch's filter. *Changes* 3 of a product are one on each side
of a poll and one while it runs. *Batches* 2 overlap. *Ceilings*: 1 holds nothing back,
3 does, and 4 leaves room for a repair and not for two. Larger instances that were
explored once, with no error: two Story readers (586 000 states), a checkout of three
messages (4.5 million), the cart with three turns (4.1
million), the order with five (466 000), the learning with three replies (1.1 million).

Bounds on what the program does not bound, each a guard: `MaxFaults`, `MaxAsks` and
`NOrders` (`PixSettlement`), `MaxMessage` and `MaxProposal` (`DirectCheckout`),
`MaxGeneration` (`StoryJobs`), `Entries` (`ConversationLock`: lock objects, which are
taken again once nobody refers to them), `MaxChanges`, `LastDay` and `MaxMishaps`
(`CatalogIndex`, `StoreEvents`), `MaxTokens`, `MaxPieces`, `MaxDeals` and `MaxSlips`
(`ShoppingCart`), `MaxSales`, `MaxEdits` and `MaxShocks` (`AssistedOrder`), `MaxActs`
and `MaxOutages` (`HumanTakeover`), `MaxReplies` and `MaxFailures`
(`AttendanceLearning`), and `MaxUnclear` (`MCOutbox`, plain messages only).
`MaxAttempts`, `MaxTries`, `NParts`, `NRoutes`, `BatchLimit`, `Threshold`, `PageLimit`,
`RowLimit`, `MaxRefresh`, `Limits`, `ComplexCap` and `MaxRetries` are the program's own.

`CHECK_DEADLOCK FALSE` stands where the bounded system really stops: all messages
handled, all proposals, changes, turns and calls used, a circuit that refuses for
ever (a finding). The outbox goes on for ever in `outbox`, which keeps the check.
Symmetry is used in safety runs only: rows, dispatchers and plain messages
(`MCOutbox`), workers (`MCInbox`, `MCPixSettlement`), runners, facts, analysts and
pollers (`MCComponents`), batches of the learning and the cart's things
(`MCRecords`).

---------------------------------------------------------------------------

## 4. Fairness

Fairness is stated by component and is what the deployment gives:

- **Outbox** `Fairness`: the cron's `ClaimBatch` (pg_cron, every 15 s), a live
  worker's next step, leases and back-offs. None for messages, crashes or provider
  errors. `Settles` admits one exception, `Stranded`: a worker that died on the last
  attempt leaves a leased row with no attempts, which neither the claim nor the
  dead-lettering looks at.
- **Inbox** `FairSpec`: the same, and a wait for the lock ends in the lock or in an
  exception, as its time-out has it; a Story job settles (`WaitersResume`).
- **PIX** `Fairness`: running workers, the notification's repetition, the cron's
  listing, the ten minutes; strong fairness of `TakeEvent`, since each run of the
  cron consumes events *before* it retries settlements (`tray/tray_sync.py`).
  Nobody is forced to ask, pay or fail. `Settles` speaks of a payment that Mercado
  Pago keeps approved, and admits `Overtaken`: an answer from before the payment is
  about to be written over the row's approval (a hazard of the list; it is a state
  the model reaches, and not ruled out by an assumption).
- **Store events** `StreamFair`: a poller that can take a step takes one, since the
  cron routes are called for ever. A write may still fail as often as `MaxMishaps`
  lets it. `StreamMoves` admits `Barred`: the event next to the cursor is an order's
  that is refused for good, or says "save" of a product the store no longer sells.
  The consumer stops at its first failure by design, so everything behind such an
  event waits (a hazard of the list).
- **Stories** `StoryFair`: the dispatcher claims or gives up a due job, analysts take
  their next step, released rows are taken up, leases and waiting times end.

`MCDispatch` and `MCTraySync` repeat these formulas with a guard, "the behaviour is
of this queue" (or job): each behaviour moves one part, and the fairness of the
others asks nothing of it. A property of a part that does not move holds in its
initial state, where nothing has arrived; the parts that move are what is checked.

No liveness is claimed of the others, because nothing in the deployment forces
what it would rest on. `ConversationLock`: an orphaned session ends when the
interpreter collects it. `TrayCircuit`: a circuit may refuse for ever (section 7).
`DirectCheckout`, `ShoppingCart`, `AssistedOrder`: a customer need not write again, and
a `started` claim is left to a person by design. `HumanTakeover`: attendants come and
go as they like. `AttendanceLearning`: a review that fails is tried again by the next
batch, and no number of batches is promised to succeed. `CatalogIndex`: rows change
when turns see them. `CallBudget`: a turn is a finite sequence of calls.

---------------------------------------------------------------------------

## 5. Proofs

Each `*Proofs.tla` extends its component and proves, for every number of rows,
workers, attempts and so on that the module's named assumption admits, an inductive
invariant and the properties that follow from it. The assumptions are types: bounds
are naturals, NULL is not a worker, mappings are functions; only the cart needs a
finite set (of wares). `tlapm` checks every leaf with Z3, Zenon and, for the
temporal steps, LS4.

| Module | Invariant | Theorems |
|---|---|---|
| `OutboxProofs` | `DeliveryInv`, `LeaseInv`, `CopyInv`, `AttemptsLeft` | `TypeCorrect`, `DeliveryInvariant`, `SentIsDelivered`, `AnswersWereDelivered`, `LeaseInvariant`, `HoldersNeedLapse`, `OwnersResumeCurrent`, `CopyInvariant`, `CopiesAreBounded`, `DuplicatesHaveCauses`, `RepliesAreKept`, `OutboxKeepsPromise` |
| `InboxProofs` | `InboxInv`, `OrderedInv`, `LeasesEnd` | `InboxInvariant`, `InboxTypeCorrect`, `NoMessageDropped`, `TurnsAreSerial`, `OrderedInvariant`, `AnswersAreInOrder`, `ConversationsStayOpen` |
| `PixSettlementProofs` | `PixInv`, `NoticeInv` | `PixInvariant`, `NoDuplicateOrders`, `OrdersArePaid`, `SettledHasOrder`, `OrderIdsAreKept`, `NoticesStay`, `NoPaymentStranded`, `PixKeepsPromise` |
| `ConversationLockProofs` | `LockInv` | `LockInvariant`, `TurnsAreSerialUnlessUncovered` |
| `DirectCheckoutProofs` | `CheckoutInv` | `CheckoutInvariant`, `OnePostPerProposal`, `CartsHaveConsent`, `ReceiptsHold`, `CheckoutKeepsPromise` |
| `ComponentProofs` (stories) | `StoryInv`, `ServeInv` | `StoryInvariant`, `NoStaleEvidence`, `ResultsStay`, `WaitersServed`, `JobsKeepPromise` |
| (circuit) | `CircuitInv` | `CircuitInvariant`, `OneProbeAtATime`, `RefusalsHaveAProbe` |
| (store events) | `StreamInv` | `StreamInvariant`, `CursorLosesNothing` |
| `TurnProofs` (calls) | `BudgetInv` | `BudgetInvariant`, `RepliesAreFunded`, `RepairsAreReviewed` |
| (takeover) | `TakeoverInv` | `TakeoverInvariant`, `AttendantsAreHeard`, `SilencesHaveCause` |
| (order) | `OrderInv` | `OrderInvariant`, `OrdersAreReviewed`, `SecondOrdersHaveCause` |
| (cart) | `CartInv` | `CartInvariant`, `OthersRemain`, `CartsAreOne`, `NoneTooMany` |
| `AttendanceLearningProofs` | `LearnInv` | `LearnInvariant`, `CursorsLeaveNothing`, `MessagesCountOnce` |

**Outbox.** "Sent means delivered" is not inductive: a worker about to mark a row
has only its own copy. `WorkersSound` adds that every part in a worker's copy was
delivered, and that whoever is about to record has the whole reply out. `RowsSound`
says the same of the row's checkpoint. Because what was delivered stays delivered,
the facts survive whatever another owner does. The refinement needs that a closed
row is never reopened, which is the owner guard.

Leases add that whoever has a row in hand owns it until a lease of it lapses
(`HandSound`), and that an owner's copy of the checkpoints is the row's; so two
holders need a lapse, and an owner resumes at the current part. Copies are counted
by two sums per part. The copies out and the provider calls that may still be made for
it (`Calls`: for each worker that may still send the part, the routes it has not tried)
are at most the row's claims times the routes. The copies out, the workers that may send
one or hand the row back (`Holders`) and the next claim of a row that can be claimed
(`Open`) are at most one more than the ambiguous errors and the lapses together. A
step changes the sums in one of five ways (nothing grows, a claim, a delivery, a
return, a lapse), and the lemmas say which action is which. Nothing assumes finitely
many workers: that the holders are finite is part of the invariant.

That no reply is forgotten needs that the count that ends the retries and the count
that ends the claims are the same one: `AttemptsLeft` says that a row is put back only
while attempts are left, so a row that failed can be claimed, and one on its last
attempt is closed by whoever has it, or stranded.

**Inbox.** The marks carry no owner, so "processed means handled" cannot rest on
who holds the lease. It rests on the lock and the group: who is in a turn holds
the lock (`HoldsLock`), its group is the anchor and later rows of its conversation
(`GroupAroundAnchor`), rows that still wait have been seen by nobody
(`WaitingIsUnseen`), so a merged turn's id is new (`MergedTurnIsNew`) and its reply
covers the group (`CoversItself`); therefore what is about to be marked processed
was handled (`MarksHandled`).

The order of answers needs more than the claim's `ORDER BY`, because rows are taken
for a lock, drained and deferred. `TakenInOrder` says, where bursts are not merged,
that every earlier row of the conversation of a row in work is past (answered, left
unanswered, or its attempts used up), and `SpentIsKept` that used-up attempts are
written down, so that a failed row does not come back before one that followed it.

That a conversation is not blocked for good is the other side of that order. Of its
unfinished rows with attempts left take the first (the natural numbers are well
founded). A row that blocks it has no attempts left, so by the claim's condition it is
under a live lease, which ends; and the row itself, if leased, has a lease with an end
(`LeasesEnd`). That last fact is inductive where bursts are not merged and false where
they are (finding 2).

**PIX.** The claim is a row's, the order a session's. `ClaimHolds` says what a claim
guarantees while there is no excuse: nobody else holds one of the session, the row
cannot be claimed again, and whoever is about to POST has seen no order since.
`WorkersKnow`, `HoldersMayOrder` and `MarksMatch` carry what a worker has read to
the line where it acts on it. Each of the three causes (a claim requeued under a
live worker, a POST that lands late, two payments of a cart at once) puts the
session in `excused` in the step where it happens, so the theorem says that there
is no fourth.

The refinement goes step by step: `Decide` with a claim gives no step of the promise
or an excuse, `Create` buys, loses or both nothing, `PostLands` arrives, `Mark` and
`Confirm` settle or withdraw. What it needs beyond the guards is in `PixInv`: who is
about to POST holds a payment paid in full of a cart without an order or with an excuse, a
mark carries an order that exists, of its cart and amount, and a recorded order is
replaced only under an excuse. `NoticesAreKept` needs that a settlement begins with the
write of the approval, and that workers handle payments Mercado Pago knows and apply
answers it gave (`RowsLearned`, `WorkersLearned`); `NoneStranded` that a failure is
written with an error the list retries as long as the amounts agree.

**Conversation lock.** Mutual exclusion needs the counting: an entry leaves the
table only with no user and no owner, so all tasks of a process that are not idle
use the same entry (`EntryIsCurrent`), and its owner is the one in a phase that has
the lock (`OwnersHold`). Between processes a turn has the advisory lock unless it began
without it or its session has ended, which `OwnersHold` says too: two turns that both
have it would be one. `UsersCounted` relates the counter to a cardinality, which
is where the finite set theorems are used.

**Circuit.** The probe flag and the set of probes are related in one direction
only: no flag, no probe. The other direction is what an unreported end breaks.

**Stories.** Evidence can only be in a place of its own generation: the row when
ready, each copy, each turn about to fill a copy. All writes are guarded by the
generation or carry it in their key. The refinement adds nothing to this but the
reading of each action as a step of the promise. For the waiters, `HoldersCount` says
that who still holds the job counts its attempts as the row does, so that an
error on the last attempt ends the job and one before it leaves an attempt
(`PendingMayTry`).

**Store events.** The property speaks of the cursor, but a poll saves the cursor
after it applied its events, and polls overlap. `IndexFollows` says of every product
not marked doubtful that the index has what the log says up to the cursor, and the
same up to the event that each busy poll has in work; so whichever poll saves,
the cursor lands on a number for which the index is right. `ReadsAreOffers` says that
what a row, a turn or a poll has read is a change that offered the product, and
`PollsInPage` that a poll works within its page and a page within the log. The
assumption adds that `NoRow` is not a row.

**Direct checkout.** Whatever names a proposal comes after its review was shown
(`TalkIsShown`); a turn past the command has its confirmation (`TurnsHaveOrders`);
and a claim has one owner while it is executed (`ClaimHasOneOwner`), whatever the
journal's failed writes left. Since a proposal leaves `none` once, the POST is
sent once. `LinksAreTrue` carries the receipt from the journal through replies that
are repeated later. The refinement needs one thing more, that the owner of a claim
has asked for the cart exactly if it is past `Send`, which `ClaimHasOneOwner` says too: a
verdict then follows the one POST, or precedes any.

**Calls.** Two counters have to agree: what was reserved (`used`, the length of the
stack of reservations, `ReasonsMatch`) and what was attempted. A reservation has at
most two attempts, the second of which is still to come while the first is in
flight (`AttemptsPaired`), so the ceiling of attempts refuses nothing that the
budget allows (`BudgetIsTheCeiling`). The reservation of a primary in flight is the
last one (`OwnIsLast`), so what the fall-back gives back is its own, and it cannot be
refused. One call is held back until a reply was asked for (`Spared`), which is the
first property; `ReviewIsFunded` carries what `CanAfford` saw before a repair through
the repair's own call to the judgement that follows, which is the second.

**Takeover.** The stamp of the pause is what a turn looks at. It is at least as fresh as
the attendant's messages noted since the takeover (`PauseIsHeard`), and never fresher
than its cause (`PauseHasCause`, `RowsHaveCause`), whatever turns write into the pause
with what they read before. Who found no stamp and is about to write one has no recent
message to hide (`SeedersHeard`). The webhook of a message of the agent's own stamps the
pause for neither, and is recorded as a cause. Time moves all ages at once and keeps
their order, also where they saturate.

**Order.** What a turn confirms is the review that was shown last (`ReviewWasShown`),
so the order placed is that one. That review comes from what was told, so it holds until
a turn takes its state from the durable session (`adopted`), and the order made is the one
posted in this turn unless it was given up in an earlier one (`late`). `OrderIsTraced`
says where the one order of a cart can be known from: the turn that placed it, what was
told, the richest of that, the durable session, or the mark of an ambiguous
attempt. It needs that nothing was forgotten (`NoneForgotten`): no turn began anew, and a
turn under way knows of an order that was kept. Both hold until a cause is recorded, and
each way in which the code loses a trace records one in the step where it does; a second
order without one would need all traces gone.

**Cart.** A removal builds a new cart and deletes the old one. `StoreTypes` says that
only sessions that were drawn have carts, or calls on their way to them; `MindTypes`
that the memory names no other; `DealSound` where the turn is. The three facts that
matter each hold under the condition of the property they serve. `OneIsFull`: the old
cart is full until the new one is, and the new one afterwards, as long as no call is
done late and no reading that decides something lags. `OthersAreEmpty`: besides, as long
as no cart may have been left behind, only the cart the conversation knows, or is about
to remember, and the one being built hold anything. `NotTwice`: as long as nothing was
late and one thing was asked for at a time, what is about to be posted is not in the
cart, because a repetition has read the cart first.

**Learning.** `AllCovered` says what the cursor's property says, but up to each
batch's own position too, since batches overlap, break off and write the cursor
unconditionally; it leaves out the replies in `missed`, which is extended in the very step
that passes one over. `AllOnce` says of each message which turn or batch may still write
a review of it, so that a second one has its cause recorded before it is written.

---------------------------------------------------------------------------

## 6. What only TLC shows

- Liveness (`Settles` of the outbox and of PIX, `MessagesSettle`, `PaidIsNoticed`,
  `WaitersResume`, `StreamMoves`): TLAPS does not reason about fairness and
  `ENABLED` here.
  Their safety halves are proved: `NoReplyForgotten`, `ConversationsGoOn`,
  `NoneStranded`, `NoticesAreKept`, `WaitersAreServed` say that whoever waits is never
  out of reach of the step that serves it. That the step is taken is TLC's.
- The five claims that do not hold (section 7): a violation is TLC's to find.
- Every safety property of a passing run, the four refinements included, is proved.
  `AtMostOnePost`, `EvidenceIsCurrent`, `ReadyIsFinal`, `OrderWasPaid`,
  `SettledMeansOrder`, `OrderIdKept`, `SentWasDelivered` and the `DuplicateNeedsCause`
  of PIX are proved and no run repeats them: the refinements they are parts of imply
  them, or they are conjuncts of an invariant. No model has a RECURSIVE operator, and
  nothing here is proved by induction over data; a result computed by recursion over a
  conversation's history would be out of the prover's reach.

---------------------------------------------------------------------------

## 7. Findings

Each has a run that expects the violation.

1. **A merged burst can be answered twice** (`inbox_twice`, `AnsweredOnce`). A burst
   runs under the id of its last message (`ingress/worker.py:48`) and the grouping is
   not recorded. When the turn ends in an exception or a failed send after its reply
   was accepted, the anchor is claimed again alone, is a new id to
   `claim_inbound_message`, and gets a second reply, while the first goes out by the
   outbox's retry. `docs/plano_evolucao_omnichannel_instagram.md:116` says that a
   redelivery does not duplicate a reply.
2. **A lease without an end** (`inbox_stuck`, `LeaseIsRecoverable`).
   `claim_conversation_burst` copies `anchor.lease_expires_at` without looking at the
   anchor's status (`ingress/inbox.py:266-269`). If a worker whose wait for the lock
   timed out has marked the anchor failed meanwhile, the copy is NULL, and the
   reclaim condition excludes NULL for ever should the process stop.
3. **A half-open circuit without a probe** (`circuit_stuck`, `ProbeIsOutstanding`).
   `_request` ends without a report when a 200 is not JSON
   (`tray/tray_adapter_client.py:451`), on exceptions it does not name, and when a
   time-out around it cancels it (`direct/checkout.py:176,188`); the flag stays set
   and the process refuses every request until it restarts.
4. **A row that is looked at never goes stale** (`index_stale`, `OffersAreRecent`).
   A ranked product is written back with the present as its `freshness_at`
   (`catalog/index/catalog_index.py:284`), also when it was just read from the index.
   A product that some turn sees within the stale days keeps its old price and
   stock, and `mark_stale_or_zero_price_unavailable`, "Fail-closed: available=true rows
   that are stale or price-less become unavailable."
   (`catalog/media/url_health.py:129-132`), never withdraws it.
5. **An attendant's fresh stamp hidden by an old one** (`takeover_evidence`,
   `EvidenceSilences`). `human_takeover_active` looks at the attendants' row only if
   its own state has no time-stamp at all (`ops/human_takeover.py:436-437`). When the
   own stamp is older than the idle time and the row's is not, the agent answers,
   although the module's docstring (lines 3-4) says that it is silent while there is
   evidence of the attendant's activity in the last minutes.

Divergences seen while modelling that no run states:

- `handle_mercadopago_webhook` says "Always safe to acknowledge with HTTP 200"
  (`pix_payment_service.py:175`) and "webhook must not 5xx to MP" (`:206`); the route
  answers 503 for `mp_fetch_failed` and `internal_error` (`pix_webhook_api.py:38-43`),
  and `PaidIsNoticed` needs it: the repeated notification is what notices the payment.
- A repeated confirmation more than ten minutes after completion is told that the
  proposal expired, because expiry is looked at before the journal, while
  `docs/direct-checkout.md` says that `completed` returns the same link.
- A wrong code drops the pending proposal. A reply that discards a proposal and is
  delivered late can be overtaken by one that carries it.
- A late failure mark over a completed settlement leaves `failed` with an order id:
  the order is kept (`OrderIdKept`), the word is wrong, and the retries skip the row.
- With memory proposals or summaries switched on, the reply's first call is of type
  `response_composition_envelope` (`sales/responder.py:596-631`), which is not among the
  reserved types. With a ceiling of two and one call used, the call held back *for*
  the reply refuses the reply; `LLMCallBudgetExceeded` is none of the exceptions
  caught there, so the plain call that would be admitted is not made. `CallBudget`
  models the plain path.
- `create_cart_items_checkout` sets `failed_item` before it reads the cart again
  (`commerce/cart_service.py:1407`) and does not reset it when the item turns out to
  be there, so a complete cart is reported as a partial failure; a repetition of the
  same request posts its items again (`AsManyAsAsked` of `ShoppingCart` is
  therefore about requests for one thing).
- After an ambiguous order that did succeed, a changed cart and a new review, the
  look-up before the POST (`commerce/order_service.py:743-775`) finds the first order
  and presents it as the one just reviewed.
- `rebuild_cart_without` leaves `cart_url` at the deleted session when it empties the
  cart, and a merge with an older delivered state brings that session back.
- After a second transfer the window of silence is not renewed; an attendant's message
  within 120 s of one of the agent's is taken for the agent's own, and a message of the
  agent's own, told before its record or after 120 s, for an attendant's
  (`OwnMessageReturns`), while the function says of itself "Ignores echoes of our own
  bot sends." (`ops/human_takeover.py:349`); and an attendant who takes over during a
  turn is not seen by it.
- A delivered reply to media that cannot be viewed is recorded on a message without a
  workspace (`http/brevo_webhook.py:231-274`) and is passed over by every batch that has
  one (`learning`, `missed`).
- With nothing delivered yet, or the delivered states unreadable, the durable session is
  taken whole, with a review whose reply may have been lost: a "yes" can confirm what
  was not shown (`adopted`).
- A WhatsApp text whose transactional call is answered ambiguously goes out a second time
  by the conversation, in the same claim (`channels/brevo_client.py:379-406`).
- A reply delivered by the outbox's worker is never linked to the review of the
  gate that held it, so one incident is reviewed twice (`learning`).

---------------------------------------------------------------------------

## 8. What is not modelled, and why

- **Wording, prompts, catalogue search, verification, identity heuristics**: pure
  functions of text and facts, or model calls; a choice in the models. This is most of
  the code's lines: `sales`, `catalog`, `verify`, `llm`, `stories` and `commerce`
  decide, step by step and in one task, what to say. A model of these lines would either
  repeat them or replace each decision by a choice, and the choice is already in the
  modules above. The map therefore covers a small share of the lines and most of the
  state that outlives a turn.
- **Within the modelled parts**: cancellation of a task that waits for the lock (nothing
  cancels one); retries inside one HTTP request of the store client; order events for
  payments the agent does not know; a variant's row of the index apart from its
  product's, and the columns an upsert keeps when the new value is null or never
  rewrites (mechanism, case, materials, colours, aliases and the like,
  `catalog_index.py:865-899`: a row's revision is its price, stock and offer); the two
  aliases of a customer's commerce session; carriers, coupons and customer data of an
  order (its hash is one value); a store that answers with another session than it was
  asked about; a transaction pooler under the advisory lock; consent to a transfer; the
  bootstrap of the learning's cursor; the shadow and canary gateways, the direct agent's
  own budget and the Story job's parallel calls; preview and evaluation modes of the
  checkout; diagnostics and audit rows.
- **Remarketing**: its cron is switched off (`http/cron.py:192`).
- **Time** is ordering, not duration: that a lease of so many seconds is long enough
  is not a question these models ask; that it may be too short is in all of them.
  The takeover's ages saturate, and the index counts days, because there the code
  compares durations.
- **Numbers**: amounts are constants; the two conversions to cents
  (`pix_payment_service.py:75`) round differently and are planned as a pure module.
- **Migrations, scripts, tests, evaluation**: not part of the running program.

---------------------------------------------------------------------------

## 9. Plan

Order by what can hurt a customer most. New components join the composed runs
(`MCComponents` and `MCRecords` for safety, `MCDispatch` and `MCTraySync` for
liveness), so that a run stays a question.

Done, with their proofs: `Outbox`, `ReplyPromise` (the refinement), `Inbox`,
`PixSettlement` with `SettlementPromise`, `ConversationLock`, `TrayCircuit`, `StoryJobs`
with `EvidencePromise`, `DirectCheckout` with `PurchasePromise`, `CallBudget`,
`CatalogIndex` with `StoreEvents`, `CustomerMemory` with `ShoppingCart` and
`AssistedOrder`, `HumanTakeover`, `AttendanceLearning`.

Next, extending the model:

1. `Versions` - persona activation (`persona_repository.py:178`), instruction
   extensions with canary and rollback (`instruction_extension_repository.py:153`,
   `learning/`): one active version, a rollback that wins over a late promotion.
2. `ContactMemory` - versions of contact memories (`contact_memory_repository.py:178`)
   and their proposals from two turns.
3. The Story job's calls, two at a time, in `CallBudget`: whose reservation a refund
   takes.
4. Story associations: a manual one wins over an automatic one written later.
5. The evaluation's campaign budget, reserved by several workers.
6. `Cents` - both conversions, against a reference, over bounded inputs.
7. `Outbox` with the inline claim's disregard of obsolescence (`outbox.py:447`) as a
   question of order between replies.

Next, proofs:

1. An abstract mutual exclusion (one owner, a degraded session aside) that
   `ConversationLock` implements, and promises of the same kind for the store's events
   (the index is never behind the cursor) and the learning (each message counted once).
2. `Inbox` against a promise: answered or left unanswered, in order, as far as bursts
   are not merged.
3. Safety halves of `StreamMoves`: that the page in work always starts behind the
   cursor.
