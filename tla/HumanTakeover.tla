---------------------------- MODULE HumanTakeover ----------------------------
(***************************************************************************)
(* Who commands a conversation, the agent or an attendant                  *)
(* (ops/human_takeover.py, ops/handoff_queue.py).  The attendants' system  *)
(* keeps a row for each thread of a customer: who it is assigned to,       *)
(* whether the bot is on, and perhaps when an attendant last acted.  Before*)
(* a turn the agent looks for a row that shows a takeover and for its own  *)
(* pause of the thread, which it stamps when an attendant's message comes  *)
(* by, from the row, or with the moment it first saw the takeover; within  *)
(* the idle time of that stamp it keeps silent.  A transfer the customer   *)
(* agreed to puts the thread into the attendants' queue before it is       *)
(* confirmed.                                                              *)
(*                                                                         *)
(* The webhook tells of the agent's own messages just as of an attendant's,*)
(* at once or late, once or more often.  They are told apart by the record *)
(* of a reply less than 120 seconds old, which is written only after the   *)
(* reply was sent: an attendant's message may go for the agent's own, and  *)
(* the agent's own for an attendant's.                                     *)
(*                                                                         *)
(* Time-stamps are kept as ages, which grow as time passes, up to LongAgo. *)
(* The unit is of the order of the idle time: none passes within a check.  *)
(***************************************************************************)
EXTENDS Naturals

CONSTANTS Checkers,    \* turns of the thread that look whether they may answer
          Idle,        \* human_takeover_idle_minutes
          Slack,       \* _stale_buffer_minutes
          Stale,       \* human_takeover_stale_conversa_days
          MaxActs,     \* bound: what customer and attendants do
          MaxOutages   \* bound: calls to the database that fail

ASSUME TakeoverAssumption ==
  /\ Idle \in Nat \ {0} /\ Slack \in Nat /\ Stale \in Nat /\ Idle + Slack <= Stale
  /\ MaxActs \in Nat /\ MaxOutages \in Nat

VARIABLES conversa, \* the attendants' row of each thread
          pause,    \* age of the thread's stamp in ai_human_takeover_state
          look,     \* what each checker has found
          own,      \* the agent has sent a message, which the webhook may tell of
          recent,   \* a reply was recorded less than 120 seconds ago
          acts, outages,
          heard,    \* history: age of the latest stamp for an attendant's message
          acted,    \* history: age of the latest act of an attendant
          noticed   \* history: age of the latest stamp for neither: for a takeover
                    \* first seen, or a message of the agent's own

takeoverVars == <<conversa, pause, look, own, recent, acts, outages, heard, acted, noticed>>

\* The thread of the conversation, and another of the same phone, which has a
\* pause of its own.
Threads == {"own", "other"}

LongAgo == Stale + 1
Never   == LongAgo + 1  \* no time-stamp
Older(age) == IF age < LongAgo THEN age + 1 ELSE age
Newer(a, b) == IF a < b THEN a ELSE b

NoLook == [pc |-> "idle", human |-> Never, blind |-> FALSE, heard |-> Never,
           cause |-> Never]

TakeoverInit ==
  /\ conversa = [t \in Threads |->
       [assigned |-> FALSE, bot |-> TRUE, status |-> "open", human |-> Never, last |-> LongAgo]]
  /\ pause = Never
  /\ look = [k \in Checkers |-> NoLook]
  /\ own = FALSE /\ recent = FALSE /\ acts = 0 /\ outages = 0
  /\ heard = Never /\ acted = Never /\ noticed = Never

Act    == acts < MaxActs /\ acts' = acts + 1
Outage == outages < MaxOutages /\ outages' = outages + 1

-----------------------------------------------------------------------------
(* The world *)

Checking(k) == look[k].pc \in {"load", "seed"}

Pass ==
  /\ \A k \in Checkers : ~Checking(k)
  /\ conversa' = [t \in Threads |->
       [conversa[t] EXCEPT !.human = Older(@), !.last = Older(@)]]
  /\ pause' = Older(pause) /\ recent' = FALSE
  /\ heard' = Older(heard) /\ acted' = Older(acted) /\ noticed' = Older(noticed)
  /\ UNCHANGED <<look, own, acts, outages>>

\* 120 seconds, which are less than the unit.
GrowsOld ==
  /\ recent /\ recent' = FALSE
  /\ UNCHANGED <<conversa, pause, look, own, acts, outages, heard, acted, noticed>>

Agent == <<pause, look, own, recent, heard, noticed, outages>>

\* The customer writes.  A closed thread is reopened.
CustomerMessage(t) ==
  /\ Act
  /\ conversa' = [conversa EXCEPT ![t].last = 0,
                                  ![t].status = IF @ = "closed" THEN "open" ELSE @]
  /\ UNCHANGED <<Agent, acted>>

\* An attendant takes the thread; not every schema stamps that.
Assume(t) ==
  /\ Act /\ acted' = 0
  /\ \E human \in {0, conversa[t].human} :
       conversa' = [conversa EXCEPT ![t].assigned = TRUE, ![t].bot = FALSE,
                                    ![t].status = "open", ![t].human = human]
  /\ UNCHANGED Agent

\* An attendant gives the thread back, or closes it.
Release(t, status) ==
  /\ Act /\ acted' = 0
  /\ conversa[t].assigned
  /\ conversa' = [conversa EXCEPT ![t].assigned = FALSE, ![t].bot = (status = "open"),
                                  ![t].status = status]
  /\ UNCHANGED Agent

-----------------------------------------------------------------------------
(* The row that counts *)

Signals(t) == conversa[t].status # "closed" /\ (conversa[t].assigned \/ ~conversa[t].bot)
Active(t)  == Signals(t) /\ conversa[t].last # LongAgo
Recent(t)  == conversa[t].last \in 0..(Idle + Slack)

\* _pick_takeover_row.
Picked == IF Active("own") THEN {"own"} ELSE {t \in Threads : Active(t) /\ Recent(t)}

\* Variant: the last one to write has it.
StampLast(age) == pause' = age

\* _upsert_pause_state.
Stamp(age) == pause' = Newer(pause, age)

\* touch_human_activity: an attendant writes and the webhook tells of it.  It
\* goes for the agent's own if one was recorded just before.
AttendantWrites ==
  /\ Act /\ acted' = 0
  /\ \E human \in {0, conversa["own"].human} :
       conversa' = [conversa EXCEPT !["own"].last = 0, !["own"].human = human]
  /\ UNCHANGED <<look, own, recent, noticed>>
  /\ \/ Picked # {} /\ ~recent /\ Stamp(0) /\ heard' = 0 /\ UNCHANGED outages
     \/ (Picked = {} \/ recent) /\ UNCHANGED <<pause, heard, outages>>
     \/ Outage /\ UNCHANGED <<pause, heard>>

\* The same, of a message of the agent's own that is not known for one: its
\* record is not written yet, was never written, or is too old.
OwnMessageReturns ==
  /\ own /\ Picked # {} /\ ~recent
  /\ Stamp(0) /\ noticed' = 0
  /\ UNCHANGED <<conversa, look, own, recent, acts, outages, heard, acted>>

\* cleanup_stale_takeover_state.
Clean ==
  /\ pause = LongAgo /\ pause' = Never
  /\ UNCHANGED <<conversa, look, own, recent, acts, outages, heard, acted, noticed>>

-----------------------------------------------------------------------------
(* human_takeover_active *)

World == <<conversa, own, recent, acts, acted>>
Become(k, l) == look' = [look EXCEPT ![k] = l]

Unled == [NoLook EXCEPT !.pc = "allowed", !.blind = TRUE]

Cause == Newer(acted, noticed)
Verdict(l, age) ==
  [l EXCEPT !.pc = IF age >= Idle THEN "allowed" ELSE "blocked", !.cause = Cause]

\* The rows are read.  An error allows the turn.
CheckRow(k) ==
  /\ look[k].pc = "idle" /\ UNCHANGED <<World, pause, heard, noticed>>
  /\ \/ Picked = {} /\ Become(k, Unled) /\ UNCHANGED outages
     \/ /\ UNCHANGED outages
        /\ \E t \in Picked : Become(k, [NoLook EXCEPT !.pc = "load", !.human = conversa[t].human])
     \/ Outage /\ Become(k, Unled)

\* The pause is read; without one the turn goes on with what the row says.
CheckPause(k) ==
  LET l == [look[k] EXCEPT !.heard = heard] IN
  /\ look[k].pc = "load" /\ UNCHANGED <<World, pause, heard, noticed>>
  /\ \/ pause # Never /\ Become(k, Verdict(l, pause)) /\ UNCHANGED outages
     \/ pause = Never /\ Become(k, [l EXCEPT !.pc = "seed"]) /\ UNCHANGED outages
     \/ Outage /\ Become(k, [l EXCEPT !.pc = "seed", !.blind = TRUE])

\* Variant: the customer's message counts for an attendant's.
SeedFromTraffic(k) ==
  /\ look[k].pc = "seed" /\ UNCHANGED <<World, heard, noticed, outages>>
  /\ Stamp(conversa["own"].last)
  /\ Become(k, Verdict(look[k], conversa["own"].last))

\* The row's own stamp is taken over, or the window starts now; which must be
\* on record to silence the agent.
Seed(k) ==
  LET l == look[k] IN
  /\ l.pc = "seed" /\ UNCHANGED <<World, heard>>
  /\ \/ /\ l.human # Never /\ Become(k, Verdict(l, l.human)) /\ UNCHANGED noticed
        /\ \/ Stamp(l.human) /\ UNCHANGED outages
           \/ Outage /\ UNCHANGED pause
     \/ /\ l.human = Never /\ Stamp(0) /\ noticed' = 0 /\ UNCHANGED outages
        /\ Become(k, [l EXCEPT !.pc = "blocked", !.cause = 0])
     \/ /\ l.human = Never /\ Outage /\ Become(k, Unled) /\ UNCHANGED <<pause, noticed>>

-----------------------------------------------------------------------------
(* The turn *)

Turn == <<pause, acts, outages, heard, acted, noticed>>

\* The agent keeps silent; has nothing to say; or fails, before or after it said
\* something.
Leave(k) ==
  /\ look[k].pc \in {"blocked", "allowed", "queued", "sent"} /\ Become(k, NoLook)
  /\ UNCHANGED <<Turn, conversa, own, recent>>

\* The reply, or the confirmation of a transfer, goes out.
Reply(k) ==
  /\ look[k].pc \in {"allowed", "queued"} /\ Become(k, [NoLook EXCEPT !.pc = "sent"])
  /\ own' = TRUE /\ UNCHANGED <<Turn, conversa, recent>>

\* insert_agent_response, in the worker's turn or the queue's.
Record(k) ==
  /\ look[k].pc = "sent" /\ Become(k, NoLook)
  /\ recent' = TRUE /\ UNCHANGED <<Turn, conversa, own>>

\* mark_conversa_for_human_handoff, then the confirmation.  An attendant's
\* assignment stays; a thread that waits already is left alone.
Transfer(k) ==
  /\ look[k].pc = "allowed" /\ conversa["own"].status # "closed"
  /\ conversa' = IF conversa["own"].status = "waiting" THEN conversa
                 ELSE [conversa EXCEPT !["own"].bot = FALSE,
                         !["own"].status = IF conversa["own"].assigned THEN @ ELSE "waiting"]
  /\ Become(k, [NoLook EXCEPT !.pc = "queued"])
  /\ UNCHANGED <<Turn, own, recent>>

Check(k) ==
  \/ CheckRow(k) \/ CheckPause(k) \/ Seed(k)
  \/ Leave(k) \/ Reply(k) \/ Record(k) \/ Transfer(k)

TakeoverNext ==
  \/ Pass \/ GrowsOld \/ Clean \/ AttendantWrites \/ OwnMessageReturns
  \/ \E t \in Threads :
       \/ CustomerMessage(t) \/ Assume(t)
       \/ \E status \in {"open", "closed"} : Release(t, status)
  \/ \E k \in Checkers : Check(k)

TakeoverSpec == TakeoverInit /\ [][TakeoverNext]_takeoverVars

-----------------------------------------------------------------------------
(* Properties *)

\* An attendant who wrote is not answered over: with a takeover on record, a
\* turn that could read the pause goes on only if the idle time has passed
\* since the latest message of an attendant that was noted, whatever other
\* turns have written into the pause meanwhile.
AttendantIsHeard ==
  \A k \in Checkers : look[k].pc = "allowed" /\ ~look[k].blind => look[k].heard >= Idle

\* The agent is silent only within the idle time of something an attendant did,
\* of the moment it first saw the takeover, or of the webhook of a message of
\* its own that it did not know again: a flag left behind, and the customer's
\* messages, do not silence it.
SilenceHasCause ==
  \A k \in Checkers : look[k].pc = "blocked" => look[k].cause < Idle

\* What the module says of itself: the agent is silent while there is evidence
\* of an attendant's activity within the idle time, the row's stamps included.
EvidenceSilences ==
  \A k \in Checkers : look[k].pc = "allowed" /\ ~look[k].blind => look[k].human >= Idle

=============================================================================
