----------------------------- MODULE StoreEvents -----------------------------
(***************************************************************************)
(* The consumer of the store's webhook events                              *)
(* (app/tray/tray_webhook_consumer.py): two cron routes poll the store's   *)
(* log from the saved cursor, apply a page of events in order to the       *)
(* catalogue index, stop at the first that fails and save the cursor.      *)
(*                                                                         *)
(* A product event has the product read from the store and its row         *)
(* replaced; a store that cannot be read, or does not know the product any *)
(* more, fails the event after the row was deleted.  Beyond a budget of    *)
(* reads per page only the snapshot cache is emptied.  An event of a       *)
(* variant refreshes its product; that of a variant withdrawn fails, as    *)
(* its product is asked for through it.  One of an order is PixSettlement's*)
(* business: here it succeeds or is refused whenever it is applied.        *)
(***************************************************************************)
EXTENDS CatalogIndex

CONSTANTS Pollers,     \* the two cron routes
          Others,      \* orders, and variants withdrawn
          PageLimit,   \* events on a page
          MaxRefresh,  \* _MAX_REFRESH
          MaxMishaps    \* bound: errors of store and database, deaths of the poller

ASSUME StreamAssumption ==
  PageLimit \in Nat \ {0} /\ MaxRefresh \in Nat /\ MaxMishaps \in Nat /\ Others \cap Goods = {}

VARIABLES acked,  \* ai_tray_sync_cursors.last_event_id
          poll,    \* the polls at work
          mishaps

streamVars == <<catalogVars, acked, poll, mishaps>>

NoPoll == [pc |-> "idle", since |-> 0, page |-> 0, at |-> 0, spent |-> 0, got |-> 0]

StreamInit ==
  /\ CatalogInit /\ acked = 0 /\ mishaps = 0
  /\ poll = [w \in Pollers |-> NoPoll]

Mishap == mishaps < MaxMishaps /\ mishaps' = mishaps + 1

\* An order is placed or changed, or a variant withdrawn.
OtherEvent(o, act) ==
  /\ Len(feed) < MaxChanges
  /\ feed' = Append(feed, [of |-> o, act |-> act])
  /\ UNCHANGED <<day, index, swept, hand, doubtful, acked, poll, mishaps>>

-----------------------------------------------------------------------------
(* A poll.  at is the event in work; the events before it were applied. *)

Busy(w) == poll[w].pc # "idle"

Load(w) ==
  /\ ~Busy(w)
  /\ poll' = [poll EXCEPT ![w] =
       [NoPoll EXCEPT !.pc = "list", !.since = acked, !.at = acked + 1]]
  /\ UNCHANGED <<catalogVars, acked, mishaps>>

List(w) ==
  /\ poll[w].pc = "list"
  /\ LET page == IF Len(feed) < poll[w].since + PageLimit
                 THEN Len(feed) ELSE poll[w].since + PageLimit
     IN poll' = [poll EXCEPT ![w] =
          IF page = @.since THEN NoPoll ELSE [@ EXCEPT !.pc = "apply", !.page = page]]
  /\ UNCHANGED <<catalogVars, acked, mishaps>>

Event(w) == feed[poll[w].at]

\* On to the next event.
Advance(w) ==
  poll' = [poll EXCEPT ![w] =
    [@ EXCEPT !.at = poll[w].at + 1, !.pc = IF poll[w].at < poll[w].page THEN "apply" ELSE "save"]]

\* Variants: a failed event is passed over; or the page is given up with it.
StopPassesOver(w) == Advance(w)
StopForgets(w)    == poll' = [poll EXCEPT ![w] = NoPoll]

\* The event failed: the prefix before it is acknowledged.
Stop(w) == poll' = [poll EXCEPT ![w].pc = "save"]

\* Another poll has been or is at this event.
Overlapped(w) == poll[w].at <= acked \/ \E v \in Pollers \ {w} : Busy(v)

\* delete_index_product.  Where polls overlap it may delete what another wrote.
DeleteRow(w, p) ==
  \/ /\ index' = [index EXCEPT ![p] = NoRow]
     /\ doubtful' = IF ~Sold(p) THEN doubtful \ {p}
                    ELSE IF Overlapped(w) THEN doubtful \cup {p} ELSE doubtful
  \/ LoseWrite(p)

ApplyDelete(w) ==
  /\ poll[w].pc = "apply" /\ Event(w).act = "delete"
  /\ DeleteRow(w, Event(w).of) /\ Advance(w)
  /\ UNCHANGED <<feed, day, swept, hand, acked, mishaps>>

\* Over the budget the event counts as applied and the row stays.
ApplyInvalidate(w) ==
  /\ poll[w].pc = "apply" /\ Event(w).act = "save" /\ poll[w].spent >= MaxRefresh
  /\ doubtful' = doubtful \cup {Event(w).of}
  /\ Advance(w)
  /\ UNCHANGED <<feed, day, index, swept, hand, acked, mishaps>>

Refreshes(w) == poll[w].pc = "apply" /\ Event(w).act = "save" /\ poll[w].spent < MaxRefresh

ApplyRead(w) ==
  /\ Refreshes(w) /\ Sold(Event(w).of)
  /\ poll' = [poll EXCEPT ![w] =
       [@ EXCEPT !.pc = "write", !.spent = poll[w].spent + 1, !.got = Revision(Event(w).of)]]
  /\ UNCHANGED <<catalogVars, acked, mishaps>>

ApplyReadFails(w) ==
  /\ Refreshes(w)
  /\ \/ ~Sold(Event(w).of) /\ UNCHANGED mishaps
     \/ Sold(Event(w).of) /\ Mishap
  /\ DeleteRow(w, Event(w).of) /\ Stop(w)
  /\ UNCHANGED <<feed, day, swept, hand, acked>>

ApplyWrite(w) ==
  /\ poll[w].pc = "write"
  /\ \/ Upsert(Event(w).of, poll[w].got, day, TRUE)
     \/ LoseWrite(Event(w).of)
  /\ Advance(w)
  /\ UNCHANGED <<feed, day, swept, hand, acked, mishaps>>

ApplyOther(w) ==
  /\ poll[w].pc = "apply" /\ Event(w).of \in Others
  /\ IF Event(w).act = "settled" THEN Advance(w) ELSE Stop(w)
  /\ UNCHANGED <<catalogVars, acked, mishaps>>

Save(w) ==
  /\ poll[w].pc = "save"
  /\ acked' = IF acked < poll[w].at - 1 THEN poll[w].at - 1 ELSE acked
  /\ poll' = [poll EXCEPT ![w] = NoPoll]
  /\ UNCHANGED <<catalogVars, mishaps>>

\* The store does not list, the cursor is not saved, or the process ends.
Abandon(w) ==
  /\ Busy(w) /\ Mishap
  /\ poll' = [poll EXCEPT ![w] = NoPoll]
  /\ UNCHANGED <<catalogVars, acked>>

PollStep(w) ==
  \/ Load(w) \/ List(w) \/ Save(w)
  \/ ApplyDelete(w) \/ ApplyInvalidate(w) \/ ApplyRead(w) \/ ApplyReadFails(w)
  \/ ApplyWrite(w) \/ ApplyOther(w)

\* Days do not matter to the stream.
StreamNext ==
  \/ /\ \/ \E p \in Goods : \E act \in {"save", "delete"} : Change(p, act)
        \/ \E t \in Turns :
             \/ \E p \in Goods : ReadStore(t, p) \/ ReadIndex(t, p)
             \/ WriteBack(t)
     /\ UNCHANGED <<acked, poll, mishaps>>
  \/ \E o \in Others : \E act \in {"settled", "refused"} : OtherEvent(o, act)
  \/ \E w \in Pollers : PollStep(w) \/ Abandon(w)

StreamSpec == StreamInit /\ [][StreamNext]_streamVars

\* The cron comes again, and what it calls answers or fails.
StreamFair == \A w \in Pollers : WF_streamVars(PollStep(w))

-----------------------------------------------------------------------------
(* Properties *)

\* The event that must be applied before the stream goes on cannot be.
Barred ==
  /\ acked < Len(feed)
  /\ LET e == feed[acked + 1]
     IN e.act = "refused" \/ (e.act = "save" /\ ~Sold(e.of))

\* The last change of a product that the cursor has passed.
Acknowledged(p) == Newest({n \in Numbers(p) : n <= acked})

\* Acknowledging an event loses nothing: the index has the product at least as
\* it was then, and has no row of a product withdrawn, unless a later event
\* of it is still to come or the last write of its row is known to be doubtful.
IndexFollowsCursor ==
  \A p \in Goods \ doubtful :
    LET n == Acknowledged(p)
    IN n > 0 =>
         IF feed[n].act = "delete" THEN index[p] = NoRow \/ index[p].rev > n
         ELSE IF index[p] # NoRow THEN index[p].rev >= n
         ELSE Revision(p) > n

\* Every event comes to be acknowledged, unless the stream has come to one
\* that cannot be applied.
StreamMoves == []<>(acked = Len(feed) \/ Barred)

=============================================================================
