---------------------------- MODULE CatalogIndex ----------------------------
(***************************************************************************)
(* The table ai_catalog_index: what the agent knows of the store's goods,  *)
(* and who writes it besides the store's events (StoreEvents).             *)
(*                                                                         *)
(* A turn collects products from the store (or from the snapshot cache,    *)
(* which serves what was read some minutes ago), or from the index itself, *)
(* ranks them and writes all of them back (catalog/retrieval/present.py);  *)
(* the nightly warming does the same by brand (catalog/index/warm.py).     *)
(* upsert_canonical_items replaces the row whatever it holds, stamps it    *)
(* with the moment of the writing, and swallows errors of the database.    *)
(* Stale rows are taken from sale (catalog/media/url_health.py).           *)
(*                                                                         *)
(* The store's log of changes numbers them: the revision of a product is   *)
(* the number of its last change.                                          *)
(***************************************************************************)
EXTENDS Naturals, Sequences, FiniteSets

CONSTANTS Goods,
          Turns,        \* turns and warming runs that write products back
          NoRow,      \* no row; or nothing in hand
          MaxChanges,   \* bound: changes the store makes
          StaleDays,    \* days after which a row counts as stale
          ReadableDays, \* days for which the index is read (max_age_seconds)
          LastDay       \* bound: days that pass

ASSUME CatalogAssumption ==
  /\ MaxChanges \in Nat /\ StaleDays \in Nat \ {0} /\ ReadableDays \in Nat /\ LastDay \in Nat
  /\ NoRow \notin [rev : Nat, read : Nat, stamp : Nat, offered : BOOLEAN]

VARIABLES feed,    \* the store's changes, in order: what its webhooks tell
          day,
          index,   \* the table: per product its row
          swept,   \* mark_stale_or_zero_price_unavailable has run today
          hand,    \* what a turn has read and will write back
          doubtful \* history: products whose row may be behind, see Upsert

catalogVars == <<feed, day, index, swept, hand, doubtful>>

Changes  == [of : Goods, act : {"save", "delete"}]

\* read is the day the content came from the store, stamp is freshness_at.
Row(rev, read, offered) == [rev |-> rev, read |-> read, stamp |-> day, offered |-> offered]

Numbers(p) == {n \in 1..Len(feed) : feed[n].of = p}
Newest(S)  == IF S = {} THEN 0 ELSE CHOOSE n \in S : \A m \in S : m <= n

Revision(p) == Newest(Numbers(p))
Sold(p)     == Revision(p) > 0 /\ feed[Revision(p)].act = "save"

CatalogInit ==
  /\ feed = <<>> /\ day = 0 /\ swept = FALSE /\ doubtful = {}
  /\ index = [p \in Goods |-> NoRow]
  /\ hand = [t \in Turns |-> NoRow]

\* The store creates, changes or withdraws a product.
Change(p, act) ==
  /\ Len(feed) < MaxChanges
  /\ act = "delete" => Sold(p)
  /\ feed' = Append(feed, [of |-> p, act |-> act])
  /\ UNCHANGED <<day, index, swept, hand, doubtful>>

-----------------------------------------------------------------------------
(* Writes of the index, shared with the consumer of the store's events *)

\* The row is replaced whatever it holds: its price, stock and offer, that is, which
\* the revision stands for.  (A few descriptive columns keep their old value where
\* the new one is null, and some are written once only.)  A product changed since
\* it was read now has a row that is behind: that is recorded.
Upsert(p, rev, read, offered) ==
  /\ index' = [index EXCEPT ![p] = Row(rev, read, offered)]
  /\ doubtful' = IF rev = Revision(p) THEN doubtful \ {p} ELSE doubtful \cup {p}

\* The database failed: upsert_canonical_items and the deletions return 0.
LoseWrite(p) == UNCHANGED index /\ doubtful' = doubtful \cup {p}

-----------------------------------------------------------------------------
(* Turns *)

ReadStore(t, p) ==
  /\ hand[t] = NoRow /\ Sold(p)
  /\ hand' = [hand EXCEPT ![t] = [of |-> p, rev |-> Revision(p), read |-> day, offered |-> TRUE]]
  /\ UNCHANGED <<feed, day, index, swept, doubtful>>

ReadIndex(t, p) ==
  /\ hand[t] = NoRow /\ index[p] # NoRow
  /\ index[p].stamp + ReadableDays >= day
  /\ hand' = [hand EXCEPT ![t] =
       [of |-> p, rev |-> index[p].rev, read |-> index[p].read, offered |-> index[p].offered]]
  /\ UNCHANGED <<feed, day, index, swept, doubtful>>

WriteBack(t) ==
  /\ hand[t] # NoRow
  /\ \/ Upsert(hand[t].of, hand[t].rev, hand[t].read, hand[t].offered)
     \/ LoseWrite(hand[t].of)
  /\ hand' = [hand EXCEPT ![t] = NoRow]
  /\ UNCHANGED <<feed, day, swept>>

-----------------------------------------------------------------------------
(* Days *)

NextDay ==
  /\ day < LastDay
  /\ \A t \in Turns : hand[t] = NoRow  \* a turn takes minutes
  /\ day' = day + 1 /\ swept' = FALSE
  /\ UNCHANGED <<feed, index, hand, doubtful>>

\* mark_stale_or_zero_price_unavailable.
MarkStale ==
  /\ swept' = TRUE
  /\ index' = [p \in Goods |->
       IF index[p] # NoRow /\ index[p].stamp + StaleDays <= day
         THEN [index[p] EXCEPT !.offered = FALSE] ELSE index[p]]
  /\ UNCHANGED <<feed, day, hand, doubtful>>

CatalogNext ==
  \/ \E p \in Goods : \E act \in {"save", "delete"} : Change(p, act)
  \/ \E t \in Turns :
       \/ \E p \in Goods : ReadStore(t, p) \/ ReadIndex(t, p)
       \/ WriteBack(t)
  \/ NextDay
  \/ MarkStale

CatalogSpec == CatalogInit /\ [][CatalogNext]_catalogVars

\* "Fail-closed: available=true rows that are stale or price-less become
\* unavailable": once the cron has run, no row is on offer with what the store
\* said StaleDays ago.  (A row written back from the index is fresh again
\* although nobody asked the store.)
OffersAreRecent ==
  swept => \A p \in Goods :
             index[p] # NoRow /\ index[p].offered => index[p].read + StaleDays > day

=============================================================================
