----------------------- MODULE AttendanceLearningProofs -----------------------
(***************************************************************************)
(* Theorems about AttendanceLearning, for any number of messages and of    *)
(* batches at once, any limit of rows, of replies and of failures.         *)
(***************************************************************************)
EXTENDS AttendanceLearning, FiniteSetTheorems, WellFoundedInduction, TLAPS

\* A set of numbers has a least one, and below a bound a greatest.
LEMMA LeastExists ==
  ASSUME NEW S, S \subseteq Nat, S # {}
  PROVE  \E x \in S : \A y \in S : x <= y
<1> DEFINE R == {s \in Nat \X Nat : s[1] < s[2]}
<1>1. IsWellFoundedOn(R, Nat) BY NatLessThanWellFounded DEF OpToRel
<1> HIDE DEF R
<1>2. PICK x \in S : \A y \in S : ~(<<y, x>> \in R) BY <1>1, WFMin
<1>3. \A y \in S : ~(y < x) BY <1>2 DEF R
<1>4. QED BY <1>3

LEMMA GreatestExists ==
  ASSUME NEW n \in Nat, NEW S, S \subseteq 0..n, S # {}
  PROVE  \E x \in S : \A y \in S : y <= x
<1> DEFINE T == {n - x : x \in S}
<1>1. T \subseteq Nat
  <2>1. ASSUME NEW x \in S PROVE n - x \in Nat
    <3>1. x \in 0..n OBVIOUS
    <3>2. QED BY <3>1
  <2>2. QED BY <2>1
<1>2. T # {} OBVIOUS
<1>3. PICK t \in T : \A u \in T : t <= u BY <1>1, <1>2, LeastExists
<1>4. PICK x \in S : t = n - x OBVIOUS
<1>5. ASSUME NEW y \in S PROVE y <= x
  <2>1. n - x <= n - y BY <1>3, <1>4
  <2>2. x \in 0..n /\ y \in 0..n OBVIOUS
  <2>3. QED BY <2>1, <2>2
<1>6. QED BY <1>5

-----------------------------------------------------------------------------
TurnPcs == {"new", "accepted", "recording", "storing", "link", "done"}
BatchPcs == {"idle", "fetch", "write", "save"}
Causes == {"run again", "queued", "delivered twice", "first attempt failed", "link lost",
           "read before the link"}

TurnRecords == [pc : TurnPcs, ok : BOOLEAN, id : Nat]
ReplyRecords == [of : Messages, ok : BOOLEAN, seen : BOOLEAN]
ReviewRecords == [of : Messages, reply : Nat]
BatchRecords == [pc : BatchPcs, from : Nat, rows : SUBSET Nat, last : Nat]

LearnTypes ==
  /\ turn \in [Messages -> TurnRecords]
  /\ replies \in Seq(ReplyRecords)
  /\ reviews \in Seq(ReviewRecords)
  /\ cursor \in Nat
  /\ batch \in [Batches -> BatchRecords]
  /\ causes \in [Messages -> SUBSET Causes]

\* A review that names a reply is of the same message.
ReviewsMatch ==
  \A v \in DOMAIN reviews : reviews[v].reply # 0 =>
    reviews[v].reply \in DOMAIN replies /\ replies[reviews[v].reply].of = reviews[v].of

\* The last reply of a turn is seen unless it is being recorded.
TurnKnows(m) ==
  LET t == turn[m] IN
  /\ t.id # 0 => /\ t.id \in DOMAIN replies /\ replies[t.id].of = m
                 /\ replies[t.id].ok = t.ok
                 /\ replies[t.id].seen <=> t.pc \notin {"recording", "storing"}
  /\ t.pc \in {"recording", "storing", "link"} => t.id # 0
TurnsKnow == \A m \in Messages : TurnKnows(m)

Mark(c) == c = 0 \/ Delivered(c)

\* A batch is past its mark, and what it has left are delivered replies.
BatchSound(b) ==
  /\ Mark(batch[b].last)
  /\ \A q \in batch[b].rows : Delivered(q) /\ q > batch[b].last
  /\ batch[b].pc = "fetch" => batch[b].from = batch[b].last /\ batch[b].rows = {}
  /\ batch[b].pc = "write" => batch[b].rows # {}
BatchesSound == Mark(cursor) /\ \A b \in Batches : BatchSound(b)

\* Up to the mark or the last of the rows, a message's replies are learnt, or
\* one of them is among the rows or after all of these.
Covered(c, rows) ==
  \A r \in DOMAIN replies :
    Delivered(r) /\ r \notin missed /\ (\E q \in rows \cup {c} : r <= q) =>
      \/ Learnt(replies[r].of)
      \/ \E s \in DOMAIN replies :
           /\ Delivered(s) /\ replies[s].of = replies[r].of
           /\ s \in rows \/ \A q \in rows \cup {c} : s > q
AllCovered == Covered(cursor, {}) /\ \A b \in Batches : Covered(batch[b].last, batch[b].rows)

\* A message without a cause: the one review, the one reply that was delivered.
Once(m) ==
  /\ \A v, w \in ReviewsOf(m) : v = w
  /\ turn[m].pc = "new" => ReviewsOf(m) = {}
  /\ turn[m].pc # "storing"
  /\ \A r \in DOMAIN replies : replies[r].of = m /\ replies[r].ok =>
       r = turn[m].id /\ turn[m].pc \in {"recording", "link", "done"}
  /\ turn[m].pc \in {"accepted", "recording", "link"} =>
       \A v \in ReviewsOf(m) : reviews[v].reply = 0
  /\ turn[m].pc = "done" /\ turn[m].id # 0 /\ turn[m].ok =>
       \A v \in ReviewsOf(m) : reviews[v].reply = turn[m].id
  /\ \A b \in Batches : \A q \in batch[b].rows : replies[q].of = m => turn[m].pc = "done"
AllOnce == \A m \in Messages : causes[m] = {} => Once(m)

LearnSound == LearnTypes /\ ReviewsMatch /\ TurnsKnow /\ BatchesSound
LearnInv == LearnSound /\ AllCovered /\ AllOnce

-----------------------------------------------------------------------------
LEMMA LearnInitially == LearningInit => LearnInv
<1> SUFFICES ASSUME LearningInit PROVE LearnInv OBVIOUS
<1>1. LearnTypes
  BY DEF LearningInit, LearnTypes, TurnRecords, TurnPcs, BatchRecords, BatchPcs, NoBatch
<1>2. ReviewsMatch /\ TurnsKnow /\ BatchesSound
  BY DEF LearningInit, ReviewsMatch, TurnsKnow, TurnKnows, BatchesSound, BatchSound, Mark, NoBatch
<1>3. AllCovered BY DEF LearningInit, AllCovered, Covered, NoBatch
<1>4. AllOnce BY DEF LearningInit, AllOnce, Once, ReviewsOf, NoBatch
<1>5. QED BY <1>1, <1>2, <1>3, <1>4 DEF LearnInv, LearnSound

-----------------------------------------------------------------------------
\* What of the replies a step keeps: those delivered, and whose each of them is.
RepliesKept ==
  /\ DOMAIN replies \subseteq DOMAIN replies'
  /\ \A r \in DOMAIN replies : /\ replies'[r].of = replies[r].of
                               /\ replies'[r].ok = replies[r].ok
                               /\ replies[r].seen => replies'[r].seen

LEMMA DeliveredStays ==
  ASSUME RepliesKept, NEW r, Delivered(r) PROVE Delivered(r)'
BY DEF RepliesKept, Delivered

LEMMA LearntStays ==
  ASSUME RepliesKept, NEW m, Learnt(m),
         DOMAIN reviews \subseteq DOMAIN reviews',
         \A v \in DOMAIN reviews : /\ reviews'[v].of = reviews[v].of
                                   /\ Delivered(reviews[v].reply) =>
                                        reviews'[v].reply = reviews[v].reply
  PROVE  Learnt(m)'
<1>1. PICK v \in ReviewsOf(m) : Delivered(reviews[v].reply) BY DEF Learnt
<1>2. v \in DOMAIN reviews /\ reviews[v].of = m BY DEF ReviewsOf
<1>3. reviews'[v].reply = reviews[v].reply BY <1>1, <1>2
<1>4. v \in ReviewsOf(m)' BY <1>2 DEF ReviewsOf
<1>5. Delivered(reviews[v].reply)'
  <2>1. PICK r : r = reviews[v].reply OBVIOUS
  <2>2. Delivered(r)' BY <1>1, <2>1, DeliveredStays
  <2>3. QED BY <2>1, <2>2, <1>3
<1>6. QED BY <1>4, <1>5 DEF Learnt

\* What was covered stays so, unless a reply is delivered behind the mark.
LEMMA CoveredStays ==
  ASSUME RepliesKept, NEW c, NEW rows, Covered(c, rows),
         \A m \in Messages : Learnt(m) => Learnt(m)',
         \A r \in DOMAIN replies : replies[r].of \in Messages,
         \A r : Delivered(r)' /\ r \notin missed' /\ (\E q \in rows \cup {c} : r <= q) =>
                  Delivered(r) /\ r \notin missed
  PROVE  Covered(c, rows)'
<1> SUFFICES ASSUME NEW r, (Delivered(r))', (r \notin missed)', \E q \in rows \cup {c} : r <= q
             PROVE  (\/ Learnt(replies[r].of)
                     \/ \E s \in DOMAIN replies :
                         /\ Delivered(s) /\ replies[s].of = replies[r].of
                         /\ s \in rows \/ \A p \in rows \cup {c} : s > p)'
  BY DEF Covered
<1>1. Delivered(r) /\ r \notin missed OBVIOUS
<1>2. r \in DOMAIN replies /\ replies'[r].of = replies[r].of BY <1>1 DEF Delivered, RepliesKept
<1>3. CASE Learnt(replies[r].of)
  <2>1. PICK m \in Messages : m = replies[r].of BY <1>2
  <2>2. Learnt(m)' BY <1>3, <2>1
  <2>3. Learnt(replies[r].of)' BY <1>2, <2>1, <2>2
  <2>4. QED BY <2>3
<1>4. CASE ~Learnt(replies[r].of)
  <2>1. PICK s \in DOMAIN replies :
          /\ Delivered(s) /\ replies[s].of = replies[r].of
          /\ s \in rows \/ \A p \in rows \cup {c} : s > p
    BY <1>1, <1>2, <1>4 DEF Covered
  <2>2. Delivered(s)' BY <2>1, DeliveredStays
  <2>3. s \in DOMAIN replies' /\ replies'[s].of = replies'[r].of BY <1>2, <2>1 DEF RepliesKept
  <2>4. QED BY <2>1, <2>2, <2>3
<1>5. QED BY <1>3, <1>4

-----------------------------------------------------------------------------
(* Steps of the turn *)

LEMMA Appended ==
  ASSUME NEW S, NEW s \in Seq(S), NEW x \in S
  PROVE  /\ Append(s, x) \in Seq(S)
         /\ Len(s) + 1 \in Nat \ {0} /\ Len(s) + 1 \notin DOMAIN s
         /\ DOMAIN Append(s, x) = DOMAIN s \cup {Len(s) + 1}
         /\ \A i \in DOMAIN s : i \in Nat \ {0} /\ i < Len(s) + 1 /\ s[i] \in S /\ Append(s, x)[i] = s[i]
         /\ Append(s, x)[Len(s) + 1] = x
OBVIOUS

\* A message is not touched: what its turn knows stays true.
LEMMA OthersKnow ==
  ASSUME NEW n \in Messages, TurnKnows(n), turn'[n] = turn[n],
         turn[n].id # 0 => turn[n].id \in DOMAIN replies' /\ replies'[turn[n].id] = replies[turn[n].id]
  PROVE  TurnKnows(n)'
BY DEF TurnKnows

\* The reviews a step of the turn leaves, and those it adds or links.
ReviewsKept ==
  /\ DOMAIN reviews \subseteq DOMAIN reviews'
  /\ \A v \in DOMAIN reviews : /\ reviews'[v].of = reviews[v].of
                               /\ reviews[v].reply # 0 => reviews'[v].reply = reviews[v].reply

\* Nothing is delivered, unless late, before what is delivered already.
NoneBehind ==
  \A r : Delivered(r)' /\ r \notin missed' =>
    \/ Delivered(r) /\ r \notin missed
    \/ r \in Nat \ {0} /\ \A q : Delivered(q) => q < r

LEMMA ZeroIsNone == LearnTypes => ~Delivered(0)
BY DEF LearnTypes, Delivered

LEMMA LearntKept ==
  ASSUME LearnTypes, RepliesKept, ReviewsKept, NEW m, Learnt(m) PROVE Learnt(m)'
<1>1. \A v \in DOMAIN reviews : Delivered(reviews[v].reply) => reviews[v].reply # 0 BY ZeroIsNone
<1>2. QED BY <1>1, LearntStays DEF ReviewsKept

LEMMA RepliesOf ==
  ASSUME LearnTypes, NEW r \in DOMAIN replies
  PROVE  replies[r].of \in Messages /\ r \in Nat \ {0} /\ replies[r] \in ReplyRecords
<1>1. replies \in Seq(ReplyRecords) BY DEF LearnTypes
<1>2. r \in Nat \ {0} /\ replies[r] \in ReplyRecords BY <1>1
<1>3. QED BY <1>2 DEF ReplyRecords

LEMMA TurnsLeaveBatches ==
  ASSUME LearnTypes, BatchesSound, AllCovered, RepliesKept, ReviewsKept, NoneBehind,
         cursor' = cursor, batch' = batch
  PROVE  BatchesSound' /\ AllCovered'
<1>1. ASSUME NEW c, Mark(c) PROVE Mark(c)' BY <1>1, DeliveredStays DEF Mark
<1>2. BatchesSound'
  <2>1. ASSUME NEW b \in Batches PROVE BatchSound(b)'
    <3>1. BatchSound(b) BY DEF BatchesSound
    <3>2. Mark(batch[b].last)'
      <4>1. PICK c : c = batch[b].last OBVIOUS
      <4>2. Mark(c)' BY <1>1, <3>1, <4>1 DEF BatchSound
      <4>3. QED BY <4>1, <4>2
    <3>3. ASSUME NEW q \in batch[b].rows PROVE Delivered(q)' /\ q > batch[b].last
      BY <3>1, <3>3, DeliveredStays DEF BatchSound
    <3>4. QED BY <3>1, <3>2, <3>3 DEF BatchSound
  <2>2. Mark(cursor)'
    <3>1. PICK c : c = cursor OBVIOUS
    <3>2. Mark(c)' BY <1>1, <3>1 DEF BatchesSound
    <3>3. QED BY <3>1, <3>2
  <2>3. QED BY <2>1, <2>2 DEF BatchesSound
<1>3. ASSUME NEW c, NEW rows, \A q \in rows \cup {c} : q \in Nat /\ Mark(q), Covered(c, rows)
      PROVE  Covered(c, rows)'
  <2>1. \A m \in Messages : Learnt(m) => Learnt(m)' BY LearntKept
  <2>2. ASSUME NEW r, Delivered(r)', r \notin missed', NEW q \in rows \cup {c}, r <= q
        PROVE  Delivered(r) /\ r \notin missed
    <3>1. q \in Nat /\ Mark(q) BY <1>3
    <3>2. CASE r \in Nat \ {0} /\ \A p : Delivered(p) => p < r
      <4>1. q = 0 \/ q < r BY <3>1, <3>2 DEF Mark
      <4>2. QED BY <2>2, <3>1, <3>2, <4>1
    <3>3. QED BY <2>2, <3>2 DEF NoneBehind
  <2>3. QED BY <1>3, <2>1, <2>2, CoveredStays, RepliesOf
<1>4. Covered(cursor, {})'
  <2>1. PICK c : c = cursor OBVIOUS
  <2>2. c \in Nat /\ Mark(c) BY <2>1 DEF LearnTypes, BatchesSound
  <2>3. Covered(c, {})' BY <1>3, <2>1, <2>2 DEF AllCovered
  <2>4. QED BY <2>1, <2>3
<1>5. ASSUME NEW b \in Batches PROVE Covered(batch[b].last, batch[b].rows)'
  <2>1. PICK c, rows : c = batch[b].last /\ rows = batch[b].rows OBVIOUS
  <2>2. batch[b] \in BatchRecords BY DEF LearnTypes
  <2>3. \A q \in rows \cup {c} : q \in Nat /\ Mark(q)
    BY <2>1, <2>2 DEF BatchesSound, BatchSound, Mark, BatchRecords
  <2>4. Covered(c, rows)' BY <1>3, <2>1, <2>3 DEF AllCovered
  <2>5. QED BY <2>1, <2>4
<1>6. QED BY <1>2, <1>4, <1>5 DEF AllCovered

LEMMA OnceStays ==
  ASSUME NEW n \in Messages, Once(n), turn'[n] = turn[n], ReviewsOf(n)' = ReviewsOf(n),
         \A v \in ReviewsOf(n) : reviews'[v].reply = reviews[v].reply,
         \A r \in DOMAIN replies' : replies'[r].of = n /\ replies'[r].ok =>
           r \in DOMAIN replies /\ replies[r].of = n /\ replies[r].ok,
         \A b \in Batches : \A q \in batch'[b].rows : replies'[q].of = n =>
           turn[n].pc = "done" \/ (q \in batch[b].rows /\ replies[q].of = n)
  PROVE  Once(n)'
BY DEF Once

\* In a step of the turn: no reply of the batches' rows changes hands.
LEMMA RowsStay ==
  ASSUME BatchesSound, RepliesKept, batch' = batch, NEW b \in Batches, NEW q \in batch'[b].rows
  PROVE  q \in batch[b].rows /\ q \in DOMAIN replies /\ replies'[q].of = replies[q].of
BY DEF BatchesSound, BatchSound, RepliesKept, Delivered

LEMMA CausesGrow ==
  ASSUME LearnTypes, NEW m \in Messages, NEW cause \in Causes, Because(m, cause)
  PROVE  /\ causes' \in [Messages -> SUBSET Causes]
         /\ causes'[m] # {} /\ \A n \in Messages : n # m => causes'[n] = causes[n]
BY DEF LearnTypes, Because

LEMMA TurnChanged ==
  ASSUME LearnTypes, NEW m \in Messages, NEW t \in TurnRecords, turn' = [turn EXCEPT ![m] = t]
  PROVE  turn' \in [Messages -> TurnRecords] /\ turn'[m] = t
         /\ \A n \in Messages : n # m => turn'[n] = turn[n]
BY DEF LearnTypes

\* A step of the turn of m leaves the other messages' records as they are.
LEMMA OneMoves ==
  ASSUME AllOnce, BatchesSound, RepliesKept, ReviewsKept, batch' = batch, NEW m \in Messages,
         \A n \in Messages : n # m => turn'[n] = turn[n] /\ causes'[n] = causes[n],
         \A v \in DOMAIN reviews' : reviews'[v].of # m =>
           v \in DOMAIN reviews /\ reviews'[v] = reviews[v],
         \A r \in DOMAIN replies' : replies'[r].of # m => r \in DOMAIN replies,
         causes'[m] = {} => Once(m)'
  PROVE  AllOnce'
<1> SUFFICES ASSUME NEW n \in Messages, n # m, causes'[n] = {} PROVE Once(n)'
  BY DEF AllOnce
<1>1. Once(n) BY DEF AllOnce
<1>2. ReviewsOf(n)' = ReviewsOf(n) /\ \A v \in ReviewsOf(n) : reviews'[v].reply = reviews[v].reply
  BY DEF ReviewsOf, ReviewsKept
<1>3. \A r \in DOMAIN replies' : replies'[r].of = n /\ replies'[r].ok =>
        r \in DOMAIN replies /\ replies[r].of = n /\ replies[r].ok
  BY DEF RepliesKept
<1>4. QED BY <1>1, <1>2, <1>3, OnceStays, RowsStay

LEMMA DecideKeeps ==
  ASSUME LearnInv, NEW m \in Messages, Decide(m) PROVE LearnInv'
<1> DEFINE t == [turn[m] EXCEPT !.pc = "accepted"]
           x == [of |-> m, reply |-> 0]
<1>1. LearnTypes /\ ReviewsMatch /\ TurnsKnow /\ BatchesSound /\ AllCovered /\ AllOnce
  BY DEF LearnInv, LearnSound
<1>2. turn[m] \in TurnRecords /\ turn[m].pc = "new" BY <1>1 DEF LearnTypes, Decide
<1>3. t \in TurnRecords /\ t.pc = "accepted" /\ t.ok = turn[m].ok /\ t.id = turn[m].id
  BY <1>2 DEF TurnRecords, TurnPcs
<1>4. turn' = [turn EXCEPT ![m] = t] BY <1>1 DEF LearnTypes, Decide
<1>5. x \in ReviewRecords /\ x.of = m /\ x.reply = 0 BY DEF ReviewRecords
<1> HIDE DEF t, x
<1>6. turn' \in [Messages -> TurnRecords] /\ turn'[m] = t
      /\ \A n \in Messages : n # m => turn'[n] = turn[n]
  BY <1>1, <1>3, <1>4, TurnChanged
<1>7. UNCHANGED <<replies, cursor, batch, missed, causes>> /\ reviews' \in {reviews, Append(reviews, x)}
  BY DEF Decide, Learner, x
<1>8. reviews \in Seq(ReviewRecords) BY <1>1 DEF LearnTypes
<1>9. ReviewsKept /\ reviews' \in Seq(ReviewRecords)
      /\ \A v \in DOMAIN reviews' :
           \/ v \in DOMAIN reviews /\ reviews'[v] = reviews[v]
           \/ reviews'[v] = x /\ v = Len(reviews) + 1 /\ reviews' = Append(reviews, x)
  BY <1>5, <1>7, <1>8, Appended DEF ReviewsKept
<1>10. LearnTypes' BY <1>1, <1>6, <1>7, <1>9 DEF LearnTypes
<1>11. ReviewsMatch' BY <1>1, <1>5, <1>7, <1>9 DEF ReviewsMatch
<1>12. TurnsKnow'
  <2>1. TurnKnows(m)' BY <1>1, <1>2, <1>3, <1>6, <1>7 DEF TurnsKnow, TurnKnows
  <2>2. QED BY <1>1, <1>6, <1>7, <2>1, OthersKnow DEF TurnsKnow, TurnKnows
<1>13. RepliesKept /\ NoneBehind BY <1>7 DEF RepliesKept, NoneBehind, Delivered
<1>14. BatchesSound' /\ AllCovered' BY <1>1, <1>7, <1>9, <1>13, TurnsLeaveBatches
<1>15. ASSUME causes'[m] = {} PROVE Once(m)'
  <2>1. Once(m) BY <1>1, <1>7, <1>15 DEF AllOnce
  <2>2. \A v \in ReviewsOf(m)' : reviews'[v] = x /\ v = Len(reviews) + 1
    BY <1>2, <1>9, <2>1 DEF Once, ReviewsOf
  <2>3. \A r \in DOMAIN replies' : replies'[r].of = m => ~replies'[r].ok
    BY <1>2, <1>7, <2>1 DEF Once
  <2>4. \A b \in Batches : \A q \in batch'[b].rows : replies'[q].of # m
    BY <1>2, <1>7, <2>1 DEF Once
  <2>5. QED BY <1>3, <1>5, <1>6, <2>2, <2>3, <2>4 DEF Once
<1>16. AllOnce' BY <1>1, <1>5, <1>6, <1>7, <1>9, <1>13, <1>15, OneMoves
<1>17. QED BY <1>10, <1>11, <1>12, <1>14, <1>16 DEF LearnInv, LearnSound

LEMMA DieUndecidedKeeps ==
  ASSUME LearnInv, NEW m \in Messages, DieUndecided(m) PROVE LearnInv'
<1> DEFINE x == [of |-> m, reply |-> 0]
<1>1. LearnTypes /\ ReviewsMatch /\ TurnsKnow /\ BatchesSound /\ AllCovered /\ AllOnce
  BY DEF LearnInv, LearnSound
<1>2. x \in ReviewRecords /\ x.of = m /\ x.reply = 0 BY DEF ReviewRecords
<1> HIDE DEF x
<1>3. UNCHANGED <<turn, replies, cursor, batch, missed>> /\ reviews' = Append(reviews, x)
      /\ Because(m, "run again")
  BY DEF DieUndecided, Learner, x
<1>4. /\ causes' \in [Messages -> SUBSET Causes]
      /\ causes'[m] # {} /\ \A n \in Messages : n # m => causes'[n] = causes[n]
  BY <1>1, <1>3, CausesGrow DEF Causes
<1>5. reviews \in Seq(ReviewRecords) BY <1>1 DEF LearnTypes
<1>6. ReviewsKept /\ reviews' \in Seq(ReviewRecords)
      /\ \A v \in DOMAIN reviews' :
           \/ v \in DOMAIN reviews /\ reviews'[v] = reviews[v]
           \/ reviews'[v] = x
  <2>1. /\ Append(reviews, x) \in Seq(ReviewRecords)
        /\ DOMAIN Append(reviews, x) = DOMAIN reviews \cup {Len(reviews) + 1}
        /\ \A v \in DOMAIN reviews : Append(reviews, x)[v] = reviews[v]
        /\ Append(reviews, x)[Len(reviews) + 1] = x
    BY <1>2, <1>5, Appended
  <2>2. QED BY <1>3, <2>1 DEF ReviewsKept
<1>7. LearnTypes' BY <1>1, <1>3, <1>4, <1>6 DEF LearnTypes
<1>8. ReviewsMatch' BY <1>1, <1>2, <1>3, <1>6 DEF ReviewsMatch
<1>9. TurnsKnow' BY <1>1, <1>3 DEF TurnsKnow, TurnKnows
<1>10. RepliesKept /\ NoneBehind BY <1>3 DEF RepliesKept, NoneBehind, Delivered
<1>11. BatchesSound' /\ AllCovered' BY <1>1, <1>3, <1>6, <1>10, TurnsLeaveBatches
<1>12. AllOnce' BY <1>1, <1>2, <1>3, <1>4, <1>6, <1>10, OneMoves
<1>13. QED BY <1>7, <1>8, <1>9, <1>11, <1>12 DEF LearnInv, LearnSound

\* A reply is recorded that is not delivered, or not seen yet.
LEMMA RecordingKeeps ==
  ASSUME LearnSound, AllCovered, NEW x \in ReplyRecords, ~(x.ok /\ x.seen),
         replies' = Append(replies, x), UNCHANGED <<reviews, cursor, batch, missed>>
  PROVE  /\ replies' \in Seq(ReplyRecords) /\ RepliesKept /\ ReviewsKept
         /\ BatchesSound' /\ AllCovered' /\ ReviewsMatch'
         /\ \A r \in DOMAIN replies' :
              \/ r \in DOMAIN replies /\ replies'[r] = replies[r]
              \/ r = Len(replies) + 1 /\ replies'[r] = x
         /\ \A r \in DOMAIN replies : r \in DOMAIN replies' /\ replies'[r] = replies[r]
         /\ Len(replies) + 1 \in DOMAIN replies' /\ replies'[Len(replies) + 1] = x
         /\ Len(replies) + 1 \in Nat \ {0}
<1>1. LearnTypes /\ ReviewsMatch /\ BatchesSound /\ replies \in Seq(ReplyRecords)
  BY DEF LearnSound, LearnTypes
<1>2. /\ replies' \in Seq(ReplyRecords) /\ RepliesKept
      /\ \A r \in DOMAIN replies' :
           \/ r \in DOMAIN replies /\ replies'[r] = replies[r]
           \/ r = Len(replies) + 1 /\ replies'[r] = x
      /\ \A r \in DOMAIN replies : r \in DOMAIN replies' /\ replies'[r] = replies[r]
      /\ Len(replies) + 1 \in DOMAIN replies' /\ replies'[Len(replies) + 1] = x
      /\ Len(replies) + 1 \in Nat \ {0}
  BY <1>1, Appended DEF RepliesKept
<1>3. ReviewsKept BY DEF ReviewsKept
<1>4. NoneBehind BY <1>2 DEF NoneBehind, Delivered
<1>5. ReviewsMatch' BY <1>1, <1>2 DEF ReviewsMatch
<1>6. QED BY <1>1, <1>2, <1>3, <1>4, <1>5, TurnsLeaveBatches

\* What the one turn and its causes become when a reply is recorded.
LEMMA RecordKeeps ==
  ASSUME LearnInv, NEW m \in Messages, NEW x \in ReplyRecords, x.of = m, ~(x.ok /\ x.seen),
         replies' = Append(replies, x), UNCHANGED <<reviews, cursor, batch, missed>>,
         NEW t \in TurnRecords, turn' = [turn EXCEPT ![m] = t],
         \/ t = turn[m]
         \/ /\ t.id = Len(replies) + 1 /\ t.ok = x.ok
            /\ x.seen <=> t.pc \notin {"recording", "storing"},
         causes' \in [Messages -> SUBSET Causes],
         \A n \in Messages : n # m => causes'[n] = causes[n],
         causes'[m] = {} =>
           /\ causes[m] = {} /\ turn[m].pc = "accepted" /\ t.id = Len(replies) + 1
           /\ t.pc = IF x.ok THEN "recording" ELSE "link"
  PROVE  LearnInv'
<1>1. LearnTypes /\ ReviewsMatch /\ TurnsKnow /\ BatchesSound /\ AllCovered /\ AllOnce /\ LearnSound
  BY DEF LearnInv, LearnSound
<1>2. turn' \in [Messages -> TurnRecords] /\ turn'[m] = t
      /\ \A n \in Messages : n # m => turn'[n] = turn[n]
  BY <1>1, TurnChanged
<1>3. /\ replies' \in Seq(ReplyRecords) /\ RepliesKept /\ ReviewsKept
      /\ BatchesSound' /\ AllCovered' /\ ReviewsMatch'
      /\ \A r \in DOMAIN replies' :
           \/ r \in DOMAIN replies /\ replies'[r] = replies[r]
           \/ r = Len(replies) + 1 /\ replies'[r] = x
      /\ \A r \in DOMAIN replies : r \in DOMAIN replies' /\ replies'[r] = replies[r]
      /\ Len(replies) + 1 \in DOMAIN replies' /\ replies'[Len(replies) + 1] = x
      /\ Len(replies) + 1 \in Nat \ {0}
  BY <1>1, RecordingKeeps
<1>4. LearnTypes' BY <1>1, <1>2, <1>3 DEF LearnTypes
<1>5. TurnsKnow'
  <2>1. ASSUME NEW n \in Messages, turn'[n] = turn[n] PROVE TurnKnows(n)'
    <3>1. TurnKnows(n) BY <1>1 DEF TurnsKnow
    <3>2. turn[n].id # 0 => turn[n].id \in DOMAIN replies BY <3>1 DEF TurnKnows
    <3>3. QED BY <1>3, <2>1, <3>1, <3>2, OthersKnow
  <2>2. CASE t # turn[m]
    <3>1. TurnKnows(m)' BY <1>2, <1>3, <2>2 DEF TurnKnows
    <3>2. QED BY <1>2, <2>1, <3>1 DEF TurnsKnow
  <2>3. CASE t = turn[m] BY <1>2, <2>1, <2>3 DEF TurnsKnow
  <2>4. QED BY <2>2, <2>3
<1>6. ASSUME causes'[m] = {} PROVE Once(m)'
  <2>1. Once(m) /\ turn[m].pc = "accepted" BY <1>1, <1>6 DEF AllOnce
  <2>2. t.pc = IF x.ok THEN "recording" ELSE "link" BY <1>6
  <2>3. \A r \in DOMAIN replies' : replies'[r].of = m /\ replies'[r].ok =>
          r = t.id /\ t.pc = "recording"
    BY <1>3, <1>6, <2>1, <2>2 DEF Once
  <2>4. ReviewsOf(m)' = ReviewsOf(m) BY DEF ReviewsOf
  <2>5. \A b \in Batches : \A q \in batch'[b].rows : replies'[q].of # m
    BY <1>1, <1>3, <2>1, RowsStay DEF Once
  <2>6. \A v, w \in ReviewsOf(m) : v = w BY <2>1 DEF Once
  <2>7. \A v \in ReviewsOf(m) : reviews'[v].reply = 0 BY <2>1 DEF Once
  <2>8. QED BY <1>2, <2>2, <2>3, <2>4, <2>5, <2>6, <2>7 DEF Once
<1>7. AllOnce' BY <1>1, <1>2, <1>3, <1>6, OneMoves
<1>8. QED BY <1>3, <1>4, <1>5, <1>7 DEF LearnInv, LearnSound

\* A reply of m is a record.
LEMMA NewReply ==
  ASSUME NEW m \in Messages, NEW ok \in BOOLEAN, NEW seen \in BOOLEAN
  PROVE  [of |-> m, ok |-> ok, seen |-> seen] \in ReplyRecords
BY DEF ReplyRecords

LEMMA SendKeeps ==
  ASSUME LearnInv, NEW m \in Messages, Send(m) PROVE LearnInv'
<1>1. LearnTypes /\ ReviewsMatch /\ TurnsKnow /\ BatchesSound /\ AllCovered /\ AllOnce
  BY DEF LearnInv, LearnSound
<1>2. turn[m] \in TurnRecords /\ turn[m].pc = "accepted" BY <1>1 DEF LearnTypes, Send
<1>3. UNCHANGED <<reviews, cursor, batch, missed, causes>> BY DEF Send, Learner
<1>4. causes' \in [Messages -> SUBSET Causes] BY <1>1, <1>3 DEF LearnTypes
<1>5. ASSUME NEW ok \in BOOLEAN, Recording(m, ok, ~ok) PROVE LearnInv'
  <2> DEFINE x == [of |-> m, ok |-> ok, seen |-> ~ok]
             t == [pc |-> IF ~ok THEN "link" ELSE "recording", ok |-> ok, id |-> Len(replies) + 1]
  <2>1. x \in ReplyRecords /\ x.of = m /\ x.ok = ok /\ x.seen = ~ok BY NewReply
  <2>2. Len(replies) + 1 \in Nat BY <1>1 DEF LearnTypes
  <2>3. t \in TurnRecords BY <2>2 DEF TurnRecords, TurnPcs
  <2>4. replies' = Append(replies, x) BY <1>5 DEF Recording
  <2>5. turn' = [turn EXCEPT ![m] = t]
    <3>1. turn[m] = [pc |-> turn[m].pc, ok |-> turn[m].ok, id |-> turn[m].id]
      BY <1>2 DEF TurnRecords
    <3>2. turn' = [turn EXCEPT ![m].pc = t.pc, ![m].ok = t.ok, ![m].id = t.id]
      BY <1>5 DEF Recording
    <3>3. QED BY <1>1, <1>2, <3>1, <3>2 DEF LearnTypes, TurnRecords
  <2>6. t.id = Len(replies) + 1 /\ t.ok = x.ok /\ t.pc = (IF x.ok THEN "recording" ELSE "link")
        /\ (x.seen <=> t.pc \notin {"recording", "storing"})
    BY <2>1
  <2> HIDE DEF x, t
  <2>7. QED BY <1>2, <1>3, <1>4, <2>1, <2>3, <2>4, <2>5, <2>6, RecordKeeps
<1>6. ASSUME turn' = [turn EXCEPT ![m].pc = "done"], UNCHANGED replies PROVE LearnInv'
  <2> DEFINE t == [turn[m] EXCEPT !.pc = "done"]
  <2>1. t \in TurnRecords /\ t.pc = "done" /\ t.ok = turn[m].ok /\ t.id = turn[m].id
    BY <1>2 DEF TurnRecords, TurnPcs
  <2>2. turn' = [turn EXCEPT ![m] = t] BY <1>1, <1>6 DEF LearnTypes
  <2> HIDE DEF t
  <2>3. turn' \in [Messages -> TurnRecords] /\ turn'[m] = t
        /\ \A n \in Messages : n # m => turn'[n] = turn[n]
    BY <1>1, <2>1, <2>2, TurnChanged
  <2>4. LearnTypes' BY <1>1, <1>3, <1>4, <1>6, <2>3 DEF LearnTypes
  <2>5. ReviewsMatch' BY <1>1, <1>3, <1>6 DEF ReviewsMatch
  <2>6. TurnsKnow'
    <3>1. TurnKnows(m)' BY <1>1, <1>2, <1>6, <2>1, <2>3 DEF TurnsKnow, TurnKnows
    <3>2. QED BY <1>1, <1>6, <2>3, <3>1, OthersKnow DEF TurnsKnow, TurnKnows
  <2>7. RepliesKept /\ NoneBehind /\ ReviewsKept
    BY <1>3, <1>6 DEF RepliesKept, NoneBehind, Delivered, ReviewsKept
  <2>8. BatchesSound' /\ AllCovered' BY <1>1, <1>3, <2>7, TurnsLeaveBatches
  <2>9. ASSUME causes'[m] = {} PROVE Once(m)'
    <3>1. Once(m) /\ TurnKnows(m) BY <1>1, <1>3, <2>9 DEF AllOnce, TurnsKnow
    <3>2. \A r \in DOMAIN replies : ~(replies[r].of = m /\ replies[r].ok)
      BY <1>2, <3>1 DEF Once
    <3>3. turn[m].id = 0 \/ ~turn[m].ok BY <3>1, <3>2 DEF TurnKnows
    <3>4. ReviewsOf(m)' = ReviewsOf(m) BY <1>3 DEF ReviewsOf
    <3>5. QED BY <1>3, <1>6, <2>1, <2>3, <3>1, <3>2, <3>3, <3>4 DEF Once
  <2>10. AllOnce' BY <1>1, <1>3, <1>6, <2>3, <2>7, <2>9, OneMoves
  <2>11. QED BY <2>4, <2>5, <2>6, <2>8, <2>10 DEF LearnInv, LearnSound
<1>7. Recording(m, TRUE, FALSE) \/ Recording(m, FALSE, TRUE)
      \/ (turn' = [turn EXCEPT ![m].pc = "done"] /\ UNCHANGED replies)
  BY DEF Send
<1>8. CASE Recording(m, TRUE, FALSE) BY <1>5, <1>8
<1>9. CASE Recording(m, FALSE, TRUE) BY <1>5, <1>9
<1>10. QED BY <1>6, <1>7, <1>8, <1>9

LEMMA SendByQueueKeeps ==
  ASSUME LearnInv, NEW m \in Messages, SendByQueue(m) PROVE LearnInv'
<1> DEFINE x == [of |-> m, ok |-> TRUE, seen |-> FALSE]
           t == [pc |-> "storing", ok |-> TRUE, id |-> Len(replies) + 1]
<1>1. LearnTypes BY DEF LearnInv, LearnSound
<1>2. turn[m] \in TurnRecords BY <1>1 DEF LearnTypes
<1>3. UNCHANGED <<reviews, cursor, batch, missed>> /\ Because(m, "queued") BY DEF SendByQueue, Learner
<1>4. /\ causes' \in [Messages -> SUBSET Causes]
      /\ causes'[m] # {} /\ \A n \in Messages : n # m => causes'[n] = causes[n]
  BY <1>1, <1>3, CausesGrow DEF Causes
<1>5. x \in ReplyRecords /\ x.of = m /\ x.ok /\ ~x.seen BY NewReply
<1>6. Len(replies) + 1 \in Nat BY <1>1 DEF LearnTypes
<1>7. t \in TurnRecords BY <1>6 DEF TurnRecords, TurnPcs
<1>8. replies' = Append(replies, x) BY DEF SendByQueue
<1>9. turn' = [turn EXCEPT ![m] = t]
  <2>1. turn[m] = [pc |-> turn[m].pc, ok |-> turn[m].ok, id |-> turn[m].id]
    BY <1>2 DEF TurnRecords
  <2>2. turn' = [turn EXCEPT ![m].pc = t.pc, ![m].ok = t.ok, ![m].id = t.id]
    BY DEF SendByQueue
  <2>3. QED BY <1>1, <1>2, <2>1, <2>2 DEF LearnTypes, TurnRecords
<1>10. t.id = Len(replies) + 1 /\ t.ok = x.ok /\ (x.seen <=> t.pc \notin {"recording", "storing"})
  OBVIOUS
<1> HIDE DEF x, t
<1>11. QED BY <1>3, <1>4, <1>5, <1>7, <1>8, <1>9, <1>10, RecordKeeps

LEMMA RecordAgainKeeps ==
  ASSUME LearnInv, NEW m \in Messages, RecordAgain(m) PROVE LearnInv'
<1> DEFINE x == [of |-> m, ok |-> TRUE, seen |-> FALSE]
<1>1. LearnTypes BY DEF LearnInv, LearnSound
<1>2. turn[m] \in TurnRecords /\ turn' = [turn EXCEPT ![m] = turn[m]]
  BY <1>1 DEF LearnTypes, RecordAgain
<1>3. UNCHANGED <<reviews, cursor, batch, missed>> /\ Because(m, "delivered twice")
  BY DEF RecordAgain, Learner
<1>4. /\ causes' \in [Messages -> SUBSET Causes]
      /\ causes'[m] # {} /\ \A n \in Messages : n # m => causes'[n] = causes[n]
  BY <1>1, <1>3, CausesGrow DEF Causes
<1>5. x \in ReplyRecords /\ x.of = m /\ x.ok /\ ~x.seen BY NewReply
<1>6. replies' = Append(replies, x) BY DEF RecordAgain
<1> HIDE DEF x
<1>7. QED BY <1>2, <1>3, <1>4, <1>5, <1>6, RecordKeeps

LEMMA CommitKeeps ==
  ASSUME LearnInv, NEW r \in DOMAIN replies, Commit(r) PROVE LearnInv'
<1> DEFINE m == replies[r].of
           x == [replies[r] EXCEPT !.seen = TRUE]
           t == [turn[m] EXCEPT !.pc = IF turn[m].pc = "recording" THEN "link" ELSE "done"]
<1>1. LearnTypes /\ ReviewsMatch /\ TurnsKnow /\ BatchesSound /\ AllCovered /\ AllOnce
  BY DEF LearnInv, LearnSound
<1>2. m \in Messages /\ r \in Nat \ {0} /\ replies[r] \in ReplyRecords BY <1>1, RepliesOf
<1>3. x \in ReplyRecords /\ x.of = m /\ x.ok = replies[r].ok /\ x.seen BY <1>2 DEF ReplyRecords
<1>4. ~replies[r].seen BY DEF Commit
<1>5. replies \in Seq(ReplyRecords) /\ replies' = [replies EXCEPT ![r] = x]
  BY <1>1 DEF LearnTypes, Commit
<1>6. turn[m] \in TurnRecords BY <1>1, <1>2 DEF LearnTypes
<1>7. t \in TurnRecords /\ t.ok = turn[m].ok /\ t.id = turn[m].id
      /\ t.pc = (IF turn[m].pc = "recording" THEN "link" ELSE "done")
  BY <1>6 DEF TurnRecords, TurnPcs
<1>8. turn' = IF turn[m].id # r THEN turn ELSE [turn EXCEPT ![m] = t]
  BY <1>1, <1>2 DEF LearnTypes, Commit
<1>9. missed' = missed \cup {q \in {r} : \E s \in DOMAIN replies : s > r /\ replies[s].seen}
  BY DEF Commit
<1>10. UNCHANGED <<reviews, cursor, batch, causes>> BY DEF Commit, Learner
<1> HIDE DEF m, x, t
<1>11. replies' \in Seq(ReplyRecords) /\ DOMAIN replies' = DOMAIN replies /\ replies'[r] = x
       /\ \A s \in DOMAIN replies : s # r => replies'[s] = replies[s]
  BY <1>3, <1>5
<1>12. turn' \in [Messages -> TurnRecords]
       /\ \A n \in Messages : turn'[n] = IF n = m /\ turn[m].id = r THEN t ELSE turn[n]
  BY <1>1, <1>2, <1>7, <1>8 DEF LearnTypes
<1>13. LearnTypes' BY <1>1, <1>10, <1>11, <1>12 DEF LearnTypes
<1>14. ReviewsMatch' BY <1>1, <1>3, <1>10, <1>11 DEF ReviewsMatch, m
<1>15. TurnsKnow'
  <2>1. ASSUME NEW n \in Messages PROVE TurnKnows(n)'
    <3>1. TurnKnows(n) BY <1>1 DEF TurnsKnow
    <3>2. CASE turn[n].id # r
      <4>1. turn'[n] = turn[n] BY <1>12, <3>2
      <4>2. QED BY <1>11, <3>1, <3>2, <4>1, OthersKnow DEF TurnKnows
    <3>3. CASE turn[n].id = r
      <4>1. n = m BY <1>2, <3>1, <3>3 DEF TurnKnows, m
      <4>2. turn'[n] = t /\ turn[n].pc \in {"recording", "storing"}
        BY <1>2, <1>4, <1>12, <3>1, <3>3, <4>1 DEF TurnKnows
      <4>3. t.pc \in {"link", "done"} BY <1>7
      <4>4. replies[r].of = m /\ replies[r].ok = t.ok
        BY <1>2, <1>7, <3>1, <3>3, <4>1 DEF TurnKnows
      <4>5. QED BY <1>3, <1>7, <1>11, <3>3, <4>1, <4>2, <4>3, <4>4 DEF TurnKnows
    <3>4. QED BY <3>2, <3>3
  <2>2. QED BY <2>1 DEF TurnsKnow
<1>16. RepliesKept /\ ReviewsKept BY <1>3, <1>10, <1>11 DEF RepliesKept, ReviewsKept, m
<1>17. NoneBehind
  <2>1. ASSUME NEW s, Delivered(s)', s \notin missed', s # r PROVE Delivered(s) /\ s \notin missed
    BY <1>9, <1>11, <2>1 DEF Delivered
  <2>2. ASSUME r \notin missed', NEW q, Delivered(q) PROVE q < r
    <3>1. q \in DOMAIN replies /\ replies[q].seen BY <2>2 DEF Delivered
    <3>2. q \in Nat BY <1>1, <3>1, RepliesOf
    <3>3. ~(q > r) BY <1>9, <2>2, <3>1
    <3>4. q # r BY <1>4, <3>1
    <3>5. QED BY <1>2, <3>2, <3>3, <3>4
  <2>3. QED BY <1>2, <2>1, <2>2 DEF NoneBehind
<1>18. BatchesSound' /\ AllCovered' BY <1>1, <1>10, <1>16, <1>17, TurnsLeaveBatches
<1>19. ASSUME NEW n \in Messages, causes'[n] = {} PROVE Once(n)'
  <2>1. Once(n) /\ TurnKnows(n) BY <1>1, <1>10, <1>19 DEF AllOnce, TurnsKnow
  <2>2. \A s \in DOMAIN replies' :
          s \in DOMAIN replies /\ replies'[s].of = replies[s].of /\ replies'[s].ok = replies[s].ok
    BY <1>11, <1>16 DEF RepliesKept
  <2>3. ReviewsOf(n)' = ReviewsOf(n) BY <1>10 DEF ReviewsOf
  <2>4. CASE turn'[n] = turn[n]
    BY <1>1, <1>10, <1>16, <2>1, <2>2, <2>3, <2>4, OnceStays, RowsStay
  <2>5. CASE turn'[n] # turn[n]
    <3>1. n = m /\ turn[n].id = r /\ turn'[n] = t BY <1>12, <2>5
    <3>2. turn[n].pc = "recording" BY <1>2, <1>4, <2>1, <3>1 DEF Once, TurnKnows
    <3>3. t.pc = "link" /\ t.id = turn[n].id BY <1>7, <3>1, <3>2
    <3>4. \A b \in Batches : \A q \in batch'[b].rows : replies'[q].of # n
      BY <1>1, <1>10, <1>16, <2>1, <3>2, RowsStay DEF Once
    <3>5. QED BY <1>10, <2>1, <2>2, <2>3, <3>1, <3>2, <3>3, <3>4 DEF Once
  <2>6. QED BY <2>4, <2>5
<1>20. AllOnce' BY <1>19 DEF AllOnce
<1>21. QED BY <1>13, <1>14, <1>15, <1>18, <1>20 DEF LearnInv, LearnSound

LEMMA LinkKeeps ==
  ASSUME LearnInv, NEW m \in Messages, Link(m) PROVE LearnInv'
<1> DEFINE id == turn[m].id
           lost == Unlinked(m)
           t == [turn[m] EXCEPT !.pc = IF turn[m].ok THEN "done" ELSE "accepted"]
           linked == [v \in DOMAIN reviews |->
             IF v \in lost THEN [reviews[v] EXCEPT !.reply = id] ELSE reviews[v]]
<1>1. LearnTypes /\ ReviewsMatch /\ TurnsKnow /\ BatchesSound /\ AllCovered /\ AllOnce
  BY DEF LearnInv, LearnSound
<1>2. turn[m] \in TurnRecords /\ turn[m].pc = "link" /\ reviews \in Seq(ReviewRecords)
  BY <1>1 DEF LearnTypes, Link
<1>3. t \in TurnRecords /\ t.ok = turn[m].ok /\ t.id = id
      /\ t.pc = (IF turn[m].ok THEN "done" ELSE "accepted")
  BY <1>2 DEF TurnRecords, TurnPcs
<1>4. turn' = [turn EXCEPT ![m] = t] BY <1>1 DEF LearnTypes, Link
<1>5. id \in DOMAIN replies /\ id # 0 /\ id \in Nat /\ replies[id].of = m /\ replies[id].ok = turn[m].ok
      /\ replies[id].seen
  BY <1>1, <1>2 DEF TurnsKnow, TurnKnows, TurnRecords
<1>6. UNCHANGED <<replies, cursor, batch, missed>> BY DEF Link, Learner
<1>7. \/ /\ lost # {} /\ reviews' = linked /\ ~Linked(id)
         /\ IF turn[m].ok THEN UNCHANGED causes ELSE Because(m, "first attempt failed")
      \/ /\ UNCHANGED <<reviews, causes>> /\ (Cardinality(lost) # 1 \/ Linked(id))
      \/ UNCHANGED reviews /\ Because(m, "link lost")
  BY DEF Link
<1>8. \A v \in lost : v \in DOMAIN reviews /\ reviews[v].of = m /\ reviews[v].reply = 0
  BY DEF Unlinked
<1>9. linked \in Seq(ReviewRecords) /\ DOMAIN linked = DOMAIN reviews
      /\ \A v \in DOMAIN reviews : linked[v].of = reviews[v].of
           /\ linked[v].reply = IF v \in lost THEN id ELSE reviews[v].reply
  <2>1. ASSUME NEW v \in DOMAIN reviews
        PROVE  linked[v] \in ReviewRecords /\ linked[v].of = reviews[v].of
               /\ linked[v].reply = IF v \in lost THEN id ELSE reviews[v].reply
    <3>1. reviews[v] \in ReviewRecords BY <1>2
    <3>2. QED BY <1>5, <3>1 DEF ReviewRecords
  <2>2. DOMAIN linked = 1..Len(reviews) BY <1>2
  <2> HIDE DEF linked
  <2>3. linked \in [1..Len(reviews) -> ReviewRecords]
    <3>1. linked = [v \in DOMAIN linked |-> linked[v]] BY DEF linked
    <3>2. QED BY <1>2, <2>1, <2>2, <3>1
  <2>4. QED BY <1>2, <2>1, <2>2, <2>3
<1> HIDE DEF linked, t, lost
<1>10. turn' \in [Messages -> TurnRecords] /\ turn'[m] = t
       /\ \A n \in Messages : n # m => turn'[n] = turn[n]
  BY <1>1, <1>3, <1>4, TurnChanged
<1>11. /\ reviews' \in Seq(ReviewRecords) /\ DOMAIN reviews' = DOMAIN reviews
       /\ \A v \in DOMAIN reviews : reviews'[v].of = reviews[v].of
            /\ (v \notin lost => reviews'[v].reply = reviews[v].reply)
            /\ reviews'[v].reply \in {reviews[v].reply, id}
  BY <1>2, <1>7, <1>9
<1>12. causes' \in [Messages -> SUBSET Causes] /\ \A n \in Messages : n # m => causes'[n] = causes[n]
  <2>1. CASE UNCHANGED causes BY <1>1, <2>1 DEF LearnTypes
  <2>2. CASE Because(m, "first attempt failed") BY <1>1, <2>2, CausesGrow DEF Causes
  <2>3. CASE Because(m, "link lost") BY <1>1, <2>3, CausesGrow DEF Causes
  <2>4. QED BY <1>7, <2>1, <2>2, <2>3
<1>13. LearnTypes' BY <1>1, <1>6, <1>10, <1>11, <1>12 DEF LearnTypes
<1>14. ReviewsMatch'
  <2>1. ASSUME NEW v \in DOMAIN reviews, reviews'[v].reply # 0
        PROVE  reviews'[v].reply \in DOMAIN replies /\ replies[reviews'[v].reply].of = reviews[v].of
    <3>1. CASE reviews'[v].reply = reviews[v].reply BY <1>1, <2>1, <3>1 DEF ReviewsMatch
    <3>2. CASE v \in lost /\ reviews'[v].reply = id BY <1>5, <1>8, <3>2
    <3>3. QED BY <1>11, <3>1, <3>2
  <2>2. QED BY <1>6, <1>11, <2>1 DEF ReviewsMatch
<1>15. TurnsKnow'
  <2>1. TurnKnows(m)' BY <1>3, <1>5, <1>6, <1>10 DEF TurnKnows
  <2>2. QED BY <1>1, <1>6, <1>10, <2>1, OthersKnow DEF TurnsKnow, TurnKnows
<1>16. RepliesKept /\ NoneBehind BY <1>6 DEF RepliesKept, NoneBehind, Delivered
<1>17. ReviewsKept BY <1>8, <1>11 DEF ReviewsKept
<1>18. BatchesSound' /\ AllCovered' BY <1>1, <1>6, <1>16, <1>17, TurnsLeaveBatches
<1>19. \A v \in DOMAIN reviews' : reviews'[v].of # m => v \in DOMAIN reviews /\ reviews'[v] = reviews[v]
  <2>1. \A v \in DOMAIN reviews' : v \in DOMAIN reviews /\ reviews'[v] \in ReviewRecords
                                   /\ reviews[v] \in ReviewRecords
    BY <1>2, <1>11
  <2>2. QED BY <1>8, <1>11, <2>1 DEF ReviewRecords
<1>20. ASSUME causes'[m] = {} PROVE Once(m)'
  <2>1. causes[m] = {} /\ UNCHANGED causes
    BY <1>1, <1>7, <1>20, CausesGrow DEF Causes
  <2>2. Once(m) BY <1>1, <2>1 DEF AllOnce
  <2>3. \A v \in ReviewsOf(m) : reviews[v].reply = 0 /\ \A w \in ReviewsOf(m) : v = w
    BY <1>2, <2>2 DEF Once
  <2>4. lost = ReviewsOf(m) BY <2>3 DEF ReviewsOf, Unlinked, lost
  <2>5. ~Linked(id)
    <3>1. SUFFICES ASSUME NEW v \in DOMAIN reviews, reviews[v].reply = id PROVE FALSE
      BY DEF Linked
    <3>2. v \in ReviewsOf(m) BY <1>1, <1>5, <3>1 DEF ReviewsMatch, ReviewsOf
    <3>3. QED BY <1>5, <2>3, <3>1, <3>2
  <2>6. ReviewsOf(m)' = ReviewsOf(m) BY <1>11 DEF ReviewsOf
  <2>7. turn[m].ok => \A v \in ReviewsOf(m)' : reviews'[v].reply = id
    <3>1. CASE lost = {} BY <2>4, <2>6, <3>1
    <3>2. CASE lost # {}
      <4>1. PICK v \in lost : lost = {v} BY <2>3, <2>4, <3>2
      <4>2. Cardinality(lost) = 1 BY <4>1, FS_Singleton
      <4>3. ~Because(m, "link lost") BY <1>1, <1>20, CausesGrow DEF Causes
      <4>4. reviews' = linked BY <1>7, <2>5, <4>2, <4>3
      <4>5. QED BY <1>8, <1>9, <2>4, <2>6, <4>4
    <3>3. QED BY <3>1, <3>2
  <2>8. ~turn[m].ok => \A v \in ReviewsOf(m)' : reviews'[v].reply = 0
    <3>1. SUFFICES ASSUME ~turn[m].ok PROVE \A v \in ReviewsOf(m)' : reviews'[v].reply = 0
      OBVIOUS
    <3>2. ~Because(m, "first attempt failed") BY <1>1, <1>20, CausesGrow DEF Causes
    <3>3. reviews' = reviews BY <1>7, <3>1, <3>2
    <3>4. QED BY <2>3, <2>6, <3>3
  <2>9. \A r \in DOMAIN replies' : replies'[r].of = m /\ replies'[r].ok => r = id /\ turn[m].ok
    BY <1>5, <1>6, <2>2 DEF Once
  <2>10. \A b \in Batches : \A q \in batch'[b].rows : replies'[q].of # m
    BY <1>2, <1>6, <2>2 DEF Once
  <2>11. QED BY <1>3, <1>10, <2>3, <2>6, <2>7, <2>8, <2>9, <2>10 DEF Once
<1>21. AllOnce' BY <1>1, <1>6, <1>10, <1>12, <1>16, <1>17, <1>19, <1>20, OneMoves
<1>22. QED BY <1>13, <1>14, <1>15, <1>18, <1>21 DEF LearnInv, LearnSound

-----------------------------------------------------------------------------
(* Steps of the batches *)

\* Reviews are added, if any: what was covered stays covered.
LEMMA CoveredInBatch ==
  ASSUME LearnTypes, UNCHANGED Turns, missed \subseteq missed', ReviewsKept,
         NEW c, NEW rows, Covered(c, rows)
  PROVE  Covered(c, rows)'
<1>1. RepliesKept BY DEF RepliesKept, Turns
<1>2. \A m \in Messages : Learnt(m) => Learnt(m)' BY <1>1, LearntKept
<1>3. \A r \in DOMAIN replies : replies[r].of \in Messages BY RepliesOf
<1>4. \A r : Delivered(r)' /\ r \notin missed' => Delivered(r) /\ r \notin missed BY DEF Delivered, Turns
<1>5. QED BY <1>1, <1>2, <1>3, <1>4, CoveredStays

\* One batch moves, to B, and maybe the cursor.
LEMMA BatchMoves ==
  ASSUME LearnInv, NEW b \in Batches, UNCHANGED Turns, missed \subseteq missed',
         NEW B \in BatchRecords, batch' = [batch EXCEPT ![b] = B],
         reviews' \in Seq(ReviewRecords), ReviewsKept, ReviewsMatch',
         causes' \in [Messages -> SUBSET Causes],
         NEW c \in Nat, cursor' = c, Mark(c), Covered(c, {})',
         Mark(B.last), \A q \in B.rows : Delivered(q) /\ q > B.last,
         B.pc = "fetch" => B.from = B.last /\ B.rows = {},
         B.pc = "write" => B.rows # {},
         NEW l, NEW rows, l = B.last, rows = B.rows, Covered(l, rows)',
         \A n \in Messages : causes'[n] = {} => Once(n)'
  PROVE  LearnInv'
<1>1. LearnTypes /\ ReviewsMatch /\ TurnsKnow /\ BatchesSound /\ AllCovered
  BY DEF LearnInv, LearnSound
<1>2. UNCHANGED <<turn, replies>> BY DEF Turns
<1>3. batch' \in [Batches -> BatchRecords] /\ batch'[b] = B
      /\ \A k \in Batches : k # b => batch'[k] = batch[k]
  BY <1>1 DEF LearnTypes
<1>4. LearnTypes' BY <1>1, <1>2, <1>3 DEF LearnTypes
<1>5. TurnsKnow' BY <1>1, <1>2 DEF TurnsKnow, TurnKnows
<1>6. \A q : Delivered(q)' <=> Delivered(q) BY <1>2 DEF Delivered
<1>7. BatchesSound'
  <2>1. ASSUME NEW k \in Batches PROVE BatchSound(k)'
    <3>1. CASE k = b BY <1>3, <1>6, <3>1 DEF BatchSound, Mark
    <3>2. CASE k # b BY <1>1, <1>3, <1>6, <3>2 DEF BatchesSound, BatchSound, Mark
    <3>3. QED BY <3>1, <3>2
  <2>2. Mark(cursor)' BY <1>6 DEF Mark
  <2>3. QED BY <2>1, <2>2 DEF BatchesSound
<1>8. AllCovered'
  <2>1. ASSUME NEW k \in Batches PROVE Covered(batch[k].last, batch[k].rows)'
    <3>1. CASE k = b BY <1>3, <3>1
    <3>2. CASE k # b
      <4>1. PICK d, s : d = batch[k].last /\ s = batch[k].rows OBVIOUS
      <4>2. Covered(d, s) BY <1>1, <4>1 DEF AllCovered
      <4>3. Covered(d, s)' BY <1>1, <4>2, CoveredInBatch
      <4>4. QED BY <1>3, <3>2, <4>1, <4>3
    <3>3. QED BY <3>1, <3>2
  <2>2. QED BY <2>1 DEF AllCovered
<1>9. AllOnce' BY DEF AllOnce
<1>10. QED BY <1>4, <1>5, <1>7, <1>8, <1>9 DEF LearnInv, LearnSound

\* The same where no review is written and no row is taken up.
LEMMA BatchResets ==
  ASSUME LearnInv, NEW b \in Batches, UNCHANGED <<Turns, reviews, missed, causes>>,
         NEW B \in BatchRecords, batch' = [batch EXCEPT ![b] = B], B.rows \subseteq batch[b].rows,
         NEW c \in Nat, cursor' = c, Mark(c), Covered(c, {}),
         Mark(B.last), \A q \in B.rows : q > B.last,
         B.pc = "fetch" => B.from = B.last /\ B.rows = {},
         B.pc = "write" => B.rows # {},
         Covered(B.last, B.rows)
  PROVE  LearnInv'
<1>1. LearnTypes /\ ReviewsMatch /\ BatchesSound /\ AllOnce BY DEF LearnInv, LearnSound
<1>2. UNCHANGED Turns /\ missed \subseteq missed' /\ UNCHANGED <<turn, replies>> BY DEF Turns
<1>3. ReviewsKept BY DEF ReviewsKept
<1>4. reviews' \in Seq(ReviewRecords) /\ causes' \in [Messages -> SUBSET Causes] BY <1>1 DEF LearnTypes
<1>5. ReviewsMatch' BY <1>1, <1>2 DEF ReviewsMatch
<1>6. Covered(c, {})' BY <1>1, <1>2, <1>3, CoveredInBatch
<1>7. \A q \in B.rows : Delivered(q) /\ q > B.last BY <1>1 DEF BatchesSound, BatchSound
<1>8. PICK l, rows : l = B.last /\ rows = B.rows OBVIOUS
<1>9. Covered(l, rows)' BY <1>1, <1>2, <1>3, <1>8, CoveredInBatch
<1>10. batch'[b] = B /\ \A k \in Batches : k # b => batch'[k] = batch[k] BY <1>1 DEF LearnTypes
<1>11. ASSUME NEW n \in Messages, causes'[n] = {} PROVE Once(n)'
  <2>1. Once(n) BY <1>1, <1>11 DEF AllOnce
  <2>2. ReviewsOf(n)' = ReviewsOf(n) BY DEF ReviewsOf
  <2>3. \A k \in Batches : \A q \in batch'[k].rows : q \in batch[k].rows BY <1>10
  <2>4. QED BY <1>2, <2>1, <2>2, <2>3, OnceStays
<1>12. QED BY <1>2, <1>3, <1>4, <1>5, <1>6, <1>7, <1>8, <1>9, <1>11, BatchMoves

\* A mark covers what it covered together with rows after it.
LEMMA RowsDropped ==
  ASSUME NEW c \in Nat, NEW rows \in SUBSET Nat, \A q \in rows : q > c, Covered(c, rows)
  PROVE  Covered(c, {})
<1> SUFFICES ASSUME NEW r \in DOMAIN replies, Delivered(r), r \notin missed, r <= c, ~Learnt(replies[r].of)
             PROVE  \E s \in DOMAIN replies : Delivered(s) /\ replies[s].of = replies[r].of /\ s > c
  BY DEF Covered
<1>1. PICK s \in DOMAIN replies :
        /\ Delivered(s) /\ replies[s].of = replies[r].of
        /\ s \in rows \/ \A q \in rows \cup {c} : s > q
  BY DEF Covered
<1>2. s > c BY <1>1
<1>3. QED BY <1>1, <1>2

LEMMA NothingIsCovered == LearnTypes => Covered(0, {})
<1> SUFFICES ASSUME LearnTypes, NEW r \in DOMAIN replies PROVE ~(r <= 0)
  BY DEF Covered
<1>1. r \in Nat \ {0} BY RepliesOf
<1>2. QED BY <1>1

LEMMA StopKeeps ==
  ASSUME LearnInv, NEW b \in Batches, UNCHANGED <<Turns, reviews, missed, causes>>,
         batch' = [batch EXCEPT ![b] = NoBatch], cursor' = cursor \/ cursor' = batch[b].last
  PROVE  LearnInv'
<1>1. LearnTypes /\ BatchesSound /\ AllCovered BY DEF LearnInv, LearnSound
<1>2. batch[b] \in BatchRecords BY <1>1 DEF LearnTypes
<1>3. NoBatch \in BatchRecords /\ NoBatch.rows = {} /\ NoBatch.last = 0 /\ NoBatch.pc = "idle"
  BY DEF NoBatch, BatchRecords, BatchPcs
<1>4. Covered(NoBatch.last, NoBatch.rows) BY <1>1, <1>3, NothingIsCovered
<1>5. Covered(batch[b].last, {})
  <2>1. batch[b].last \in Nat /\ batch[b].rows \in SUBSET Nat BY <1>2 DEF BatchRecords
  <2>2. QED BY <1>1, <2>1, RowsDropped DEF AllCovered, BatchesSound, BatchSound
<1>6. PICK c \in Nat : c = cursor' /\ Mark(c) /\ Covered(c, {})
  <2>1. CASE cursor' = cursor BY <1>1, <2>1 DEF LearnTypes, BatchesSound, AllCovered
  <2>2. CASE cursor' = batch[b].last
    BY <1>1, <1>2, <1>5, <2>2 DEF BatchesSound, BatchSound, BatchRecords
  <2>3. QED BY <2>1, <2>2
<1>7. Mark(NoBatch.last) BY <1>3 DEF Mark
<1>8. QED BY <1>3, <1>4, <1>6, <1>7, BatchResets

LEMMA StartKeeps ==
  ASSUME LearnInv, NEW b \in Batches, Start(b) PROVE LearnInv'
<1> DEFINE B == [NoBatch EXCEPT !.pc = "fetch", !.from = cursor, !.last = cursor]
<1>1. LearnTypes /\ BatchesSound /\ AllCovered BY DEF LearnInv, LearnSound
<1>2. B \in BatchRecords /\ B.rows = {} /\ B.from = cursor /\ B.last = cursor /\ B.pc = "fetch"
  BY <1>1 DEF LearnTypes, NoBatch, BatchRecords, BatchPcs
<1>3. UNCHANGED <<Turns, reviews, missed, causes, cursor>> /\ batch' = [batch EXCEPT ![b] = B] BY DEF Start
<1> HIDE DEF B
<1>4. PICK c \in Nat : c = cursor BY <1>1 DEF LearnTypes
<1>5. Mark(c) /\ Covered(c, {}) BY <1>1, <1>4 DEF BatchesSound, AllCovered
<1>6. QED BY <1>2, <1>3, <1>4, <1>5, BatchResets

\* A message that is not learnt has its last delivered reply among the rows, or
\* after all of them.
LEMMA FetchCovers ==
  ASSUME LearnTypes, NEW c \in Nat, Covered(c, {}), NEW view,
         NEW r \in DOMAIN replies, Delivered(r), r \notin missed, ~Learnt(replies[r].of),
         NEW p \in FirstOf(Unlearnt(c, view)) \cup {c}, r <= p,
         ~InView(r, view) => \A q \in FirstOf(Unlearnt(c, view)) : ~(r <= q)
  PROVE  \E s \in DOMAIN replies : Delivered(s) /\ replies[s].of = replies[r].of
           /\ \/ s \in FirstOf(Unlearnt(c, view))
              \/ \A q \in FirstOf(Unlearnt(c, view)) \cup {c} : s > q
<1> DEFINE U == Unlearnt(c, view)
           rows == FirstOf(U)
<1> DEFINE S == {s \in DOMAIN replies : Delivered(s) /\ replies[s].of = replies[r].of}
<1>1. DOMAIN replies = 1..Len(replies) /\ Len(replies) \in Nat BY DEF LearnTypes
<1>2. PICK s \in S : \A q \in S : q <= s
  <2>1. S \subseteq 0..Len(replies) BY <1>1
  <2>2. r \in S OBVIOUS
  <2> HIDE DEF S
  <2>3. QED BY <1>1, <2>1, <2>2, GreatestExists
<1>3. s \in DOMAIN replies /\ Delivered(s) /\ replies[s].of = replies[r].of /\ s \in Nat BY <1>1
<1>4. s > c
  <2>1. CASE r <= c
    <3>1. PICK q \in S : q > c BY <2>1 DEF Covered
    <3>2. q <= s /\ q \in Nat BY <1>1, <1>2, <3>1
    <3>3. QED BY <1>3, <3>1, <3>2
  <2>2. CASE ~(r <= c)
    <3>1. r <= s /\ r \in Nat BY <1>1, <1>2
    <3>2. QED BY <1>3, <2>2, <3>1
  <2>3. QED BY <2>1, <2>2
<1>5. CASE ~InView(r, view)
  <2>1. p = c /\ r <= c BY <1>5
  <2>2. rows = {}
    <3>1. ASSUME NEW q \in rows PROVE FALSE
      <4>1. q > c /\ q \in Nat BY <1>1 DEF FirstOf, Unlearnt
      <4>2. r <= q BY <1>1, <2>1, <4>1
      <4>3. QED BY <1>5, <4>2
    <3>2. QED BY <3>1
  <2>3. QED BY <1>3, <1>4, <2>2
<1>6. ASSUME InView(r, view) PROVE s \in U
  <2>0. InView(s, view) BY <1>3, <1>6 DEF InView
  <2>1. \A q \in DOMAIN replies : q > s /\ Delivered(q) => replies[q].of # replies[s].of
    <3>1. SUFFICES ASSUME NEW q \in DOMAIN replies, q > s, Delivered(q), replies[q].of = replies[s].of
                   PROVE FALSE
      OBVIOUS
    <3>2. q \in S BY <1>3, <3>1
    <3>3. q <= s /\ q \in Nat BY <1>1, <1>2, <3>2
    <3>4. QED BY <1>3, <3>1, <3>3
  <2>2. QED BY <1>3, <1>4, <2>0, <2>1 DEF Unlearnt
<1>7. ASSUME InView(r, view), s \notin rows, NEW q \in rows PROVE s > q
  <2>1. q \in U /\ Cardinality({t \in U : t <= q}) <= RowLimit BY DEF FirstOf
  <2>2. ~(Cardinality({t \in U : t <= s}) <= RowLimit) BY <1>6, <1>7 DEF FirstOf
  <2>3. U \subseteq 1..Len(replies) BY <1>1 DEF Unlearnt
  <2>4. IsFiniteSet(1..Len(replies)) BY <1>1, FS_Interval
  <2> HIDE DEF U
  <2>5. IsFiniteSet({t \in U : t <= q}) BY <2>3, <2>4, FS_Subset
  <2>6. SUFFICES ASSUME s <= q PROVE FALSE BY <1>1, <1>3, <2>1, <2>3
  <2>7. {t \in U : t <= s} \subseteq {t \in U : t <= q}
    <3>1. \A t \in U : t \in Nat /\ q \in Nat BY <1>1, <2>1, <2>3
    <3>2. QED BY <1>3, <2>6, <3>1
  <2>8. /\ IsFiniteSet({t \in U : t <= s})
        /\ Cardinality({t \in U : t <= s}) <= Cardinality({t \in U : t <= q})
    BY <2>5, <2>7, FS_Subset
  <2>9. Cardinality({t \in U : t <= s}) \in Nat /\ Cardinality({t \in U : t <= q}) \in Nat
    BY <2>5, <2>8, FS_CardinalityType
  <2>10. QED BY <2>1, <2>2, <2>8, <2>9, LearningAssumption
<1>8. QED BY <1>3, <1>4, <1>5, <1>7

LEMMA FetchKeeps ==
  ASSUME LearnInv, NEW b \in Batches, NEW view, Fetch(b, view) PROVE LearnInv'
<1> DEFINE rows == FirstOf(Unlearnt(batch[b].from, view))
           B == [pc |-> IF rows = {} THEN "save" ELSE "write", from |-> 0,
                 rows |-> rows, last |-> batch[b].last]
<1>1. LearnTypes /\ ReviewsMatch /\ TurnsKnow /\ BatchesSound /\ AllCovered /\ AllOnce
  BY DEF LearnInv, LearnSound
<1>2. batch[b] \in BatchRecords /\ batch[b].pc = "fetch" BY <1>1 DEF LearnTypes, Fetch
<1>3. batch[b].from = batch[b].last /\ batch[b].rows = {} /\ Mark(batch[b].last) /\ batch[b].last \in Nat
  BY <1>1, <1>2 DEF BatchesSound, BatchSound, BatchRecords
<1>4. ASSUME NEW q \in rows PROVE Delivered(q) /\ q > batch[b].last /\ q \in Nat
  <2>1. q \in DOMAIN replies /\ Delivered(q) /\ q > batch[b].last BY <1>3 DEF FirstOf, Unlearnt
  <2>2. QED BY <1>1, <2>1, RepliesOf
<1>5. B \in BatchRecords
  <2>1. rows \in SUBSET Nat BY <1>4
  <2> HIDE DEF rows
  <2>2. QED BY <1>3, <2>1 DEF BatchRecords, BatchPcs
<1>6. batch' = [batch EXCEPT ![b] = B]
  <2>1. batch' = [batch EXCEPT ![b].from = 0, ![b].rows = rows, ![b].pc = B.pc] BY DEF Fetch
  <2>2. batch[b] = [pc |-> batch[b].pc, from |-> batch[b].from, rows |-> batch[b].rows,
                    last |-> batch[b].last]
    BY <1>2 DEF BatchRecords
  <2> HIDE DEF rows
  <2>3. QED BY <1>1, <1>2, <2>1, <2>2 DEF LearnTypes, BatchRecords
<1>7. UNCHANGED Turns /\ missed \subseteq missed' /\ UNCHANGED <<reviews, cursor>> BY DEF Fetch
<1>8. causes' = [m \in Messages |->
        IF turn[m].pc = "link" /\ turn[m].id \in rows THEN causes[m] \cup {"read before the link"}
        ELSE causes[m]]
  BY DEF Fetch
<1>9. causes' \in [Messages -> SUBSET Causes] BY <1>1, <1>8 DEF LearnTypes, Causes
<1>10. PICK c \in Nat : c = cursor BY <1>1 DEF LearnTypes
<1>11. ReviewsKept BY <1>7 DEF ReviewsKept
<1>12. Mark(c) /\ Covered(c, {})' BY <1>1, <1>7, <1>10, <1>11, CoveredInBatch DEF BatchesSound, AllCovered
<1>13. Covered(batch[b].last, {}) BY <1>1, <1>3 DEF AllCovered
<1>14. PICK l, s : l = batch[b].last /\ s = rows OBVIOUS
<1>15. Covered(l, s)'
  <2> SUFFICES ASSUME NEW r, (r \in DOMAIN replies)', (Delivered(r))', (r \notin missed)',
                      NEW p \in s \cup {l}, r <= p
               PROVE  (\/ Learnt(replies[r].of)
                       \/ \E x \in DOMAIN replies : Delivered(x) /\ replies[x].of = replies[r].of
                            /\ (x \in s \/ \A q \in s \cup {l} : x > q))'
    BY DEF Covered
  <2>1. UNCHANGED replies BY <1>7 DEF Turns
  <2>2. r \in DOMAIN replies /\ Delivered(r) /\ r \notin missed BY <1>7, <2>1 DEF Delivered
  <2>3. CASE Learnt(replies[r].of)
    <3>1. PICK m : m = replies[r].of OBVIOUS
    <3>2. RepliesKept BY <2>1 DEF RepliesKept
    <3>3. Learnt(m)' BY <1>1, <1>11, <2>3, <3>1, <3>2, LearntKept
    <3>4. Learnt(replies[r].of)' BY <2>1, <3>1, <3>3
    <3>5. QED BY <3>4
  <2>4. CASE ~Learnt(replies[r].of)
    <3>1. missed' = missed \cup
            {q \in DOMAIN replies : Delivered(q) /\ ~InView(q, view) /\ \E t \in rows : q <= t}
      BY DEF Fetch
    <3>2. ~InView(r, view) => \A q \in rows : ~(r <= q) BY <2>2, <3>1
    <3>3. rows = FirstOf(Unlearnt(l, view)) /\ s = rows /\ l = batch[b].last /\ l \in Nat
      BY <1>3, <1>14
    <3> HIDE DEF rows
    <3>4. PICK x \in DOMAIN replies : Delivered(x) /\ replies[x].of = replies[r].of
            /\ (x \in s \/ \A q \in s \cup {l} : x > q)
      BY <1>1, <1>13, <2>2, <2>4, <3>2, <3>3, FetchCovers
    <3>5. Delivered(x)' BY <2>1, <3>4 DEF Delivered
    <3>6. QED BY <2>1, <3>4, <3>5
  <2>5. QED BY <2>3, <2>4
<1>16. reviews' \in Seq(ReviewRecords) BY <1>1, <1>7 DEF LearnTypes
<1>17. ReviewsMatch' BY <1>1, <1>7 DEF ReviewsMatch, Turns
<1>18. ASSUME NEW n \in Messages, causes'[n] = {} PROVE Once(n)'
  <2>1. causes[n] = {} /\ ~(turn[n].pc = "link" /\ turn[n].id \in rows) BY <1>8, <1>18
  <2>2. Once(n) /\ TurnKnows(n) BY <1>1, <2>1 DEF AllOnce, TurnsKnow
  <2>3. UNCHANGED <<turn, replies>> BY <1>7 DEF Turns
  <2>4. ReviewsOf(n)' = ReviewsOf(n) BY <1>7 DEF ReviewsOf
  <2>5. ASSUME NEW q \in rows, replies[q].of = n PROVE turn[n].pc = "done"
    <3>1. q \in DOMAIN replies /\ replies[q].ok /\ replies[q].seen BY <1>4, <2>5 DEF Delivered
    <3>2. q = turn[n].id /\ turn[n].pc \in {"recording", "link", "done"} BY <2>2, <2>5, <3>1 DEF Once
    <3>3. q # 0 BY <1>1, <3>1, RepliesOf
    <3>4. turn[n].pc # "recording" BY <2>2, <3>1, <3>2, <3>3 DEF TurnKnows
    <3>5. QED BY <2>1, <2>5, <3>2, <3>4
  <2>6. \A k \in Batches : \A q \in batch'[k].rows : replies'[q].of = n =>
          turn[n].pc = "done" \/ (q \in batch[k].rows /\ replies[q].of = n)
    <3>1. batch'[b] = B /\ \A k \in Batches : k # b => batch'[k] = batch[k]
      BY <1>1, <1>5, <1>6 DEF LearnTypes
    <3> HIDE DEF rows
    <3>2. QED BY <2>3, <2>5, <3>1
  <2>7. QED BY <1>7, <2>2, <2>3, <2>4, <2>6, OnceStays
<1>19. /\ B.rows = rows /\ B.last = batch[b].last
       /\ (B.pc = "fetch" => B.from = B.last /\ B.rows = {}) /\ (B.pc = "write" => B.rows # {})
  OBVIOUS
<1> HIDE DEF B, rows
<1>20. QED
  BY <1>3, <1>4, <1>5, <1>6, <1>7, <1>9, <1>10, <1>11, <1>12, <1>14, <1>15, <1>16, <1>17, <1>18, <1>19,
     BatchMoves

\* With the least of its rows reviewed, the batch's mark covers as much.
LEMMA WriteCovers ==
  ASSUME LearnTypes, UNCHANGED <<Turns, missed>>, ReviewsKept,
         NEW c \in Nat, NEW rows \in SUBSET Nat, Covered(c, rows),
         NEW r \in rows, r > c, \A q \in rows : r <= q,
         r \in DOMAIN replies => Learnt(replies[r].of)'
  PROVE  Covered(r, rows \ {r})'
<1> DEFINE left == (rows \ {r}) \cup {r}
<1> SUFFICES ASSUME NEW p, (p \in DOMAIN replies)', (Delivered(p))', (p \notin missed)',
                    \E q \in left : p <= q
             PROVE  (\/ Learnt(replies[p].of)
                     \/ \E s \in DOMAIN replies : Delivered(s) /\ replies[s].of = replies[p].of
                          /\ (s \in rows \ {r} \/ \A q \in left : s > q))'
  BY DEF Covered
<1>1. UNCHANGED <<replies, missed>> BY DEF Turns
<1>2. p \in DOMAIN replies /\ Delivered(p) /\ p \notin missed BY <1>1 DEF Delivered
<1>3. \E q \in rows \cup {c} : p <= q OBVIOUS
<1>4. CASE Learnt(replies[p].of)
  <2>1. PICK m : m = replies[p].of OBVIOUS
  <2>2. RepliesKept BY <1>1 DEF RepliesKept
  <2>3. Learnt(m)' BY <1>4, <2>1, <2>2, LearntKept
  <2>4. Learnt(replies[p].of)' BY <1>1, <2>1, <2>3
  <2>5. QED BY <2>4
<1>5. CASE ~Learnt(replies[p].of)
  <2>1. PICK s \in DOMAIN replies :
          /\ Delivered(s) /\ replies[s].of = replies[p].of
          /\ s \in rows \/ \A q \in rows \cup {c} : s > q
    BY <1>2, <1>3, <1>5 DEF Covered
  <2>2. CASE s = r
    <3>1. PICK m : m = replies[r].of OBVIOUS
    <3>2. Learnt(replies[r].of)' BY <2>1, <2>2
    <3>3. Learnt(replies[p].of)' BY <1>1, <2>1, <2>2, <3>2
    <3>4. QED BY <3>3
  <2>3. CASE s # r
    <3>1. s \in rows \ {r} \/ \A q \in left : s > q BY <2>1, <2>3
    <3>2. Delivered(s)' BY <1>1, <2>1 DEF Delivered
    <3>3. (s \in DOMAIN replies /\ replies[s].of = replies[p].of)' BY <1>1, <2>1
    <3>4. QED BY <3>1, <3>2, <3>3
  <2>4. QED BY <2>2, <2>3
<1>6. QED BY <1>4, <1>5

LEMMA WriteKeeps ==
  ASSUME LearnInv, NEW b \in Batches, Write(b) PROVE LearnInv'
<1> DEFINE rows == batch[b].rows
           r == Min(rows)
           x == [of |-> replies[r].of, reply |-> r]
           B == [pc |-> IF rows = {r} THEN "save" ELSE "write", from |-> batch[b].from,
                 rows |-> rows \ {r}, last |-> r]
<1>1. LearnTypes /\ ReviewsMatch /\ TurnsKnow /\ BatchesSound /\ AllCovered /\ AllOnce
  BY DEF LearnInv, LearnSound
<1>2. batch[b] \in BatchRecords /\ batch[b].pc = "write" BY <1>1 DEF LearnTypes, Write
<1>3. rows \in SUBSET Nat /\ rows # {} /\ batch[b].last \in Nat /\ Mark(batch[b].last)
      /\ \A q \in rows : Delivered(q) /\ q > batch[b].last
  BY <1>1, <1>2 DEF BatchesSound, BatchSound, BatchRecords
<1>4. UNCHANGED Turns /\ UNCHANGED <<turn, replies, missed, cursor, causes>>
      /\ missed \subseteq missed'
  BY DEF Write, Turns
<1>5. PICK c \in Nat : c = cursor BY <1>1 DEF LearnTypes
<1>6. Mark(c) /\ Covered(c, {}) BY <1>1, <1>5 DEF BatchesSound, AllCovered
<1>7. ASSUME reviews' = reviews, batch' = [batch EXCEPT ![b].pc = "save"] PROVE LearnInv'
  <2> DEFINE C == [batch[b] EXCEPT !.pc = "save"]
  <2>1. C \in BatchRecords /\ C.rows = rows /\ C.last = batch[b].last /\ C.pc = "save"
    BY <1>2 DEF BatchRecords, BatchPcs
  <2>2. batch' = [batch EXCEPT ![b] = C] BY <1>1, <1>7 DEF LearnTypes
  <2> HIDE DEF C
  <2>3. Covered(C.last, C.rows) BY <1>1, <2>1 DEF AllCovered
  <2>4. UNCHANGED <<Turns, reviews, missed, causes>> BY <1>4, <1>7
  <2>5. QED BY <1>3, <1>4, <1>5, <1>6, <2>1, <2>2, <2>3, <2>4, BatchResets
<1>8. ASSUME Written(b, r), reviews' = IF Linked(r) THEN reviews ELSE Append(reviews, x)
      PROVE  LearnInv'
  <2>1. r \in rows /\ \A q \in rows : r <= q
    <3>1. \E q \in rows : \A s \in rows : q <= s BY <1>3, LeastExists
    <3> HIDE DEF rows
    <3>2. QED BY <3>1 DEF Min
  <2>2. batch' = [batch EXCEPT ![b] = B]
    <3> DEFINE p == IF rows = {r} THEN "save" ELSE "write"
           w == rows \ {r}
           y == [batch[b] EXCEPT !.rows = w, !.last = r, !.pc = p]
    <3>1. batch' = [batch EXCEPT ![b].rows = w, ![b].last = r, ![b].pc = p]
      BY <1>1, <1>8 DEF LearnTypes, Written
    <3>2. B = [pc |-> p, from |-> batch[b].from, rows |-> w, last |-> r] OBVIOUS
    <3> HIDE DEF r, rows, p, w, B
    <3>3. batch' = [batch EXCEPT ![b] = y] BY <1>1, <3>1 DEF LearnTypes
    <3>4. DOMAIN batch[b] = {"pc", "from", "rows", "last"} BY <1>2 DEF BatchRecords
    <3>5. y = [i \in {"pc", "from", "rows", "last"} |-> y[i]] BY <3>4
    <3>6. y.pc = p /\ y.rows = w /\ y.last = r /\ y.from = batch[b].from BY <3>4
    <3> HIDE DEF y
    <3>7. y = [pc |-> p, from |-> batch[b].from, rows |-> w, last |-> r] BY <3>5, <3>6
    <3>8. QED BY <3>2, <3>3, <3>7
  <2> HIDE DEF r
  <2>3. r \in Nat /\ r > batch[b].last /\ Delivered(r) BY <1>3, <2>1
  <2>4. r \in DOMAIN replies /\ r # 0 /\ replies[r].of \in Messages
    BY <1>1, <2>3, RepliesOf DEF Delivered
  <2>5. x \in ReviewRecords /\ x.of = replies[r].of /\ x.reply = r
    BY <2>3, <2>4 DEF ReviewRecords
  <2>6. B \in BatchRecords
    <3>1. rows \ {r} \in SUBSET Nat /\ batch[b].from \in Nat BY <1>2, <1>3 DEF BatchRecords
    <3> HIDE DEF rows
    <3>2. QED BY <2>3, <3>1 DEF BatchRecords, BatchPcs
  <2>7. /\ B.last = r /\ B.rows = rows \ {r} /\ (B.pc # "fetch") /\ (B.pc = "write" => rows # {r})
    OBVIOUS
  <2>8. B.pc = "write" => B.rows # {} BY <2>1, <2>7
  <2> HIDE DEF B, x
  <2>9. reviews \in Seq(ReviewRecords) BY <1>1 DEF LearnTypes
  <2>10. /\ reviews' \in Seq(ReviewRecords) /\ ReviewsKept
         /\ \A v \in DOMAIN reviews' :
              (v \in DOMAIN reviews /\ reviews'[v] = reviews[v]) \/ (~Linked(r) /\ reviews'[v] = x)
         /\ \E v \in DOMAIN reviews' : reviews'[v].reply = r /\ (~Linked(r) => reviews'[v] = x)
    <3>1. CASE Linked(r)
      <4>1. reviews' = reviews BY <1>8, <3>1
      <4>2. QED BY <2>9, <3>1, <4>1 DEF Linked, ReviewsKept
    <3>2. CASE ~Linked(r)
      <4>1. reviews' = Append(reviews, x) BY <1>8, <3>2
      <4>2. /\ Append(reviews, x) \in Seq(ReviewRecords)
            /\ DOMAIN Append(reviews, x) = DOMAIN reviews \cup {Len(reviews) + 1}
            /\ \A v \in DOMAIN reviews : Append(reviews, x)[v] = reviews[v]
            /\ Append(reviews, x)[Len(reviews) + 1] = x
        BY <2>5, <2>9, Appended
      <4>3. QED BY <2>5, <3>2, <4>1, <4>2 DEF ReviewsKept
    <3>3. QED BY <3>1, <3>2
  <2>11. ReviewsMatch' BY <1>1, <1>4, <2>4, <2>5, <2>10 DEF ReviewsMatch
  <2>12. causes' \in [Messages -> SUBSET Causes] BY <1>1, <1>4 DEF LearnTypes
  <2>13. Covered(c, {})' BY <1>1, <1>4, <1>6, <2>10, CoveredInBatch
  <2>14. PICK l, s, k : l = r /\ s = rows \ {r} /\ k = batch[b].last OBVIOUS
  <2>15. Covered(l, s)'
    <3>1. PICK all : all = rows OBVIOUS
    <3>2. Covered(k, all) BY <1>1, <2>14, <3>1 DEF AllCovered
    <3>3. k \in Nat /\ all \in SUBSET Nat /\ l \in all /\ l > k /\ (\A q \in all : l <= q) /\ s = all \ {l}
      BY <1>3, <2>1, <2>3, <2>14, <3>1
    <3>4. Learnt(replies[l].of)'
      <4>1. PICK m : m = replies[r].of OBVIOUS
      <4>2. Learnt(m)'
        <5>1. PICK v \in DOMAIN reviews' : reviews'[v].reply = r BY <2>10
        <5>2. reviews'[v].of = m BY <1>4, <2>4, <2>11, <4>1, <5>1 DEF ReviewsMatch
        <5>3. Delivered(l)' BY <1>4, <2>3, <2>14 DEF Delivered
        <5>4. QED BY <2>14, <5>1, <5>2, <5>3 DEF Learnt, ReviewsOf
      <4>3. QED BY <1>4, <2>14, <4>1, <4>2
    <3>5. QED BY <1>1, <1>4, <2>10, <3>2, <3>3, <3>4, WriteCovers
  <2>16. Mark(B.last) BY <2>3, <2>7 DEF Mark
  <2>17. \A q \in B.rows : Delivered(q) /\ q > B.last
    <3>1. ASSUME NEW q \in rows, q # r PROVE q > r
      <4>1. q \in Nat /\ r <= q BY <1>3, <2>1, <3>1
      <4>2. QED BY <2>3, <3>1, <4>1
    <3>2. QED BY <1>3, <2>7, <3>1
  <2>18. ASSUME NEW n \in Messages, causes'[n] = {} PROVE Once(n)'
    <3>1. Once(n) /\ TurnKnows(n) BY <1>1, <1>4, <2>18 DEF AllOnce, TurnsKnow
    <3>2. batch'[b].rows \subseteq rows /\ \A j \in Batches : j # b => batch'[j] = batch[j]
      BY <1>1, <2>2, <2>6, <2>7 DEF LearnTypes
    <3>3. \A j \in Batches : \A q \in batch'[j].rows : q \in batch[j].rows BY <3>2
    <3>4. CASE reviews' = reviews \/ n # replies[r].of
      <4>1. ReviewsOf(n)' = ReviewsOf(n) /\ \A v \in ReviewsOf(n) : reviews'[v].reply = reviews[v].reply
        BY <2>5, <2>10, <3>4 DEF ReviewsOf, ReviewsKept
      <4>2. QED BY <1>4, <3>1, <3>3, <4>1, OnceStays
    <3>5. CASE n = replies[r].of /\ ~Linked(r)
      <4>1. turn[n].pc = "done" BY <2>1, <3>1, <3>5 DEF Once
      <4>2. turn[n].id = r BY <2>3, <2>4, <3>1, <3>5 DEF Once, Delivered
      <4>3. turn[n].ok BY <2>3, <2>4, <3>1, <4>2 DEF TurnKnows, Delivered
      <4>4. ReviewsOf(n) = {}
        <5>1. SUFFICES ASSUME NEW v \in ReviewsOf(n) PROVE FALSE OBVIOUS
        <5>2. v \in DOMAIN reviews /\ reviews[v].reply = r
          BY <2>4, <3>1, <4>1, <4>2, <4>3 DEF Once, ReviewsOf
        <5>3. QED BY <3>5, <5>2 DEF Linked
      <4>5. reviews' = Append(reviews, x) BY <1>8, <3>5
      <4>6. \A v \in ReviewsOf(n)' : v = Len(reviews) + 1 /\ reviews'[v] = x
        <5>1. DOMAIN Append(reviews, x) = DOMAIN reviews \cup {Len(reviews) + 1}
              /\ \A v \in DOMAIN reviews : Append(reviews, x)[v] = reviews[v]
              /\ Append(reviews, x)[Len(reviews) + 1] = x
          BY <2>5, <2>9, Appended
        <5>2. QED BY <4>4, <4>5, <5>1 DEF ReviewsOf
      <4>7. QED BY <1>4, <2>5, <3>1, <3>3, <4>1, <4>2, <4>6 DEF Once
    <3>6. QED BY <1>8, <3>4, <3>5
  <2>19. QED
    BY <1>4, <1>5, <1>6, <2>2, <2>6, <2>7, <2>8, <2>10, <2>11, <2>12, <2>13, <2>14, <2>15, <2>16,
       <2>17, <2>18, BatchMoves
<1>9. QED BY <1>7, <1>8 DEF Write

-----------------------------------------------------------------------------
LEMMA LearnStep ==
  ASSUME LearnInv, [LearningNext]_learningVars PROVE LearnInv'
<1>1. ASSUME NEW m \in Messages,
             Decide(m) \/ DieUndecided(m) \/ Send(m) \/ SendByQueue(m) \/ RecordAgain(m) \/ Link(m)
      PROVE  LearnInv'
  BY <1>1, DecideKeeps, DieUndecidedKeeps, SendKeeps, SendByQueueKeeps, RecordAgainKeeps, LinkKeeps
<1>2. ASSUME NEW r \in DOMAIN replies, Commit(r) PROVE LearnInv' BY <1>2, CommitKeeps
<1>3. ASSUME NEW b \in Batches, BatchStep(b) PROVE LearnInv'
  <2>1. CASE Start(b) BY <2>1, StartKeeps
  <2>2. ASSUME NEW view, Fetch(b, view) PROVE LearnInv' BY <2>2, FetchKeeps
  <2>3. CASE Write(b) BY <2>3, WriteKeeps
  <2>4. CASE Save(b) BY <2>4, StopKeeps DEF Save
  <2>5. CASE Break(b) BY <2>5, StopKeeps DEF Break
  <2>6. QED BY <1>3, <2>1, <2>2, <2>3, <2>4, <2>5 DEF BatchStep
<1>4. CASE UNCHANGED learningVars
  <2>1. UNCHANGED <<turn, replies, reviews, cursor, batch, missed, causes>> BY <1>4 DEF learningVars
  <2>2. LearnSound' BY <2>1 DEF LearnInv, LearnSound, LearnTypes, ReviewsMatch, TurnsKnow, TurnKnows,
          BatchesSound, BatchSound, Mark, Delivered
  <2>3. AllCovered' BY <2>1 DEF LearnInv, AllCovered, Covered, Delivered, Learnt, ReviewsOf
  <2>4. AllOnce' BY <2>1 DEF LearnInv, AllOnce, Once, ReviewsOf
  <2>5. QED BY <2>2, <2>3, <2>4 DEF LearnInv
<1>5. QED BY <1>1, <1>2, <1>3, <1>4 DEF LearningNext, TurnStep

\* Replies, reviews, turns, batches and the cursor agree, however many batches
\* run at once and break off.
THEOREM LearnInvariant == LearningSpec => []LearnInv
<1>1. QED BY LearnInitially, LearnStep, PTL DEF LearningSpec

\* No message with a reply up to the cursor is passed over.
THEOREM CursorsLeaveNothing == LearningSpec => []NoneLeftBehind
<1>1. LearnInv => NoneLeftBehind
  <2> SUFFICES ASSUME LearnInv, NEW r \in DOMAIN replies, Delivered(r), r <= cursor, r \notin missed,
                      ~Learnt(replies[r].of)
               PROVE  \E s \in DOMAIN replies : s > cursor /\ Delivered(s) /\ replies[s].of = replies[r].of
    BY DEF NoneLeftBehind
  <2>1. Covered(cursor, {}) BY DEF LearnInv, AllCovered
  <2>2. QED BY <2>1 DEF Covered
<1>2. QED BY <1>1, LearnInvariant, PTL

\* A message has a second review only for one of the causes.
THEOREM MessagesCountOnce == LearningSpec => []CountedOnce
<1>1. LearnInv => CountedOnce
  <2> SUFFICES ASSUME LearnInv, NEW m \in Messages, causes[m] = {} PROVE ~(Cardinality(ReviewsOf(m)) > 1)
    BY DEF CountedOnce
  <2>1. \A v, w \in ReviewsOf(m) : v = w BY DEF LearnInv, AllOnce, Once
  <2>2. CASE ReviewsOf(m) = {}
    <3>1. Cardinality(ReviewsOf(m)) = 0 BY <2>2, FS_EmptySet
    <3>2. QED BY <3>1
  <2>3. CASE ReviewsOf(m) # {}
    <3>1. PICK v \in ReviewsOf(m) : ReviewsOf(m) = {v} BY <2>1, <2>3
    <3>2. Cardinality(ReviewsOf(m)) = 1 BY <3>1, FS_Singleton
    <3>3. QED BY <3>2
  <2>4. QED BY <2>2, <2>3
<1>2. QED BY <1>1, LearnInvariant, PTL
=============================================================================
