----------------------- MODULE ConversationLockProofs -----------------------
(***************************************************************************)
(* Theorems about ConversationLock, for any number of tasks, processes and *)
(* entries.  The argument: the counter of an entry is the number of tasks  *)
(* that use it, so an entry that is taken out of its table is used by      *)
(* nobody, so all tasks of a process use the one entry that is there.      *)
(***************************************************************************)
EXTENDS ConversationLock, FiniteSetTheorems, TLAPS

\* What a task that is past the table has got.
LEMMA HasAnEntry ==
  ASSUME EntryIsCurrent, NEW t \in Tasks, at[t] \notin {"idle", "retry"}
  PROVE  \E e \in Entries : using[t] = {e} /\ table[ProcessOf[t]] = {e}
BY DEF EntryIsCurrent

\* Users of one entry are of one process, whose entry it is.
LEMMA UsersShareProcess ==
  ASSUME LockTypeOK, EntryIsCurrent, NEW t \in Tasks, NEW e \in Entries, e \in using[t]
  PROVE  /\ e \in table[ProcessOf[t]]
         /\ at[t] \notin {"idle", "retry"}
         /\ \A q \in Processes : e \in table[q] => q = ProcessOf[t]
<1>1. ProcessOf[t] \in Processes
  BY LockAssumption DEF LockAssumption
<1>2. at[t] \notin {"idle", "retry"} /\ using[t] = table[ProcessOf[t]]
  BY DEF EntryIsCurrent
<1> QED
  BY <1>1, <1>2 DEF EntryIsCurrent

LEMMA UsersAreFinite == \A e \in Entries : IsFiniteSet(UsersOf(e))
BY LockAssumption, FS_Subset DEF LockAssumption, UsersOf

\* An entry with no users left is nobody's.
LEMMA CountedOut ==
  ASSUME UsersCounted, NEW e \in Entries, users[e] = 0
  PROVE  \A t \in Tasks : e \notin using[t]
<1>1. UsersOf(e) = {}
  BY UsersAreFinite, FS_EmptySet DEF UsersCounted
<1> QED
  BY <1>1 DEF UsersOf

-----------------------------------------------------------------------------
(* Coming in *)

LEMMA RegisterCounts ==
  ASSUME LockInv, NEW t \in Tasks, Register(t)
  PROVE  UsersCounted'
<1>1. PICK e \in Entries : users' = [users EXCEPT ![e] = @ + 1] /\ using' = [using EXCEPT ![t] = {e}]
  BY DEF Register
<1>2. using[t] = {}
  BY DEF LockInv, EntryIsCurrent, Register
<1> SUFFICES ASSUME NEW x \in Entries PROVE users'[x] = Cardinality(UsersOf(x)')
  BY DEF UsersCounted
<1>3. users[x] = Cardinality(UsersOf(x)) /\ IsFiniteSet(UsersOf(x))
  BY UsersAreFinite DEF LockInv, UsersCounted
<1>4. CASE x = e
  <2>1. UsersOf(x)' = UsersOf(x) \cup {t} /\ t \notin UsersOf(x)
    BY <1>1, <1>2, <1>4 DEF LockInv, LockTypeOK, UsersOf
  <2>2. Cardinality(UsersOf(x)') = Cardinality(UsersOf(x)) + 1
    BY <1>3, <2>1, FS_AddElement
  <2> QED
    BY <1>1, <1>3, <1>4, <2>2 DEF LockInv, LockTypeOK
<1>5. CASE x # e
  <2>1. UsersOf(x)' = UsersOf(x)
    BY <1>1, <1>2, <1>5 DEF LockInv, LockTypeOK, UsersOf
  <2> QED
    BY <1>1, <1>3, <1>5, <2>1 DEF LockInv, LockTypeOK
<1> QED
  BY <1>4, <1>5

LEMMA RegisterKeeps ==
  ASSUME LockInv, NEW t \in Tasks, Register(t)
  PROVE  LockInv'
<1> DEFINE p == ProcessOf[t]
<1>p. p \in Processes
  BY LockAssumption DEF LockAssumption
<1>1. PICK e \in Entries :
        /\ IF table[p] = {} THEN Fresh(e) ELSE e \in table[p]
        /\ table' = [table EXCEPT ![p] = {e}]
        /\ users' = [users EXCEPT ![e] = @ + 1]
        /\ using' = [using EXCEPT ![t] = {e}]
  BY DEF Register
<1>2. at[t] \in {"idle", "retry"} /\ using[t] = {}
  BY DEF LockInv, EntryIsCurrent, Register
<1>3. /\ at' = [at EXCEPT ![t] = "queued"] /\ degraded' = [degraded EXCEPT ![t] = (at[t] = "retry")]
      /\ UNCHANGED <<owner, databaseVars>>
  BY DEF Register
<1> HIDE DEF p
\* the entry of this process, and of no other
<1>4. /\ \A q \in Processes : q # p => e \notin table[q]
      /\ \A u \in Tasks : ProcessOf[u] = p /\ at[u] \notin {"idle", "retry"} => using[u] = {e}
      /\ table[p] \subseteq {e}
  <2>1. CASE table[p] = {}
    BY <1>p, <1>1, <2>1 DEF LockInv, EntryIsCurrent, Fresh
  <2>2. CASE table[p] # {}
    <3>1. PICK u \in Tasks : ProcessOf[u] = p /\ at[u] # "idle" /\ using[u] = table[p]
      BY <1>p, <2>2 DEF LockInv, NoEntryLeaks
    <3>2. table[p] = {e}
      BY <1>1, <2>2, <3>1 DEF LockInv, EntryIsCurrent
    <3> QED
      BY <1>p, <3>2 DEF LockInv, EntryIsCurrent
  <2> QED
    BY <2>1, <2>2
<1>5. LockTypeOK'
  <2>1. table' \in [Processes -> SUBSET Entries] /\ using' \in [Tasks -> SUBSET Entries]
    BY <1>1 DEF LockInv, LockTypeOK
  <2>2. users' \in [Entries -> Nat]
    BY <1>1 DEF LockInv, LockTypeOK
  <2>3. at' \in [Tasks -> TaskPhases]
    BY <1>3 DEF LockInv, LockTypeOK, TaskPhases
  <2>4. degraded' \in [Tasks -> BOOLEAN]
    BY <1>3 DEF LockInv, LockTypeOK
  <2> QED
    BY <1>3, <2>1, <2>2, <2>3, <2>4 DEF LockInv, LockTypeOK, databaseVars
<1>6. EntryIsCurrent'
  <2>1. \A u \in Tasks : u # t => at'[u] = at[u] /\ using'[u] = using[u]
    BY <1>1, <1>3 DEF LockInv, LockTypeOK
  <2>2. at'[t] = "queued" /\ using'[t] = {e} /\ table'[p] = {e}
    BY <1>p, <1>1, <1>3 DEF LockInv, LockTypeOK
  <2>3. \A q \in Processes : q # p => table'[q] = table[q]
    BY <1>1 DEF LockInv, LockTypeOK
  <2>4. \A u \in Tasks : ProcessOf[u] \in Processes
    BY LockAssumption DEF LockAssumption
  <2>5. \A u \in Tasks : IF at'[u] \in {"idle", "retry"} THEN using'[u] = {}
                         ELSE using'[u] = table'[ProcessOf[u]] /\ \E x \in Entries : using'[u] = {x}
    <3> SUFFICES ASSUME NEW u \in Tasks
                 PROVE  IF at'[u] \in {"idle", "retry"} THEN using'[u] = {}
                        ELSE using'[u] = table'[ProcessOf[u]] /\ \E x \in Entries : using'[u] = {x}
      OBVIOUS
    <3>1. CASE u = t
      BY <2>2, <3>1 DEF p
    <3>2. CASE u # t /\ at[u] \in {"idle", "retry"}
      BY <2>1, <3>2 DEF LockInv, EntryIsCurrent
    <3>3. CASE u # t /\ at[u] \notin {"idle", "retry"} /\ ProcessOf[u] = p
      BY <1>4, <2>1, <2>2, <3>3
    <3>4. CASE u # t /\ at[u] \notin {"idle", "retry"} /\ ProcessOf[u] # p
      BY <2>1, <2>3, <2>4, <3>4 DEF LockInv, EntryIsCurrent
    <3> QED
      BY <3>1, <3>2, <3>3, <3>4
  <2>6. \A q, s \in Processes : q # s => table'[q] \cap table'[s] = {}
    BY <1>4, <2>2, <2>3 DEF LockInv, EntryIsCurrent
  <2> QED
    BY <2>5, <2>6 DEF EntryIsCurrent
<1>7. OwnersHold'
  <2>1. \A u \in Tasks : u # t => /\ at'[u] = at[u] /\ using'[u] = using[u]
                                  /\ degraded'[u] = degraded[u]
    BY <1>1, <1>3 DEF LockInv, LockTypeOK
  <2>2. at'[t] = "queued"
    BY <1>3 DEF LockInv, LockTypeOK
  <2>3. owner' = owner /\ database' = database /\ lost' = lost
    BY <1>3 DEF databaseVars
  <2>4. at[t] # "held" /\ t \notin lost /\ t \notin database
    BY <1>2 DEF LockInv, OwnersHold
  <2>5. /\ \A u \in Tasks : u \in database' <=> at'[u] = "held" /\ ~degraded'[u] /\ u \notin lost'
        /\ \A u \in lost' : at'[u] = "held" /\ ~degraded'[u]
    BY <2>1, <2>2, <2>3, <2>4 DEF LockInv, LockTypeOK, OwnersHold
  <2> QED
    BY <1>2, <2>1, <2>2, <2>3, <2>5 DEF LockInv, OwnersHold, HasLocal
<1>8. NoEntryLeaks'
  <2>1. \A q \in Processes : q # p => table'[q] = table[q]
    BY <1>1 DEF LockInv, LockTypeOK
  <2>2. \A u \in Tasks : u # t => at'[u] = at[u] /\ using'[u] = using[u]
    BY <1>1, <1>3 DEF LockInv, LockTypeOK
  <2>3. at'[t] = "queued" /\ using'[t] = {e} /\ table'[p] = {e} /\ ProcessOf[t] = p
    BY <1>p, <1>1, <1>3 DEF LockInv, LockTypeOK, p
  <2> SUFFICES ASSUME NEW q \in Processes, q # p, table'[q] # {}
               PROVE  \E u \in Tasks : ProcessOf[u] = q /\ at'[u] # "idle" /\ using'[u] = table'[q]
    BY <2>3 DEF NoEntryLeaks
  <2>4. PICK u \in Tasks : ProcessOf[u] = q /\ at[u] # "idle" /\ using[u] = table[q]
    BY <2>1 DEF LockInv, NoEntryLeaks
  <2> QED
    BY <2>1, <2>2, <2>3, <2>4
<1> QED
  BY <1>5, <1>6, <1>7, <1>8, RegisterCounts DEF LockInv

-----------------------------------------------------------------------------
(* Going out *)

\* The one entry that a task which goes out used.
LEMMA DropTakesOne ==
  ASSUME LockInv, NEW t \in Tasks, Drop(t)
  PROVE  \E e \in Entries :
           /\ using[t] = {e} /\ table[ProcessOf[t]] = {e}
           /\ at[t] \notin {"idle", "retry"}
           /\ owner' = [owner EXCEPT ![e] = @ \ {t}]
           /\ users' = [users EXCEPT ![e] = @ - 1]
           /\ table' = IF users'[e] = 0 /\ owner'[e] = {}
                         THEN [table EXCEPT ![ProcessOf[t]] = {}] ELSE table
           /\ using' = [using EXCEPT ![t] = {}]
<1>1. PICK e \in using[t] :
        /\ owner' = [owner EXCEPT ![e] = @ \ {t}]
        /\ users' = [users EXCEPT ![e] = @ - 1]
        /\ table' = IF Unused(users'[e], owner'[e])
                      THEN [table EXCEPT ![ProcessOf[t]] = {}] ELSE table
        /\ using' = [using EXCEPT ![t] = {}]
  BY DEF Drop
<1>2. at[t] \notin {"idle", "retry"}
  BY <1>1 DEF LockInv, EntryIsCurrent
<1>3. PICK x \in Entries : using[t] = {x} /\ table[ProcessOf[t]] = {x}
  BY <1>2, HasAnEntry DEF LockInv
<1>4. x = e
  BY <1>3
<1> QED
  BY <1>1, <1>2, <1>3, <1>4 DEF Unused

LEMMA DropCounts ==
  ASSUME LockInv, NEW t \in Tasks, Drop(t)
  PROVE  UsersCounted' /\ users' \in [Entries -> Nat]
<1>1. PICK e \in Entries :
        /\ using[t] = {e}
        /\ users' = [users EXCEPT ![e] = @ - 1] /\ using' = [using EXCEPT ![t] = {}]
  BY DropTakesOne
<1>2. ASSUME NEW x \in Entries PROVE users'[x] = Cardinality(UsersOf(x)') /\ users'[x] \in Nat
  <2>1. users[x] = Cardinality(UsersOf(x)) /\ IsFiniteSet(UsersOf(x)) /\ users[x] \in Nat
    BY UsersAreFinite DEF LockInv, LockTypeOK, UsersCounted
  <2>2. CASE x = e
    <3>1. UsersOf(x)' = UsersOf(x) \ {t} /\ t \in UsersOf(x)
      BY <1>1, <2>2 DEF LockInv, LockTypeOK, UsersOf
    <3>2. Cardinality(UsersOf(x)') = Cardinality(UsersOf(x)) - 1 /\ IsFiniteSet(UsersOf(x)')
      BY <2>1, <3>1, FS_RemoveElement
    <3>3. Cardinality(UsersOf(x)') \in Nat
      BY <3>2, FS_CardinalityType
    <3> QED
      BY <1>1, <2>1, <2>2, <3>2, <3>3 DEF LockInv, LockTypeOK
  <2>3. CASE x # e
    <3>1. UsersOf(x)' = UsersOf(x)
      BY <1>1, <2>3 DEF LockInv, LockTypeOK, UsersOf
    <3> QED
      BY <1>1, <2>1, <2>3, <3>1 DEF LockInv, LockTypeOK
  <2> QED
    BY <2>2, <2>3
<1>3. users' \in [Entries -> Nat]
  BY <1>1, <1>2 DEF LockInv, LockTypeOK
<1> QED
  BY <1>2, <1>3 DEF UsersCounted

LEMMA DropKeeps ==
  ASSUME LockInv, NEW t \in Tasks, Drop(t), t \notin database, t \notin lost,
         NEW to \in {"idle", "retry"}, at' = [at EXCEPT ![t] = to],
         UNCHANGED <<degraded, databaseVars>>
  PROVE  LockInv'
<1> DEFINE p == ProcessOf[t]
<1>p. p \in Processes /\ \A u \in Tasks : ProcessOf[u] \in Processes
  BY LockAssumption DEF LockAssumption
<1>1. PICK e \in Entries :
        /\ using[t] = {e} /\ table[p] = {e}
        /\ at[t] \notin {"idle", "retry"}
        /\ owner' = [owner EXCEPT ![e] = @ \ {t}]
        /\ table' = IF users'[e] = 0 /\ owner'[e] = {} THEN [table EXCEPT ![p] = {}] ELSE table
        /\ using' = [using EXCEPT ![t] = {}]
  BY DropTakesOne
<1> HIDE DEF p
<1>2. UsersCounted' /\ users' \in [Entries -> Nat]
  BY DropCounts
<1>3. /\ at'[t] = to /\ using'[t] = {}
      /\ \A u \in Tasks : u # t => at'[u] = at[u] /\ using'[u] = using[u]
  BY <1>1 DEF LockInv, LockTypeOK
<1>4. /\ \A q \in Processes : q # p => table'[q] = table[q]
      /\ table'[p] \in {{}, {e}}
      /\ table'[p] = {} <=> users'[e] = 0 /\ owner'[e] = {}
  BY <1>p, <1>1 DEF LockInv, LockTypeOK
<1>5. owner'[e] = owner[e] \ {t} /\ \A x \in Entries : x # e => owner'[x] = owner[x]
  BY <1>1 DEF LockInv, LockTypeOK
<1>6. LockTypeOK'
  <2>1. table' \in [Processes -> SUBSET Entries] /\ using' \in [Tasks -> SUBSET Entries]
    BY <1>1 DEF LockInv, LockTypeOK
  <2>2. owner' \in [Entries -> SUBSET Tasks]
    BY <1>1 DEF LockInv, LockTypeOK
  <2>3. at' \in [Tasks -> TaskPhases]
    BY DEF LockInv, LockTypeOK, TaskPhases
  <2> QED
    BY <1>2, <2>1, <2>2, <2>3 DEF LockInv, LockTypeOK, databaseVars
\* whoever else uses the entry is of this process, and keeps it in the table
<1>7. ASSUME NEW u \in Tasks, u # t, e \in using[u]
      PROVE  ProcessOf[u] = p /\ using[u] = {e} /\ at[u] \notin {"idle", "retry"} /\ table'[p] = {e}
  <2>1. ProcessOf[u] = p /\ at[u] \notin {"idle", "retry"}
    BY <1>p, <1>1, <1>7, UsersShareProcess DEF LockInv
  <2>2. using[u] = {e}
    BY <1>1, <2>1 DEF LockInv, EntryIsCurrent, p
  <2>3. e \in using'[u]
    BY <1>3, <1>7
  <2>4. users'[e] # 0
    <3>1. IsFiniteSet(UsersOf(e)') /\ u \in UsersOf(e)'
      BY <2>3, LockAssumption, FS_Subset DEF LockAssumption, UsersOf
    <3>2. Cardinality(UsersOf(e)') # 0
      BY <3>1, FS_EmptySet
    <3> QED
      BY <1>2, <3>2 DEF UsersCounted
  <2> QED
    BY <1>4, <2>1, <2>2, <2>4
\* and if nobody does, nobody of this process is past the table
<1>8. ASSUME NEW u \in Tasks, u # t, at[u] \notin {"idle", "retry"}, ProcessOf[u] = p
      PROVE  using[u] = {e}
  BY <1>1, <1>8 DEF LockInv, EntryIsCurrent
<1>9. EntryIsCurrent'
  <2>1. ASSUME NEW u \in Tasks
        PROVE  IF at'[u] \in {"idle", "retry"} THEN using'[u] = {}
               ELSE using'[u] = table'[ProcessOf[u]] /\ \E x \in Entries : using'[u] = {x}
    <3>1. CASE u = t
      BY <1>3, <3>1
    <3>2. CASE u # t /\ at[u] \in {"idle", "retry"}
      BY <1>3, <3>2 DEF LockInv, EntryIsCurrent
    <3>3. CASE u # t /\ at[u] \notin {"idle", "retry"} /\ ProcessOf[u] = p
      <4>1. using[u] = {e}
        BY <1>8, <3>3
      <4> QED
        BY <1>3, <1>7, <3>3, <4>1
    <3>4. CASE u # t /\ at[u] \notin {"idle", "retry"} /\ ProcessOf[u] # p
      BY <1>p, <1>3, <1>4, <3>4 DEF LockInv, EntryIsCurrent
    <3> QED
      BY <3>1, <3>2, <3>3, <3>4
  <2>2. \A q, s \in Processes : q # s => table'[q] \cap table'[s] = {}
    <3>1. \A q \in Processes : table'[q] \subseteq table[q]
      BY <1>p, <1>1, <1>4
    <3> QED
      BY <3>1 DEF LockInv, EntryIsCurrent
  <2> QED
    BY <2>1, <2>2 DEF EntryIsCurrent
<1>10. OwnersHold'
  <2>1. ASSUME NEW x \in Entries, NEW u \in Tasks
        PROVE  u \in owner'[x] <=> HasLocal(u)' /\ x \in using'[u]
    <3>1. CASE u = t
      BY <1>1, <1>3, <1>5, <3>1 DEF LockInv, OwnersHold, HasLocal
    <3>2. CASE u # t
      <4>1. u \in owner'[x] <=> u \in owner[x]
        BY <1>5, <3>2
      <4> QED
        BY <1>3, <3>2, <4>1 DEF LockInv, OwnersHold, HasLocal
    <3> QED
      BY <3>1, <3>2
  <2>2. \A x \in Entries : owner'[x] \subseteq owner[x]
    BY <1>5
  <2>3. database' = database /\ lost' = lost /\ degraded' = degraded
    BY DEF databaseVars
  <2>4. /\ \A u \in Tasks : u \in database' <=> at'[u] = "held" /\ ~degraded'[u] /\ u \notin lost'
        /\ \A u \in lost' : at'[u] = "held" /\ ~degraded'[u]
    BY <1>3, <2>3 DEF LockInv, LockTypeOK, OwnersHold
  <2>5. \A u \in Tasks : at'[u] \in {"connecting", "busy", "down", "unlocking"} => ~degraded'[u]
    BY <1>3, <2>3 DEF LockInv, OwnersHold
  <2> QED
    BY <2>1, <2>2, <2>3, <2>4, <2>5 DEF LockInv, OwnersHold
<1>11. NoEntryLeaks'
  <2> SUFFICES ASSUME NEW q \in Processes, table'[q] # {}
               PROVE  \E u \in Tasks : ProcessOf[u] = q /\ at'[u] # "idle" /\ using'[u] = table'[q]
    BY DEF NoEntryLeaks
  <2>1. CASE q # p
    <3>1. PICK u \in Tasks : ProcessOf[u] = q /\ at[u] # "idle" /\ using[u] = table[q]
      BY <1>4, <2>1 DEF LockInv, NoEntryLeaks
    <3> QED
      BY <1>3, <1>4, <2>1, <3>1 DEF p
  <2>2. CASE q = p
    <3>1. \E u \in Tasks : u # t /\ e \in using[u]
      <4>1. CASE users'[e] # 0
        <5>1. UsersOf(e)' # {}
          BY <1>2, <4>1, FS_EmptySet DEF UsersCounted
        <5> QED
          BY <1>3, <5>1 DEF UsersOf
      <4>2. CASE owner'[e] # {}
        <5>1. PICK u \in owner[e] : u # t
          BY <1>5, <4>2
        <5>2. u \in Tasks
          BY <5>1 DEF LockInv, LockTypeOK
        <5> QED
          BY <5>1, <5>2 DEF LockInv, OwnersHold
      <4> QED
        BY <1>4, <2>2, <4>1, <4>2
    <3>2. PICK u \in Tasks : u # t /\ e \in using[u]
      BY <3>1
    <3> QED
      BY <1>3, <1>7, <2>2, <3>2
  <2> QED
    BY <2>1, <2>2
<1> QED
  BY <1>2, <1>6, <1>9, <1>10, <1>11 DEF LockInv

LEMMA GiveUpLocalKeeps ==
  ASSUME LockInv, NEW t \in Tasks, GiveUpLocal(t)
  PROVE  LockInv'
<1>1. at[t] = "queued" /\ at' = [at EXCEPT ![t] = "idle"] /\ Drop(t)
  BY DEF GiveUpLocal, Moves
<1>2. t \notin database /\ t \notin lost
  BY <1>1 DEF LockInv, OwnersHold
<1> QED
  BY <1>1, <1>2, DropKeeps DEF GiveUpLocal

LEMMA BackOutKeeps ==
  ASSUME LockInv, NEW t \in Tasks, BackOut(t)
  PROVE  LockInv'
<1>1. PICK to \in {"idle", "retry"} : at' = [at EXCEPT ![t] = to]
  BY DEF BackOut, Moves
<1>2. t \notin database /\ t \notin lost
  BY DEF BackOut, Moves, LockInv, OwnersHold
<1> QED
  BY <1>1, <1>2, DropKeeps DEF BackOut

LEMMA ReleaseLocalKeeps ==
  ASSUME LockInv, NEW t \in Tasks, ReleaseLocal(t)
  PROVE  LockInv'
<1>1. at' = [at EXCEPT ![t] = "idle"]
  BY DEF ReleaseLocal, Moves
<1>2. t \notin database /\ t \notin lost
  BY DEF ReleaseLocal, Moves, LockInv, OwnersHold
<1> QED
  BY <1>1, <1>2, DropKeeps DEF ReleaseLocal

-----------------------------------------------------------------------------
(* Steps that leave the table alone *)

\* A task that has or gets the process's lock moves on, its entry stays.
LEMMA MoveKeeps ==
  ASSUME LockInv, NEW t \in Tasks, NEW from, NEW to \in TaskPhases \ {"idle", "retry"},
         Moves(t, from, to), from \notin {"idle", "retry"}, UNCHANGED <<table, users, using>>
  PROVE  UsersCounted' /\ EntryIsCurrent' /\ NoEntryLeaks' /\ at' \in [Tasks -> TaskPhases]
<1>1. at' \in [Tasks -> TaskPhases] /\ at'[t] = to
  BY DEF Moves, LockInv, LockTypeOK
<1>2. \A u \in Tasks : u # t => at'[u] = at[u]
  BY DEF Moves, LockInv, LockTypeOK
<1>3. UsersCounted'
  BY DEF LockInv, UsersCounted, UsersOf
<1>4. EntryIsCurrent'
  <2>1. at[t] \notin {"idle", "retry"} /\ at'[t] \notin {"idle", "retry"}
    BY <1>1 DEF Moves
  <2> QED
    BY <1>2, <2>1 DEF LockInv, EntryIsCurrent
<1>5. NoEntryLeaks'
  BY <1>1, <1>2 DEF LockInv, NoEntryLeaks
<1> QED
  BY <1>1, <1>3, <1>4, <1>5

LEMMA TakeLocalKeeps ==
  ASSUME LockInv, NEW t \in Tasks, TakeLocal(t)
  PROVE  LockInv'
<1> DEFINE to == IF degraded[t] THEN "held" ELSE "connecting"
<1>1. Moves(t, "queued", to) /\ to \in TaskPhases \ {"idle", "retry"}
      /\ UNCHANGED <<table, users, using, degraded, databaseVars>>
  BY DEF TakeLocal, TaskPhases
<1>2. PICK e \in using[t] : owner[e] = {} /\ owner' = [owner EXCEPT ![e] = {t}]
  BY DEF TakeLocal
<1>3. at[t] = "queued" /\ at'[t] = to /\ \A u \in Tasks : u # t => at'[u] = at[u]
  BY <1>1 DEF Moves, LockInv, LockTypeOK
<1>4. using[t] = {e} /\ e \in Entries
  BY <1>2, <1>3 DEF LockInv, EntryIsCurrent
<1>5. UsersCounted' /\ EntryIsCurrent' /\ NoEntryLeaks' /\ at' \in [Tasks -> TaskPhases]
  BY <1>1, MoveKeeps
<1>6. LockTypeOK'
  BY <1>1, <1>2, <1>4, <1>5 DEF LockInv, LockTypeOK, databaseVars
<1>7. OwnersHold'
  <2>1. owner'[e] = {t} /\ \A x \in Entries : x # e => owner'[x] = owner[x]
    BY <1>2, <1>4 DEF LockInv, LockTypeOK
  <2>2. ASSUME NEW x \in Entries, NEW u \in Tasks
        PROVE  u \in owner'[x] <=> HasLocal(u)' /\ x \in using'[u]
    <3>1. CASE u = t
      BY <1>1, <1>3, <1>4, <2>1, <3>1 DEF LockInv, OwnersHold, HasLocal
    <3>2. CASE u # t
      <4>1. u \in owner'[x] <=> u \in owner[x]
        BY <1>2, <2>1, <3>2
      <4> QED
        BY <1>1, <1>3, <3>2, <4>1 DEF LockInv, OwnersHold, HasLocal
    <3> QED
      BY <3>1, <3>2
  <2>3. \A x \in Entries : \A u, w \in owner'[x] : u = w
    BY <2>1 DEF LockInv, OwnersHold
  <2>4. database' = database /\ lost' = lost /\ degraded' = degraded
    BY <1>1 DEF databaseVars
  <2>5. /\ \A u \in Tasks : u \in database' <=> at'[u] = "held" /\ ~degraded'[u] /\ u \notin lost'
        /\ \A u \in lost' : at'[u] = "held" /\ ~degraded'[u]
    BY <1>3, <2>4 DEF LockInv, LockTypeOK, OwnersHold
  <2>6. \A u \in Tasks : at'[u] \in {"connecting", "busy", "down", "unlocking"} => ~degraded'[u]
    BY <1>3, <2>4 DEF LockInv, OwnersHold
  <2> QED
    BY <2>2, <2>3, <2>4, <2>5, <2>6 DEF LockInv, OwnersHold
<1> QED
  BY <1>5, <1>6, <1>7 DEF LockInv

LEMMA TakeDatabaseKeeps ==
  ASSUME LockInv, NEW t \in Tasks, TakeDatabase(t)
  PROVE  LockInv'
<1>1. /\ Moves(t, "connecting", "held") /\ database = {} /\ database' = {t}
      /\ UNCHANGED <<table, users, owner, using, degraded, lost, orphans, ghost>>
  BY DEF TakeDatabase, DatabaseFree, localVars
<1>2. at[t] = "connecting" /\ at'[t] = "held" /\ \A u \in Tasks : u # t => at'[u] = at[u]
  BY <1>1 DEF Moves, LockInv, LockTypeOK
<1>3. UsersCounted' /\ EntryIsCurrent' /\ NoEntryLeaks' /\ at' \in [Tasks -> TaskPhases]
  BY <1>1, MoveKeeps DEF TaskPhases
<1>4. LockTypeOK'
  BY <1>1, <1>3 DEF LockInv, LockTypeOK
<1>5. OwnersHold'
  BY <1>1, <1>2 DEF LockInv, LockTypeOK, OwnersHold, HasLocal
<1> QED
  BY <1>3, <1>4, <1>5 DEF LockInv

LEMMA ReleaseDatabaseKeeps ==
  ASSUME LockInv, NEW t \in Tasks, ReleaseDatabase(t)
  PROVE  LockInv'
<1>1. /\ ~degraded[t] /\ Moves(t, "held", "unlocking") /\ ghost' \in BOOLEAN
      /\ database' = database \ {t} /\ lost' = lost \ {t}
      /\ UNCHANGED <<table, users, owner, using, degraded, orphans>>
  BY DEF ReleaseDatabase, localVars, LockInv, LockTypeOK
<1>2. at[t] = "held" /\ at'[t] = "unlocking" /\ \A u \in Tasks : u # t => at'[u] = at[u]
  BY <1>1 DEF Moves, LockInv, LockTypeOK
<1>3. UsersCounted' /\ EntryIsCurrent' /\ NoEntryLeaks' /\ at' \in [Tasks -> TaskPhases]
  BY <1>1, MoveKeeps DEF TaskPhases
<1>4. LockTypeOK'
  BY <1>1, <1>3 DEF LockInv, LockTypeOK
<1>5. OwnersHold'
  BY <1>1, <1>2 DEF LockInv, LockTypeOK, OwnersHold, HasLocal
<1> QED
  BY <1>3, <1>4, <1>5 DEF LockInv

\* No lock from the database.
LEMMA RefusedKeeps ==
  ASSUME LockInv, NEW t \in Tasks, DatabaseBusy(t) \/ DatabaseDown(t)
  PROVE  LockInv'
<1>1. PICK to \in {"busy", "down"} : Moves(t, "connecting", to)
  BY DEF DatabaseBusy, DatabaseDown
<1>2. /\ UNCHANGED <<table, users, owner, using, degraded, database, lost, ghost>>
      /\ orphans' \in {orphans, orphans \cup {t}}
  BY DEF DatabaseBusy, DatabaseDown, localVars, databaseVars
<1>3. at[t] = "connecting" /\ at'[t] = to /\ \A u \in Tasks : u # t => at'[u] = at[u]
  BY <1>1 DEF Moves, LockInv, LockTypeOK
<1>4. UsersCounted' /\ EntryIsCurrent' /\ NoEntryLeaks' /\ at' \in [Tasks -> TaskPhases]
  BY <1>1, <1>2, MoveKeeps DEF TaskPhases
<1>5. LockTypeOK'
  BY <1>2, <1>4 DEF LockInv, LockTypeOK
<1>6. OwnersHold'
  BY <1>2, <1>3 DEF LockInv, LockTypeOK, OwnersHold, HasLocal
<1> QED
  BY <1>4, <1>5, <1>6 DEF LockInv

\* Sessions nobody uses any more.
LEMMA OrphansKeep ==
  ASSUME LockInv, (\E t \in Tasks : OrphanEnds(t)) \/ GhostEnds
  PROVE  LockInv'
<1>1. /\ UNCHANGED <<table, users, owner, using, at, degraded, database, lost>>
      /\ orphans' \in SUBSET orphans /\ ghost' \in {ghost, TRUE, FALSE}
  BY DEF OrphanEnds, GhostEnds, localVars
<1>2. LockTypeOK'
  BY <1>1 DEF LockInv, LockTypeOK
<1>3. UsersCounted' /\ EntryIsCurrent' /\ OwnersHold' /\ NoEntryLeaks'
  BY <1>1 DEF LockInv, UsersCounted, UsersOf, EntryIsCurrent, OwnersHold, HasLocal, NoEntryLeaks
<1> QED
  BY <1>2, <1>3 DEF LockInv

\* A session ends in the middle of a turn: its task is covered no longer.
LEMMA SessionEndsKeeps ==
  ASSUME LockInv, NEW t \in Tasks, SessionEnds(t)
  PROVE  LockInv'
<1>1. /\ t \in database /\ database' = database \ {t} /\ lost' = lost \cup {t}
      /\ UNCHANGED <<table, users, owner, using, at, degraded, orphans, ghost>>
  BY DEF SessionEnds, localVars
<1>2. LockTypeOK'
  BY <1>1 DEF LockInv, LockTypeOK
<1>3. UsersCounted' /\ EntryIsCurrent' /\ OwnersHold' /\ NoEntryLeaks'
  BY <1>1 DEF LockInv, UsersCounted, UsersOf, EntryIsCurrent, OwnersHold, HasLocal, NoEntryLeaks
<1> QED
  BY <1>2, <1>3 DEF LockInv

-----------------------------------------------------------------------------
(* A process dies *)

LEMMA ProcessDiesKeeps ==
  ASSUME LockInv, NEW p \in Processes, ProcessDies(p)
  PROVE  LockInv'
<1> DEFINE gone == {t \in Tasks : ProcessOf[t] = p}
<1>1. /\ table' = [table EXCEPT ![p] = {}]
      /\ users' = [e \in Entries |-> IF e \in table[p] THEN 0 ELSE users[e]]
      /\ owner' = [e \in Entries |-> owner[e] \ gone]
      /\ using' = [t \in Tasks |-> IF t \in gone THEN {} ELSE using[t]]
      /\ at' = [t \in Tasks |-> IF t \in gone THEN "idle" ELSE at[t]]
      /\ database' = database \ gone /\ orphans' = orphans \ gone /\ degraded' = degraded
      /\ lost' = lost \ gone
      /\ ghost' \in BOOLEAN
  BY DEF ProcessDies, LockInv, LockTypeOK
<1>2. LockTypeOK'
  BY <1>1 DEF LockInv, LockTypeOK, TaskPhases
<1>3. /\ \A u \in gone : at'[u] = "idle" /\ using'[u] = {}
      /\ \A u \in Tasks : u \notin gone => at'[u] = at[u] /\ using'[u] = using[u]
  BY <1>1
<1>4. \A u \in Tasks : u \in gone <=> ProcessOf[u] = p
  OBVIOUS
<1>5. table'[p] = {} /\ \A q \in Processes : q # p => table'[q] = table[q]
  BY <1>1 DEF LockInv, LockTypeOK
<1> HIDE DEF gone
<1>6. UsersCounted'
  <2> SUFFICES ASSUME NEW e \in Entries PROVE users'[e] = Cardinality(UsersOf(e)')
    BY DEF UsersCounted
  <2>1. CASE e \in table[p]
    <3>1. \A u \in Tasks : e \in using[u] => u \in gone
      BY <1>4, <2>1, UsersShareProcess DEF LockInv
    <3>2. UsersOf(e)' = {}
      BY <1>3, <3>1 DEF UsersOf
    <3> QED
      BY <1>1, <2>1, <3>2, FS_EmptySet
  <2>2. CASE e \notin table[p]
    <3>1. \A u \in Tasks : e \in using[u] => u \notin gone
      BY <1>4, <2>2, UsersShareProcess DEF LockInv
    <3>2. UsersOf(e)' = UsersOf(e)
      BY <1>3, <3>1 DEF UsersOf
    <3> QED
      BY <1>1, <2>2, <3>2 DEF LockInv, UsersCounted
  <2> QED
    BY <2>1, <2>2
<1>7. EntryIsCurrent'
  <2>1. ASSUME NEW u \in Tasks
        PROVE  IF at'[u] \in {"idle", "retry"} THEN using'[u] = {}
               ELSE using'[u] = table'[ProcessOf[u]] /\ \E x \in Entries : using'[u] = {x}
    <3>1. CASE u \in gone
      BY <1>3, <3>1
    <3>2. CASE u \notin gone
      <4>1. ProcessOf[u] \in Processes /\ ProcessOf[u] # p
        BY <1>4, <3>2, LockAssumption DEF LockAssumption
      <4> QED
        BY <1>3, <1>5, <3>2, <4>1 DEF LockInv, EntryIsCurrent
    <3> QED
      BY <3>1, <3>2
  <2>2. \A q, s \in Processes : q # s => table'[q] \cap table'[s] = {}
    BY <1>5 DEF LockInv, EntryIsCurrent
  <2> QED
    BY <2>1, <2>2 DEF EntryIsCurrent
<1>8. OwnersHold'
  <2>1. ASSUME NEW x \in Entries, NEW u \in Tasks
        PROVE  u \in owner'[x] <=> HasLocal(u)' /\ x \in using'[u]
    <3>1. owner'[x] = owner[x] \ gone
      BY <1>1
    <3> QED
      BY <1>3, <3>1 DEF LockInv, OwnersHold, HasLocal
  <2>2. \A x \in Entries : owner'[x] \subseteq owner[x]
    BY <1>1
  <2>3. /\ \A u \in Tasks : u \in database' <=> at'[u] = "held" /\ ~degraded'[u] /\ u \notin lost'
        /\ \A u \in lost' : at'[u] = "held" /\ ~degraded'[u]
    BY <1>1, <1>3 DEF LockInv, LockTypeOK, OwnersHold
  <2>4. \A u \in Tasks : at'[u] \in {"connecting", "busy", "down", "unlocking"} => ~degraded'[u]
    BY <1>1, <1>3 DEF LockInv, OwnersHold
  <2>5. database' \subseteq database
    BY <1>1
  <2> QED
    BY <2>1, <2>2, <2>3, <2>4, <2>5 DEF LockInv, OwnersHold
<1>9. NoEntryLeaks'
  <2> SUFFICES ASSUME NEW q \in Processes, table'[q] # {}
               PROVE  \E u \in Tasks : ProcessOf[u] = q /\ at'[u] # "idle" /\ using'[u] = table'[q]
    BY DEF NoEntryLeaks
  <2>1. q # p
    BY <1>5
  <2>2. PICK u \in Tasks : ProcessOf[u] = q /\ at[u] # "idle" /\ using[u] = table[q]
    BY <1>5, <2>1 DEF LockInv, NoEntryLeaks
  <2> QED
    BY <1>3, <1>4, <1>5, <2>1, <2>2
<1> QED
  BY <1>2, <1>6, <1>7, <1>8, <1>9 DEF LockInv

-----------------------------------------------------------------------------
(* The theorems *)

LEMMA LockStarts == LockInit => LockInv
<1> SUFFICES ASSUME LockInit PROVE LockInv
  OBVIOUS
<1>1. LockTypeOK
  BY DEF LockInit, LockTypeOK, TaskPhases
<1>2. UsersCounted
  <2>1. \A e \in Entries : UsersOf(e) = {}
    BY DEF LockInit, UsersOf
  <2> QED
    BY <2>1, FS_EmptySet DEF LockInit, UsersCounted
<1>3. EntryIsCurrent
  BY DEF LockInit, EntryIsCurrent
<1>4. OwnersHold
  BY DEF LockInit, OwnersHold, HasLocal
<1>5. NoEntryLeaks
  BY DEF LockInit, NoEntryLeaks
<1> QED
  BY <1>1, <1>2, <1>3, <1>4, <1>5 DEF LockInv

LEMMA LockKeeps == LockInv /\ [LockNext]_lockVars => LockInv'
<1> SUFFICES ASSUME LockInv, [LockNext]_lockVars PROVE LockInv'
  OBVIOUS
<1>1. ASSUME NEW t \in Tasks, LockStep(t) PROVE LockInv'
  BY <1>1, RegisterKeeps, TakeLocalKeeps, GiveUpLocalKeeps, TakeDatabaseKeeps, RefusedKeeps,
     BackOutKeeps, OrphansKeep, SessionEndsKeeps, ReleaseDatabaseKeeps, ReleaseLocalKeeps DEF LockStep
<1>2. CASE GhostEnds
  BY <1>2, OrphansKeep
<1>3. ASSUME NEW p \in Processes, ProcessDies(p) PROVE LockInv'
  BY <1>3, ProcessDiesKeeps
<1>4. CASE UNCHANGED lockVars
  <2>1. UNCHANGED <<table, users, owner, using, at, degraded, database, lost, orphans, ghost>>
    BY <1>4 DEF lockVars, localVars, databaseVars
  <2> QED
    BY <2>1 DEF LockInv, LockTypeOK, UsersCounted, UsersOf, EntryIsCurrent, OwnersHold, HasLocal,
       NoEntryLeaks
<1> QED
  BY <1>1, <1>2, <1>3, <1>4 DEF LockNext

\* The inductive invariant: counters are right, all tasks of a process use the
\* one entry in its table, owners are in the phases that have the lock, a turn has
\* the advisory lock unless it began without it or lost its session, and no entry
\* is left behind (_acquire_local, _release_local).
THEOREM LockInvariant == LockSpec => []LockInv
BY LockStarts, LockKeeps, PTL DEF LockSpec

\* Two tasks are in a turn of one conversation only in different processes, one
\* of them without the advisory lock: begun with the database down, or its session
\* ended meanwhile (acquire_conversation_lock, release_conversation_lock).
THEOREM TurnsAreSerialUnlessUncovered == LockSpec => []SerialUnlessUncovered
<1>1. LockInv => SerialUnlessUncovered
  <2> SUFFICES ASSUME LockInv, NEW t \in Tasks, NEW u \in Tasks,
                      at[t] = "held", at[u] = "held", t # u
               PROVE  ProcessOf[t] # ProcessOf[u] /\ (Uncovered(t) \/ Uncovered(u))
    BY DEF SerialUnlessUncovered
  <2>1. Uncovered(t) \/ Uncovered(u)
    BY DEF LockInv, OwnersHold, Uncovered
  <2>2. ASSUME ProcessOf[t] = ProcessOf[u] PROVE FALSE
    <3>1. PICK e \in Entries : using[t] = {e} /\ table[ProcessOf[t]] = {e}
      BY HasAnEntry DEF LockInv
    <3>2. using[u] = {e}
      BY <2>2, <3>1, HasAnEntry DEF LockInv
    <3>3. t \in owner[e] /\ u \in owner[e]
      BY <3>1, <3>2 DEF LockInv, OwnersHold, HasLocal
    <3> QED
      BY <3>3 DEF LockInv, OwnersHold
  <2> QED
    BY <2>1, <2>2
<1> QED
  BY <1>1, LockInvariant, PTL

=============================================================================
