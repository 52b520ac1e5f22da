-------------------------- MODULE ConversationLock --------------------------
(***************************************************************************)
(* The lock of one conversation, app/ops/conversation_lock.py: an asyncio  *)
(* lock per process, kept in a table of reference-counted entries, and     *)
(* under it a PostgreSQL advisory lock between processes.  When the        *)
(* database is down the webhook (app/http/brevo_webhook.py) goes on with   *)
(* the process's lock alone.  The advisory lock lasts as long as its       *)
(* session: an idle connection that nothing looks at before it is released,*)
(* so that a turn does not notice when the server ends it.                 *)
(*                                                                         *)
(* Conversations do not share entries, so one is enough.  A step is what a *)
(* task does without suspending: the guard of the table is never held      *)
(* across a suspension, so entering it never suspends.                     *)
(***************************************************************************)
EXTENDS Naturals, FiniteSets

CONSTANTS Tasks,      \* requests and cron runs that handle the conversation
          Processes,  \* instances of the server
          ProcessOf,
          FallsBack,  \* webhook requests: they do without the database
          Entries     \* _LocalLockEntry objects

ASSUME LockAssumption ==
  /\ IsFiniteSet(Tasks)
  /\ ProcessOf \in [Tasks -> Processes]
  /\ FallsBack \subseteq Tasks

\* busy, down: the database said no, the process's lock is still held;
\* retry: about to come back for the process's lock alone;
\* unlocking: the advisory lock is released, the process's lock is not.
TaskPhases == {"idle", "queued", "connecting", "busy", "down", "retry", "held", "unlocking"}

VARIABLES table,     \* _LOCAL_LOCKS of each process: its entry, if any
          users,     \* entry.users
          owner,     \* task that has entry.lock, if any
          using,     \* entry each task has got
          at,        \* where each task is
          degraded,  \* it asked for the process's lock alone
          database,  \* task whose session has the advisory lock, if any
          lost,      \* tasks in a turn whose session the server has ended
          orphans,   \* tasks that left a thread waiting for the advisory lock
          ghost      \* a session nobody uses has the advisory lock

localVars    == <<table, users, owner, using>>
databaseVars == <<database, lost, orphans, ghost>>
lockVars     == <<localVars, at, degraded, databaseVars>>

LockInit ==
  /\ table = [p \in Processes |-> {}]
  /\ users = [e \in Entries |-> 0]
  /\ owner = [e \in Entries |-> {}]
  /\ using = [t \in Tasks |-> {}]
  /\ at = [t \in Tasks |-> "idle"]
  /\ degraded = [t \in Tasks |-> FALSE]
  /\ database = {} /\ lost = {} /\ orphans = {} /\ ghost = FALSE

Moves(t, from, to) == at[t] = from /\ at' = [at EXCEPT ![t] = to]

-----------------------------------------------------------------------------
(* The process's lock *)

\* An object nobody refers to.
Fresh(e) == users[e] = 0 /\ owner[e] = {} /\ \A p \in Processes : e \notin table[p]

\* setdefault, and the reference is counted.
Register(t) ==
  LET p == ProcessOf[t] IN
  /\ at[t] \in {"idle", "retry"}
  /\ \E e \in Entries :
       /\ IF table[p] = {} THEN Fresh(e) ELSE e \in table[p]
       /\ table' = [table EXCEPT ![p] = {e}]
       /\ users' = [users EXCEPT ![e] = @ + 1]
       /\ using' = [using EXCEPT ![t] = {e}]
  /\ degraded' = [degraded EXCEPT ![t] = (at[t] = "retry")]
  /\ at' = [at EXCEPT ![t] = "queued"]
  /\ UNCHANGED <<owner, databaseVars>>

TakeLocal(t) ==
  /\ Moves(t, "queued", IF degraded[t] THEN "held" ELSE "connecting")
  /\ \E e \in using[t] :
       /\ owner[e] = {}
       /\ owner' = [owner EXCEPT ![e] = {t}]
  /\ UNCHANGED <<table, users, using, degraded, databaseVars>>

\* Variant: the entry goes as soon as nobody has its lock.
UnusedWhenFree(count, holder) == holder = {}

\* An entry leaves the table when nobody refers to it or has its lock.
Unused(count, holder) == count = 0 /\ holder = {}

\* The task gives its reference back, and the lock if it has it.
Drop(t) ==
  \E e \in using[t] :
    /\ owner' = [owner EXCEPT ![e] = @ \ {t}]
    /\ users' = [users EXCEPT ![e] = @ - 1]
    /\ table' = IF Unused(users'[e], owner'[e])
                  THEN [table EXCEPT ![ProcessOf[t]] = {}] ELSE table
    /\ using' = [using EXCEPT ![t] = {}]

\* The wait for the process's lock times out.
GiveUpLocal(t) ==
  /\ Moves(t, "queued", "idle")
  /\ Drop(t)
  /\ UNCHANGED <<degraded, databaseVars>>

-----------------------------------------------------------------------------
(* The advisory lock *)

DatabaseFree == database = {} /\ ~ghost

TakeDatabase(t) ==
  /\ Moves(t, "connecting", "held")
  /\ DatabaseFree /\ database' = {t}
  /\ UNCHANGED <<localVars, degraded, lost, orphans, ghost>>

\* lock_timeout, or wait_for gives up first and its thread waits on.
DatabaseBusy(t) ==
  /\ Moves(t, "connecting", "busy")
  /\ orphans' \in {orphans, orphans \cup {t}}
  /\ UNCHANGED <<localVars, degraded, database, lost, ghost>>

DatabaseDown(t) ==
  /\ Moves(t, "connecting", "down")
  /\ UNCHANGED <<localVars, degraded, databaseVars>>

\* A webhook that found the database down comes back without it.
BackOut(t) ==
  /\ \/ Moves(t, "busy", "idle")
     \/ Moves(t, "down", IF t \in FallsBack THEN "retry" ELSE "idle")
  /\ Drop(t)
  /\ UNCHANGED <<degraded, databaseVars>>

\* The thread gets the lock for nobody, or its lock_timeout passes.
OrphanEnds(t) ==
  /\ t \in orphans /\ orphans' = orphans \ {t}
  /\ \/ UNCHANGED ghost
     \/ DatabaseFree /\ ghost' = TRUE
  /\ UNCHANGED <<localVars, at, degraded, database, lost>>

\* Its connection is collected, or the server notices that it is gone.
GhostEnds ==
  /\ ghost /\ ghost' = FALSE
  /\ UNCHANGED <<localVars, at, degraded, database, lost, orphans>>

\* The server ends the session of a task in its turn: it restarts, fails over
\* or drops an idle connection.  The lock is free, and the task goes on.
SessionEnds(t) ==
  /\ t \in database /\ database' = database \ {t}
  /\ lost' = lost \cup {t}
  /\ UNCHANGED <<localVars, at, degraded, orphans, ghost>>

-----------------------------------------------------------------------------
(* The end of a turn *)

\* The unlock may not reach the server, which then ends the session later.  If
\* it did so before, the unlock fails, the failure is swallowed, and whoever has
\* the lock by now keeps it.
ReleaseDatabase(t) ==
  /\ ~degraded[t] /\ Moves(t, "held", "unlocking")
  /\ database' = database \ {t} /\ lost' = lost \ {t}
  /\ ghost' \in IF t \in database THEN BOOLEAN ELSE {ghost}
  /\ UNCHANGED <<localVars, degraded, orphans>>

ReleaseLocal(t) ==
  /\ \/ Moves(t, "unlocking", "idle")
     \/ degraded[t] /\ Moves(t, "held", "idle")
  /\ Drop(t)
  /\ UNCHANGED <<degraded, databaseVars>>

\* The process dies, and the server ends its sessions, now or later.
ProcessDies(p) ==
  LET gone == {t \in Tasks : ProcessOf[t] = p} IN
  /\ table' = [table EXCEPT ![p] = {}]
  /\ users' = [e \in Entries |-> IF e \in table[p] THEN 0 ELSE users[e]]
  /\ owner' = [e \in Entries |-> owner[e] \ gone]
  /\ using' = [t \in Tasks |-> IF t \in gone THEN {} ELSE using[t]]
  /\ at' = [t \in Tasks |-> IF t \in gone THEN "idle" ELSE at[t]]
  /\ database' = database \ gone
  /\ ghost' \in IF database \cap gone = {} THEN {ghost} ELSE BOOLEAN
  /\ lost' = lost \ gone
  /\ orphans' = orphans \ gone
  /\ UNCHANGED degraded

LockStep(t) ==
  \/ Register(t) \/ TakeLocal(t) \/ GiveUpLocal(t)
  \/ TakeDatabase(t) \/ DatabaseBusy(t) \/ DatabaseDown(t) \/ BackOut(t)
  \/ OrphanEnds(t) \/ SessionEnds(t) \/ ReleaseDatabase(t) \/ ReleaseLocal(t)

LockNext ==
  \/ \E t \in Tasks : LockStep(t)
  \/ GhostEnds
  \/ \E p \in Processes : ProcessDies(p)

LockSpec == LockInit /\ [][LockNext]_lockVars

-----------------------------------------------------------------------------
(* Properties *)

\* In the turn without the advisory lock: the database was down when it
\* began, or the server has ended its session since.
Uncovered(t) == degraded[t] \/ t \in lost

\* Two tasks are in a turn of the conversation at once only in different
\* processes, and only when one of them has no advisory lock for one of the two
\* reasons: however entries come and go, tasks time out, leave threads waiting or
\* die, a process never has two locks for one conversation, and no release takes
\* away a lock that another task has by now.
SerialUnlessUncovered ==
  \A t, u \in Tasks :
    at[t] = "held" /\ at[u] = "held" /\ t # u =>
      ProcessOf[t] # ProcessOf[u] /\ (Uncovered(t) \/ Uncovered(u))

\* The table keeps no entry that no task will take out again, whichever way the
\* tasks that counted themselves in came out.
NoEntryLeaks ==
  \A p \in Processes : table[p] # {} =>
    \E t \in Tasks : ProcessOf[t] = p /\ at[t] # "idle" /\ using[t] = table[p]

-----------------------------------------------------------------------------
(* The inductive invariant *)

UsersOf(e) == {t \in Tasks : e \in using[t]}

\* Phases in which a task has the process's lock.
HasLocal(t) == at[t] \in {"connecting", "busy", "down", "held", "unlocking"}

LockTypeOK ==
  /\ table \in [Processes -> SUBSET Entries]
  /\ users \in [Entries -> Nat]
  /\ owner \in [Entries -> SUBSET Tasks]
  /\ using \in [Tasks -> SUBSET Entries]
  /\ at \in [Tasks -> TaskPhases]
  /\ degraded \in [Tasks -> BOOLEAN]
  /\ database \in SUBSET Tasks
  /\ lost \in SUBSET Tasks
  /\ orphans \in SUBSET Tasks
  /\ ghost \in BOOLEAN

\* The count is right.
UsersCounted == \A e \in Entries : users[e] = Cardinality(UsersOf(e))

\* A task that is not idle uses the one entry its process has in the table, and
\* no two processes share one.
EntryIsCurrent ==
  /\ \A t \in Tasks :
       IF at[t] \in {"idle", "retry"}
         THEN using[t] = {}
         ELSE using[t] = table[ProcessOf[t]] /\ \E e \in Entries : using[t] = {e}
  /\ \A p, q \in Processes : p # q => table[p] \cap table[q] = {}

\* Who has the lock, and of what.
OwnersHold ==
  /\ \A e \in Entries, t \in Tasks : t \in owner[e] <=> HasLocal(t) /\ e \in using[t]
  /\ \A e \in Entries : \A t, u \in owner[e] : t = u
  /\ \A t \in Tasks : t \in database <=> at[t] = "held" /\ ~degraded[t] /\ t \notin lost
  /\ \A t \in lost : at[t] = "held" /\ ~degraded[t]
  /\ \A t, u \in database : t = u
  /\ \A t \in Tasks : at[t] \in {"connecting", "busy", "down", "unlocking"} => ~degraded[t]

LockInv ==
  /\ LockTypeOK
  /\ UsersCounted
  /\ EntryIsCurrent
  /\ OwnersHold
  /\ NoEntryLeaks

=============================================================================
