---------------------------- MODULE TrendWrites ----------------------------
(***************************************************************************)
(* Every transaction that writes one row of table "trends": the processing *)
(* pipeline applying evidence (TrendEngine.apply_evidence), the decay task *)
(* (apply_decay), operators and the pipeline recording compensating        *)
(* restatements (apply_compensating_restatement), operators activating a   *)
(* new state version (activate_trend_state) and operators editing other    *)
(* columns of the row (update_trend_mutation).                             *)
(*                                                                         *)
(* A session first loads the row into memory, unlocked, and works from     *)
(* that copy; its statements take PostgreSQL row locks that it keeps until *)
(* it commits or rolls back (READ COMMITTED).  The row of the trend's      *)
(* state version (trend_state_versions) is only written by a transaction   *)
(* that already holds the lock of the trend row, so its columns are kept   *)
(* here as components "start" and "mirror" of the trend row.               *)
(*                                                                         *)
(* aged is history: no code reads it.                                      *)
(***************************************************************************)
EXTENDS TrendDecay, Sequences

CONSTANTS
    Workers,      \* pipeline sessions applying evidence
    Decayers,     \* decay task sessions
    Restaters,    \* sessions recording compensating restatements
    Activators,   \* operator sessions activating a state version
    Renamers,     \* operator sessions updating other columns of the trend
    Deltas,       \* the log-odds deltas of evidence and restatements
    MaxTx,        \* bound: transactions begun
    MaxBatch,     \* bound: operations of one transaction
    MaxLine       \* bound: state versions ever activated

Session == Workers \cup Decayers \cup Restaters \cup Activators \cup Renamers
Lines == 1..MaxLine

ASSUME DeltasType == Deltas \subseteq Int
ASSUME BoundsType ==
    /\ MaxTx \in Nat /\ MaxBatch \in Nat
    /\ MaxLine \in Nat \ {0}

VARIABLES
    now,        \* the wall clock every host reads
    row,        \* the committed trend row
    image,      \* image[s]: the row as written by s, while s holds its write lock
    lock,       \* lock[s]: the lock s holds on the row
    tx,         \* tx[s]: the transaction of session s
    ledger,     \* committed rows of trend_evidence and trend_restatements
    begun,      \* transactions begun so far
    allocated   \* state versions ever inserted (ids are never reused)

vars == <<now, row, image, lock, tx, ledger, begun, allocated>>

-----------------------------------------------------------------------------
(* Types.                                                                  *)

Rows ==
    [lo     : Int,            \* trends.current_log_odds
     upd    : Times,          \* trends.updated_at
     line   : Lines,          \* trends.active_state_version_id
     start  : [Lines -> Int], \* trend_state_versions.starting_log_odds
     born   : [Lines -> Times], \* trend_state_versions.activated_at
     mirror : [Lines -> Int], \* trend_state_versions.current_log_odds
     aged   : Times]          \* history: the instant the value is decayed up to

(* One append-only row: evidence is stamped by the database with now() of  *)
(* the transaction, a restatement with its recorded_at.  effect is history *)
(* too: whether the delta was also added to the values.                    *)
Entries == [line : Lines, at : Times, delta : Int, effect : {"applied", "recorded"}]

Locks == {"none", "share", "write", "full"}
Pending == {"idle", "open", "evidence", "restatement", "activation", "ready"}

Txs ==
    [pc    : Pending,  \* the statement that comes next
     lo    : Int,      \* trend.current_log_odds in memory
     upd   : Times,    \* trend.updated_at in memory
     line  : Lines,    \* trend.active_state_version_id in memory
     since : Times,    \* now() of the transaction
     at    : Times,    \* applied_at, recorded_at, as_of or activated_at
     delta : Int,      \* the delta, compensation or starting value to write
     done  : Nat,      \* operations finished in this transaction
     rows  : Seq(Entries)] \* ledger rows it has inserted

FirstRow ==
    [lo |-> Baseline, upd |-> 0, line |-> 1,
     start |-> [v \in Lines |-> Baseline],
     born |-> [v \in Lines |-> 0],
     mirror |-> [v \in Lines |-> Baseline], aged |-> 0]

NoTx ==
    [pc |-> "idle", lo |-> Baseline, upd |-> 0, line |-> 1,
     since |-> 0, at |-> 0, delta |-> 0, done |-> 0, rows |-> <<>>]

Init ==
    /\ now = 0
    /\ row = FirstRow
    /\ image = [s \in Session |-> FirstRow]
    /\ lock = [s \in Session |-> "none"]
    /\ tx = [s \in Session |-> NoTx]
    /\ ledger = <<>>
    /\ begun = 0
    /\ allocated = 1

-----------------------------------------------------------------------------
(* PostgreSQL row locks.  A foreign-key check takes FOR KEY SHARE on the   *)
(* referenced row, an UPDATE takes FOR NO KEY UPDATE, or FOR UPDATE when   *)
(* it changes a unique column, and the decay task asks for FOR UPDATE.     *)
(* A statement waits until its lock is free.                               *)

Writing(s) == lock[s] \in {"write", "full"}
Others(s) == Session \ {s}

ShareFree(s) == \A t \in Others(s) : lock[t] # "full"
WriteFree(s) == \A t \in Others(s) : ~Writing(t)
AllFree(s) == \A t \in Others(s) : lock[t] = "none"

TakeShare(s) ==
    /\ ShareFree(s)
    /\ lock' = [lock EXCEPT ![s] = IF @ = "none" THEN "share" ELSE @]

TakeAll(s) ==
    /\ AllFree(s)
    /\ lock' = [lock EXCEPT ![s] = "full"]

(* Mutant of TakeWrite: the value is read FOR UPDATE before the update.    *)
MutTakeWrite(s) == TakeAll(s)

TakeWrite(s) ==
    /\ WriteFree(s)
    /\ lock' = [lock EXCEPT ![s] = IF @ = "full" THEN @ ELSE "write"]

(* A statement sees the latest committed row, or the row as its own        *)
(* transaction has written it.                                             *)
Current(s) == IF Writing(s) THEN image[s] ELSE row

-----------------------------------------------------------------------------
(* Transactions.                                                           *)

(* Open a session and load the trend. *)
Begin(s) ==
    /\ tx[s].pc = "idle"
    /\ begun < MaxTx
    /\ begun' = begun + 1
    /\ tx' = [tx EXCEPT ![s] =
                [pc |-> "open", lo |-> row.lo, upd |-> row.upd, line |-> row.line,
                 since |-> now, at |-> now, delta |-> 0, done |-> 0, rows |-> <<>>]]
    /\ UNCHANGED <<now, row, image, lock, ledger, allocated>>

(* Mutant of Increased: the version row is a copy of the trend row. *)
CopyIncreased(r, line, change, at) ==
    [r EXCEPT !.lo = r.lo + change, !.upd = at,
              !.mirror = [r.mirror EXCEPT ![line] = r.lo + change]]

(* UPDATE trends SET current_log_odds = current_log_odds + change,         *)
(* updated_at = at; the same change goes to the version row named in       *)
(* memory, and the new content back to memory.                             *)
Increased(r, line, change, at) ==
    [r EXCEPT !.lo = r.lo + change, !.upd = at,
              !.mirror = [r.mirror EXCEPT ![line] = @ + change]]

Finished(t, r) ==
    [t EXCEPT !.pc = "open", !.lo = r.lo, !.upd = r.upd, !.done = @ + 1]

(* Insert a row of the ledger, then write its delta d to the trend.        *)
Inserted(t, next, d, at, stamp) ==
    [t EXCEPT !.pc = next, !.delta = d, !.at = at,
              !.rows = Append(@, [line |-> t.line, at |-> stamp, delta |-> d,
                                  effect |-> "applied"])]

Recorded(t, line, d, stamp) ==
    [t EXCEPT !.done = t.done + 1,
              !.rows = Append(@, [line |-> line, at |-> stamp, delta |-> d,
                                  effect |-> "recorded"])]

(* Mutant of InsertEvidence: the evidence row has no foreign key. *)
FreeInsertEvidence(s) ==
    /\ s \in Workers
    /\ tx[s].pc = "open" /\ tx[s].done < MaxBatch
    /\ \E d \in Deltas :
         tx' = [tx EXCEPT ![s] = Inserted(@, "evidence", d, now, @.since)]
    /\ UNCHANGED <<now, row, image, lock, ledger, begun, allocated>>

(* Mutant of InsertEvidence: a clock ahead of the others. *)
AheadInsertEvidence(s) ==
    /\ s \in Workers
    /\ tx[s].pc = "open" /\ tx[s].done < MaxBatch
    /\ TakeShare(s)
    /\ \E d \in Deltas :
         tx' = [tx EXCEPT ![s] = Inserted(@, "evidence", d, now + 1, @.since)]
    /\ UNCHANGED <<now, row, image, ledger, begun, allocated>>

(* apply_evidence: insert the evidence row (its foreign key locks the      *)
(* trend row), then read the clock.                                        *)
InsertEvidence(s) ==
    /\ s \in Workers
    /\ tx[s].pc = "open" /\ tx[s].done < MaxBatch
    /\ TakeShare(s)
    /\ \E d \in Deltas :
         tx' = [tx EXCEPT ![s] = Inserted(@, "evidence", d, now, @.since)]
    /\ UNCHANGED <<now, row, image, ledger, begun, allocated>>

(* ... then add its delta atomically; the value is not decayed first. *)
AddEvidence(s) ==
    /\ tx[s].pc = "evidence"
    /\ TakeWrite(s)
    /\ LET r == Increased(Current(s), tx[s].line, tx[s].delta, tx[s].at) IN
         /\ image' = [image EXCEPT ![s] = r]
         /\ tx' = [tx EXCEPT ![s] = Finished(@, r)]
    /\ UNCHANGED <<now, row, ledger, begun, allocated>>

(* The row decayed to the value lo, as of the instant at. *)
Aged(r, line, lo, at) ==
    [r EXCEPT !.lo = lo, !.upd = at, !.aged = IF @ < at THEN at ELSE @,
              !.mirror = [@ EXCEPT ![line] = lo]]

(* Mutant of DecayRow: the value in memory is decayed, not the locked one. *)
StaleDecayRow(s) ==
    /\ s \in Decayers
    /\ tx[s].pc = "open"
    /\ TakeAll(s)
    /\ LET new == Decayed(tx[s].lo, tx[s].upd, tx[s].at) IN
         image' = [image EXCEPT ![s] =
                     IF tx[s].at <= tx[s].upd
                     THEN Current(s)
                     ELSE Aged(Current(s), tx[s].line, new, tx[s].at)]
    /\ tx' = [tx EXCEPT ![s].pc = "ready"]
    /\ UNCHANGED <<now, row, ledger, begun, allocated>>

(* apply_decay: lock the row, decay the locked value up to as_of (the      *)
(* clock as read when the task started), write it to the trend and to the  *)
(* version row named in memory.                                            *)
DecayRow(s) ==
    /\ s \in Decayers
    /\ tx[s].pc = "open"
    /\ TakeAll(s)
    /\ LET cur == Current(s)
           new == Decayed(cur.lo, cur.upd, tx[s].at) IN
         image' = [image EXCEPT ![s] =
                     IF tx[s].at <= cur.upd
                     THEN cur
                     ELSE Aged(cur, tx[s].line, new, tx[s].at)]
    /\ tx' = [tx EXCEPT ![s].pc = "ready"]
    /\ UNCHANGED <<now, row, ledger, begun, allocated>>

(* apply_compensating_restatement: insert the restatement row, recorded    *)
(* at an instant read some time since the transaction began.               *)
InsertRestatement(s) ==
    /\ s \in Restaters
    /\ tx[s].pc = "open" /\ tx[s].done < MaxBatch
    /\ TakeShare(s)
    /\ \E c \in Deltas, t \in tx[s].since..now :
         tx' = [tx EXCEPT ![s] = Inserted(@, "restatement", c, t, t)]
    /\ UNCHANGED <<now, row, image, ledger, begun, allocated>>

(* Evidence that belongs to another version than the one in memory as the  *)
(* active one is restated in the ledger only.                              *)
RecordRestatement(s) ==
    /\ s \in Restaters
    /\ tx[s].pc = "open" /\ tx[s].done < MaxBatch
    /\ TakeShare(s)
    /\ \E c \in Deltas, t \in tx[s].since..now, v \in {ledger[i].line : i \in DOMAIN ledger} :
         /\ v # tx[s].line
         /\ tx' = [tx EXCEPT ![s] = Recorded(@, v, c, t)]
    /\ UNCHANGED <<now, row, image, ledger, begun, allocated>>

(* ... then add the compensation and the decay of the value in memory.     *)
(* Memory is refreshed only when the sum is not zero.                      *)
AddRestatement(s) ==
    /\ tx[s].pc = "restatement"
    /\ TakeWrite(s)
    /\ LET t == tx[s]
           total == (Decayed(t.lo, t.upd, t.at) - t.lo) + t.delta
           r == [Increased(Current(s), t.line, total, t.at)
                   EXCEPT !.aged = IF t.upd < t.at /\ @ < t.at THEN t.at ELSE @] IN
         /\ image' = [image EXCEPT ![s] = r]
         /\ tx' = [tx EXCEPT ![s] = IF total = 0
                                    THEN [t EXCEPT !.pc = "open", !.done = @ + 1]
                                    ELSE Finished(t, r)]
    /\ UNCHANGED <<now, row, ledger, begun, allocated>>

(* activate_trend_state: insert a version row that starts at the baseline  *)
(* ("replay", "new_line") or at the value in memory ("rebase").            *)
InsertVersion(s) ==
    /\ s \in Activators
    /\ tx[s].pc = "open"
    /\ allocated < MaxLine
    /\ TakeShare(s)
    /\ allocated' = allocated + 1
    /\ \E start \in {Baseline, tx[s].lo}, t \in tx[s].since..now :
         tx' = [tx EXCEPT ![s] = [@ EXCEPT !.pc = "activation", !.delta = start,
                                           !.at = t, !.line = allocated + 1]]
    /\ UNCHANGED <<now, row, image, ledger, begun>>

(* The row once version t.line is active and its live value is lo. *)
Activated(r, t, lo) ==
    [r EXCEPT !.lo = lo, !.upd = t.at, !.line = t.line,
              !.start = [@ EXCEPT ![t.line] = t.delta],
              !.born = [@ EXCEPT ![t.line] = t.at],
              !.mirror = [@ EXCEPT ![t.line] = t.delta]]

(* ... then flush the assigned columns.  The mapper leaves out a column    *)
(* whose assigned value compares equal to the loaded one.                  *)
FlushActivation(s) ==
    /\ tx[s].pc = "activation"
    /\ TakeWrite(s)
    /\ LET t == tx[s]
           cur == Current(s) IN
         \E lo \in {t.delta} \cup (IF t.delta = t.lo THEN {cur.lo} ELSE {}) :
           image' = [image EXCEPT ![s] = Activated(cur, t, lo)]
    /\ tx' = [tx EXCEPT ![s].pc = "ready"]
    /\ UNCHANGED <<now, row, ledger, begun, allocated>>

(* update_trend_mutation on columns outside the live state: the mapper's   *)
(* onupdate stamps updated_at with now() of the transaction.  A change of  *)
(* one of the unique columns, name and runtime_trend_id, takes FOR UPDATE. *)
Rename(s) ==
    /\ s \in Renamers
    /\ tx[s].pc = "open"
    /\ TakeWrite(s) \/ TakeAll(s)
    /\ image' = [image EXCEPT ![s] = [Current(s) EXCEPT !.upd = tx[s].since]]
    /\ tx' = [tx EXCEPT ![s].pc = "ready"]
    /\ UNCHANGED <<now, row, ledger, begun, allocated>>

(* Commit publishes what was written and releases the locks. *)
Commit(s) ==
    /\ tx[s].pc \in {"open", "ready"}
    /\ row' = Current(s)
    /\ ledger' = ledger \o tx[s].rows
    /\ lock' = [lock EXCEPT ![s] = "none"]
    /\ image' = [image EXCEPT ![s] = FirstRow]
    /\ tx' = [tx EXCEPT ![s] = NoTx]
    /\ UNCHANGED <<now, begun, allocated>>

(* An exception, a crash of the worker or a lost connection. *)
Rollback(s) ==
    /\ tx[s].pc # "idle"
    /\ lock' = [lock EXCEPT ![s] = "none"]
    /\ image' = [image EXCEPT ![s] = FirstRow]
    /\ tx' = [tx EXCEPT ![s] = NoTx]
    /\ UNCHANGED <<now, row, ledger, begun, allocated>>

Tick ==
    /\ now < MaxTime
    /\ now' = now + 1
    /\ UNCHANGED <<row, image, lock, tx, ledger, begun, allocated>>

(* The end of a bounded run. *)
Quiet ==
    /\ begun = MaxTx /\ now = MaxTime
    /\ \A s \in Session : tx[s].pc = "idle"
    /\ UNCHANGED vars

Step(s) ==
    \/ InsertEvidence(s) \/ AddEvidence(s)
    \/ DecayRow(s)
    \/ InsertRestatement(s) \/ AddRestatement(s) \/ RecordRestatement(s)
    \/ InsertVersion(s) \/ FlushActivation(s)
    \/ Rename(s)
    \/ Commit(s)

Next ==
    \/ \E s \in Session : Begin(s) \/ Step(s) \/ Rollback(s)
    \/ Tick
    \/ Quiet

Spec == Init /\ [][Next]_vars

(* A session keeps executing its statements, and PostgreSQL hands a lock   *)
(* to its waiters in turn; nothing obliges a session to begin, to fail, or *)
(* the clock to advance.                                                   *)
Fairness == \A s \in Session : SF_vars(Step(s))

FairSpec == Spec /\ Fairness

-----------------------------------------------------------------------------
(* Properties.                                                             *)

(* Every variable has its type. *)
TypeOK ==
    /\ now \in Times
    /\ row \in Rows
    /\ image \in [Session -> Rows]
    /\ lock \in [Session -> Locks]
    /\ tx \in [Session -> Txs]
    /\ ledger \in Seq(Entries)
    /\ begun \in 0..MaxTx
    /\ allocated \in Lines

(* The decay clock never falls behind the value: no committed write stamps *)
(* the row with an instant the value has already been decayed past, so the *)
(* next decay cannot decay the same period a second time.  The clock is    *)
(* read in one statement and written in another, with lock waits between.  *)
DecayedOnce == row.aged <= row.upd

(* The writes of concurrent transactions amount to the same operations run *)
(* one transaction after the other, each on the content its predecessors   *)
(* left: no delta is lost, none is applied to a stale value, and decay and *)
(* increments do not interleave inside one another.                        *)
Serial == INSTANCE SerialTrend
            WITH Start    <- [lo |-> Baseline, upd |-> 0],
                 value    <- [lo |-> row.lo, upd |-> row.upd],
                 drafting <- {s \in Session : Writing(s)},
                 draft    <- [s \in Session |->
                                [lo |-> image[s].lo, upd |-> image[s].upd]]

SerialSpec == Serial!SSpec

(* No set of transactions waits for itself: each one begun reaches its     *)
(* commit, although evidence upgrades the key-share lock of its foreign    *)
(* key to a write lock while other sessions hold the same share.           *)
TransactionsEnd == \A s \in Session : tx[s].pc # "idle" ~> tx[s].pc = "idle"
=============================================================================
