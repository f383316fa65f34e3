------------------------- MODULE TrendWritesProofs -------------------------
(***************************************************************************)
(* Proofs about TrendWrites for every set of sessions, every set of        *)
(* deltas, every decay curve and every bound.                              *)
(***************************************************************************)
EXTENDS TrendWrites, TLAPS

(* The decayed value is a log-odds value again. *)
LEMMA DecayedInt ==
    ASSUME NEW lo \in Int, NEW from \in Times, NEW to \in Times
    PROVE  Decayed(lo, from, to) \in Int
<1>1. CASE to <= from
  BY <1>1 DEF Decayed
<1>2. CASE ~(to <= from)
  <2>1. to - from \in Times
    BY <1>2, DecayType DEF Times
  <2>2. Left[to - from] \in Int
    BY <2>1, DecayType
  <2>3. (lo - Baseline) * Left[to - from] \in Int
    BY <2>2, DecayType
  <2>4. ((lo - Baseline) * Left[to - from]) \div Scale \in Int
    BY <2>3, DecayType
  <2> QED
    BY <1>2, <2>4, DecayType DEF Decayed
<1> QED
  BY <1>1, <1>2

(* What a session sees of the row is a row. *)
LEMMA CurrentRow ==
    ASSUME TypeOK, NEW s \in Session
    PROVE  Current(s) \in Rows
BY DEF TypeOK, Current

(* A committed ledger row names a version. *)
LEMMA LedgerLine ==
    ASSUME TypeOK, NEW v \in {ledger[i].line : i \in DOMAIN ledger}
    PROVE  v \in Lines
<1>1. ledger \in Seq(Entries)
  BY DEF TypeOK
<1>2. PICK i \in DOMAIN ledger : v = ledger[i].line
  OBVIOUS
<1>3. ledger[i] \in Entries
  BY <1>1, <1>2
<1> QED
  BY <1>2, <1>3 DEF Entries

(* An atomic increment keeps the row a row, and moves both copies of the   *)
(* live value by the same amount.                                          *)
LEMMA IncreasedRow ==
    ASSUME NEW r \in Rows, NEW line \in Lines, NEW change \in Int, NEW at \in Times
    PROVE  /\ Increased(r, line, change, at) \in Rows
           /\ Increased(r, line, change, at).lo = r.lo + change
           /\ Increased(r, line, change, at).upd = at
           /\ Increased(r, line, change, at).line = r.line
           /\ Increased(r, line, change, at).aged = r.aged
           /\ Increased(r, line, change, at).mirror[line] = r.mirror[line] + change
<1> DEFINE m == [r.mirror EXCEPT ![line] = @ + change]
           l == r.lo + change
<1>1. m \in [Lines -> Int] /\ l \in Int
  BY DEF Rows
<1>2. Increased(r, line, change, at) = [r EXCEPT !.lo = l, !.upd = at, !.mirror = m]
  BY DEF Increased
<1>4. m[line] = r.mirror[line] + change
  BY DEF Rows
<1> HIDE DEF m, l
<1>3. /\ [r EXCEPT !.lo = l, !.upd = at, !.mirror = m] \in Rows
      /\ [r EXCEPT !.lo = l, !.upd = at, !.mirror = m].lo = l
      /\ [r EXCEPT !.lo = l, !.upd = at, !.mirror = m].upd = at
      /\ [r EXCEPT !.lo = l, !.upd = at, !.mirror = m].line = r.line
      /\ [r EXCEPT !.lo = l, !.upd = at, !.mirror = m].aged = r.aged
      /\ [r EXCEPT !.lo = l, !.upd = at, !.mirror = m].mirror = m
  BY <1>1 DEF Rows
<1> QED
  BY <1>2, <1>3, <1>4 DEF l

(* A decayed row is a row whose two copies of the live value are equal on  *)
(* the line that was decayed.                                              *)
LEMMA AgedRow ==
    ASSUME NEW r \in Rows, NEW line \in Lines, NEW lo \in Int, NEW at \in Times
    PROVE  /\ Aged(r, line, lo, at) \in Rows
           /\ Aged(r, line, lo, at).lo = lo
           /\ Aged(r, line, lo, at).upd = at
           /\ Aged(r, line, lo, at).line = r.line
           /\ Aged(r, line, lo, at).aged = IF r.aged < at THEN at ELSE r.aged
           /\ Aged(r, line, lo, at).mirror[line] = lo
<1> DEFINE m == [r.mirror EXCEPT ![line] = lo]
           a == IF r.aged < at THEN at ELSE r.aged
           q == [r EXCEPT !.lo = lo, !.upd = at, !.aged = a, !.mirror = m]
<1>1. m \in [Lines -> Int] /\ a \in Times
  BY DEF Rows
<1>2. Aged(r, line, lo, at) = q
  BY DEF Aged, Rows
<1>4. m[line] = lo
  BY DEF Rows
<1> HIDE DEF m, a
<1>3. /\ q \in Rows
      /\ q.lo = lo /\ q.upd = at /\ q.line = r.line /\ q.aged = a /\ q.mirror = m
  BY <1>1 DEF Rows
<1> QED
  BY <1>2, <1>3, <1>4 DEF a

(* An activated row is a row. *)
LEMMA ActivatedRow ==
    ASSUME NEW r \in Rows, NEW t \in Txs, NEW lo \in Int
    PROVE  Activated(r, t, lo) \in Rows
<1> DEFINE b == [r.start EXCEPT ![t.line] = t.delta]
           c == [r.born EXCEPT ![t.line] = t.at]
           m == [r.mirror EXCEPT ![t.line] = t.delta]
           at == t.at
           line == t.line
           q == [r EXCEPT !.lo = lo, !.upd = at, !.line = line,
                          !.start = b, !.born = c, !.mirror = m]
<1>1. /\ b \in [Lines -> Int] /\ c \in [Lines -> Times] /\ m \in [Lines -> Int]
      /\ at \in Times /\ line \in Lines
  BY DEF Rows, Txs
<1>2. Activated(r, t, lo) = q
  BY DEF Activated, Rows
<1> HIDE DEF b, c, m, at, line
<1>3. q \in Rows
  BY <1>1 DEF Rows
<1> QED
  BY <1>2, <1>3

(* What an inserted ledger row leaves in the transaction. *)
LEMMA InsertedTx ==
    ASSUME NEW t \in Txs, NEW next \in Pending, NEW d \in Int,
           NEW at \in Times, NEW stamp \in Times
    PROVE  /\ Inserted(t, next, d, at, stamp) \in Txs
           /\ Inserted(t, next, d, at, stamp).pc = next
           /\ Inserted(t, next, d, at, stamp).at = at
           /\ Inserted(t, next, d, at, stamp).line = t.line
           /\ Inserted(t, next, d, at, stamp).delta = d
<1> DEFINE e == [line |-> t.line, at |-> stamp, delta |-> d, effect |-> "applied"]
           q == Append(t.rows, e)
           u == [t EXCEPT !.pc = next, !.delta = d, !.at = at, !.rows = q]
<1>1. e \in Entries
  BY DEF Txs, Entries
<1>2. q \in Seq(Entries)
  BY <1>1 DEF Txs
<1>3. Inserted(t, next, d, at, stamp) = u
  BY DEF Inserted, Txs
<1> HIDE DEF q
<1>4. u \in Txs /\ u.pc = next /\ u.at = at /\ u.line = t.line /\ u.delta = d
  BY <1>2 DEF Txs
<1> QED
  BY <1>3, <1>4

(* What a restatement of a retired version leaves in the transaction. *)
LEMMA RecordedTx ==
    ASSUME NEW t \in Txs, NEW line \in Lines, NEW d \in Int, NEW stamp \in Times
    PROVE  /\ Recorded(t, line, d, stamp) \in Txs
           /\ Recorded(t, line, d, stamp).pc = t.pc
           /\ Recorded(t, line, d, stamp).line = t.line
<1> DEFINE e == [line |-> line, at |-> stamp, delta |-> d, effect |-> "recorded"]
           q == Append(t.rows, e)
           n == t.done + 1
           u == [t EXCEPT !.done = n, !.rows = q]
<1>1. e \in Entries
  BY DEF Entries
<1>2. q \in Seq(Entries) /\ n \in Nat
  BY <1>1 DEF Txs
<1>3. Recorded(t, line, d, stamp) = u
  BY DEF Recorded, Txs
<1> HIDE DEF q, n
<1>4. u \in Txs /\ u.pc = t.pc /\ u.line = t.line
  BY <1>2 DEF Txs
<1> QED
  BY <1>3, <1>4

(* What a finished operation leaves in the transaction. *)
LEMMA FinishedTx ==
    ASSUME NEW t \in Txs, NEW r \in Rows
    PROVE  /\ Finished(t, r) \in Txs
           /\ Finished(t, r).pc = "open"
           /\ Finished(t, r).line = t.line
           /\ Finished(t, r).at = t.at
<1> DEFINE l == r.lo
           u == r.upd
           n == t.done + 1
           q == [t EXCEPT !.pc = "open", !.lo = l, !.upd = u, !.done = n]
<1>1. l \in Int /\ u \in Times /\ n \in Nat
  BY DEF Rows, Txs
<1>2. Finished(t, r) = q
  BY DEF Finished, Txs
<1> HIDE DEF l, u, n
<1>3. q \in Txs /\ q.pc = "open" /\ q.line = t.line /\ q.at = t.at
  BY <1>1 DEF Txs, Pending
<1> QED
  BY <1>2, <1>3

-----------------------------------------------------------------------------
(* Type correctness. *)

(* The initial state is well typed. *)
LEMMA InitType == Init => TypeOK
<1> SUFFICES ASSUME Init PROVE TypeOK
  OBVIOUS
<1>1. /\ 0 \in Times /\ 1 \in Lines /\ Baseline \in Int
      /\ now \in Times /\ begun \in 0..MaxTx /\ allocated \in Lines
  BY DecayType, BoundsType DEF Init, Times, Lines
<1>2. FirstRow \in Rows
  BY <1>1 DEF FirstRow, Rows
<1>3. NoTx \in Txs
  BY <1>1 DEF NoTx, Txs, Pending
<1> QED
  BY <1>1, <1>2, <1>3 DEF Init, TypeOK, Locks

(* Every step keeps the types, action by action. *)
LEMMA NextType == TypeOK /\ [Next]_vars => TypeOK'
<1> SUFFICES ASSUME TypeOK, [Next]_vars
             PROVE  TypeOK'
  OBVIOUS
<1> USE DEF TypeOK
<1>0. /\ 0 \in Times /\ 1 \in Lines /\ Baseline \in Int
      /\ FirstRow \in Rows /\ NoTx \in Txs
  BY DecayType, BoundsType DEF Times, Lines, FirstRow, Rows, NoTx, Txs, Pending
<1>1. ASSUME NEW s \in Session, Begin(s)
      PROVE  TypeOK'
  <2>1. begun' \in 0..MaxTx
    BY <1>1, BoundsType DEF Begin
  <2>2. tx' \in [Session -> Txs]
    BY <1>1 DEF Begin, Txs, Rows, Pending
  <2> QED
    BY <1>1, <2>1, <2>2 DEF Begin
<1>2. ASSUME NEW s \in Session, InsertEvidence(s)
      PROVE  TypeOK'
  <2>1. lock' \in [Session -> Locks]
    BY <1>2 DEF InsertEvidence, TakeShare, Locks
  <2>2. PICK d \in Deltas :
          tx' = [tx EXCEPT ![s] = Inserted(tx[s], "evidence", d, now, tx[s].since)]
    BY <1>2 DEF InsertEvidence
  <2>3. tx[s].since \in Times /\ "evidence" \in Pending /\ d \in Int
    BY DeltasType DEF Txs, Pending
  <2>4. tx' \in [Session -> Txs]
    BY <2>2, <2>3, InsertedTx
  <2> QED
    BY <1>2, <2>1, <2>4 DEF InsertEvidence
<1>3. ASSUME NEW s \in Session, AddEvidence(s)
      PROVE  TypeOK'
  <2>1. lock' \in [Session -> Locks]
    BY <1>3 DEF AddEvidence, TakeWrite, Locks
  <2> DEFINE r == Increased(Current(s), tx[s].line, tx[s].delta, tx[s].at)
  <2>2. r \in Rows
    BY CurrentRow, IncreasedRow DEF Txs
  <2>3. Finished(tx[s], r) \in Txs
    BY <2>2, FinishedTx
  <2> QED
    BY <1>3, <2>1, <2>2, <2>3 DEF AddEvidence
<1>4. ASSUME NEW s \in Session, DecayRow(s)
      PROVE  TypeOK'
  <2>1. lock' \in [Session -> Locks]
    BY <1>4 DEF DecayRow, TakeAll, Locks
  <2>2. Current(s) \in Rows
    BY CurrentRow
  <2>3. Decayed(Current(s).lo, Current(s).upd, tx[s].at) \in Int
    BY <2>2, DecayedInt DEF Rows, Txs
  <2> DEFINE new == Decayed(Current(s).lo, Current(s).upd, tx[s].at)
  <2>6. Aged(Current(s), tx[s].line, new, tx[s].at) \in Rows
    BY <2>2, <2>3, AgedRow DEF Txs
  <2>4. image' \in [Session -> Rows]
    BY <1>4, <2>2, <2>6 DEF DecayRow
  <2>7. [tx[s] EXCEPT !.pc = "ready"] \in Txs
    BY DEF Txs, Pending
  <2>8. tx' = [tx EXCEPT ![s] = [tx[s] EXCEPT !.pc = "ready"]]
    BY <1>4 DEF DecayRow
  <2>5. tx' \in [Session -> Txs]
    BY <2>7, <2>8
  <2> QED
    BY <1>4, <2>1, <2>4, <2>5 DEF DecayRow
<1>5. ASSUME NEW s \in Session, InsertRestatement(s)
      PROVE  TypeOK'
  <2>1. lock' \in [Session -> Locks]
    BY <1>5 DEF InsertRestatement, TakeShare, Locks
  <2>2. PICK c \in Deltas, t \in tx[s].since..now :
          tx' = [tx EXCEPT ![s] = Inserted(tx[s], "restatement", c, t, t)]
    BY <1>5 DEF InsertRestatement
  <2>3. tx[s].since \in Times /\ "restatement" \in Pending /\ c \in Int
    BY DeltasType DEF Txs, Pending
  <2>4. t \in Times
    BY <2>3, DecayType DEF Times
  <2>5. tx' \in [Session -> Txs]
    BY <2>2, <2>3, <2>4, InsertedTx
  <2> QED
    BY <1>5, <2>1, <2>5 DEF InsertRestatement
<1>14. ASSUME NEW s \in Session, RecordRestatement(s)
       PROVE  TypeOK'
  <2>1. lock' \in [Session -> Locks]
    BY <1>14 DEF RecordRestatement, TakeShare, Locks
  <2>2. PICK c \in Deltas, t \in tx[s].since..now,
             v \in {ledger[i].line : i \in DOMAIN ledger} :
          tx' = [tx EXCEPT ![s] = Recorded(tx[s], v, c, t)]
    BY <1>14 DEF RecordRestatement
  <2>3. tx[s].since \in Times /\ tx[s] \in Txs /\ c \in Int
    BY DeltasType DEF Txs
  <2>4. t \in Times
    BY <2>3, DecayType DEF Times
  <2>5. v \in Lines
    BY LedgerLine
  <2>6. tx' \in [Session -> Txs]
    BY <2>2, <2>3, <2>4, <2>5, RecordedTx
  <2> QED
    BY <1>14, <2>1, <2>6 DEF RecordRestatement
<1>6. ASSUME NEW s \in Session, AddRestatement(s)
      PROVE  TypeOK'
  <2>1. lock' \in [Session -> Locks]
    BY <1>6 DEF AddRestatement, TakeWrite, Locks
  <2> DEFINE t == tx[s]
             total == (Decayed(t.lo, t.upd, t.at) - t.lo) + t.delta
             q == Increased(Current(s), t.line, total, t.at)
             r == [q EXCEPT !.aged = IF t.upd < t.at /\ @ < t.at THEN t.at ELSE @]
  <2>2. t \in Txs
    OBVIOUS
  <2>3. total \in Int
    <3>1. Decayed(t.lo, t.upd, t.at) \in Int
      BY <2>2, DecayedInt DEF Txs
    <3> QED
      BY <2>2, <3>1 DEF Txs
  <2>4. q \in Rows
    <3> HIDE DEF total
    <3> QED
      BY <2>2, <2>3, CurrentRow, IncreasedRow DEF Txs
  <2>5. r \in Rows
    <3> HIDE DEF q
    <3> QED
      BY <2>2, <2>4 DEF Rows, Txs
  <2>6. Finished(t, r) \in Txs /\ [t EXCEPT !.pc = "open", !.done = @ + 1] \in Txs
    <3> HIDE DEF r
    <3>1. t.done + 1 \in Nat
      BY <2>2 DEF Txs
    <3> QED
      BY <2>2, <2>5, <3>1, FinishedTx DEF Txs, Pending
  <2>7. /\ image' = [image EXCEPT ![s] = r]
        /\ tx' = [tx EXCEPT ![s] = IF total = 0
                                    THEN [t EXCEPT !.pc = "open", !.done = @ + 1]
                                    ELSE Finished(t, r)]
        /\ UNCHANGED <<now, row, ledger, begun, allocated>>
    BY <1>6 DEF AddRestatement
  <2> HIDE DEF r, t, total, q
  <2> QED
    BY <2>1, <2>5, <2>6, <2>7
<1>7. ASSUME NEW s \in Session, InsertVersion(s)
      PROVE  TypeOK'
  <2>1. lock' \in [Session -> Locks]
    BY <1>7 DEF InsertVersion, TakeShare, Locks
  <2>2. allocated' \in Lines /\ allocated + 1 \in Lines
    BY <1>7, BoundsType DEF InsertVersion, Lines
  <2>3. PICK start \in {Baseline, tx[s].lo}, t \in tx[s].since..now :
          tx' = [tx EXCEPT ![s] = [tx[s] EXCEPT !.pc = "activation", !.delta = start,
                                                !.at = t, !.line = allocated + 1]]
    BY <1>7 DEF InsertVersion
  <2>4. tx[s].since \in Times /\ tx[s].lo \in Int
    BY DEF Txs
  <2>5. t \in Times /\ start \in Int
    BY <1>0, <2>4, DecayType DEF Times
  <2> DEFINE line == allocated + 1
  <2>6. [tx[s] EXCEPT !.pc = "activation", !.delta = start,
                      !.at = t, !.line = line] \in Txs
    <3> DEFINE opened == [tx[s] EXCEPT !.pc = "activation", !.delta = start]
    <3>1. line \in Lines
      BY <2>2
    <3> HIDE DEF line
    <3>2. opened \in Txs
      BY <2>5 DEF Txs, Pending
    <3>3. [tx[s] EXCEPT !.pc = "activation", !.delta = start,
                        !.at = t, !.line = line]
            = [opened EXCEPT !.at = t, !.line = line]
      BY DEF Txs
    <3> HIDE DEF opened
    <3>4. [opened EXCEPT !.at = t, !.line = line] \in Txs
      BY <2>5, <3>1, <3>2 DEF Txs
    <3> QED
      BY <3>3, <3>4
  <2>7. tx' \in [Session -> Txs]
    BY <2>3, <2>6
  <2> QED
    BY <1>7, <2>1, <2>2, <2>7 DEF InsertVersion
<1>8. ASSUME NEW s \in Session, FlushActivation(s)
      PROVE  TypeOK'
  <2>1. lock' \in [Session -> Locks]
    BY <1>8 DEF FlushActivation, TakeWrite, Locks
  <2>2. Current(s) \in Rows
    BY CurrentRow
  <2>3. PICK lo \in {tx[s].delta, Current(s).lo} :
          image' = [image EXCEPT ![s] = Activated(Current(s), tx[s], lo)]
    BY <1>8 DEF FlushActivation
  <2>5. lo \in Int
    BY <2>2 DEF Rows, Txs
  <2>6. image' \in [Session -> Rows]
    BY <2>2, <2>3, <2>5, ActivatedRow
  <2>7. tx' = [tx EXCEPT ![s] = [tx[s] EXCEPT !.pc = "ready"]]
    BY <1>8 DEF FlushActivation
  <2>8. [tx[s] EXCEPT !.pc = "ready"] \in Txs
    BY DEF Txs, Pending
  <2>4. tx' \in [Session -> Txs]
    BY <2>7, <2>8
  <2> QED
    BY <1>8, <2>1, <2>6, <2>4 DEF FlushActivation
<1>9. ASSUME NEW s \in Session, Rename(s)
      PROVE  TypeOK'
  <2>1. lock' \in [Session -> Locks]
    BY <1>9 DEF Rename, TakeWrite, TakeAll, Locks
  <2>2. image' \in [Session -> Rows]
    BY <1>9, CurrentRow DEF Rename, Rows, Txs
  <2>4. [tx[s] EXCEPT !.pc = "ready"] \in Txs
    BY DEF Txs, Pending
  <2>5. tx' = [tx EXCEPT ![s] = [tx[s] EXCEPT !.pc = "ready"]]
    BY <1>9 DEF Rename
  <2>3. tx' \in [Session -> Txs]
    BY <2>4, <2>5
  <2> QED
    BY <1>9, <2>1, <2>2, <2>3 DEF Rename
<1>10. ASSUME NEW s \in Session, Commit(s)
       PROVE  TypeOK'
  <2>1. ledger' \in Seq(Entries)
    BY <1>10 DEF Commit, Txs
  <2> QED
    BY <1>0, <1>10, <2>1, CurrentRow DEF Commit, Locks
<1>11. ASSUME NEW s \in Session, Rollback(s)
       PROVE  TypeOK'
  BY <1>0, <1>11 DEF Rollback, Locks
<1>12. CASE Tick
  BY <1>12, DecayType DEF Tick, Times
<1>13. CASE UNCHANGED vars
  BY <1>13 DEF vars
<1> QED
  BY <1>1, <1>2, <1>3, <1>4, <1>5, <1>6, <1>7, <1>8, <1>9, <1>10, <1>11,
     <1>12, <1>13, <1>14 DEF Next, Step, Quiet

(* Every variable keeps its type in every behaviour of the specification,  *)
(* whatever roles the sessions play.                                       *)
THEOREM TypeCorrect == Spec => []TypeOK
BY InitType, NextType, PTL DEF Spec

-----------------------------------------------------------------------------
(***************************************************************************)
(* Proofs about the interleavings of TrendWrites: what the row locks       *)
(* guarantee, and what follows for evidence and decay, the two writers     *)
(* that run all the time.                                                  *)
(***************************************************************************)

(* What the lock table guarantees, whatever the sessions do. *)
LockInv ==
    /\ \A s \in Session : lock[s] = "full" => tx[s].pc = "ready"
    /\ \A s \in Session : tx[s].pc = "evidence" => lock[s] # "none"
    /\ \A s, t \in Session : s # t /\ lock[s] = "full" => lock[t] = "none"
    /\ \A s, t \in Session : s # t /\ Writing(s) => ~Writing(t)
    /\ \A s \in Session : ~Writing(s) => image[s] = FirstRow

(* An insert locks the row for its foreign key. *)
LEMMA ShareStep ==
    ASSUME TypeOK, LockInv, NEW s \in Session, NEW u,
           tx[s].pc = "open", TakeShare(s), UNCHANGED image,
           tx' = [tx EXCEPT ![s] = u]
    PROVE  LockInv'
<1> USE DEF TypeOK
<1>1. \A t \in Session : t # s => lock'[t] = lock[t] /\ tx'[t] = tx[t]
  BY DEF TakeShare
<1>2. lock[s] # "full"
  BY DEF LockInv
<1>3. lock'[s] = IF lock[s] = "none" THEN "share" ELSE lock[s]
  BY DEF TakeShare
<1>4. lock'[s] \in {"share", "write"}
  BY <1>2, <1>3 DEF Locks
<1>5. \A t \in Session : Writing(t)' <=> Writing(t)
  BY <1>1, <1>2, <1>3 DEF Writing
<1>6. \A t \in Session : t # s => lock[t] # "full"
  BY DEF TakeShare, ShareFree, Others
<1>7. \A t \in Session : lock'[t] # "full"
  BY <1>1, <1>4, <1>6
<1>8. \A t \in Session : tx'[t].pc = "evidence" => lock'[t] # "none"
  BY <1>1, <1>4 DEF LockInv
<1>9. \A t \in Session : ~Writing(t)' => image'[t] = FirstRow
  BY <1>5 DEF LockInv
<1> QED
  BY <1>5, <1>7, <1>8, <1>9 DEF LockInv

(* An update locks the row for writing. *)
LEMMA WriteStep ==
    ASSUME TypeOK, LockInv, NEW s \in Session, NEW u, NEW r,
           tx[s].pc # "ready", TakeWrite(s),
           image' = [image EXCEPT ![s] = r],
           tx' = [tx EXCEPT ![s] = u]
    PROVE  LockInv' /\ lock' = [lock EXCEPT ![s] = "write"]
<1> USE DEF TypeOK
<1>1. lock[s] # "full"
  BY DEF LockInv
<1>2. lock' = [lock EXCEPT ![s] = "write"]
  BY <1>1 DEF TakeWrite
<1>3. \A t \in Session : t # s => /\ lock'[t] = lock[t] /\ tx'[t] = tx[t]
                                  /\ image'[t] = image[t]
  BY <1>2
<1>4. lock'[s] = "write"
  BY <1>2
<1>5. \A t \in Session : t # s => ~Writing(t) /\ ~Writing(t)'
  BY <1>3 DEF TakeWrite, WriteFree, Others, Writing
<1>6. \A t \in Session : lock'[t] # "full"
  BY <1>4, <1>5 DEF Writing
<1>7. \A t \in Session : tx'[t].pc = "evidence" => lock'[t] # "none"
  BY <1>3, <1>4 DEF LockInv
<1>8. \A t \in Session : ~Writing(t)' => image'[t] = FirstRow
  BY <1>3, <1>4, <1>5 DEF LockInv, Writing
<1> QED
  BY <1>2, <1>5, <1>6, <1>7, <1>8 DEF LockInv

(* The decay task, and an edit of a unique column, lock the row against    *)
(* everybody.                                                              *)
LEMMA FullStep ==
    ASSUME TypeOK, LockInv, NEW s \in Session, TakeAll(s),
           NEW r, image' = [image EXCEPT ![s] = r],
           tx' = [tx EXCEPT ![s].pc = "ready"]
    PROVE  LockInv'
<1> USE DEF TypeOK
<1>1. \A t \in Session : t # s => /\ lock'[t] = "none" /\ tx'[t] = tx[t]
                                  /\ lock[t] = "none" /\ image'[t] = image[t]
  BY DEF TakeAll, AllFree, Others
<1>2. lock'[s] = "full" /\ tx'[s].pc = "ready"
  BY DEF TakeAll, Txs
<1>3. \A t \in Session : t # s => ~Writing(t) /\ ~Writing(t)'
  BY <1>1 DEF Writing
<1>4. \A t \in Session : ~Writing(t)' => image'[t] = FirstRow
  BY <1>1, <1>2, <1>3 DEF LockInv, Writing
<1> QED
  BY <1>1, <1>2, <1>3, <1>4 DEF LockInv

(* The end of a transaction releases its lock. *)
LEMMA ReleaseStep ==
    ASSUME TypeOK, LockInv, NEW s \in Session,
           lock' = [lock EXCEPT ![s] = "none"],
           image' = [image EXCEPT ![s] = FirstRow],
           tx' = [tx EXCEPT ![s] = NoTx]
    PROVE  LockInv'
<1> USE DEF TypeOK
<1>1. \A t \in Session : t # s => /\ lock'[t] = lock[t] /\ tx'[t] = tx[t]
                                  /\ image'[t] = image[t]
  OBVIOUS
<1>2. lock'[s] = "none" /\ image'[s] = FirstRow /\ tx'[s].pc = "idle"
  BY DEF NoTx
<1>3. ~Writing(s)' /\ \A t \in Session : t # s => Writing(t)' <=> Writing(t)
  BY <1>1, <1>2 DEF Writing
<1>4. \A t \in Session : lock'[t] = "full" => tx'[t].pc = "ready"
  BY <1>1, <1>2 DEF LockInv
<1>5. \A t \in Session : tx'[t].pc = "evidence" => lock'[t] # "none"
  BY <1>1, <1>2 DEF LockInv
<1>6. \A a, b \in Session : a # b /\ lock'[a] = "full" => lock'[b] = "none"
  BY <1>1, <1>2 DEF LockInv
<1>7. \A a, b \in Session : a # b /\ Writing(a)' => ~Writing(b)'
  BY <1>3 DEF LockInv
<1>8. \A t \in Session : ~Writing(t)' => image'[t] = FirstRow
  BY <1>1, <1>2, <1>3 DEF LockInv
<1> QED
  BY <1>4, <1>5, <1>6, <1>7, <1>8 DEF LockInv

(* The lock table is empty at first. *)
LEMMA LockInit == Init => LockInv
BY DEF Init, LockInv, Writing, NoTx

(* Every step keeps the guarantees of the lock table. *)
LEMMA LockNext == TypeOK /\ LockInv /\ [Next]_vars => LockInv'
<1> SUFFICES ASSUME TypeOK, LockInv, [Next]_vars
             PROVE  LockInv'
  OBVIOUS
<1>1. ASSUME NEW s \in Session, Begin(s)
      PROVE  LockInv'
  <2>1. lock' = lock /\ image' = image
    BY <1>1 DEF Begin
  <2>2. /\ tx[s].pc = "idle" /\ tx'[s].pc = "open"
        /\ \A t \in Session : t # s => tx'[t] = tx[t]
    BY <1>1 DEF Begin, TypeOK
  <2> QED
    BY <2>1, <2>2 DEF LockInv, Writing
<1>2. ASSUME NEW s \in Session, InsertEvidence(s)
      PROVE  LockInv'
  BY <1>2, ShareStep DEF InsertEvidence
<1>3. ASSUME NEW s \in Session, AddEvidence(s)
      PROVE  LockInv'
  BY <1>3, WriteStep DEF AddEvidence
<1>4. ASSUME NEW s \in Session, DecayRow(s)
      PROVE  LockInv'
  <2>1. /\ TakeAll(s)
        /\ \E r : image' = [image EXCEPT ![s] = r]
        /\ tx' = [tx EXCEPT ![s].pc = "ready"]
    BY <1>4, Zenon DEF DecayRow
  <2> QED
    BY <2>1, FullStep
<1>5. ASSUME NEW s \in Session, InsertRestatement(s)
      PROVE  LockInv'
  BY <1>5, ShareStep DEF InsertRestatement
<1>13. ASSUME NEW s \in Session, RecordRestatement(s)
       PROVE  LockInv'
  BY <1>13, ShareStep DEF RecordRestatement
<1>6. ASSUME NEW s \in Session, AddRestatement(s)
      PROVE  LockInv'
  <2>1. tx[s].pc # "ready"
    BY <1>6 DEF AddRestatement
  <2>2. /\ TakeWrite(s)
        /\ \E r : image' = [image EXCEPT ![s] = r]
        /\ \E u : tx' = [tx EXCEPT ![s] = u]
    BY <1>6, Zenon DEF AddRestatement
  <2> QED
    BY <2>1, <2>2, WriteStep
<1>7. ASSUME NEW s \in Session, InsertVersion(s)
      PROVE  LockInv'
  BY <1>7, ShareStep DEF InsertVersion
<1>8. ASSUME NEW s \in Session, FlushActivation(s)
      PROVE  LockInv'
  <2>1. tx[s].pc # "ready"
    BY <1>8 DEF FlushActivation
  <2>2. /\ TakeWrite(s)
        /\ \E r : image' = [image EXCEPT ![s] = r]
        /\ tx' = [tx EXCEPT ![s].pc = "ready"]
    BY <1>8, Zenon DEF FlushActivation
  <2> QED
    BY <2>1, <2>2, WriteStep
<1>9. ASSUME NEW s \in Session, Rename(s)
      PROVE  LockInv'
  <2>1. tx[s].pc # "ready"
    BY <1>9 DEF Rename
  <2>2. /\ TakeWrite(s) \/ TakeAll(s)
        /\ \E r : image' = [image EXCEPT ![s] = r]
        /\ tx' = [tx EXCEPT ![s].pc = "ready"]
    BY <1>9, Zenon DEF Rename
  <2> QED
    BY <2>1, <2>2, FullStep, WriteStep
<1>10. ASSUME NEW s \in Session, Commit(s) \/ Rollback(s)
       PROVE  LockInv'
  BY <1>10, ReleaseStep DEF Commit, Rollback
<1>11. CASE Tick
  BY <1>11 DEF Tick, LockInv, Writing
<1>12. CASE UNCHANGED vars
  BY <1>12 DEF vars, LockInv, Writing
<1> QED
  BY <1>1, <1>2, <1>3, <1>4, <1>5, <1>6, <1>7, <1>8, <1>9, <1>10, <1>11, <1>12,
     <1>13
  DEF Next, Step, Quiet

(* At most one session is writing the row, the decay task only when no     *)
(* other session holds any lock, and evidence keeps its lock from its      *)
(* insert to its update.                                                   *)
THEOREM LocksHold == Spec => []LockInv
BY TypeCorrect, LockInit, LockNext, PTL DEF Spec

-----------------------------------------------------------------------------
(* Evidence and decay.                                                     *)

(* The sessions that run all the time: pipelines and decay tasks only. *)
Unattended == Restaters = {} /\ Activators = {} /\ Renamers = {}

(* The stamps never run ahead of the clock nor behind the value's age, and *)
(* a session that is about to add evidence holds an instant the committed  *)
(* value has not been decayed past: its share lock keeps the decay task    *)
(* out from the insert, before which the clock was read, to the update.    *)
AgingInv ==
    /\ row.aged <= row.upd /\ row.upd <= now
    /\ \A s \in Session : image[s].aged <= image[s].upd /\ image[s].upd <= now
    /\ \A s \in Session : tx[s].at <= now
    /\ \A s \in Session : lock[s] = "write" => image[s].aged = row.aged
    /\ \A s \in Session : tx[s].pc = "evidence" =>
         row.aged <= tx[s].at /\ tx[s].delta \in Deltas
    /\ \A s \in Session : tx[s].pc \notin {"restatement", "activation"}

(* Nothing is aged at first. *)
LEMMA AgingInit == Init => AgingInv
BY DecayType DEF Init, AgingInv, FirstRow, NoTx, Times

(* Every step keeps the stamps in order. *)
LEMMA AgingNext ==
    ASSUME Unattended
    PROVE  TypeOK /\ LockInv /\ AgingInv /\ [Next]_vars => AgingInv'
<1> SUFFICES ASSUME TypeOK, LockInv, AgingInv, [Next]_vars
             PROVE  AgingInv'
  OBVIOUS
<1> USE DEF TypeOK
<1>0. ASSUME NEW s \in Session
      PROVE  /\ Current(s) \in Rows
             /\ Current(s).aged <= Current(s).upd /\ Current(s).upd <= now
             /\ lock[s] # "full" => Current(s).aged = row.aged
  BY DEF Current, AgingInv, Writing, Locks
<1>1. ASSUME NEW s \in Session, Begin(s)
      PROVE  AgingInv'
  <2>1. tx'[s].at = now /\ tx'[s].pc = "open"
    BY <1>1 DEF Begin
  <2>2. \A t \in Session : t # s => tx'[t] = tx[t]
    BY <1>1 DEF Begin
  <2>3. UNCHANGED <<now, row, image, lock>>
    BY <1>1 DEF Begin
  <2>4. now <= now
    BY DecayType DEF Times
  <2> QED
    BY <2>1, <2>2, <2>3, <2>4 DEF AgingInv
<1>2. ASSUME NEW s \in Session, InsertEvidence(s)
      PROVE  AgingInv'
  <2>1. PICK d \in Deltas :
          tx' = [tx EXCEPT ![s] = Inserted(tx[s], "evidence", d, now, tx[s].since)]
    BY <1>2 DEF InsertEvidence
  <2>2. Inserted(tx[s], "evidence", d, now, tx[s].since).at = now
        /\ Inserted(tx[s], "evidence", d, now, tx[s].since).pc = "evidence"
        /\ Inserted(tx[s], "evidence", d, now, tx[s].since).delta = d
    <3>1. /\ tx[s] \in Txs /\ tx[s].since \in Times
          /\ "evidence" \in Pending /\ d \in Int
      BY DeltasType DEF Txs, Pending
    <3> QED
      BY <3>1, InsertedTx
  <2>3. tx'[s].at = now /\ tx'[s].pc = "evidence" /\ tx'[s].delta \in Deltas
    BY <2>1, <2>2
  <2>4. \A t \in Session : t # s => tx'[t] = tx[t]
    BY <2>1
  <2>5. UNCHANGED <<now, row, image>>
    BY <1>2 DEF InsertEvidence
  <2>6. \A t \in Session : lock'[t] = "write" => lock[t] = "write"
    BY <1>2 DEF InsertEvidence, TakeShare
  <2>7. row.aged <= now
    BY DecayType DEF AgingInv, Rows, Times
  <2>8. now <= now
    BY DecayType DEF Times
  <2> QED
    BY <2>3, <2>4, <2>5, <2>6, <2>7, <2>8 DEF AgingInv
<1>3. ASSUME NEW s \in Session, AddEvidence(s)
      PROVE  AgingInv'
  <2> DEFINE r == Increased(Current(s), tx[s].line, tx[s].delta, tx[s].at)
             u == Finished(tx[s], r)
  <2>1. /\ tx[s] \in Txs /\ tx[s].line \in Lines
        /\ tx[s].delta \in Int /\ tx[s].at \in Times
    BY DEF Txs
  <2>2. r \in Rows /\ r.upd = tx[s].at /\ r.aged = Current(s).aged
    BY <1>0, <2>1, IncreasedRow
  <2>3. lock[s] # "full" /\ tx[s].pc = "evidence"
    BY <1>3 DEF AddEvidence, LockInv
  <2>4. r.aged = row.aged /\ r.aged <= r.upd /\ r.upd <= now
    BY <1>0, <2>2, <2>3 DEF AgingInv
  <2>5. u.pc = "open" /\ u.at = tx[s].at
    BY <2>1, <2>2, FinishedTx
  <2>6. /\ image' = [image EXCEPT ![s] = r]
        /\ tx' = [tx EXCEPT ![s] = u]
        /\ UNCHANGED <<now, row>>
    BY <1>3 DEF AddEvidence
  <2>7. lock' = [lock EXCEPT ![s] = "write"]
    <3> HIDE DEF r, u
    <3> QED
      BY <1>3, <2>3, <2>6, WriteStep DEF AddEvidence
  <2> HIDE DEF r, u
  <2>8. /\ image'[s] = r /\ tx'[s] = u
        /\ \A t \in Session : t # s => /\ image'[t] = image[t] /\ tx'[t] = tx[t]
                                       /\ lock'[t] = lock[t]
    BY <2>6, <2>7
  <2> QED
    BY <2>4, <2>5, <2>6, <2>8 DEF AgingInv
<1>4. ASSUME NEW s \in Session, DecayRow(s)
      PROVE  AgingInv'
  <2> DEFINE new == Decayed(Current(s).lo, Current(s).upd, tx[s].at)
             r == Aged(Current(s), tx[s].line, new, tx[s].at)
             q == IF tx[s].at <= Current(s).upd THEN Current(s) ELSE r
  <2>1. tx[s].at \in Times /\ tx[s].line \in Lines /\ tx[s].at <= now
    BY DEF Txs, AgingInv
  <2>2. Current(s).upd \in Times /\ Current(s).aged \in Times
    BY <1>0 DEF Rows
  <2>3. new \in Int
    BY <1>0, <2>1, <2>2, DecayedInt DEF Rows
  <2>4. /\ r.upd = tx[s].at
        /\ r.aged = IF Current(s).aged < tx[s].at THEN tx[s].at ELSE Current(s).aged
    <3> HIDE DEF new
    <3> QED
      BY <1>0, <2>1, <2>3, AgedRow
  <2>5. q.aged <= q.upd /\ q.upd <= now
    <3> HIDE DEF r
    <3>1. CASE tx[s].at <= Current(s).upd
      BY <1>0, <3>1
    <3>2. CASE ~(tx[s].at <= Current(s).upd)
      <4>1. q.upd = tx[s].at
            /\ q.aged = IF Current(s).aged < tx[s].at THEN tx[s].at ELSE Current(s).aged
        BY <2>4, <3>2
      <4>2. tx[s].at \in Int /\ Current(s).aged \in Int /\ Current(s).upd \in Int
        BY <2>1, <2>2, DecayType DEF Times
      <4>3. Current(s).aged <= Current(s).upd
        BY <1>0
      <4> HIDE DEF q
      <4> QED
        BY <2>1, <3>2, <4>1, <4>2, <4>3
    <3> QED
      BY <3>1, <3>2
  <2>6. /\ image' = [image EXCEPT ![s] = q]
        /\ lock' = [lock EXCEPT ![s] = "full"]
        /\ UNCHANGED <<now, row>>
    BY <1>4 DEF DecayRow, TakeAll
  <2>7. tx'[s].pc = "ready" /\ tx'[s].at = tx[s].at
        /\ \A t \in Session : t # s => tx'[t] = tx[t]
    BY <1>4 DEF DecayRow, Txs
  <2> HIDE DEF q
  <2>8. /\ image'[s] = q /\ lock'[s] = "full"
        /\ \A t \in Session : t # s => image'[t] = image[t] /\ lock'[t] = lock[t]
    BY <2>6
  <2> QED
    BY <2>5, <2>6, <2>7, <2>8 DEF AgingInv
<1>5. ASSUME NEW s \in Session,
             \/ InsertRestatement(s) \/ AddRestatement(s)
             \/ RecordRestatement(s) \/ InsertVersion(s)
             \/ FlushActivation(s) \/ Rename(s)
      PROVE  FALSE
  BY <1>5 DEF InsertRestatement, AddRestatement, RecordRestatement, InsertVersion,
              FlushActivation, Rename, Unattended, AgingInv
<1>6. ASSUME NEW s \in Session, Commit(s) \/ Rollback(s)
      PROVE  AgingInv'
  <2>1. /\ FirstRow.aged <= FirstRow.upd /\ FirstRow.upd <= now
        /\ NoTx.at <= now /\ NoTx.pc = "idle"
    BY DecayType DEF FirstRow, NoTx, Times
  <2>2. /\ image'[s] = FirstRow /\ lock'[s] = "none" /\ tx'[s] = NoTx /\ now' = now
        /\ \A t \in Session : t # s => /\ image'[t] = image[t] /\ tx'[t] = tx[t]
                                       /\ lock'[t] = lock[t]
    BY <1>6 DEF Commit, Rollback
  <2>3. row' \in {row, Current(s)}
    BY <1>6 DEF Commit, Rollback
  <2>4. row'.aged <= row'.upd /\ row'.upd <= now
    BY <1>0, <2>3 DEF AgingInv
  <2>5. \A t \in Session : t # s /\ lock[t] # "none" => row'.aged = row.aged \/ lock[s] = "none"
    BY <1>0, <2>3 DEF LockInv
  <2>6. lock[s] = "none" => row' = row
    BY <2>3 DEF Current, Writing
  <2>7. \A t \in Session : t # s /\ lock[t] # "none" => row'.aged = row.aged
    BY <2>5, <2>6
  <2>8. \A t \in Session : lock'[t] = "write" => image'[t].aged = row'.aged
    BY <2>2, <2>7 DEF AgingInv
  <2>9. \A t \in Session : tx'[t].pc = "evidence" =>
          row'.aged <= tx'[t].at /\ tx'[t].delta \in Deltas
    BY <2>1, <2>2, <2>7 DEF AgingInv, LockInv
  <2> QED
    BY <2>1, <2>2, <2>4, <2>8, <2>9 DEF AgingInv
<1>7. CASE Tick
  <2>1. /\ now' = now + 1 /\ UNCHANGED <<row, image, lock, tx>>
    BY <1>7 DEF Tick
  <2>2. \A x \in Times : x <= now => x <= now'
    BY <2>1, DecayType DEF Times
  <2>3. /\ row.upd \in Times
        /\ \A s \in Session : image[s].upd \in Times /\ tx[s].at \in Times
    BY DEF Rows, Txs
  <2> QED
    BY <2>1, <2>2, <2>3 DEF AgingInv
<1>8. CASE UNCHANGED vars
  BY <1>8 DEF vars, AgingInv
<1> QED
  BY <1>1, <1>2, <1>3, <1>4, <1>5, <1>6, <1>7, <1>8 DEF Next, Step, Quiet

(* While only pipelines and decay tasks run, the decay clock of a trend    *)
(* never falls behind its value, for every number of sessions, so no decay *)
(* pass decays a period twice: the share lock that the evidence row takes  *)
(* on the trend keeps the decay task out until the update is committed.    *)
THEOREM DecayOnce ==
    ASSUME Unattended
    PROVE  Spec => []DecayedOnce
<1>1. AgingInv => DecayedOnce
  BY DEF AgingInv, DecayedOnce
<1> QED
  BY <1>1, TypeCorrect, LocksHold, AgingInit, AgingNext, PTL DEF Spec

(* The initial states map to the abstract one. *)
LEMMA SerialInit == Init => Serial!SInit
BY DEF Init, Serial!SInit, Writing, FirstRow

(* Every step maps to one abstract step or to none. *)
LEMMA SerialStep ==
    ASSUME Unattended
    PROVE  TypeOK /\ LockInv /\ AgingInv /\ [Next]_vars => [Serial!SNext]_(Serial!svars)
<1> DEFINE Start == [lo |-> Baseline, upd |-> 0]
           value == [lo |-> row.lo, upd |-> row.upd]
           drafting == {s \in Session : Writing(s)}
           draft == [s \in Session |-> [lo |-> image[s].lo, upd |-> image[s].upd]]
<1> SUFFICES ASSUME TypeOK, LockInv, AgingInv, [Next]_vars
             PROVE  Serial!SNext \/ UNCHANGED Serial!svars
  OBVIOUS
<1> USE DEF TypeOK
<1>1. ASSUME row' = row, image' = image, \A t \in Session : Writing(t)' <=> Writing(t)
      PROVE  UNCHANGED Serial!svars
  BY <1>1 DEF Serial!svars
<1>2. ASSUME NEW s \in Session, NEW r \in Rows,
             [lo |-> r.lo, upd |-> r.upd]
               \in Serial!Legal([lo |-> Current(s).lo, upd |-> Current(s).upd]),
             \A t \in Session : t # s => ~Writing(t) /\ ~Writing(t)',
             Writing(s)', image' = [image EXCEPT ![s] = r], row' = row
      PROVE  Serial!SNext
  <2>1. drafting \subseteq {s} /\ drafting' = {s} /\ value' = value
    BY <1>2
  <2>2. Serial!Found(s) = [lo |-> Current(s).lo, upd |-> Current(s).upd]
    BY DEF Serial!Found, Current
  <2>3. draft' = [draft EXCEPT ![s] = [lo |-> r.lo, upd |-> r.upd]]
    BY <1>2
  <2>4. Serial!Work(s)
    BY <1>2, <2>1, <2>2, <2>3 DEF Serial!Work
  <2> QED
    BY <2>4 DEF Serial!SNext
<1>3. ASSUME NEW s \in Session, AddEvidence(s)
      PROVE  Serial!SNext
  <2> DEFINE r == Increased(Current(s), tx[s].line, tx[s].delta, tx[s].at)
             u == Finished(tx[s], r)
  <2>1. /\ tx[s] \in Txs /\ tx[s].line \in Lines /\ tx[s].delta \in Deltas
        /\ tx[s].delta \in Int /\ tx[s].at \in Times
    BY <1>3 DEF Txs, AddEvidence, AgingInv
  <2>2. Current(s) \in Rows
    BY CurrentRow
  <2>3. r \in Rows /\ r.upd = tx[s].at /\ r.lo = Current(s).lo + tx[s].delta
    BY <2>1, <2>2, IncreasedRow
  <2>4. [lo |-> r.lo, upd |-> r.upd]
          \in Serial!Legal([lo |-> Current(s).lo, upd |-> Current(s).upd])
    <3> DEFINE c == [lo |-> Current(s).lo, upd |-> Current(s).upd]
    <3> HIDE DEF r
    <3>1. [lo |-> r.lo, upd |-> r.upd] = Serial!AddTo(c, tx[s].delta, tx[s].at)
      BY <2>3 DEF Serial!AddTo
    <3> HIDE DEF c
    <3>2. Serial!AddTo(c, tx[s].delta, tx[s].at) \in Serial!Legal(c)
      BY <2>1 DEF Serial!Legal, Serial!Times, Times
    <3> QED
      BY <3>1, <3>2 DEF c
  <2>5. /\ image' = [image EXCEPT ![s] = r] /\ tx' = [tx EXCEPT ![s] = u]
        /\ row' = row /\ tx[s].pc # "ready" /\ TakeWrite(s)
    BY <1>3 DEF AddEvidence
  <2> HIDE DEF r, u
  <2>6. lock' = [lock EXCEPT ![s] = "write"]
    BY <2>5, WriteStep
  <2>7. Writing(s)' /\ \A t \in Session : t # s => ~Writing(t) /\ ~Writing(t)'
    BY <2>5, <2>6 DEF TakeWrite, WriteFree, Others, Writing
  <2> QED
    BY <1>2, <2>3, <2>4, <2>5, <2>7
<1>4. ASSUME NEW s \in Session, DecayRow(s)
      PROVE  Serial!SNext
  <2> DEFINE new == Decayed(Current(s).lo, Current(s).upd, tx[s].at)
             r == Aged(Current(s), tx[s].line, new, tx[s].at)
             q == IF tx[s].at <= Current(s).upd THEN Current(s) ELSE r
             c == [lo |-> Current(s).lo, upd |-> Current(s).upd]
  <2>1. tx[s].at \in Times /\ tx[s].line \in Lines /\ Current(s) \in Rows
    BY CurrentRow DEF Txs
  <2>2. new \in Int
    BY <2>1, DecayedInt DEF Rows
  <2>3. r \in Rows /\ r.lo = new /\ r.upd = tx[s].at
    <3> HIDE DEF new
    <3> QED
      BY <2>1, <2>2, AgedRow
  <2>4. q \in Rows /\ [lo |-> q.lo, upd |-> q.upd] = Serial!Age(c, tx[s].at)
    <3> HIDE DEF r
    <3>1. Serial!Decayed(c.lo, c.upd, tx[s].at) = new
      BY DEF Serial!Decayed, Decayed
    <3> HIDE DEF new
    <3> QED
      BY <2>1, <2>3, <3>1 DEF Serial!Age
  <2>5. [lo |-> q.lo, upd |-> q.upd] \in Serial!Legal(c)
    <3> HIDE DEF q, c
    <3> QED
      BY <2>1, <2>4 DEF Serial!Legal, Serial!Times, Times
  <2>6. /\ image' = [image EXCEPT ![s] = q] /\ row' = row
        /\ lock' = [lock EXCEPT ![s] = "full"]
        /\ \A t \in Session : t # s => lock[t] = "none"
    BY <1>4 DEF DecayRow, TakeAll, AllFree, Others
  <2> HIDE DEF q
  <2>7. Writing(s)' /\ \A t \in Session : t # s => ~Writing(t) /\ ~Writing(t)'
    BY <2>6 DEF Writing
  <2> QED
    BY <1>2, <2>4, <2>5, <2>6, <2>7
<1>5. ASSUME NEW s \in Session, Commit(s) \/ Rollback(s)
      PROVE  Serial!SNext \/ UNCHANGED Serial!svars
  <2>1. /\ image' = [image EXCEPT ![s] = FirstRow]
        /\ lock' = [lock EXCEPT ![s] = "none"]
        /\ row' \in {row, Current(s)}
        /\ Commit(s) => row' = Current(s)
        /\ Rollback(s) => row' = row
    BY <1>5 DEF Commit, Rollback
  <2>2. ~Writing(s)' /\ \A t \in Session : t # s => Writing(t)' <=> Writing(t)
    BY <2>1 DEF Writing
  <2>3. CASE ~Writing(s)
    <3>1. image[s] = FirstRow /\ Current(s) = row
      BY <2>3 DEF LockInv, Current
    <3>2. image' = image /\ row' = row
      BY <2>1, <3>1
    <3>3. \A t \in Session : Writing(t)' <=> Writing(t)
      BY <2>2, <2>3
    <3> QED
      BY <1>1, <3>2, <3>3
  <2>4. CASE Writing(s)
    <3>1. s \in drafting /\ drafting' = drafting \ {s}
      BY <2>2, <2>4
    <3>2. draft' = [draft EXCEPT ![s] = Start]
      BY <2>1 DEF FirstRow
    <3>3. Current(s) = image[s]
      BY <2>4 DEF Current
    <3>4. CASE Commit(s)
      <4>1. value' = draft[s]
        BY <2>1, <3>3, <3>4
      <4>2. Serial!Publish(s)
        BY <3>1, <3>2, <4>1 DEF Serial!Publish
      <4> QED
        BY <4>2 DEF Serial!SNext
    <3>5. CASE Rollback(s)
      <4>1. value' = value
        BY <2>1, <3>5
      <4>2. Serial!Discard(s)
        BY <3>1, <3>2, <4>1 DEF Serial!Discard
      <4> QED
        BY <4>2 DEF Serial!SNext
    <3> QED
      BY <1>5, <3>4, <3>5
  <2> QED
    BY <2>3, <2>4
<1>6. ASSUME NEW s \in Session, Begin(s) \/ InsertEvidence(s)
      PROVE  UNCHANGED Serial!svars
  <2>1. row' = row /\ image' = image
    BY <1>6 DEF Begin, InsertEvidence
  <2>2. \A t \in Session : Writing(t)' <=> Writing(t)
    BY <1>6 DEF Begin, InsertEvidence, TakeShare, Writing
  <2> QED
    BY <1>1, <2>1, <2>2
<1>7. ASSUME NEW s \in Session,
             \/ InsertRestatement(s) \/ AddRestatement(s)
             \/ RecordRestatement(s) \/ InsertVersion(s)
             \/ FlushActivation(s) \/ Rename(s)
      PROVE  FALSE
  BY <1>7 DEF InsertRestatement, AddRestatement, RecordRestatement, InsertVersion,
              FlushActivation, Rename, Unattended, AgingInv
<1>8. CASE Tick \/ UNCHANGED vars
  BY <1>1, <1>8 DEF Tick, vars, Writing
<1> QED
  BY <1>3, <1>4, <1>5, <1>6, <1>7, <1>8 DEF Next, Step, Quiet

(* Evidence and decay serialise: what concurrent pipelines and decay tasks *)
(* do to a trend's value is what some sequence of whole transactions does, *)
(* each operation applied to the value its predecessors left.              *)
THEOREM Serialised ==
    ASSUME Unattended
    PROVE  Spec => SerialSpec
BY SerialInit, SerialStep, TypeCorrect, LocksHold, AgingInit, AgingNext, PTL
DEF Spec, SerialSpec, Serial!SSpec
=============================================================================
