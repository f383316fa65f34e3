----------------------- MODULE TrendProjectionProofs -----------------------
(***************************************************************************)
(* The books of the state versions: what the evidence and restatement rows *)
(* add up to (LineBooked of TrendProjection), for any sessions and bounds. *)
(***************************************************************************)
EXTENDS TrendProjection, TrendWritesProofs, SumLemmas

-----------------------------------------------------------------------------
(* What the applied deltas of a sequence of ledger rows add up to. *)
Gain(e, v) == IF e.line = v /\ e.effect = "applied" THEN e.delta ELSE 0
Gains(q, v) == [i \in DOMAIN q |-> Gain(q[i], v)]

(* The sum as the lemmas on sums have it, over integers. *)
LEMMA AppliedSum ==
    ASSUME NEW q \in Seq(Entries), NEW v
    PROVE  /\ Applied(q, v) = SumFunctionOnSet(Gains(q, v), 1..Len(q))
           /\ IsFiniteSet(1..Len(q)) /\ DOMAIN q = 1..Len(q) /\ Len(q) \in Nat
           /\ \A i \in 1..Len(q) : Gains(q, v)[i] = Gain(q[i], v) /\ Gain(q[i], v) \in Int
           /\ Applied(q, v) \in Int
<1>1. DOMAIN q = 1..Len(q) /\ Len(q) \in Nat
  OBVIOUS
<1>2. IsFiniteSet(1..Len(q))
  BY <1>1, FS_Interval
<1>3. \A i \in 1..Len(q) : Gains(q, v)[i] = Gain(q[i], v) /\ Gain(q[i], v) \in Int
  <2>1. \A i \in 1..Len(q) : q[i] \in Entries
    OBVIOUS
  <2> QED BY <1>1, <2>1 DEF Gains, Gain, Entries
<1>4. Applied(q, v) = SumFunctionOnSet(Gains(q, v), 1..Len(q))
  <2>1. Applied(q, v) = SumFunction(Gains(q, v))
    BY DEF Applied, Gains, Gain
  <2>2. DOMAIN Gains(q, v) = 1..Len(q)
    BY <1>1 DEF Gains
  <2> QED BY <2>1, <2>2 DEF SumFunction
<1>5. Applied(q, v) \in Int
  BY <1>2, <1>3, <1>4, SumType
<1> QED BY <1>1, <1>2, <1>3, <1>4, <1>5

(* Rows that do not name the version add up to nothing. *)
LEMMA AppliedNone ==
    ASSUME NEW q \in Seq(Entries), NEW v, \A i \in DOMAIN q : q[i].line # v
    PROVE  Applied(q, v) = 0
<1> DEFINE T == 1..Len(q)
           f == Gains(q, v)
<1>1. IsFiniteSet(T) /\ DOMAIN q = T /\ Applied(q, v) = SumFunctionOnSet(f, T)
      /\ \A i \in T : f[i] = Gain(q[i], v)
  BY AppliedSum
<1>2. \A i \in DOMAIN q : Gain(q[i], v) = 0
  BY DEF Gain
<1> HIDE DEF T, f
<1>3. \A i \in T : f[i] = 0
  BY <1>1, <1>2
<1>4. SumFunctionOnSet(f, T) = 0
  BY ONLY <1>1, <1>3, SumZero
<1> QED BY <1>1, <1>4

(* One more row adds what it gains. *)
LEMMA AppliedAppend ==
    ASSUME NEW q \in Seq(Entries), NEW e \in Entries, NEW v
    PROVE  Applied(Append(q, e), v) = Applied(q, v) + Gain(e, v)
<1> DEFINE n == Len(q)
           r == Append(q, e)
           f == Gains(q, v)
           g == Gains(r, v)
<1>1. r \in Seq(Entries) /\ Len(r) = n + 1 /\ n \in Nat
      /\ r[n + 1] = e /\ \A i \in 1..n : r[i] = q[i]
  OBVIOUS
<1>2. /\ Applied(q, v) = SumFunctionOnSet(f, 1..n) /\ IsFiniteSet(1..n)
      /\ \A i \in 1..n : f[i] = Gain(q[i], v) /\ f[i] \in Int
  BY AppliedSum
<1> HIDE DEF r
<1>3. /\ Applied(r, v) = SumFunctionOnSet(g, 1..(n + 1))
      /\ \A i \in 1..(n + 1) : g[i] = Gain(r[i], v) /\ g[i] \in Int
  BY <1>1, AppliedSum
<1>4. n + 1 \in 1..(n + 1) /\ \A i \in 1..n : i \in 1..(n + 1)
  BY <1>1
<1>5. g[n + 1] = Gain(e, v) /\ \A i \in 1..n : g[i] = f[i]
  BY <1>1, <1>2, <1>3, <1>4
<1>6. \A i \in 1..n : f[i] = g[i]
  BY <1>5
<1>7. (\A i \in 1..(n + 1) : g[i] \in Int) /\ n \in Nat
  BY <1>1, <1>3
<1> HIDE DEF n, f, g
<1>8. SumFunctionOnSet(g, 1..(n + 1)) = SumFunctionOnSet(g, 1..n) + g[n + 1]
  BY ONLY <1>7, SumUpto
<1>9. SumFunctionOnSet(f, 1..n) = SumFunctionOnSet(g, 1..n)
  BY ONLY <1>2, <1>6, SumSame
<1> QED BY <1>2, <1>3, <1>5, <1>8, <1>9 DEF r

(* The rows of a transaction add to the ledger what they gain together. *)
LEMMA AppliedConcat ==
    ASSUME NEW p \in Seq(Entries), NEW q \in Seq(Entries), NEW v
    PROVE  Applied(p \o q, v) = Applied(p, v) + Applied(q, v)
<1> DEFINE m == Len(p)
           n == Len(q)
           r == p \o q
           f == Gains(p, v)
           g == Gains(q, v)
           h == Gains(r, v)
<1>1. /\ r \in Seq(Entries) /\ Len(r) = m + n /\ m \in Nat /\ n \in Nat
      /\ \A i \in 1..m : r[i] = p[i]
      /\ \A i \in 1..n : r[m + i] = q[i]
  OBVIOUS
<1>2. /\ Applied(p, v) = SumFunctionOnSet(f, 1..m) /\ IsFiniteSet(1..m)
      /\ \A i \in 1..m : f[i] = Gain(p[i], v) /\ f[i] \in Int
      /\ Applied(p, v) \in Int
  BY AppliedSum
<1>3. /\ Applied(q, v) = SumFunctionOnSet(g, 1..n)
      /\ \A i \in 1..n : g[i] = Gain(q[i], v) /\ g[i] \in Int
  BY AppliedSum
<1> HIDE DEF r
<1>4. /\ Applied(r, v) = SumFunctionOnSet(h, 1..(m + n))
      /\ \A i \in 1..(m + n) : h[i] = Gain(r[i], v) /\ h[i] \in Int
  <2>1. Applied(r, v) = SumFunctionOnSet(h, 1..Len(r))
    BY <1>1, AppliedSum
  <2>2. \A i \in 1..Len(r) : h[i] = Gain(r[i], v) /\ Gain(r[i], v) \in Int
    BY <1>1, AppliedSum
  <2> HIDE DEF h, m, n
  <2> QED BY <1>1, <2>1, <2>2
<1>5. /\ \A i \in 1..m : h[i] = f[i]
      /\ \A i \in 1..n : h[m + i] = g[i]
  <2>1. \A i \in 1..m : i \in 1..(m + n)
    BY <1>1
  <2>2. \A i \in 1..n : m + i \in 1..(m + n)
    BY <1>1
  <2> HIDE DEF f, g, h, m, n
  <2> QED BY <1>1, <1>2, <1>3, <1>4, <2>1, <2>2
<1>6. Joined(h, f, m, g, n)
  BY <1>2, <1>3, <1>5 DEF Joined
<1> HIDE DEF f, g, h, m, n
<1>7. m \in Nat /\ n \in Nat
  BY <1>1
<1>8. SumFunctionOnSet(h, 1..(m + n)) =
        SumFunctionOnSet(f, 1..m) + SumFunctionOnSet(g, 1..n)
  BY <1>6, <1>7, SumConcat
<1> QED BY <1>1, <1>2, <1>3, <1>4, <1>8 DEF r

-----------------------------------------------------------------------------
(* No write moves the value by decay: no time passes, or the sessions that *)
(* decay it (the decay task, and restatements beside their own delta) are  *)
(* not there.                                                              *)
NoDecay == MaxTime = 0 \/ (Decayers = {} /\ Restaters = {})

(* The versions named by what is committed, and by what s has written. *)
Booked == {row.line} \cup {ledger[i].line : i \in DOMAIN ledger}
Drafted(s) == {image[s].line} \cup {tx[s].rows[i].line : i \in DOMAIN tx[s].rows}

(* A version being activated is named by its activation only. *)
LineInv ==
    /\ \A v \in Booked : v <= allocated
    /\ \A s \in Session : tx[s].line <= allocated /\ \A v \in Drafted(s) : v <= allocated
    /\ \A s \in Session : tx[s].pc = "activation" =>
         /\ tx[s].line # 1 /\ tx[s].line \notin Booked
         /\ \A o \in Session : tx[s].line \notin Drafted(o)
         /\ \A o \in Others(s) : tx[o].line # tx[s].line

(* The delta s has inserted and not yet added, and the deltas it has added. *)
Owed(s, v) ==
    IF tx[s].pc \in {"evidence", "restatement"} /\ tx[s].line = v THEN tx[s].delta ELSE 0
Added(s, v) == Applied(tx[s].rows, v) - Owed(s, v)

(* The books balance in the committed row, and in the row as a session     *)
(* sees it once its own deltas are counted; a session that does not write  *)
(* has added none.                                                         *)
Balanced(s, v) ==
    Current(s).mirror[v] = Current(s).start[v] + PostedTo(v) + Added(s, v)

BookInv ==
    /\ \A v \in Lines : row.mirror[v] = row.start[v] + PostedTo(v)
    /\ \A s \in Session, v \in Lines : Balanced(s, v)
    /\ \A s \in Session, v \in Lines : Writing(s) \/ Added(s, v) = 0
    /\ \A s \in Session : tx[s].pc = "idle" => lock[s] = "none"

-----------------------------------------------------------------------------
(* What each action does to the books. *)

(* The other sessions are left alone, and nothing is committed. *)
Apart(s) == \A o \in Session \ {s} :
                tx'[o] = tx[o] /\ image'[o] = image[o] /\ lock'[o] = lock[o]
Uncommitted == UNCHANGED <<row, ledger>>

(* A ledger row is inserted, its delta owed. *)
LEMMA InsertEffect ==
    ASSUME TypeOK, NEW s \in Session, InsertEvidence(s) \/ InsertRestatement(s)
    PROVE  /\ Apart(s) /\ Uncommitted /\ UNCHANGED <<image, allocated>>
           /\ Writing(s)' <=> Writing(s)
           /\ tx[s].pc = "open" /\ tx'[s].pc \in {"evidence", "restatement"}
           /\ tx'[s].line = tx[s].line
           /\ \E e \in Entries : /\ e.line = tx[s].line /\ e.effect = "applied"
                                 /\ e.delta = tx'[s].delta
                                 /\ tx'[s].rows = Append(tx[s].rows, e)
<1>0. tx \in [Session -> Txs] /\ lock \in [Session -> Locks] /\ tx[s] \in Txs
  BY DEF TypeOK
<1>1. /\ tx[s].pc = "open" /\ TakeShare(s)
      /\ UNCHANGED <<now, row, image, ledger, begun, allocated>>
  BY DEF InsertEvidence, InsertRestatement
<1>2. /\ \A o \in Session \ {s} : lock'[o] = lock[o]
      /\ Writing(s)' <=> Writing(s)
  BY <1>0, <1>1 DEF TakeShare, Writing
<1>3. \E next \in {"evidence", "restatement"}, d \in Deltas, at \in Times, stamp \in Times :
          tx' = [tx EXCEPT ![s] = Inserted(tx[s], next, d, at, stamp)]
  <2>1. CASE InsertEvidence(s)
    <3>1. PICK d \in Deltas :
            tx' = [tx EXCEPT ![s] = Inserted(tx[s], "evidence", d, now, tx[s].since)]
      BY <2>1 DEF InsertEvidence
    <3>2. now \in Times /\ tx[s].since \in Times
      BY <1>0 DEF TypeOK, Txs
    <3> QED BY <3>1, <3>2
  <2>2. CASE InsertRestatement(s)
    <3>1. PICK c \in Deltas, t \in tx[s].since..now :
            tx' = [tx EXCEPT ![s] = Inserted(tx[s], "restatement", c, t, t)]
      BY <2>2 DEF InsertRestatement
    <3>2. t \in Times
      BY <1>0, DecayType DEF Txs, TypeOK, Times
    <3> QED BY <3>1, <3>2
  <2> QED BY <2>1, <2>2
<1>4. PICK next \in {"evidence", "restatement"}, d \in Deltas, at \in Times, stamp \in Times :
          tx' = [tx EXCEPT ![s] = Inserted(tx[s], next, d, at, stamp)]
  BY <1>3
<1> DEFINE e == [line |-> tx[s].line, at |-> stamp, delta |-> d, effect |-> "applied"]
<1>5. /\ e \in Entries /\ e.line = tx[s].line /\ e.effect = "applied" /\ e.delta = d
  BY <1>0, DeltasType DEF Entries, Txs
<1>6. Inserted(tx[s], next, d, at, stamp).rows = Append(tx[s].rows, e)
  BY <1>0 DEF Inserted, Txs
<1>7. /\ tx'[s].pc = next /\ tx'[s].line = tx[s].line /\ tx'[s].delta = d
      /\ \A o \in Session \ {s} : tx'[o] = tx[o]
      /\ tx'[s] = Inserted(tx[s], next, d, at, stamp)
  <2>1. next \in Pending /\ d \in Int
    BY DeltasType DEF Pending
  <2> QED BY <1>0, <1>4, <2>1, InsertedTx
<1> HIDE DEF e
<1> QED BY <1>1, <1>2, <1>5, <1>6, <1>7 DEF Apart, Uncommitted

(* A restatement of a retired version changes no value. *)
LEMMA RecordEffect ==
    ASSUME TypeOK, NEW s \in Session, RecordRestatement(s)
    PROVE  /\ Apart(s) /\ Uncommitted /\ UNCHANGED <<image, allocated>>
           /\ Writing(s)' <=> Writing(s)
           /\ tx[s].pc = "open" /\ tx'[s].pc = "open"
           /\ tx'[s].line = tx[s].line
           /\ \E e \in Entries : /\ e.effect = "recorded"
                                 /\ e.line \in {ledger[i].line : i \in DOMAIN ledger}
                                 /\ tx'[s].rows = Append(tx[s].rows, e)
<1>0. tx \in [Session -> Txs] /\ lock \in [Session -> Locks] /\ tx[s] \in Txs
  BY DEF TypeOK
<1>1. /\ tx[s].pc = "open" /\ TakeShare(s)
      /\ UNCHANGED <<now, row, image, ledger, begun, allocated>>
  BY DEF RecordRestatement
<1>2. /\ \A o \in Session \ {s} : lock'[o] = lock[o]
      /\ Writing(s)' <=> Writing(s)
  BY <1>0, <1>1 DEF TakeShare, Writing
<1>3. PICK c \in Deltas, t \in tx[s].since..now,
           v \in {ledger[i].line : i \in DOMAIN ledger} :
        tx' = [tx EXCEPT ![s] = Recorded(tx[s], v, c, t)]
  BY DEF RecordRestatement
<1>4. t \in Times /\ c \in Int /\ v \in Lines
  <2>1. t \in Times
    BY <1>0, DecayType DEF Txs, TypeOK, Times
  <2>2. v \in Lines
    BY LedgerLine
  <2> QED BY <2>1, <2>2, DeltasType
<1> DEFINE e == [line |-> v, at |-> t, delta |-> c, effect |-> "recorded"]
<1>5. /\ e \in Entries /\ e.line = v /\ e.effect = "recorded"
  BY <1>4 DEF Entries
<1>6. Recorded(tx[s], v, c, t).rows = Append(tx[s].rows, e)
  BY <1>0 DEF Recorded, Txs
<1>7. /\ tx'[s].pc = "open" /\ tx'[s].line = tx[s].line
      /\ \A o \in Session \ {s} : tx'[o] = tx[o]
      /\ tx'[s] = Recorded(tx[s], v, c, t)
  BY <1>0, <1>1, <1>3, <1>4, RecordedTx
<1> HIDE DEF e
<1> QED BY <1>1, <1>2, <1>3, <1>5, <1>6, <1>7 DEF Apart, Uncommitted

(* A write that takes a lock leaves the other sessions alone. *)
LEMMA WriteEffect ==
    ASSUME TypeOK, NEW s \in Session, NEW r, NEW u,
           TakeWrite(s) \/ TakeAll(s),
           image' = [image EXCEPT ![s] = r], tx' = [tx EXCEPT ![s] = u]
    PROVE  Apart(s) /\ Writing(s)' /\ image'[s] = r /\ tx'[s] = u
<1>1. \A o \in Session \ {s} : lock'[o] = lock[o]
  BY DEF TypeOK, TakeWrite, TakeAll
<1>2. Writing(s)'
  BY DEF TypeOK, TakeWrite, TakeAll, Writing
<1> QED BY <1>1, <1>2 DEF TypeOK, Apart

(* What a restatement adds beside its compensation: nothing. *)
LEMMA NoTerm ==
    ASSUME NoDecay, Restaters # {}, NEW lo \in Int, NEW from \in Times, NEW to \in Times
    PROVE  Decayed(lo, from, to) = lo
BY DecayType DEF NoDecay, Decayed, Times

(* An increment writes the version named, and the activation columns stay. *)
Plus(mirror, line, change) == [mirror EXCEPT ![line] = @ + change]
Restated(c, line, change, at, x) == [Increased(c, line, change, at) EXCEPT !.aged = x]

LEMMA RestatedRow ==
    ASSUME NEW c \in Rows, NEW line, NEW change, NEW at, NEW x
    PROVE  /\ Restated(c, line, change, at, x).line = c.line
           /\ Restated(c, line, change, at, x).start = c.start
           /\ Restated(c, line, change, at, x).mirror = Plus(c.mirror, line, change)
<1> DEFINE m == [c.mirror EXCEPT ![line] = @ + change]
           k == c.lo + change
           q == [c EXCEPT !.lo = k, !.upd = at, !.mirror = m]
           r == [q EXCEPT !.aged = x]
<1>1. Restated(c, line, change, at, x) = r
  BY DEF Increased, Restated
<1> HIDE DEF m, k
<1>2. r.line = c.line /\ r.start = c.start /\ r.mirror = m
  BY DEF Rows
<1> HIDE DEF q, r
<1> QED BY <1>1, <1>2 DEF m, Plus

(* Only a session that records restatements has one half done. *)
RestateInv == \A s \in Session : tx[s].pc = "restatement" => s \in Restaters

(* Adding a delta takes it to the version in memory, and nothing is owed. *)
LEMMA AddEffect ==
    ASSUME NoDecay, TypeOK, RestateInv, NEW s \in Session,
           AddEvidence(s) \/ AddRestatement(s)
    PROVE  /\ Apart(s) /\ Uncommitted /\ UNCHANGED allocated
           /\ Writing(s)'
           /\ tx[s].pc \in {"evidence", "restatement"} /\ tx'[s].pc = "open"
           /\ tx'[s].line = tx[s].line /\ tx'[s].rows = tx[s].rows
           /\ image'[s].line = Current(s).line
           /\ image'[s].start = Current(s).start
           /\ image'[s].mirror = Plus(Current(s).mirror, tx[s].line, tx[s].delta)
<1>0. /\ tx[s] \in Txs /\ Current(s) \in Rows
  BY CurrentRow DEF TypeOK
<1>1. /\ tx[s].line \in Lines /\ tx[s].delta \in Int /\ tx[s].at \in Times
      /\ tx[s].lo \in Int /\ tx[s].upd \in Times
  BY <1>0 DEF Txs
<1>2. CASE AddEvidence(s)
  <2> DEFINE r == Increased(Current(s), tx[s].line, tx[s].delta, tx[s].at)
             u == Finished(tx[s], r)
  <2>1. /\ tx[s].pc = "evidence" /\ TakeWrite(s)
        /\ image' = [image EXCEPT ![s] = r]
        /\ tx' = [tx EXCEPT ![s] = u]
        /\ UNCHANGED <<row, ledger, allocated>>
    BY <1>2 DEF AddEvidence, TypeOK
  <2>2. /\ r.line = Current(s).line /\ r.start = Current(s).start
        /\ r.mirror = Plus(Current(s).mirror, tx[s].line, tx[s].delta)
    BY <1>0 DEF Increased, Rows, Plus
  <2>3. u.pc = "open" /\ u.line = tx[s].line /\ u.rows = tx[s].rows
    BY <1>0 DEF Finished, Txs
  <2> HIDE DEF r, u
  <2>4. Apart(s) /\ Writing(s)' /\ image'[s] = r /\ tx'[s] = u
    BY <2>1, WriteEffect
  <2> QED BY <2>1, <2>2, <2>3, <2>4 DEF Uncommitted
<1>3. CASE AddRestatement(s)
  <2> DEFINE total == (Decayed(tx[s].lo, tx[s].upd, tx[s].at) - tx[s].lo) + tx[s].delta
             q == Increased(Current(s), tx[s].line, total, tx[s].at)
             x == IF tx[s].upd < tx[s].at /\ q.aged < tx[s].at THEN tx[s].at ELSE q.aged
             r == Restated(Current(s), tx[s].line, total, tx[s].at, x)
             u == IF total = 0 THEN [tx[s] EXCEPT !.pc = "open", !.done = @ + 1]
                               ELSE Finished(tx[s], r)
  <2>1. /\ tx[s].pc = "restatement" /\ TakeWrite(s)
        /\ image' = [image EXCEPT ![s] = r]
        /\ tx' = [tx EXCEPT ![s] = u]
        /\ UNCHANGED <<row, ledger, allocated>>
    BY <1>3 DEF AddRestatement, TypeOK, Restated
  <2>2. total = tx[s].delta
    <3>1. Restaters # {}
      BY <2>1 DEF RestateInv
    <3>2. Decayed(tx[s].lo, tx[s].upd, tx[s].at) = tx[s].lo
      BY <1>1, <3>1, NoTerm
    <3> QED BY <1>1, <3>2
  <2>3. /\ r.line = Current(s).line /\ r.start = Current(s).start
        /\ r.mirror = Plus(Current(s).mirror, tx[s].line, tx[s].delta)
    <3> HIDE DEF total, x, q
    <3>1. /\ r.line = Current(s).line /\ r.start = Current(s).start
          /\ r.mirror = Plus(Current(s).mirror, tx[s].line, total)
      BY <1>0, RestatedRow
    <3> QED BY <2>2, <3>1
  <2>4. u.pc = "open" /\ u.line = tx[s].line /\ u.rows = tx[s].rows
    <3> HIDE DEF r, total
    <3> QED BY <1>0 DEF Finished, Txs
  <2> HIDE DEF r, u, total, q
  <2>5. Apart(s) /\ Writing(s)' /\ image'[s] = r /\ tx'[s] = u
    BY <2>1, WriteEffect
  <2> QED BY <2>1, <2>3, <2>4, <2>5 DEF Uncommitted
<1> QED BY <1>2, <1>3

(* Decay where there is none, and an edit of other columns, leave the      *)
(* versions as they are.                                                   *)
LEMMA RowEffect ==
    ASSUME NoDecay, TypeOK, NEW s \in Session, DecayRow(s) \/ Rename(s)
    PROVE  /\ Apart(s) /\ Uncommitted /\ UNCHANGED allocated
           /\ Writing(s)'
           /\ tx[s].pc = "open" /\ tx'[s].pc = "ready"
           /\ tx'[s].line = tx[s].line /\ tx'[s].rows = tx[s].rows
           /\ image'[s].line = Current(s).line
           /\ image'[s].start = Current(s).start
           /\ image'[s].mirror = Current(s).mirror
<1> DEFINE u == [tx[s] EXCEPT !.pc = "ready"]
<1>0. /\ tx[s] \in Txs /\ Current(s) \in Rows
  BY CurrentRow DEF TypeOK
<1>1. u.pc = "ready" /\ u.line = tx[s].line /\ u.rows = tx[s].rows
  BY <1>0 DEF Txs
<1>2. CASE DecayRow(s)
  <2>1. /\ tx[s].at <= Current(s).upd
    <3>1. MaxTime = 0
      BY <1>2 DEF DecayRow, NoDecay
    <3> QED BY <1>0, <3>1 DEF Txs, Rows, Times
  <2>2. image' = [image EXCEPT ![s] = Current(s)]
    BY <1>2, <2>1 DEF DecayRow
  <2>3. /\ tx[s].pc = "open" /\ TakeAll(s)
        /\ tx' = [tx EXCEPT ![s] = u]
        /\ UNCHANGED <<row, ledger, allocated>>
    BY <1>2 DEF DecayRow
  <2> HIDE DEF u
  <2>4. Apart(s) /\ Writing(s)' /\ image'[s] = Current(s) /\ tx'[s] = u
    BY <2>2, <2>3, WriteEffect
  <2> QED BY <1>1, <2>3, <2>4 DEF Uncommitted
<1>3. CASE Rename(s)
  <2> DEFINE r == [Current(s) EXCEPT !.upd = tx[s].since]
  <2>1. /\ tx[s].pc = "open" /\ (TakeWrite(s) \/ TakeAll(s))
        /\ image' = [image EXCEPT ![s] = r]
        /\ tx' = [tx EXCEPT ![s] = u]
        /\ UNCHANGED <<row, ledger, allocated>>
    BY <1>3 DEF Rename
  <2>2. /\ r.line = Current(s).line /\ r.start = Current(s).start
        /\ r.mirror = Current(s).mirror
    BY <1>0 DEF Rows
  <2> HIDE DEF r, u
  <2>3. Apart(s) /\ Writing(s)' /\ image'[s] = r /\ tx'[s] = u
    BY <2>1, WriteEffect
  <2> QED BY <1>1, <2>1, <2>2, <2>3 DEF Uncommitted
<1> QED BY <1>2, <1>3

(* A version row is inserted under a fresh name. *)
LEMMA VersionEffect ==
    ASSUME TypeOK, NEW s \in Session, InsertVersion(s)
    PROVE  /\ Apart(s) /\ Uncommitted /\ UNCHANGED image
           /\ Writing(s)' <=> Writing(s)
           /\ allocated' = allocated + 1
           /\ tx[s].pc = "open" /\ tx'[s].pc = "activation"
           /\ tx'[s].line = allocated + 1 /\ tx'[s].rows = tx[s].rows
<1>0. tx \in [Session -> Txs] /\ lock \in [Session -> Locks] /\ tx[s] \in Txs
  BY DEF TypeOK
<1>1. /\ tx[s].pc = "open" /\ TakeShare(s) /\ allocated' = allocated + 1
      /\ UNCHANGED <<row, image, ledger>>
  BY DEF InsertVersion
<1>2. /\ \A o \in Session \ {s} : lock'[o] = lock[o]
      /\ Writing(s)' <=> Writing(s)
  BY <1>0, <1>1 DEF TakeShare, Writing
<1>3. PICK start \in {Baseline, tx[s].lo}, t \in tx[s].since..now :
        tx' = [tx EXCEPT ![s] = [@ EXCEPT !.pc = "activation", !.delta = start,
                                          !.at = t, !.line = allocated + 1]]
  BY DEF InsertVersion
<1>4. /\ tx'[s].pc = "activation" /\ tx'[s].line = allocated + 1
      /\ tx'[s].rows = tx[s].rows
      /\ \A o \in Session \ {s} : tx'[o] = tx[o]
  BY <1>0, <1>3 DEF Txs
<1> QED BY <1>1, <1>2, <1>4 DEF Apart, Uncommitted

(* The new version is made the active one. *)
LEMMA FlushEffect ==
    ASSUME TypeOK, NEW s \in Session, FlushActivation(s)
    PROVE  /\ Apart(s) /\ Uncommitted /\ UNCHANGED allocated
           /\ Writing(s)'
           /\ tx[s].pc = "activation" /\ tx'[s].pc = "ready"
           /\ tx'[s].line = tx[s].line /\ tx'[s].rows = tx[s].rows
           /\ image'[s].line = tx[s].line
           /\ image'[s].start = [Current(s).start EXCEPT ![tx[s].line] = tx[s].delta]
           /\ image'[s].mirror = [Current(s).mirror EXCEPT ![tx[s].line] = tx[s].delta]
<1> DEFINE u == [tx[s] EXCEPT !.pc = "ready"]
<1>0. /\ tx[s] \in Txs /\ Current(s) \in Rows
  BY CurrentRow DEF TypeOK
<1>1. u.pc = "ready" /\ u.line = tx[s].line /\ u.rows = tx[s].rows
  BY <1>0 DEF Txs
<1>2. PICK lo : image' = [image EXCEPT ![s] = Activated(Current(s), tx[s], lo)]
  BY DEF FlushActivation
<1> DEFINE r == Activated(Current(s), tx[s], lo)
<1>3. /\ tx[s].pc = "activation" /\ TakeWrite(s)
      /\ image' = [image EXCEPT ![s] = r]
      /\ tx' = [tx EXCEPT ![s] = u]
      /\ UNCHANGED <<row, ledger, allocated>>
  BY <1>2 DEF FlushActivation
<1>4. /\ r.line = tx[s].line
      /\ r.start = [Current(s).start EXCEPT ![tx[s].line] = tx[s].delta]
      /\ r.mirror = [Current(s).mirror EXCEPT ![tx[s].line] = tx[s].delta]
  BY <1>0 DEF Activated, Rows
<1> HIDE DEF r, u
<1>5. Apart(s) /\ Writing(s)' /\ image'[s] = r /\ tx'[s] = u
  BY <1>3, WriteEffect
<1> QED BY <1>1, <1>3, <1>4, <1>5 DEF Uncommitted

-----------------------------------------------------------------------------
(* The versions that are named.                                            *)

(* The lines of a sequence of rows with one more, and of two in a row. *)
LEMMA AppendLines ==
    ASSUME NEW q \in Seq(Entries), NEW e \in Entries,
           NEW i \in DOMAIN Append(q, e)
    PROVE  Append(q, e)[i].line \in {q[j].line : j \in DOMAIN q} \cup {e.line}
<1>1. CASE i \in DOMAIN q
  BY <1>1
<1>2. CASE i \notin DOMAIN q
  BY <1>2
<1> QED BY <1>1, <1>2

LEMMA ConcatLines ==
    ASSUME NEW p \in Seq(Entries), NEW q \in Seq(Entries),
           NEW i \in DOMAIN (p \o q)
    PROVE  (p \o q)[i].line \in {p[j].line : j \in DOMAIN p}
                                  \cup {q[j].line : j \in DOMAIN q}
<1>1. CASE i \in DOMAIN p
  BY <1>1
<1>2. CASE i \notin DOMAIN p
  <2>1. i - Len(p) \in DOMAIN q /\ (p \o q)[i] = q[i - Len(p)]
    BY <1>2
  <2> QED BY <2>1
<1> QED BY <1>1, <1>2

(* A step that names nothing new keeps the names of activations apart. *)
LEMMA LineStep ==
    ASSUME TypeOK, LineInv, NEW s \in Session, Apart(s), UNCHANGED allocated,
           \A v \in Booked' : v \in Booked \cup Drafted(s),
           \A v \in Drafted(s)' : v \in Booked \cup Drafted(s) \cup {1, tx[s].line},
           tx'[s].line \in Booked \cup {1, tx[s].line},
           tx'[s].pc # "activation"
    PROVE  LineInv'
<1>1. allocated \in Nat /\ 1 <= allocated
  BY BoundsType DEF TypeOK, Lines
<1>2. \A o \in Session \ {s} : Drafted(o)' = Drafted(o) /\ tx'[o] = tx[o]
  BY DEF Apart, Drafted
<1>3. \A v \in Booked' : v <= allocated'
  BY DEF LineInv
<1>4. \A o \in Session : tx'[o].line <= allocated' /\ \A v \in Drafted(o)' : v <= allocated'
  <2>1. tx'[s].line <= allocated' /\ \A v \in Drafted(s)' : v <= allocated'
    BY <1>1 DEF LineInv
  <2> QED BY <1>2, <2>1 DEF LineInv
<1>5. ASSUME NEW a \in Session, tx'[a].pc = "activation"
      PROVE  /\ tx'[a].line # 1 /\ tx'[a].line \notin Booked'
             /\ \A o \in Session : tx'[a].line \notin Drafted(o)'
             /\ \A o \in Others(a) : tx'[o].line # tx'[a].line
  <2>1. a # s /\ tx'[a] = tx[a]
    BY <1>2, <1>5
  <2>2. /\ tx[a].line # 1 /\ tx[a].line \notin Booked
        /\ \A o \in Session : tx[a].line \notin Drafted(o)
        /\ \A o \in Others(a) : tx[o].line # tx[a].line
    BY <1>5, <2>1 DEF LineInv
  <2>3. s \in Others(a)
    BY <2>1 DEF Others
  <2>4. \A o \in Session : tx[a].line \notin Drafted(o)'
    BY <1>2, <2>2, <2>3
  <2>5. \A o \in Others(a) : tx'[o].line # tx[a].line
    BY <1>2, <2>2, <2>3 DEF Others
  <2> QED BY <2>1, <2>2, <2>4, <2>5
<1> QED BY <1>3, <1>4, <1>5 DEF LineInv

(* A new version has a name of its own. *)
LEMMA VersionStep ==
    ASSUME TypeOK, LineInv, NEW s \in Session, InsertVersion(s)
    PROVE  LineInv'
<1>1. allocated \in Nat /\ 1 <= allocated
  BY BoundsType DEF TypeOK, Lines
<1>2. /\ Apart(s) /\ Uncommitted /\ UNCHANGED image
      /\ allocated' = allocated + 1
      /\ tx'[s].line = allocated + 1 /\ tx'[s].rows = tx[s].rows
  BY VersionEffect
<1>3. /\ \A o \in Session : Drafted(o)' = Drafted(o)
      /\ Booked' = Booked
      /\ \A o \in Session \ {s} : tx'[o] = tx[o]
  BY <1>2 DEF Apart, Drafted, Booked, Uncommitted
<1>4. /\ \A v \in Booked : v \in Int /\ v < allocated + 1
      /\ \A o \in Session : /\ tx[o].line \in Int /\ tx[o].line < allocated + 1
                            /\ \A v \in Drafted(o) : v \in Int /\ v < allocated + 1
  <2>1. \A v \in Booked : v \in Int
    <3>1. row.line \in Int
      BY BoundsType DEF TypeOK, Rows, Lines
    <3>2. \A i \in DOMAIN ledger : ledger[i].line \in Int
      BY LedgerLine, BoundsType DEF Lines
    <3> QED BY <3>1, <3>2 DEF Booked
  <2>2. ASSUME NEW o \in Session
        PROVE  tx[o].line \in Int /\ \A v \in Drafted(o) : v \in Int
    <3>1. tx[o] \in Txs /\ image[o] \in Rows
      BY DEF TypeOK
    <3>2. tx[o].line \in Int /\ image[o].line \in Int
      BY <3>1, BoundsType DEF Txs, Rows, Lines
    <3>3. \A i \in DOMAIN tx[o].rows : tx[o].rows[i] \in Entries
      BY <3>1 DEF Txs
    <3>4. \A i \in DOMAIN tx[o].rows : tx[o].rows[i].line \in Int
      BY <3>3, BoundsType DEF Entries, Lines
    <3> QED BY <3>2, <3>4 DEF Drafted
  <2> QED BY <1>1, <2>1, <2>2 DEF LineInv
<1>5. /\ \A v \in Booked' : v <= allocated'
      /\ \A o \in Session : tx'[o].line <= allocated' /\ \A v \in Drafted(o)' : v <= allocated'
  BY <1>1, <1>2, <1>3, <1>4
<1>6. ASSUME NEW a \in Session, tx'[a].pc = "activation"
      PROVE  /\ tx'[a].line # 1 /\ tx'[a].line \notin Booked'
             /\ \A o \in Session : tx'[a].line \notin Drafted(o)'
             /\ \A o \in Others(a) : tx'[o].line # tx'[a].line
  <2>1. CASE a = s
    <3>1. \A o \in Others(a) : tx'[o] = tx[o] /\ o \in Session
      BY <1>3, <2>1 DEF Others
    <3> QED BY <1>1, <1>2, <1>3, <1>4, <2>1, <3>1
  <2>2. CASE a # s
    <3>1. tx'[a] = tx[a]
      BY <1>3, <2>2
    <3>2. /\ tx[a].line # 1 /\ tx[a].line \notin Booked
          /\ \A o \in Session : tx[a].line \notin Drafted(o)
          /\ \A o \in Others(a) : tx[o].line # tx[a].line
      BY <1>6, <3>1 DEF LineInv
    <3>3. tx[a].line # tx'[s].line
      BY <1>2, <1>4
    <3> QED BY <1>3, <3>1, <3>2, <3>3 DEF Others
  <2> QED BY <2>1, <2>2
<1> QED BY <1>5, <1>6 DEF LineInv

(* The first version is named by the trend when it is created. *)
LEMMA LineInit == Init => LineInv
<1> SUFFICES ASSUME Init PROVE LineInv
  OBVIOUS
<1>1. /\ allocated = 1 /\ row.line = 1 /\ ledger = <<>>
      /\ \A s \in Session : image[s].line = 1 /\ tx[s].line = 1 /\ tx[s].rows = <<>>
                            /\ tx[s].pc = "idle"
  BY DEF Init, FirstRow, NoTx
<1>2. Booked = {1} /\ \A s \in Session : Drafted(s) = {1}
  BY <1>1 DEF Booked, Drafted
<1> QED BY <1>1, <1>2 DEF LineInv

(* A session begins with the version that is active, and ends with none. *)
LEMMA BeginEffect ==
    ASSUME TypeOK, NEW s \in Session, Begin(s)
    PROVE  /\ Apart(s) /\ Uncommitted /\ UNCHANGED <<image, lock, allocated>>
           /\ tx[s].pc = "idle" /\ tx'[s].pc = "open"
           /\ tx'[s].line = row.line /\ tx'[s].rows = <<>>
BY DEF Begin, TypeOK, Apart, Uncommitted

LEMMA EndEffect ==
    ASSUME TypeOK, NEW s \in Session, Commit(s) \/ Rollback(s)
    PROVE  /\ Apart(s) /\ UNCHANGED allocated
           /\ lock'[s] = "none" /\ image'[s] = FirstRow /\ tx'[s] = NoTx
BY DEF Commit, Rollback, TypeOK, Apart

(* Every step keeps the names of activations apart. *)
LEMMA LineNext ==
    ASSUME NoDecay
    PROVE  TypeOK /\ RestateInv /\ LineInv /\ [Next]_vars => LineInv'
<1> SUFFICES ASSUME TypeOK, RestateInv, LineInv, [Next]_vars
             PROVE  LineInv'
  OBVIOUS
<1>0. ASSUME NEW s \in Session
      PROVE  tx[s].rows \in Seq(Entries) /\ Current(s).line \in Booked \cup Drafted(s)
  BY DEF TypeOK, Txs, Current, Booked, Drafted
<1>1. ASSUME NEW s \in Session, Begin(s)
      PROVE  LineInv'
  <2>1. /\ Apart(s) /\ Uncommitted /\ UNCHANGED <<image, allocated>>
        /\ tx'[s].pc = "open" /\ tx'[s].line = row.line /\ tx'[s].rows = <<>>
    BY <1>1, BeginEffect
  <2>2. Booked' = Booked /\ tx'[s].line \in Booked
    BY <2>1 DEF Booked, Uncommitted
  <2>3. \A v \in Drafted(s)' : v \in Drafted(s)
    BY <2>1 DEF Drafted
  <2> QED BY <2>1, <2>2, <2>3, LineStep
<1>2. ASSUME NEW s \in Session, InsertEvidence(s) \/ InsertRestatement(s)
      PROVE  LineInv'
  <2>1. /\ Apart(s) /\ Uncommitted /\ UNCHANGED <<image, allocated>>
        /\ tx'[s].pc # "activation" /\ tx'[s].line = tx[s].line
    BY <1>2, InsertEffect
  <2>2. PICK e \in Entries : e.line = tx[s].line /\ tx'[s].rows = Append(tx[s].rows, e)
    BY <1>2, InsertEffect
  <2>3. Booked' = Booked
    BY <2>1 DEF Booked, Uncommitted
  <2>4. \A v \in Drafted(s)' : v \in Drafted(s) \cup {tx[s].line}
    BY <1>0, <2>1, <2>2, AppendLines DEF Drafted
  <2> QED BY <2>1, <2>3, <2>4, LineStep
<1>3. ASSUME NEW s \in Session, RecordRestatement(s)
      PROVE  LineInv'
  <2>1. /\ Apart(s) /\ Uncommitted /\ UNCHANGED <<image, allocated>>
        /\ tx'[s].pc # "activation" /\ tx'[s].line = tx[s].line
    BY <1>3, RecordEffect
  <2>2. PICK e \in Entries : e.line \in Booked /\ tx'[s].rows = Append(tx[s].rows, e)
    BY <1>3, RecordEffect DEF Booked
  <2>3. Booked' = Booked
    BY <2>1 DEF Booked, Uncommitted
  <2>4. \A v \in Drafted(s)' : v \in Drafted(s) \cup Booked
    BY <1>0, <2>1, <2>2, AppendLines DEF Drafted
  <2> QED BY <2>1, <2>3, <2>4, LineStep
<1>4. ASSUME NEW s \in Session,
             AddEvidence(s) \/ AddRestatement(s) \/ DecayRow(s) \/ Rename(s)
      PROVE  LineInv'
  <2>1. /\ Apart(s) /\ Uncommitted /\ UNCHANGED allocated
        /\ tx'[s].pc # "activation" /\ tx'[s].line = tx[s].line
        /\ tx'[s].rows = tx[s].rows /\ image'[s].line = Current(s).line
    BY <1>4, AddEffect, RowEffect
  <2>2. Booked' = Booked
    BY <2>1 DEF Booked, Uncommitted
  <2>3. \A v \in Drafted(s)' : v \in Drafted(s) \cup Booked
    BY <1>0, <2>1 DEF Drafted
  <2> QED BY <2>1, <2>2, <2>3, LineStep
<1>5. ASSUME NEW s \in Session, InsertVersion(s)
      PROVE  LineInv'
  BY <1>5, VersionStep
<1>6. ASSUME NEW s \in Session, FlushActivation(s)
      PROVE  LineInv'
  <2>1. /\ Apart(s) /\ Uncommitted /\ UNCHANGED allocated
        /\ tx'[s].pc # "activation" /\ tx'[s].line = tx[s].line
        /\ tx'[s].rows = tx[s].rows /\ image'[s].line = tx[s].line
    BY <1>6, FlushEffect
  <2>2. Booked' = Booked
    BY <2>1 DEF Booked, Uncommitted
  <2>3. \A v \in Drafted(s)' : v \in Drafted(s) \cup {tx[s].line}
    BY <2>1 DEF Drafted
  <2> QED BY <2>1, <2>2, <2>3, LineStep
<1>7. ASSUME NEW s \in Session, Commit(s) \/ Rollback(s)
      PROVE  LineInv'
  <2>1. /\ Apart(s) /\ UNCHANGED allocated
        /\ image'[s].line = 1 /\ tx'[s].line = 1 /\ tx'[s].rows = <<>>
        /\ tx'[s].pc = "idle"
    BY <1>7, EndEffect DEF FirstRow, NoTx
  <2>2. \A v \in Booked' : v \in Booked \cup Drafted(s)
    <3>1. CASE Commit(s)
      <4>1. row' = Current(s) /\ ledger' = ledger \o tx[s].rows /\ ledger \in Seq(Entries)
        BY <3>1 DEF Commit, TypeOK
      <4>2. \A i \in DOMAIN ledger' : ledger'[i].line \in Booked \cup Drafted(s)
        BY <1>0, <4>1, ConcatLines DEF Booked, Drafted
      <4> QED BY <1>0, <4>1, <4>2 DEF Booked
    <3>2. CASE Rollback(s)
      BY <3>2 DEF Rollback, Booked
    <3> QED BY <1>7, <3>1, <3>2
  <2>3. \A v \in Drafted(s)' : v = 1
    BY <2>1 DEF Drafted
  <2> QED BY <2>1, <2>2, <2>3, LineStep
<1>8. ASSUME Tick \/ Quiet \/ UNCHANGED vars
      PROVE  LineInv'
  BY <1>8 DEF Tick, Quiet, vars, LineInv, Booked, Drafted, Others
<1> QED
  BY <1>1, <1>2, <1>3, <1>4, <1>5, <1>6, <1>7, <1>8 DEF Next, Step

-----------------------------------------------------------------------------
(* Restatements half done.                                                 *)

LEMMA RestateInit == Init => RestateInv
BY DEF Init, NoTx, RestateInv

LEMMA RestateNext ==
    ASSUME NoDecay
    PROVE  TypeOK /\ RestateInv /\ [Next]_vars => RestateInv'
<1> SUFFICES ASSUME TypeOK, RestateInv, [Next]_vars
             PROVE  RestateInv'
  OBVIOUS
<1>1. ASSUME NEW s \in Session, Apart(s),
             tx'[s].pc = "restatement" => s \in Restaters
      PROVE  RestateInv'
  BY <1>1 DEF Apart, RestateInv
<1>2. ASSUME NEW s \in Session, Begin(s)
      PROVE  RestateInv'
  BY <1>1, <1>2, BeginEffect
<1>3. ASSUME NEW s \in Session, InsertEvidence(s)
      PROVE  RestateInv'
  <2>1. PICK next \in {"evidence"}, d \in Deltas, at \in Times, stamp \in Times :
          tx' = [tx EXCEPT ![s] = Inserted(tx[s], next, d, at, stamp)]
    BY <1>3 DEF InsertEvidence, TypeOK, Txs
  <2>2. next \in Pending /\ d \in Int
    BY DeltasType DEF Pending
  <2>3. tx \in [Session -> Txs] /\ tx[s] \in Txs
    BY DEF TypeOK
  <2>4. tx'[s].pc = next
    BY <2>1, <2>2, <2>3, InsertedTx
  <2> QED BY <1>1, <1>3, <2>4, InsertEffect
<1>4. ASSUME NEW s \in Session, InsertRestatement(s)
      PROVE  RestateInv'
  <2>1. s \in Restaters
    BY <1>4 DEF InsertRestatement
  <2> QED BY <1>1, <1>4, <2>1, InsertEffect
<1>5. ASSUME NEW s \in Session, RecordRestatement(s)
      PROVE  RestateInv'
  BY <1>1, <1>5, RecordEffect
<1>6. ASSUME NEW s \in Session, AddEvidence(s) \/ AddRestatement(s)
      PROVE  RestateInv'
  BY <1>1, <1>6, AddEffect
<1>7. ASSUME NEW s \in Session, DecayRow(s) \/ Rename(s)
      PROVE  RestateInv'
  BY <1>1, <1>7, RowEffect
<1>8. ASSUME NEW s \in Session, InsertVersion(s)
      PROVE  RestateInv'
  BY <1>1, <1>8, VersionEffect
<1>9. ASSUME NEW s \in Session, FlushActivation(s)
      PROVE  RestateInv'
  BY <1>1, <1>9, FlushEffect
<1>10. ASSUME NEW s \in Session, Commit(s) \/ Rollback(s)
       PROVE  RestateInv'
  BY <1>1, <1>10, EndEffect DEF NoTx
<1>11. CASE Tick \/ Quiet \/ UNCHANGED vars
  BY <1>11 DEF Tick, Quiet, vars, RestateInv
<1> QED
  BY <1>2, <1>3, <1>4, <1>5, <1>6, <1>7, <1>8, <1>9, <1>10, <1>11 DEF Next, Step

-----------------------------------------------------------------------------
(* The balance.                                                            *)

(* What the quantities of the books are made of. *)
LEMMA BookTypes ==
    ASSUME TypeOK, NEW s \in Session, NEW v \in Lines
    PROVE  /\ PostedTo(v) \in Int
           /\ Applied(tx[s].rows, v) \in Int /\ Owed(s, v) \in Int /\ Added(s, v) \in Int
           /\ row.mirror[v] \in Int /\ row.start[v] \in Int
           /\ Current(s).mirror[v] \in Int /\ Current(s).start[v] \in Int
<1>1. /\ tx[s].rows \in Seq(Entries) /\ tx[s].delta \in Int /\ ledger \in Seq(Entries)
  BY DEF TypeOK, Txs
<1>2. /\ PostedTo(v) \in Int /\ Applied(tx[s].rows, v) \in Int
  BY <1>1, AppliedSum DEF PostedTo
<1>3. Current(s) \in Rows /\ row \in Rows
  BY CurrentRow DEF TypeOK
<1>4. /\ row.mirror[v] \in Int /\ row.start[v] \in Int
      /\ Current(s).mirror[v] \in Int /\ Current(s).start[v] \in Int
  BY <1>3 DEF Rows
<1> QED BY <1>1, <1>2, <1>4 DEF Owed, Added

(* An uncommitted step of one session only concerns its own balance. *)
LEMMA BookStep ==
    ASSUME TypeOK, BookInv, NEW s \in Session, Apart(s), Uncommitted,
           \A v \in Lines : Balanced(s, v)',
           \A v \in Lines : Writing(s)' \/ Added(s, v)' = 0,
           tx'[s].pc # "idle" \/ lock'[s] = "none"
    PROVE  BookInv'
<1>1. /\ row' = row /\ \A v : PostedTo(v)' = PostedTo(v)
  BY DEF Uncommitted, PostedTo
<1>2. ASSUME NEW o \in Session \ {s}
      PROVE  /\ Current(o)' = Current(o) /\ Writing(o)' = Writing(o)
             /\ tx'[o] = tx[o] /\ lock'[o] = lock[o]
             /\ \A v : Added(o, v)' = Added(o, v)
  BY DEF Apart, Uncommitted, Current, Writing, Added, Owed
<1>3. \A o \in Session, v \in Lines : Balanced(o, v)'
  BY <1>1, <1>2 DEF BookInv, Balanced
<1>4. \A o \in Session, v \in Lines : Writing(o)' \/ Added(o, v)' = 0
  BY <1>2 DEF BookInv
<1>5. \A o \in Session : tx'[o].pc = "idle" => lock'[o] = "none"
  BY <1>2 DEF BookInv
<1>6. \A v \in Lines : row'.mirror[v] = row'.start[v] + PostedTo(v)'
  BY <1>1 DEF BookInv
<1> QED BY <1>3, <1>4, <1>5, <1>6 DEF BookInv

(* A step that leaves the row a session sees, and what it has added. *)
LEMMA BookKept ==
    ASSUME TypeOK, BookInv, NEW s \in Session, Apart(s), Uncommitted,
           Writing(s) => Writing(s)',
           Current(s)'.mirror = Current(s).mirror, Current(s)'.start = Current(s).start,
           \A v \in Lines : Added(s, v)' = Added(s, v),
           tx'[s].pc # "idle" \/ lock'[s] = "none"
    PROVE  BookInv'
<1>1. \A v : PostedTo(v)' = PostedTo(v)
  BY DEF Uncommitted, PostedTo
<1>2. \A v \in Lines : Balanced(s, v)'
  BY <1>1 DEF BookInv, Balanced
<1>3. \A v \in Lines : Writing(s)' \/ Added(s, v)' = 0
  BY DEF BookInv
<1> QED BY <1>2, <1>3, BookStep

(* The books balance before anything is booked. *)
LEMMA BookInit == Init => BookInv
<1> SUFFICES ASSUME Init PROVE BookInv
  OBVIOUS
<1>1. /\ row = FirstRow /\ ledger = <<>>
      /\ \A s \in Session : tx[s] = NoTx /\ lock[s] = "none"
  BY DEF Init
<1>2. <<>> \in Seq(Entries) /\ DOMAIN <<>> = {}
  OBVIOUS
<1>3. \A v : Applied(<<>>, v) = 0
  <2>1. \A i \in DOMAIN <<>> : FALSE
    BY <1>2
  <2> QED BY <1>2, <2>1, AppliedNone
<1>4. \A v \in Lines : FirstRow.mirror[v] = Baseline /\ FirstRow.start[v] = Baseline
  BY DEF FirstRow
<1>5. \A v : PostedTo(v) = 0
  BY <1>1, <1>3 DEF PostedTo
<1>6. ASSUME NEW s \in Session
      PROVE  Current(s) = FirstRow /\ \A v : Added(s, v) = 0
  BY <1>1, <1>3 DEF Current, Writing, Added, Owed, NoTx
<1>7. Baseline \in Int
  BY DecayType
<1> QED BY <1>1, <1>4, <1>5, <1>6, <1>7 DEF BookInv, Balanced

(* An insert: what the new row gains is owed. *)
LEMMA BookInsert ==
    ASSUME TypeOK, TypeOK', BookInv, NEW s \in Session,
           InsertEvidence(s) \/ InsertRestatement(s)
    PROVE  BookInv'
<1>1. /\ Apart(s) /\ Uncommitted /\ UNCHANGED image
      /\ Writing(s)' <=> Writing(s)
      /\ tx[s].pc = "open" /\ tx'[s].pc \in {"evidence", "restatement"}
      /\ tx'[s].line = tx[s].line
  BY InsertEffect
<1>2. PICK e \in Entries : /\ e.line = tx[s].line /\ e.effect = "applied"
                           /\ e.delta = tx'[s].delta
                           /\ tx'[s].rows = Append(tx[s].rows, e)
  BY InsertEffect
<1>3. Current(s)' = Current(s)
  BY <1>1 DEF Current, Uncommitted
<1>4. ASSUME NEW v \in Lines
      PROVE  Added(s, v)' = Added(s, v)
  <2>1. tx[s].rows \in Seq(Entries)
    BY DEF TypeOK, Txs
  <2>2. Applied(tx'[s].rows, v) = Applied(tx[s].rows, v) + Gain(e, v)
    BY <1>2, <2>1, AppliedAppend
  <2>3. Owed(s, v) = 0 /\ Owed(s, v)' = Gain(e, v)
    BY <1>1, <1>2 DEF Owed, Gain
  <2>4. Applied(tx[s].rows, v) \in Int /\ Gain(e, v) \in Int
    BY BookTypes DEF Gain, Entries
  <2>5. Added(s, v)' = Applied(tx'[s].rows, v) - Owed(s, v)'
    BY DEF Added
  <2> QED BY <2>2, <2>3, <2>4, <2>5 DEF Added
<1> QED BY <1>1, <1>3, <1>4, BookKept

(* A restatement that is only recorded gains nothing. *)
LEMMA BookRecord ==
    ASSUME TypeOK, BookInv, NEW s \in Session, RecordRestatement(s)
    PROVE  BookInv'
<1>1. /\ Apart(s) /\ Uncommitted /\ UNCHANGED image
      /\ Writing(s)' <=> Writing(s)
      /\ tx[s].pc = "open" /\ tx'[s].pc = "open"
  BY RecordEffect
<1>2. PICK e \in Entries : e.effect = "recorded" /\ tx'[s].rows = Append(tx[s].rows, e)
  BY RecordEffect
<1>3. Current(s)' = Current(s)
  BY <1>1 DEF Current, Uncommitted
<1>4. ASSUME NEW v \in Lines
      PROVE  Added(s, v)' = Added(s, v)
  <2>1. tx[s].rows \in Seq(Entries)
    BY DEF TypeOK, Txs
  <2>2. Applied(tx'[s].rows, v) = Applied(tx[s].rows, v) + Gain(e, v)
    BY <1>2, <2>1, AppliedAppend
  <2>3. Owed(s, v) = 0 /\ Owed(s, v)' = 0 /\ Gain(e, v) = 0
    BY <1>1, <1>2 DEF Owed, Gain
  <2>4. Applied(tx[s].rows, v) \in Int
    BY BookTypes
  <2>5. Added(s, v)' = Applied(tx'[s].rows, v) - Owed(s, v)'
    BY DEF Added
  <2> QED BY <2>2, <2>3, <2>4, <2>5 DEF Added
<1> QED BY <1>1, <1>3, <1>4, BookKept

(* The deltas of the rows stay, and nothing is owed before or after. *)
LEMMA AddedKept ==
    ASSUME NEW s \in Session, NEW v \in Lines, tx'[s].rows = tx[s].rows,
           tx[s].pc \notin {"evidence", "restatement"},
           tx'[s].pc \notin {"evidence", "restatement"}
    PROVE  Added(s, v)' = Added(s, v)
BY DEF Added, Owed

(* The update adds to the version what was owed. *)
LEMMA BookAdd ==
    ASSUME NoDecay, TypeOK, RestateInv, BookInv, NEW s \in Session,
           AddEvidence(s) \/ AddRestatement(s)
    PROVE  BookInv'
<1>1. /\ Apart(s) /\ Uncommitted /\ Writing(s)'
      /\ tx[s].pc \in {"evidence", "restatement"} /\ tx'[s].pc = "open"
      /\ tx'[s].rows = tx[s].rows
      /\ image'[s].start = Current(s).start
      /\ image'[s].mirror = Plus(Current(s).mirror, tx[s].line, tx[s].delta)
  BY AddEffect
<1>2. Current(s)' = image'[s]
  BY <1>1 DEF Current
<1>3. ASSUME NEW v \in Lines
      PROVE  Balanced(s, v)'
  <2> DEFINE d == IF tx[s].line = v THEN tx[s].delta ELSE 0
  <2>1. d \in Int
    BY DEF TypeOK, Txs
  <2>2. Added(s, v) = Applied(tx[s].rows, v) - d
    BY <1>1 DEF Added, Owed
  <2>3. Added(s, v)' = Applied(tx[s].rows, v)
    <3>1. Applied(tx[s].rows, v) \in Int
      BY BookTypes
    <3>2. Owed(s, v)' = 0
      BY <1>1 DEF Owed
    <3>3. Added(s, v)' = Applied(tx'[s].rows, v) - Owed(s, v)'
      BY DEF Added
    <3> QED BY <1>1, <3>1, <3>2, <3>3
  <2>4. image'[s].mirror[v] = Current(s).mirror[v] + d
    <3>1. Current(s).mirror \in [Lines -> Int]
      BY CurrentRow DEF Rows
    <3> QED BY <1>1, <3>1 DEF Plus
  <2>5. PostedTo(v)' = PostedTo(v)
    BY <1>1 DEF PostedTo, Uncommitted
  <2>6. Current(s).mirror[v] = Current(s).start[v] + PostedTo(v) + Added(s, v)
    BY DEF BookInv, Balanced
  <2>7. /\ PostedTo(v) \in Int /\ Applied(tx[s].rows, v) \in Int
        /\ Current(s).mirror[v] \in Int /\ Current(s).start[v] \in Int
    BY BookTypes
  <2> HIDE DEF d
  <2>8. image'[s].mirror[v] = image'[s].start[v] + PostedTo(v)' + Added(s, v)'
    BY <1>1, <2>1, <2>2, <2>3, <2>4, <2>5, <2>6, <2>7
  <2> QED BY <1>2, <2>8 DEF Balanced
<1> QED BY <1>1, <1>3, BookStep

(* Nothing is booked under the name of a version before it is active. *)
LEMMA BookFlush ==
    ASSUME TypeOK, LineInv, BookInv, NEW s \in Session, FlushActivation(s)
    PROVE  BookInv'
<1>1. /\ Apart(s) /\ Uncommitted /\ Writing(s)'
      /\ tx[s].pc = "activation" /\ tx'[s].pc = "ready"
      /\ tx'[s].rows = tx[s].rows
      /\ image'[s].start = [Current(s).start EXCEPT ![tx[s].line] = tx[s].delta]
      /\ image'[s].mirror = [Current(s).mirror EXCEPT ![tx[s].line] = tx[s].delta]
  BY FlushEffect
<1>2. Current(s)' = image'[s]
  BY <1>1 DEF Current
<1>3. ASSUME NEW v \in Lines
      PROVE  Balanced(s, v)'
  <2>1. Added(s, v)' = Added(s, v)
    BY <1>1, AddedKept
  <2>2. PostedTo(v)' = PostedTo(v)
    BY <1>1 DEF PostedTo, Uncommitted
  <2>3. /\ Current(s).mirror \in [Lines -> Int] /\ Current(s).start \in [Lines -> Int]
        /\ tx[s].delta \in Int /\ ledger \in Seq(Entries) /\ tx[s].rows \in Seq(Entries)
    BY CurrentRow DEF Rows, TypeOK, Txs
  <2>4. CASE v = tx[s].line
    <3>1. v \notin Booked /\ v \notin Drafted(s)
      BY <1>1, <2>4 DEF LineInv
    <3>2. PostedTo(v) = 0
      BY <2>3, <3>1, AppliedNone DEF Booked, PostedTo
    <3>3. Applied(tx[s].rows, v) = 0
      BY <2>3, <3>1, AppliedNone DEF Drafted
    <3>4. Added(s, v) = 0
      BY <1>1, <3>3 DEF Added, Owed
    <3>5. image'[s].mirror[v] = tx[s].delta /\ image'[s].start[v] = tx[s].delta
      BY <1>1, <2>3, <2>4
    <3>6. image'[s].mirror[v] = image'[s].start[v] + PostedTo(v)' + Added(s, v)'
      BY <2>1, <2>2, <2>3, <3>2, <3>4, <3>5
    <3> QED BY <1>2, <3>6 DEF Balanced
  <2>5. CASE v # tx[s].line
    <3>1. /\ image'[s].mirror[v] = Current(s).mirror[v]
          /\ image'[s].start[v] = Current(s).start[v]
      BY <1>1, <2>3, <2>5
    <3> QED BY <1>2, <2>1, <2>2, <3>1 DEF Balanced, BookInv
  <2> QED BY <2>4, <2>5
<1> QED BY <1>1, <1>3, BookStep

(* A step that writes other columns, inserts a version or begins.          *)
LEMMA BookOther ==
    ASSUME NoDecay, TypeOK, BookInv, NEW s \in Session,
           DecayRow(s) \/ Rename(s) \/ InsertVersion(s)
    PROVE  BookInv'
<1>1. CASE DecayRow(s) \/ Rename(s)
  <2>1. /\ Apart(s) /\ Uncommitted /\ Writing(s)'
        /\ tx[s].pc = "open" /\ tx'[s].pc = "ready" /\ tx'[s].rows = tx[s].rows
        /\ image'[s].start = Current(s).start
        /\ image'[s].mirror = Current(s).mirror
    BY <1>1, RowEffect
  <2>2. Current(s)' = image'[s]
    BY <2>1 DEF Current
  <2>3. \A v \in Lines : Added(s, v)' = Added(s, v)
    BY <2>1, AddedKept
  <2> QED BY <2>1, <2>2, <2>3, BookKept
<1>2. CASE InsertVersion(s)
  <2>1. /\ Apart(s) /\ Uncommitted /\ UNCHANGED image
        /\ Writing(s)' <=> Writing(s)
        /\ tx[s].pc = "open" /\ tx'[s].pc = "activation" /\ tx'[s].rows = tx[s].rows
    BY <1>2, VersionEffect
  <2>2. Current(s)' = Current(s)
    BY <2>1 DEF Current, Uncommitted
  <2>3. \A v \in Lines : Added(s, v)' = Added(s, v)
    BY <2>1, AddedKept
  <2> QED BY <2>1, <2>2, <2>3, BookKept
<1> QED BY <1>1, <1>2

(* A session that has inserted nothing has added nothing. *)
LEMMA AddedFresh ==
    ASSUME NEW s \in Session, tx'[s].rows = <<>>, tx'[s].pc \in {"idle", "open"}
    PROVE  \A v : Added(s, v)' = 0
<1>1. <<>> \in Seq(Entries) /\ \A i \in DOMAIN <<>> : FALSE
  OBVIOUS
<1>2. \A v : Applied(<<>>, v) = 0
  BY <1>1, AppliedNone
<1>3. \A v : Added(s, v)' = Applied(tx'[s].rows, v) - Owed(s, v)'
  BY DEF Added
<1>4. \A v : Owed(s, v)' = 0
  BY DEF Owed
<1> QED BY <1>2, <1>3, <1>4

(* A session that begins, or gives up, sees the committed row. *)
LEMMA BookFresh ==
    ASSUME TypeOK, BookInv, NEW s \in Session, Begin(s) \/ Rollback(s)
    PROVE  BookInv'
<1>1. /\ Apart(s) /\ Uncommitted /\ lock'[s] = "none"
      /\ tx'[s].rows = <<>> /\ tx'[s].pc \in {"idle", "open"}
  <2>1. CASE Begin(s)
    <3>1. /\ Apart(s) /\ Uncommitted /\ lock' = lock /\ tx[s].pc = "idle"
          /\ tx'[s].rows = <<>> /\ tx'[s].pc = "open"
      BY <2>1, BeginEffect
    <3> QED BY <3>1 DEF BookInv
  <2>2. CASE Rollback(s)
    <3>1. Apart(s) /\ lock'[s] = "none" /\ tx'[s] = NoTx
      BY <2>2, EndEffect
    <3>2. Uncommitted
      BY <2>2 DEF Rollback, Uncommitted
    <3>3. NoTx.rows = <<>> /\ NoTx.pc = "idle"
      BY DEF NoTx
    <3> QED BY <3>1, <3>2, <3>3
  <2> QED BY <2>1, <2>2
<1>2. \A v : Added(s, v)' = 0
  BY <1>1, AddedFresh
<1>3. Current(s)' = row /\ \A v : PostedTo(v)' = PostedTo(v)
  BY <1>1 DEF Current, Writing, Uncommitted, PostedTo
<1>4. ASSUME NEW v \in Lines
      PROVE  Balanced(s, v)'
  <2>1. row.mirror[v] = row.start[v] + PostedTo(v)
    BY DEF BookInv
  <2>2. row.start[v] \in Int /\ PostedTo(v) \in Int
    BY BookTypes
  <2> QED BY <1>2, <1>3, <2>1, <2>2 DEF Balanced
<1> QED BY <1>1, <1>2, <1>4, BookStep

(* A commit publishes the deltas with the row they were added to. *)
LEMMA BookCommit ==
    ASSUME TypeOK, LockInv, BookInv, NEW s \in Session, Commit(s)
    PROVE  BookInv'
<1>1. /\ Apart(s) /\ lock'[s] = "none" /\ tx'[s].rows = <<>> /\ tx'[s].pc = "idle"
  BY EndEffect DEF NoTx
<1>2. /\ tx[s].pc \in {"open", "ready"}
      /\ row' = Current(s) /\ ledger' = ledger \o tx[s].rows
  BY DEF Commit
<1>3. ASSUME NEW v \in Lines
      PROVE  /\ PostedTo(v)' = PostedTo(v) + Added(s, v)
             /\ Added(s, v) \in Int /\ PostedTo(v) \in Int
  <2>1. ledger \in Seq(Entries) /\ tx[s].rows \in Seq(Entries)
    BY DEF TypeOK, Txs
  <2>2. Applied(ledger \o tx[s].rows, v) = Applied(ledger, v) + Applied(tx[s].rows, v)
    BY <2>1, AppliedConcat
  <2>3. Owed(s, v) = 0
    BY <1>2 DEF Owed
  <2>4. Applied(tx[s].rows, v) \in Int /\ PostedTo(v) \in Int
    BY BookTypes
  <2>5. PostedTo(v)' = Applied(ledger', v)
    BY DEF PostedTo
  <2> QED BY <1>2, <2>2, <2>3, <2>4, <2>5 DEF PostedTo, Added
<1>4. \A v \in Lines : row'.mirror[v] = row'.start[v] + PostedTo(v)'
  <2> SUFFICES ASSUME NEW v \in Lines
               PROVE  row'.mirror[v] = row'.start[v] + PostedTo(v)'
    OBVIOUS
  <2>1. Current(s).mirror[v] = Current(s).start[v] + PostedTo(v) + Added(s, v)
    BY DEF BookInv, Balanced
  <2>2. Current(s).start[v] \in Int
    BY BookTypes
  <2> QED BY <1>2, <1>3, <2>1, <2>2
<1>5. \A v \in Lines : PostedTo(v)' \in Int /\ row'.start[v] \in Int
  BY <1>2, <1>3, BookTypes
<1>6. \A v : Added(s, v)' = 0
  BY <1>1, AddedFresh
<1>7. ASSUME NEW o \in Session, NEW v \in Lines
      PROVE  Balanced(o, v)' /\ (Writing(o)' \/ Added(o, v)' = 0)
  <2>1. CASE o = s
    <3>1. Current(o)' = row'
      BY <1>1, <2>1 DEF Current, Writing
    <3> QED BY <1>4, <1>5, <1>6, <2>1, <3>1 DEF Balanced
  <2>2. CASE o # s
    <3>1. /\ tx'[o] = tx[o] /\ image'[o] = image[o] /\ lock'[o] = lock[o]
      BY <1>1, <2>2 DEF Apart
    <3>2. Added(o, v)' = Added(o, v) /\ (Writing(o)' <=> Writing(o))
      BY <3>1 DEF Added, Owed, Writing
    <3>3. CASE Writing(o)
      <4>1. ~Writing(s)
        BY <2>2, <3>3 DEF LockInv
      <4>2. Added(s, v) = 0
        BY <4>1 DEF BookInv
      <4>3. PostedTo(v)' = PostedTo(v)
        BY <1>3, <4>2
      <4>4. Current(o)' = Current(o)
        BY <3>1, <3>2, <3>3 DEF Current
      <4> QED BY <3>2, <3>3, <4>3, <4>4 DEF BookInv, Balanced
    <3>4. CASE ~Writing(o)
      <4>1. Current(o)' = row'
        BY <3>2, <3>4 DEF Current
      <4>2. Added(o, v) = 0
        BY <3>4 DEF BookInv
      <4> QED BY <1>4, <1>5, <3>2, <4>1, <4>2 DEF Balanced
    <3> QED BY <3>3, <3>4
  <2> QED BY <2>1, <2>2
<1>8. \A o \in Session : tx'[o].pc = "idle" => lock'[o] = "none"
  BY <1>1 DEF Apart, BookInv
<1> QED BY <1>4, <1>7, <1>8 DEF BookInv

(* Every step keeps the balance. *)
LEMMA BookNext ==
    ASSUME NoDecay
    PROVE  TypeOK /\ TypeOK' /\ LockInv /\ RestateInv /\ LineInv /\ BookInv
             /\ [Next]_vars => BookInv'
<1> SUFFICES ASSUME TypeOK, TypeOK', LockInv, RestateInv, LineInv, BookInv, [Next]_vars
             PROVE  BookInv'
  OBVIOUS
<1>1. ASSUME NEW s \in Session, Begin(s) \/ Step(s) \/ Rollback(s)
      PROVE  BookInv'
  BY <1>1, BookInsert, BookRecord, BookAdd, BookFlush, BookOther, BookFresh, BookCommit
     DEF Step
<1>2. CASE Tick \/ Quiet \/ UNCHANGED vars
  <2>1. UNCHANGED <<row, image, lock, tx, ledger>>
    BY <1>2 DEF Tick, Quiet, vars
  <2> QED BY <2>1 DEF BookInv, Balanced, Current, Writing, Added, Owed, PostedTo
<1> QED BY <1>1, <1>2 DEF Next

(* Every version's stored value is its starting value plus the deltas      *)
(* applied under its name, whatever activations, restatements of retired   *)
(* versions, edits and rollbacks come between, as long as nothing decays:  *)
(* because one session at a time writes the row, adds each delta to the    *)
(* version its ledger row names, and commits both together; and because a  *)
(* version is not named by anybody before its activation wrote it.         *)
THEOREM LinesBooked ==
    ASSUME NoDecay
    PROVE  Spec => []LineBooked
<1>1. TypeOK /\ BookInv => LineBooked
  <2> SUFFICES ASSUME TypeOK, BookInv PROVE LineBooked
    OBVIOUS
  <2>1. \A v \in 1..allocated : v \in Lines
    BY BoundsType DEF TypeOK, Lines
  <2> QED BY <2>1 DEF BookInv, LineBooked
<1>2. Spec => []RestateInv
  BY TypeCorrect, RestateInit, RestateNext, PTL DEF Spec
<1>3. Spec => []LineInv
  BY <1>2, TypeCorrect, LineInit, LineNext, PTL DEF Spec
<1>4. Spec => []BookInv
  BY <1>2, <1>3, TypeCorrect, LocksHold, BookInit, BookNext, PTL DEF Spec
<1> QED
  BY <1>1, <1>4, TypeCorrect, PTL
=============================================================================
