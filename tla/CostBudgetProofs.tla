-------------------------- MODULE CostBudgetProofs --------------------------
(* Proofs about CostBudget, for any sessions, tiers, costs and limits.     *)
EXTENDS CostBudget, SumLemmas, TLAPS

(* A new transaction has its type. *)
LEMMA NewTxType ==
    ASSUME NEW pc \in {"open", "over"}
    PROVE  NewTx(pc) \in Txs
<1>1. (CHOOSE t \in Tiers : TRUE) \in Tiers
  BY BudgetConstants
<1>2. NoRow \in UsageRows
  BY DEF NoRow, UsageRows
<1>3. 0 \in 0..MaxCalls
  BY BudgetConstants
<1> QED BY <1>1, <1>2, <1>3 DEF NewTx, Txs

(* A rounded cost is a cost. *)
LEMMA RoundedType == \A c \in Nat : Rounded(c) \in Nat
<1> SUFFICES ASSUME NEW c \in Nat PROVE Rounded(c) \in Nat
  OBVIOUS
<1>1. Grain \in Nat \ {0}
  BY BudgetConstants
<1>2. Grain \div 2 \in Nat
  BY <1>1
<1>3. (c + Grain \div 2) \div Grain \in Nat
  <2> DEFINE a == c + Grain \div 2
  <2>1. a \in Nat
    BY <1>2
  <2> HIDE DEF a
  <2>2. a \div Grain \in Nat
    BY <1>1, <2>1
  <2> QED BY <2>2 DEF a
<1> QED BY <1>1, <1>3 DEF Rounded

(* The row a session sees is a row. *)
LEMMA SeenType ==
    ASSUME BudgetTypeOK, NEW s \in Session, NEW t \in Tiers
    PROVE  Seen(s, t) \in UsageRows
BY DEF BudgetTypeOK, Seen, Txs

(* A step that replaces the transaction of s by one of the type. *)
LEMMA TxStep ==
    ASSUME BudgetTypeOK, UNCHANGED <<opened, usage, accepted>>, NEW s \in Session,
           NEW x \in Txs, tx' = [tx EXCEPT ![s] = x]
    PROVE  BudgetTypeOK'
BY DEF BudgetTypeOK

(* Type correctness: every reachable state has usage rows, accepted        *)
(* counts and transactions of their types.                                 *)
THEOREM BudgetTypeCorrect == Spec => []BudgetTypeOK
<1>1. Init => BudgetTypeOK
  <2>1. NoRow \in UsageRows /\ NewRow \in UsageRows
    BY DEF NoRow, NewRow, UsageRows
  <2> QED BY <2>1, NewTxType DEF Init, BudgetTypeOK
<1>2. BudgetTypeOK /\ [Next]_vars => BudgetTypeOK'
  <2> SUFFICES ASSUME BudgetTypeOK, [Next]_vars PROVE BudgetTypeOK'
    OBVIOUS
  <2>1. ASSUME NEW s \in Session,
               \/ Choose(s) \/ Create(s) \/ CheckBudget(s) \/ Answer(s) \/ Fail(s)
               \/ Load(s) \/ Select(s) \/ LockRow(s) \/ Enforce(s)
        PROVE  BudgetTypeOK'
    <3>0. tx[s] \in Txs /\ tx[s].tier \in Tiers
      BY DEF BudgetTypeOK, Txs
    <3>1. CASE Choose(s)
      <4>1. PICK t \in Tiers :
              tx' = [tx EXCEPT ![s].pc = "check", ![s].tier = t, ![s].tried = @ + 1]
        BY <3>1 DEF Choose
      <4>2. tx[s].tried + 1 \in 0..MaxCalls
        BY <3>0, <3>1, BudgetConstants DEF Choose, Txs
      <4>3. [tx[s] EXCEPT !.pc = "check", !.tier = t, !.tried = @ + 1] \in Txs
        BY <3>0, <4>2 DEF Txs
      <4>4. tx' = [tx EXCEPT ![s] = [tx[s] EXCEPT !.pc = "check", !.tier = t,
                                                  !.tried = @ + 1]]
        BY <4>1
      <4>5. UNCHANGED <<opened, usage, accepted>>
        BY <3>1 DEF Choose
      <4> QED BY ONLY BudgetTypeOK, <4>3, <4>4, <4>5, TxStep
    <3>2. CASE Create(s)
      <4>1. [tx[s].rows EXCEPT ![tx[s].tier] = NewRow] \in [Tiers -> UsageRows]
        BY <3>0 DEF Txs, NewRow, UsageRows
      <4>2. [tx[s] EXCEPT !.rows = [tx[s].rows EXCEPT ![tx[s].tier] = NewRow]] \in Txs
        BY <3>0, <4>1 DEF Txs
      <4> QED BY <3>2, <4>2, TxStep DEF Create
    <3>3. CASE CheckBudget(s)
      <4>1. \A pc \in {"called", "open"} : [tx[s] EXCEPT !.pc = pc] \in Txs
        BY <3>0 DEF Txs
      <4> QED BY <3>3, <4>1, TxStep DEF CheckBudget
    <3>4. CASE Answer(s)
      <4>1. PICK c \in Costs : tx' = [tx EXCEPT ![s].pc = "record", ![s].cost = c]
        BY <3>4 DEF Answer
      <4>2. [tx[s] EXCEPT !.pc = "record", !.cost = c] \in Txs
        BY <3>0, BudgetConstants DEF Txs
      <4>3. tx' = [tx EXCEPT ![s] = [tx[s] EXCEPT !.pc = "record", !.cost = c]]
        BY <4>1
      <4>4. UNCHANGED <<opened, usage, accepted>>
        BY <3>4 DEF Answer
      <4> QED BY ONLY BudgetTypeOK, <4>2, <4>3, <4>4, TxStep
    <3>5. CASE Fail(s)
      <4>1. [tx[s] EXCEPT !.pc = "open"] \in Txs
        BY <3>0 DEF Txs
      <4> QED BY <3>5, <4>1, TxStep DEF Fail
    <3>6. CASE Load(s)
      <4>1. Seen(s, tx[s].tier) \in UsageRows
        BY <3>0, SeenType
      <4>2. [tx[s] EXCEPT !.pc = "select", !.mem = Seen(s, tx[s].tier)] \in Txs
        BY <3>0, <4>1 DEF Txs
      <4> QED BY <3>6, <4>2, TxStep DEF Load
    <3>7. CASE Select(s)
      <4>1. Visible(s) \in SUBSET Tiers
        BY DEF Visible
      <4>2. [tx[s] EXCEPT !.pc = "lock", !.scope = Visible(s)] \in Txs
        BY <3>0, <4>1 DEF Txs
      <4> QED BY <3>7, <4>2, TxStep DEF Select
    <3>8. CASE LockRow(s)
      <4>1. PICK t \in Tiers : tx' = [tx EXCEPT ![s].held = @ \cup {t}]
        BY <3>8 DEF LockRow
      <4>2. [tx[s] EXCEPT !.held = @ \cup {t}] \in Txs
        BY <3>0 DEF Txs
      <4> QED BY <3>8, <4>1, <4>2, TxStep DEF LockRow
    <3>9. CASE Enforce(s)
      <4> DEFINE rows == [tx[s].rows EXCEPT ![tx[s].tier] = Written(s)]
                 done == [tx[s].done EXCEPT ![tx[s].tier] = @ + 1]
      <4>1. Written(s) \in UsageRows
        <5>1. \A c \in Nat : Rounded(c) \in Nat
          BY RoundedType
        <5> QED BY <3>0, <5>1 DEF Written, Txs, UsageRows
      <4>2. rows \in [Tiers -> UsageRows] /\ done \in [Tiers -> Nat]
        BY <3>0, <4>1 DEF Txs
      <4>3. [tx[s] EXCEPT !.pc = "open", !.rows = rows, !.done = done] \in Txs
        <5> HIDE DEF rows, done
        <5> QED BY <3>0, <4>2 DEF Txs
      <4>4. [tx[s] EXCEPT !.pc = "open"] \in Txs
        BY <3>0 DEF Txs
      <4>5. CASE Fits(s)
        <5>1. tx' = [tx EXCEPT ![s] = [tx[s] EXCEPT !.pc = "open", !.rows = rows,
                                                    !.done = done]]
          BY <3>9, <4>5 DEF Enforce
        <5>2. UNCHANGED <<opened, usage, accepted>>
          BY <3>9 DEF Enforce
        <5> QED BY ONLY BudgetTypeOK, <4>3, <5>1, <5>2, TxStep
      <4>6. CASE ~Fits(s)
        BY <3>9, <4>4, <4>6, TxStep DEF Enforce
      <4> QED BY <4>5, <4>6
    <3> QED BY <2>1, <3>1, <3>2, <3>3, <3>4, <3>5, <3>6, <3>7, <3>8, <3>9
  <2>2. ASSUME NEW s \in Session, Commit(s) PROVE BudgetTypeOK'
    <3>1. usage' \in [Tiers -> UsageRows]
      BY <2>2, SeenType DEF Commit
    <3>2. accepted' \in [Tiers -> Nat]
      BY <2>2 DEF Commit, BudgetTypeOK, Txs
    <3> QED BY <2>2, <3>1, <3>2, NewTxType DEF Commit, BudgetTypeOK
  <2>3. ASSUME NEW s \in Session, Rollback(s) PROVE BudgetTypeOK'
    BY <2>3, NewTxType DEF Rollback, BudgetTypeOK
  <2>4. CASE UNCHANGED vars
    BY <2>4 DEF vars, BudgetTypeOK
  <2> QED BY <2>1, <2>2, <2>3, <2>4 DEF Next, Done
<1> QED BY <1>1, <1>2, PTL DEF Spec

-----------------------------------------------------------------------------
(* What a session has written, or has loaded to write, counts no more than *)
(* the committed calls and its own.                                        *)
RowsCount ==
    \A s \in Session, t \in Tiers :
        tx[s].rows[t].made => tx[s].rows[t].calls <= accepted[t] + tx[s].done[t]
LoadedCount ==
    \A s \in Session : tx[s].pc \in {"select", "lock"} =>
        tx[s].mem.calls <= accepted[tx[s].tier] + tx[s].done[tx[s].tier]
CountInv == BudgetTypeOK /\ NeverOvercounted /\ RowsCount /\ LoadedCount

(* What a session sees counts no more than the committed calls and its own. *)
LEMMA SeenCount ==
    ASSUME CountInv, NEW s \in Session, NEW t \in Tiers
    PROVE  Seen(s, t).calls <= accepted[t] + tx[s].done[t]
<1>1. usage[t].calls \in Nat /\ accepted[t] \in Nat /\ tx[s].done[t] \in Nat
  BY DEF CountInv, BudgetTypeOK, Txs, UsageRows
<1> QED BY <1>1 DEF CountInv, NeverOvercounted, RowsCount, Seen

(* A step of s that commits nothing, leaves the other sessions alone and   *)
(* keeps the two counts of s keeps the invariant.                          *)
LEMMA OwnStep ==
    ASSUME CountInv, BudgetTypeOK', UNCHANGED <<opened, usage, accepted>>, NEW s \in Session,
           \A o \in Session \ {s} : tx'[o] = tx[o],
           \A t \in Tiers : tx'[s].rows[t].made =>
               tx'[s].rows[t].calls <= accepted[t] + tx'[s].done[t],
           tx'[s].pc \in {"select", "lock"} =>
               tx'[s].mem.calls <= accepted[tx'[s].tier] + tx'[s].done[tx'[s].tier]
    PROVE  CountInv'
BY DEF CountInv, NeverOvercounted, RowsCount, LoadedCount

(* No overcounting: whatever stale rows the sessions write back, the       *)
(* committed counter of a tier is at most the number of calls accepted and *)
(* committed (record_usage, _get_or_create_usage, get_session).            *)
THEOREM CountsBounded == Spec => []NeverOvercounted
<1>1. Init => NeverOvercounted /\ RowsCount /\ LoadedCount
  BY DEF Init, NewTx, NewRow, NoRow, NeverOvercounted, RowsCount, LoadedCount
<1>2. CountInv /\ BudgetTypeOK' /\ [Next]_vars => CountInv'
  <2> SUFFICES ASSUME CountInv, BudgetTypeOK', [Next]_vars PROVE CountInv'
    OBVIOUS
  <2>0. BudgetTypeOK
    BY DEF CountInv
  <2>1. ASSUME NEW s \in Session,
               Choose(s) \/ CheckBudget(s) \/ Answer(s) \/ Fail(s) \/ Rollback(s)
        PROVE  CountInv'
    <3>0. tx \in [Session -> Txs] /\ UNCHANGED <<opened, usage, accepted>>
      BY <2>0, <2>1 DEF BudgetTypeOK, Choose, CheckBudget, Answer, Fail, Rollback
    <3>1. /\ \A o \in Session \ {s} : tx'[o] = tx[o]
          /\ tx'[s].pc \notin {"select", "lock"}
          /\ \/ tx'[s].rows = tx[s].rows /\ tx'[s].done = tx[s].done
             \/ tx'[s].rows = [t \in Tiers |-> NoRow]
      <4>1. CASE Choose(s)
        BY <3>0, <4>1 DEF Choose, Txs
      <4>2. CASE CheckBudget(s)
        BY <3>0, <4>2 DEF CheckBudget, Txs
      <4>3. CASE Answer(s)
        BY <3>0, <4>3 DEF Answer, Txs
      <4>4. CASE Fail(s)
        BY <3>0, <4>4 DEF Fail, Txs
      <4>5. CASE Rollback(s)
        BY <3>0, <4>5 DEF Rollback, NewTx
      <4> QED BY <2>1, <4>1, <4>2, <4>3, <4>4, <4>5
    <3>3. \A t \in Tiers : tx'[s].rows[t].made =>
              tx'[s].rows[t].calls <= accepted[t] + tx'[s].done[t]
      BY <3>1 DEF CountInv, RowsCount, NoRow
    <3> QED BY <3>0, <3>1, <3>3, OwnStep
  <2>2. ASSUME NEW s \in Session, Create(s) PROVE CountInv'
    <3>1. /\ UNCHANGED <<opened, usage, accepted>>
          /\ \A o \in Session \ {s} : tx'[o] = tx[o]
          /\ tx'[s].pc = "check" /\ tx'[s].done = tx[s].done
          /\ \A t \in Tiers : tx'[s].rows[t] \in {tx[s].rows[t], NewRow}
      BY <2>0, <2>2 DEF Create, At, BudgetTypeOK, Txs
    <3>2. \A t \in Tiers : accepted[t] \in Nat /\ tx[s].done[t] \in Nat
      BY <2>0 DEF BudgetTypeOK, Txs
    <3>3. \A t \in Tiers : tx'[s].rows[t].made =>
              tx'[s].rows[t].calls <= accepted[t] + tx'[s].done[t]
      BY <3>1, <3>2 DEF CountInv, RowsCount, NewRow
    <3> QED BY <3>1, <3>3, OwnStep
  <2>3. ASSUME NEW s \in Session, Load(s) \/ Select(s) \/ LockRow(s) PROVE CountInv'
    <3>1. /\ UNCHANGED <<opened, usage, accepted>>
          /\ \A o \in Session \ {s} : tx'[o] = tx[o]
          /\ tx'[s].rows = tx[s].rows /\ tx'[s].done = tx[s].done
          /\ tx'[s].tier = tx[s].tier
      BY <2>0, <2>3 DEF Load, Select, LockRow, BudgetTypeOK, Txs
    <3>2. \/ tx'[s].mem = Seen(s, tx[s].tier)
          \/ tx'[s].mem = tx[s].mem /\ tx[s].pc \in {"select", "lock"}
      BY <2>0, <2>3 DEF Load, Select, LockRow, At, BudgetTypeOK, Txs
    <3>3. tx[s].tier \in Tiers
      BY <2>0 DEF BudgetTypeOK, Txs
    <3>4. tx'[s].mem.calls <= accepted[tx[s].tier] + tx[s].done[tx[s].tier]
      BY <3>2, <3>3, SeenCount DEF CountInv, LoadedCount
    <3>5. \A t \in Tiers : tx'[s].rows[t].made =>
              tx'[s].rows[t].calls <= accepted[t] + tx'[s].done[t]
      BY <3>1 DEF CountInv, RowsCount
    <3> QED BY <3>1, <3>4, <3>5, OwnStep
  <2>4. ASSUME NEW s \in Session, Enforce(s) PROVE CountInv'
    <3>1. /\ UNCHANGED <<opened, usage, accepted>>
          /\ \A o \in Session \ {s} : tx'[o] = tx[o]
          /\ tx'[s].pc = "open" /\ tx[s].pc = "lock"
      BY <2>0, <2>4 DEF Enforce, At, BudgetTypeOK, Txs
    <3>2. CASE ~Fits(s)
      <4>1. tx'[s].rows = tx[s].rows /\ tx'[s].done = tx[s].done
        BY <2>0, <2>4, <3>2 DEF Enforce, BudgetTypeOK, Txs
      <4> QED BY <3>1, <4>1, OwnStep DEF CountInv, RowsCount
    <3>3. CASE Fits(s)
      <4>1. tx[s].tier \in Tiers
            /\ \A t \in Tiers : accepted[t] \in Nat /\ tx[s].done[t] \in Nat
            /\ tx[s].mem.calls \in Nat
        BY <2>0 DEF BudgetTypeOK, Txs, UsageRows
      <4>0. /\ tx[s] \in Txs
            /\ tx'[s].rows = [tx[s].rows EXCEPT ![tx[s].tier] = Written(s)]
            /\ tx'[s].done = [tx[s].done EXCEPT ![tx[s].tier] = @ + 1]
        <5>1. tx[s] \in Txs /\ tx \in [Session -> Txs]
          BY <2>0 DEF BudgetTypeOK
        <5>2. tx'[s].rows = [tx[s].rows EXCEPT ![tx[s].tier] = Written(s)]
          BY <2>4, <3>3, <5>1, SMTT(30) DEF Enforce, Txs
        <5>3. tx'[s].done = [tx[s].done EXCEPT ![tx[s].tier] = @ + 1]
          BY <2>4, <3>3, <5>1, SMTT(30) DEF Enforce, Txs
        <5> QED BY <5>1, <5>2, <5>3
      <4>2. \A t \in Tiers \ {tx[s].tier} :
              tx'[s].rows[t] = tx[s].rows[t] /\ tx'[s].done[t] = tx[s].done[t]
        BY <4>0 DEF Txs
      <4>3. /\ tx'[s].rows[tx[s].tier].calls = tx[s].mem.calls + 1
            /\ tx'[s].done[tx[s].tier] = tx[s].done[tx[s].tier] + 1
        <5>2. Written(s).calls = tx[s].mem.calls + 1
          BY DEF Written
        <5> QED BY <4>0, <4>1, <5>2 DEF Txs
      <4>4. tx[s].mem.calls <= accepted[tx[s].tier] + tx[s].done[tx[s].tier]
        BY <3>1 DEF CountInv, LoadedCount
      <4>5. tx'[s].rows[tx[s].tier].calls
              <= accepted[tx[s].tier] + tx'[s].done[tx[s].tier]
        BY <4>1, <4>3, <4>4
      <4>6. \A t \in Tiers : tx'[s].rows[t].made =>
              tx'[s].rows[t].calls <= accepted[t] + tx'[s].done[t]
        BY <4>2, <4>5 DEF CountInv, RowsCount
      <4> QED BY <3>1, <4>6, OwnStep
    <3> QED BY <3>2, <3>3
  <2>5. ASSUME NEW s \in Session, Commit(s) PROVE CountInv'
    <3>1. \A t \in Tiers : usage'[t] = Seen(s, t)
                           /\ accepted'[t] = accepted[t] + tx[s].done[t]
      BY <2>5 DEF Commit
    <3>2. \A t \in Tiers : \A o \in Session :
            accepted[t] \in Nat /\ tx[o].done[t] \in Nat /\ tx[o].mem.calls \in Nat
            /\ tx[o].rows[t].calls \in Nat /\ tx[o].tier \in Tiers
      BY <2>0 DEF BudgetTypeOK, Txs, UsageRows
    <3>3. /\ tx'[s].rows = [t \in Tiers |-> NoRow] /\ tx'[s].pc = "over"
          /\ \A o \in Session \ {s} : tx'[o] = tx[o]
      BY <2>0, <2>5 DEF Commit, NewTx, BudgetTypeOK
    <3>4. NeverOvercounted'
      BY <3>1, SeenCount DEF NeverOvercounted
    <3>5. RowsCount'
      <4> SUFFICES ASSUME NEW o \in Session, NEW t \in Tiers, tx'[o].rows[t].made
                   PROVE  tx'[o].rows[t].calls <= accepted'[t] + tx'[o].done[t]
        BY DEF RowsCount
      <4>1. o # s
        BY <3>3 DEF NoRow
      <4>2. tx[o].rows[t].calls <= accepted[t] + tx[o].done[t]
        BY <3>3, <4>1 DEF CountInv, RowsCount
      <4> QED BY <3>1, <3>2, <3>3, <4>1, <4>2
    <3>6. LoadedCount'
      <4> SUFFICES ASSUME NEW o \in Session, tx'[o].pc \in {"select", "lock"}
                   PROVE  tx'[o].mem.calls
                            <= accepted'[tx'[o].tier] + tx'[o].done[tx'[o].tier]
        BY DEF LoadedCount
      <4>1. o # s
        BY <3>3
      <4>2. tx[o].mem.calls <= accepted[tx[o].tier] + tx[o].done[tx[o].tier]
        BY <3>3, <4>1 DEF CountInv, LoadedCount
      <4>3. tx'[o] = tx[o]
        BY <3>3, <4>1
      <4>4. accepted'[tx[o].tier] = accepted[tx[o].tier] + tx[s].done[tx[o].tier]
        BY <3>1, <3>2, BudgetConstants
      <4>5. /\ accepted[tx[o].tier] \in Nat /\ tx[o].mem.calls \in Nat
            /\ tx[s].done[tx[o].tier] \in Nat /\ tx[o].done[tx[o].tier] \in Nat
        BY <2>0 DEF BudgetTypeOK, Txs, UsageRows
      <4> QED BY <4>2, <4>3, <4>4, <4>5
    <3> QED BY <3>4, <3>5, <3>6 DEF CountInv
  <2>6. CASE UNCHANGED vars
    BY <2>6 DEF vars, CountInv, BudgetTypeOK, NeverOvercounted, RowsCount, LoadedCount
  <2> QED BY <2>1, <2>2, <2>3, <2>4, <2>5, <2>6 DEF Next, Done
<1>3. CountInv => NeverOvercounted
  BY DEF CountInv
<1> QED BY <1>1, <1>2, <1>3, BudgetTypeCorrect, PTL DEF Spec, CountInv

-----------------------------------------------------------------------------
(* Once the rows of the day exist, every session sees them all, a session  *)
(* at its locks has selected them all, and it locks them from below, each  *)
(* row locked by one session.                                              *)
Downward(held) == \A t \in held, u \in Tiers : u <= t => u \in held
OrderInv ==
    opened =>
        /\ \A t \in Tiers : usage[t].made
        /\ \A s \in Session : At(s, "lock") => tx[s].scope = Tiers
        /\ \A s \in Session : Downward(tx[s].held)
        /\ \A s \in Session : \A o \in Others(s) : tx[s].held \cap tx[o].held = {}

(* A step of s that keeps the rows visible, and the selection and the      *)
(* locks of s or drops them, keeps the invariant.                          *)
LEMMA OrderStep ==
    ASSUME OrderInv, UNCHANGED opened, NEW s \in Session,
           \A t \in Tiers : usage[t].made => usage'[t].made,
           \A o \in Session \ {s} : tx'[o] = tx[o],
           tx'[s].pc = "lock" => \/ tx'[s].scope = Tiers
                                 \/ At(s, "lock") /\ tx'[s].scope = tx[s].scope,
           tx'[s].held \in {tx[s].held, {}}
    PROVE  OrderInv'
BY DEF OrderInv, Downward, At, Others

(* The locks stay ordered and apart. *)
LEMMA OrderInvariant == Spec => []OrderInv
<1>1. Init => OrderInv
  BY DEF Init, NewTx, NewRow, OrderInv, Downward, At, Others
<1>2. OrderInv /\ BudgetTypeOK /\ [Next]_vars => OrderInv'
  <2> SUFFICES ASSUME OrderInv, BudgetTypeOK, [Next]_vars PROVE OrderInv'
    OBVIOUS
  <2>1. ASSUME NEW s \in Session,
               \/ Choose(s) \/ Create(s) \/ CheckBudget(s) \/ Answer(s) \/ Fail(s)
               \/ Load(s) \/ Enforce(s) \/ Rollback(s)
        PROVE  OrderInv'
    <3>1. tx \in [Session -> Txs] /\ UNCHANGED <<opened, usage>>
      BY <2>1 DEF BudgetTypeOK, Choose, Create, CheckBudget, Answer, Fail, Load,
                  Enforce, Rollback
    <3>2. /\ \A o \in Session \ {s} : tx'[o] = tx[o]
          /\ tx'[s].pc # "lock"
          /\ tx'[s].held \in {tx[s].held, {}}
      <4>1. CASE Choose(s)
        BY <3>1, <4>1 DEF Choose, Txs
      <4>6. CASE CheckBudget(s)
        BY <3>1, <4>6 DEF CheckBudget, Txs
      <4>7. CASE Answer(s)
        BY <3>1, <4>7 DEF Answer, Txs
      <4>2. CASE Create(s)
        BY <3>1, <4>2 DEF Create, At, Txs
      <4>3. CASE Fail(s) \/ Load(s)
        BY <3>1, <4>3 DEF Fail, Load, Txs
      <4>4. CASE Enforce(s)
        BY <3>1, <4>4 DEF Enforce, Txs
      <4>5. CASE Rollback(s)
        BY <3>1, <4>5 DEF Rollback, NewTx
      <4> QED BY <2>1, <4>1, <4>2, <4>3, <4>4, <4>5, <4>6, <4>7
    <3> QED BY <3>1, <3>2, OrderStep
  <2>2. ASSUME NEW s \in Session, Select(s) PROVE OrderInv'
    <3>1. /\ UNCHANGED <<opened, usage>>
          /\ \A o \in Session \ {s} : tx'[o] = tx[o]
          /\ tx'[s].scope = Visible(s) /\ tx'[s].held = tx[s].held
      BY <2>2 DEF Select, BudgetTypeOK, Txs
    <3>2. opened => Visible(s) = Tiers
      BY DEF OrderInv, Visible, Seen
    <3>3. CASE opened
      BY <3>1, <3>2, <3>3, OrderStep
    <3>4. CASE ~opened
      BY <3>1, <3>4 DEF OrderInv
    <3> QED BY <3>3, <3>4
  <2>3. ASSUME NEW s \in Session, LockRow(s) PROVE OrderInv'
    <3>1. PICK t \in Tiers : /\ Turn(s, t)
                             /\ tx' = [tx EXCEPT ![s].held = @ \cup {t}]
      BY <2>3 DEF LockRow
    <3>2. /\ UNCHANGED <<opened, usage>> /\ At(s, "lock")
          /\ \A o \in Others(s) : t \notin tx[o].held
      BY <2>3, <3>1 DEF LockRow, Free, Blockers
    <3>3. /\ \A o \in Session \ {s} : tx'[o] = tx[o]
          /\ tx'[s].pc = tx[s].pc /\ tx'[s].scope = tx[s].scope
          /\ tx'[s].held = tx[s].held \cup {t}
      BY <3>1 DEF BudgetTypeOK, Txs
    <3>4. SUFFICES ASSUME opened PROVE OrderInv'
      BY <3>2 DEF OrderInv
    <3>5. Downward(tx'[s].held)
      <4> SUFFICES ASSUME NEW v \in tx'[s].held, NEW u \in Tiers, u <= v
                   PROVE  u \in tx'[s].held
        BY DEF Downward
      <4>1. CASE v \in tx[s].held
        BY <3>3, <3>4, <4>1 DEF OrderInv, Downward
      <4>2. CASE v = t
        <5>1. u \in Wanted(s) => t <= u
          BY <3>1 DEF Turn
        <5>2. u \notin Wanted(s) => u \in tx[s].held
          BY <3>2, <3>4 DEF Wanted, OrderInv
        <5>3. u \in Int /\ t \in Int
          BY BudgetConstants
        <5> QED BY <3>3, <4>2, <5>1, <5>2, <5>3
      <4> QED BY <3>3, <4>1, <4>2
    <3>6. \A o \in Session \ {s} : tx'[s].held \cap tx'[o].held = {}
      BY <3>2, <3>3, <3>4 DEF OrderInv, Others
    <3>7. \A q \in Session : \A o \in Session \ {q} : tx'[q].held \cap tx'[o].held = {}
      BY <3>3, <3>4, <3>6 DEF OrderInv, Others
    <3>8. \A q \in Session : Downward(tx'[q].held)
      BY <3>3, <3>4, <3>5 DEF OrderInv
    <3>9. \A q \in Session : tx'[q].pc = "lock" => tx'[q].scope = Tiers
      BY <3>3, <3>4 DEF OrderInv, At
    <3> QED BY <3>2, <3>4, <3>7, <3>8, <3>9 DEF OrderInv, At, Others
  <2>4. ASSUME NEW s \in Session, Commit(s) PROVE OrderInv'
    <3>1. /\ UNCHANGED opened
          /\ \A t \in Tiers : usage'[t] = Seen(s, t)
          /\ \A o \in Session \ {s} : tx'[o] = tx[o]
          /\ tx'[s].pc = "over" /\ tx'[s].held = {}
      BY <2>4 DEF Commit, NewTx, BudgetTypeOK
    <3>2. \A t \in Tiers : usage[t].made => usage'[t].made
      BY <3>1 DEF Seen
    <3> QED BY <3>1, <3>2, OrderStep
  <2>5. CASE UNCHANGED vars
    BY <2>5 DEF vars, OrderInv, At, Others
  <2> QED BY <2>1, <2>2, <2>3, <2>4, <2>5 DEF Next, Done
<1> QED BY <1>1, <1>2, BudgetTypeCorrect, PTL DEF Spec

(* Once the rows of the day exist, no set of sessions waits for itself     *)
(* (record_usage orders its SELECT ... FOR UPDATE by tier).                *)
THEOREM LocksOrdered == Spec => []NoWaitCycle
<1>1. OrderInv /\ BudgetTypeOK => NoWaitCycle
  <2> SUFFICES ASSUME OrderInv, BudgetTypeOK, opened,
                      NEW waiting \in (SUBSET Session) \ {{}},
                      \A s \in waiting : Blockers(s) \cap waiting # {}
               PROVE  FALSE
    BY DEF NoWaitCycle
  <2>1. \A s \in waiting : \E o \in waiting :
          o \in Others(s) /\ tx[o].held \cap Tiers # {}
    <3> SUFFICES ASSUME NEW s \in waiting
                 PROVE  \E o \in waiting : o \in Others(s) /\ tx[o].held \cap Tiers # {}
      OBVIOUS
    <3>1. PICK o \in waiting : o \in Blockers(s)
      OBVIOUS
    <3>2. tx[s].tier \in Visible(s)
      BY DEF OrderInv, BudgetTypeOK, Txs, Visible, Seen
    <3>3. At(s, "lock") => tx[s].scope = Tiers
      BY DEF OrderInv
    <3>4. /\ o \in Others(s) /\ At(s, "lock")
          /\ \E t \in tx[o].held : Turn(s, t)
      BY <3>1, <3>2 DEF Blockers
    <3>5. \A t : Turn(s, t) => t \in Tiers
      BY <3>3, <3>4 DEF Turn, Wanted
    <3> QED BY <3>4, <3>5
  <2>2. PICK s \in waiting : TRUE
    OBVIOUS
  <2>3. PICK o \in waiting : tx[o].held \cap Tiers # {}
    BY <2>1, <2>2
  <2>4. PICK r \in waiting : r \in Others(o) /\ tx[r].held \cap Tiers # {}
    BY <2>1, <2>3
  <2>5. PICK t \in Tiers, u \in Tiers : t \in tx[o].held /\ u \in tx[r].held
    BY <2>3, <2>4
  <2>6. t <= u \/ u <= t
    BY BudgetConstants
  <2>7. tx[o].held \cap tx[r].held # {}
    BY <2>5, <2>6 DEF OrderInv, Downward
  <2> QED BY <2>4, <2>7 DEF OrderInv
<1> QED BY <1>1, OrderInvariant, BudgetTypeCorrect, PTL

-----------------------------------------------------------------------------
(* What a cost column holds: whole units. *)
Grains == {n * Grain : n \in Nat}

(* Division, for the solver: a quotient is the last multiple that fits. *)
LEMMA Quotient ==
    ASSUME NEW a \in Nat, NEW d \in Nat \ {0}
    PROVE  /\ a \div d \in Nat
           /\ (a \div d) * d <= a
           /\ \A k \in Nat : k * d <= a => k <= a \div d
<1>1. a \div d \in Nat
  OBVIOUS
<1>2. (a \div d) * d <= a /\ a < (a \div d + 1) * d
  BY SMTT(30)
<1>3. ASSUME NEW k \in Nat, k * d <= a, k > a \div d PROVE FALSE
  <2> DEFINE q == a \div d
  <2> HIDE DEF q
  <2>1. q \in Nat /\ k >= q + 1 /\ a < (q + 1) * d
    BY <1>1, <1>2, <1>3 DEF q
  <2>2. k * d >= (q + 1) * d
    BY <2>1
  <2> QED BY <1>3, <2>1, <2>2
<1> QED BY <1>1, <1>2, <1>3

(* A whole number of units beside a rounded cost: if the exact sum is      *)
(* within the limit, the stored sum is within the limit as a column would  *)
(* store it.                                                               *)
LEMMA RoundedFits ==
    ASSUME NEW w \in Grains, NEW m \in Nat, NEW limit \in Nat, w + m <= limit
    PROVE  /\ Rounded(m) \in Grains
           /\ w + Rounded(m) <= Rounded(limit)
<1>1. PICK n \in Nat : w = n * Grain
  BY DEF Grains
<1> DEFINE h == Grain \div 2
           q == (m + h) \div Grain
           r == (limit + h) \div Grain
<1>2. Grain \in Nat \ {0} /\ h \in Nat
  BY BudgetConstants
<1> HIDE DEF h
<1>3. q \in Nat /\ q * Grain <= m + h
  BY <1>2, Quotient
<1>4. r \in Nat /\ \A k \in Nat : k * Grain <= limit + h => k <= r
  BY <1>2, Quotient
<1>5. Rounded(m) = q * Grain /\ Rounded(limit) = r * Grain
  BY DEF Rounded, h
<1> HIDE DEF q, r
<1>6. (n + q) * Grain = n * Grain + q * Grain
  BY <1>2, <1>3
<1>7. n * Grain \in Nat /\ q * Grain \in Nat
  BY <1>2, <1>3
<1>8. (n + q) * Grain <= limit + h
  BY <1>1, <1>2, <1>3, <1>6, <1>7
<1>9. n + q <= r
  BY <1>3, <1>4, <1>8
<1>10. (n + q) * Grain <= r * Grain
  BY <1>2, <1>3, <1>4, <1>9
<1> QED BY <1>1, <1>3, <1>5, <1>6, <1>10 DEF Grains

(* Every cost stored, loaded or written is a whole number of units.  Once  *)
(* the rows of the day exist, only a session that holds all of them has    *)
(* written any, and what each session sees, like what is committed, is     *)
(* within the limit as a column would store it.                            *)
GrainInv ==
    /\ \A t \in Tiers : usage[t].cost \in Grains
    /\ \A s \in Session : tx[s].mem.cost \in Grains
    /\ \A s \in Session, t \in Tiers : tx[s].rows[t].cost \in Grains
WholeInv ==
    opened => \A s \in Session, t \in Tiers : tx[s].rows[t].made => Tiers \subseteq tx[s].held
SeenCost(s) == [t \in Tiers |-> Seen(s, t).cost]
SeenTotal(s) == SumFunctionOnSet(SeenCost(s), Tiers)
SpendInv ==
    opened => /\ Spent <= Rounded(DailyLimit)
              /\ \A s \in Session : SeenTotal(s) <= Rounded(DailyLimit)
BudgetInv == GrainInv /\ WholeInv /\ SpendInv

(* A session sees whole units. *)
LEMMA SeenGrain ==
    ASSUME GrainInv, NEW s \in Session, NEW t \in Tiers
    PROVE  Seen(s, t).cost \in Grains
BY DEF GrainInv, Seen

(* What a session sees is unchanged if each row is. *)
LEMMA SameSeen ==
    ASSUME NEW s \in Session, \A t \in Tiers : Seen(s, t)' = Seen(s, t)
    PROVE  SeenTotal(s)' = SeenTotal(s)
<1>1. SeenCost(s)' = SeenCost(s)
  BY DEF SeenCost
<1> QED BY <1>1 DEF SeenTotal

(* A session that has written nothing sees the committed sum, before and   *)
(* after a step.                                                           *)
LEMMA SeenCommitted ==
    ASSUME NEW s \in Session, \A t \in Tiers : ~tx[s].rows[t].made
    PROVE  SeenTotal(s) = Spent
<1>1. SeenCost(s) = [t \in Tiers |-> usage[t].cost]
  BY DEF SeenCost, Seen
<1>2. DOMAIN [t \in Tiers |-> usage[t].cost] = Tiers
  OBVIOUS
<1> QED BY <1>1, <1>2 DEF SeenTotal, Spent, SumFunction

LEMMA SeenCommittedNext ==
    ASSUME NEW s \in Session, \A t \in Tiers : ~tx'[s].rows[t].made
    PROVE  SeenTotal(s)' = Spent'
<1>1. SeenCost(s)' = [t \in Tiers |-> usage'[t].cost]
  BY DEF SeenCost, Seen
<1>2. DOMAIN [t \in Tiers |-> usage'[t].cost] = Tiers
  OBVIOUS
<1> QED BY <1>1, <1>2 DEF SeenTotal, Spent, SumFunction

(* A step of s that commits nothing, leaves the other sessions and the     *)
(* rows of s alone and releases no lock keeps the invariant.               *)
LEMMA QuietStep ==
    ASSUME BudgetInv, UNCHANGED <<opened, usage>>, NEW s \in Session,
           \A o \in Session \ {s} : tx'[o] = tx[o],
           tx'[s].rows = tx[s].rows, tx[s].held \subseteq tx'[s].held,
           tx'[s].mem.cost \in Grains
    PROVE  BudgetInv'
<1>1. GrainInv'
  BY DEF BudgetInv, GrainInv
<1>2. WholeInv'
  BY DEF BudgetInv, WholeInv
<1>3. \A o \in Session : SeenTotal(o)' = SeenTotal(o)
  <2> SUFFICES ASSUME NEW o \in Session PROVE SeenTotal(o)' = SeenTotal(o)
    OBVIOUS
  <2>1. tx'[o].rows = tx[o].rows
    OBVIOUS
  <2>2. \A t \in Tiers : Seen(o, t)' = Seen(o, t)
    BY <2>1 DEF Seen
  <2> QED BY <2>2, SameSeen
<1>4. Spent' = Spent
  BY DEF Spent
<1> QED BY <1>1, <1>2, <1>3, <1>4 DEF BudgetInv, SpendInv

(* The enforced limit: the session holds every row, so all but its own are *)
(* as committed, and it writes no more than the room they leave.           *)
LEMMA EnforceFits ==
    ASSUME BudgetTypeOK, OrderInv, BudgetInv, opened, NEW s \in Session,
           At(s, "lock"), Fits(s),
           NEW g, g = [SeenCost(s) EXCEPT ![tx[s].tier] = Written(s).cost]
    PROVE  /\ Written(s).cost \in Grains
           /\ SumFunctionOnSet(g, Tiers) <= Rounded(DailyLimit)
<1> DEFINE own == tx[s].tier
           ret == [t \in Tiers |-> Returned(s, t).cost]
           rest == SumFunctionOnSet(ret, Tiers \ {own})
           m == tx[s].mem.cost + tx[s].cost
<1>1. /\ IsFiniteSet(Tiers) /\ own \in Tiers
      /\ tx[s].mem.cost \in Nat /\ tx[s].cost \in Nat /\ DailyLimit \in Nat
  BY BudgetConstants DEF BudgetTypeOK, Txs, UsageRows
<1>2. tx[s].scope = Tiers
  BY DEF OrderInv
<1>3. \A t \in Tiers : ret[t] \in Nat /\ ret[t] \in Grains
  <2> SUFFICES ASSUME NEW t \in Tiers
               PROVE  Returned(s, t).cost \in Nat /\ Returned(s, t).cost \in Grains
    OBVIOUS
  <2>1. Seen(s, t).cost \in Nat /\ Seen(s, t).cost \in Grains
    BY SeenType, SeenGrain DEF UsageRows, BudgetInv
  <2> QED BY <1>1, <2>1 DEF Returned, BudgetInv, GrainInv
<1>4. SumFunctionOnSet(ret, Tiers) = tx[s].mem.cost + rest
  <2>1. ret[own] = tx[s].mem.cost
    BY <1>1 DEF Returned
  <2>2. \A t \in Tiers : ret[t] \in Int
    BY <1>3
  <2> HIDE DEF ret, own
  <2> QED BY <1>1, <2>1, <2>2, SumTake
<1>5. rest \in Grains
  <2>1. IsFiniteSet(Tiers \ {own})
    BY <1>1, FS_RemoveElement
  <2>2. \A t \in Tiers \ {own} : \E n \in Nat : ret[t] = n * Grain
    BY <1>3 DEF Grains
  <2>3. Grain \in Nat
    BY BudgetConstants
  <2> HIDE DEF ret, own
  <2>4. \E n \in Nat : rest = n * Grain
    BY <2>1, <2>2, <2>3, SumMultiple
  <2> QED BY <2>4 DEF Grains
<1>6. rest + m <= DailyLimit
  <2>1. ret = [t \in tx[s].scope |-> Returned(s, t).cost] /\ DOMAIN ret = tx[s].scope
    BY <1>2
  <2>2. Projected(s) = SumFunctionOnSet(ret, Tiers) + tx[s].cost
    <3>1. SumFunction(ret) = SumFunctionOnSet(ret, DOMAIN ret)
      BY DEF SumFunction
    <3>2. DOMAIN ret = Tiers
      OBVIOUS
    <3>3. Projected(s) = SumFunction(ret) + tx[s].cost
      BY ONLY <2>1 DEF Projected
    <3> QED BY ONLY <3>1, <3>2, <3>3
  <2>3. Projected(s) <= DailyLimit
    BY Zenon DEF Fits
  <2>4. rest \in Int
    <3>1. \A n \in Nat : n * Grain \in Int
      BY BudgetConstants
    <3> HIDE DEF rest
    <3> QED BY <1>5, <3>1 DEF Grains
  <2> HIDE DEF rest, ret
  <2> QED BY <1>1, <1>4, <2>2, <2>3, <2>4
<1>7. /\ Rounded(m) \in Grains
      /\ rest + Rounded(m) <= Rounded(DailyLimit)
  <2>1. m \in Nat
    BY <1>1
  <2> HIDE DEF rest, m
  <2> QED BY <1>1, <1>5, <1>6, <2>1, RoundedFits
<1>8. Written(s).cost = Rounded(m)
  BY DEF Written
<1>9. SumFunctionOnSet(g, Tiers) = Rounded(m) + rest
  <2>1. g[own] = Rounded(m) /\ Rounded(m) \in Int
    <3>1. Rounded(m) \in Nat
      <4>1. m \in Nat
        BY <1>1
      <4> HIDE DEF m
      <4> QED BY <4>1, RoundedType
    <3> QED BY <1>1, <1>8, <3>1 DEF SeenCost
  <2>2. \A t \in Tiers \ {own} : g[t] = ret[t]
    BY DEF SeenCost, Returned
  <2>3. \A t \in Tiers : g[t] \in Int
    BY <1>3, <2>1, <2>2
  <2>4. SumFunctionOnSet(g, Tiers) = g[own] + SumFunctionOnSet(g, Tiers \ {own})
    <3> HIDE DEF own
    <3> QED BY ONLY <1>1, <2>3, SumTake
  <2>5. SumFunctionOnSet(g, Tiers \ {own}) = rest
    <3>1. IsFiniteSet(Tiers \ {own})
      BY <1>1, FS_RemoveElement
    <3> HIDE DEF own, ret
    <3> QED BY ONLY <2>2, <3>1, SumSame DEF rest
  <2> QED BY <2>1, <2>4, <2>5
<1>10. Rounded(m) \in Int /\ rest \in Int
  <2>1. \A n \in Nat : n * Grain \in Int
    BY BudgetConstants
  <2> HIDE DEF rest, m
  <2> QED BY <1>5, <1>7, <2>1 DEF Grains
<1> HIDE DEF rest, m
<1> QED BY <1>7, <1>8, <1>9, <1>10

LEMMA BudgetInit == Init => BudgetInv
<1> SUFFICES ASSUME Init PROVE BudgetInv
  OBVIOUS
<1>1. 0 \in Grains
  <2>1. 0 = 0 * Grain
    BY BudgetConstants
  <2> QED BY <2>1 DEF Grains
<1>2. GrainInv /\ WholeInv
  BY <1>1 DEF Init, NewTx, NewRow, NoRow, GrainInv, WholeInv
<1>3. SpendInv
  <2> DEFINE f == [t \in Tiers |-> usage[t].cost]
  <2>1. Spent = 0
    <3>1. \A t \in Tiers : f[t] = 0
      BY DEF Init, NewRow, NoRow
    <3>2. DOMAIN f = Tiers /\ IsFiniteSet(Tiers)
      BY BudgetConstants
    <3>3. Spent = SumFunctionOnSet(f, Tiers)
      BY <3>2 DEF Spent, SumFunction
    <3> HIDE DEF f
    <3>4. SumFunctionOnSet(f, Tiers) = 0
      BY ONLY <3>1, <3>2, SumZero
    <3> QED BY <3>3, <3>4
  <2>2. Rounded(DailyLimit) \in Nat
    BY BudgetConstants, RoundedType
  <2>3. \A s \in Session : SeenTotal(s) = Spent
    <3>1. \A s \in Session : \A t \in Tiers : ~tx[s].rows[t].made
      BY DEF Init, NewTx, NoRow
    <3> QED BY <3>1, SeenCommitted
  <2> QED BY <2>1, <2>2, <2>3 DEF SpendInv
<1> QED BY <1>2, <1>3 DEF BudgetInv

LEMMA BudgetStep ==
    ASSUME BudgetTypeOK, BudgetTypeOK', OrderInv, OrderInv', BudgetInv, [Next]_vars
    PROVE  BudgetInv'
<1>0. tx \in [Session -> Txs]
  BY DEF BudgetTypeOK
<1>1. ASSUME NEW s \in Session,
             Choose(s) \/ CheckBudget(s) \/ Answer(s) \/ Fail(s) \/ Load(s) \/ Select(s)
      PROVE  BudgetInv'
  <2>1. /\ UNCHANGED <<opened, usage>>
        /\ \A o \in Session \ {s} : tx'[o] = tx[o]
        /\ tx'[s].rows = tx[s].rows /\ tx[s].held \subseteq tx'[s].held
        /\ tx'[s].mem = tx[s].mem \/ tx'[s].mem = Seen(s, tx[s].tier)
    <3>1. CASE Choose(s)
      BY <1>0, <3>1 DEF Choose, Txs
    <3>2. CASE CheckBudget(s)
      BY <1>0, <3>2 DEF CheckBudget, Txs
    <3>3. CASE Answer(s)
      BY <1>0, <3>3 DEF Answer, Txs
    <3>4. CASE Fail(s)
      BY <1>0, <3>4 DEF Fail, Txs
    <3>5. CASE Load(s)
      BY <1>0, <3>5 DEF Load, Txs
    <3>6. CASE Select(s)
      BY <1>0, <3>6 DEF Select, Txs
    <3> QED BY <1>1, <3>1, <3>2, <3>3, <3>4, <3>5, <3>6
  <2>2. tx[s].tier \in Tiers
    BY <1>0 DEF Txs
  <2>3. tx'[s].mem.cost \in Grains
    BY <2>1, <2>2, SeenGrain DEF BudgetInv, GrainInv
  <2> QED BY <2>1, <2>3, QuietStep
<1>2. ASSUME NEW s \in Session, LockRow(s) PROVE BudgetInv'
  <2>1. PICK t \in Tiers : tx' = [tx EXCEPT ![s].held = @ \cup {t}]
    BY <1>2 DEF LockRow
  <2>2. /\ UNCHANGED <<opened, usage>>
        /\ \A o \in Session \ {s} : tx'[o] = tx[o]
        /\ tx'[s].rows = tx[s].rows /\ tx[s].held \subseteq tx'[s].held
        /\ tx'[s].mem = tx[s].mem
    BY <1>0, <1>2, <2>1 DEF LockRow, Txs
  <2>3. tx'[s].mem.cost \in Grains
    BY <2>2 DEF BudgetInv, GrainInv
  <2> QED BY <2>2, <2>3, QuietStep
<1>3. ASSUME NEW s \in Session, Create(s) PROVE BudgetInv'
  <2>1. /\ UNCHANGED <<opened, usage>> /\ tx[s].tier \notin Visible(s)
        /\ \A o \in Session \ {s} : tx'[o] = tx[o]
        /\ tx'[s].mem = tx[s].mem /\ tx[s].tier \in Tiers
        /\ \A t \in Tiers : tx'[s].rows[t] \in {tx[s].rows[t], NewRow}
    BY <1>0, <1>3 DEF Create, Txs
  <2>2. ~opened
    BY <2>1 DEF OrderInv, Visible, Seen
  <2>3. GrainInv'
    <3>1. NewRow.cost = 0 * Grain
      BY BudgetConstants DEF NewRow
    <3>2. NewRow.cost \in Grains
      BY <3>1 DEF Grains
    <3> QED BY <2>1, <3>2 DEF BudgetInv, GrainInv
  <2> QED BY <2>1, <2>2, <2>3 DEF BudgetInv, WholeInv, SpendInv
<1>4. ASSUME NEW s \in Session, Enforce(s) PROVE BudgetInv'
  <2>1. CASE ~Fits(s)
    <3>1. /\ UNCHANGED <<opened, usage>>
          /\ \A o \in Session \ {s} : tx'[o] = tx[o]
          /\ tx'[s].rows = tx[s].rows /\ tx[s].held = tx'[s].held
          /\ tx'[s].mem = tx[s].mem
      BY <1>0, <1>4, <2>1 DEF Enforce, Txs
    <3>2. tx'[s].mem.cost \in Grains
      BY <3>1 DEF BudgetInv, GrainInv
    <3> QED BY <3>1, <3>2, QuietStep
  <2>2. CASE Fits(s)
    <3>1. /\ UNCHANGED <<opened, usage>> /\ At(s, "lock") /\ Wanted(s) = {}
          /\ \A o \in Session \ {s} : tx'[o] = tx[o]
      BY <1>0, <1>4, <2>2 DEF Enforce
    <3>2. tx'[s].rows = [tx[s].rows EXCEPT ![tx[s].tier] = Written(s)]
      BY <1>0, <1>4, <2>2, SMTT(30) DEF Enforce, Txs
    <3>3. tx'[s].held = tx[s].held /\ tx'[s].mem = tx[s].mem
      BY <1>0, <1>4, <2>2, SMTT(30) DEF Enforce, Txs
    <3>4. Written(s).cost \in Grains
      <4> DEFINE m == tx[s].mem.cost + tx[s].cost
      <4>1. m \in Nat
        BY <1>0 DEF Txs, UsageRows
      <4>2. 0 = 0 * Grain
        BY BudgetConstants
      <4>3. 0 \in Grains /\ 0 + m <= m
        BY <4>1, <4>2 DEF Grains
      <4> HIDE DEF m
      <4>4. Rounded(m) \in Grains
        BY <4>1, <4>3, RoundedFits
      <4> QED BY <4>4 DEF Written, m
    <3>5. \A t \in Tiers : tx'[s].rows[t] =
              IF t = tx[s].tier THEN Written(s) ELSE tx[s].rows[t]
      BY <1>0, <3>2 DEF Txs
    <3>6. GrainInv'
      BY <3>1, <3>3, <3>4, <3>5 DEF BudgetInv, GrainInv
    <3>7. ASSUME opened PROVE Tiers \subseteq tx[s].held
      BY <3>1, <3>7 DEF OrderInv, Wanted
    <3>8. WholeInv'
      BY <3>1, <3>3, <3>7 DEF BudgetInv, WholeInv
    <3>9. ASSUME opened PROVE SeenTotal(s)' <= Rounded(DailyLimit)
      <4> DEFINE g == [SeenCost(s) EXCEPT ![tx[s].tier] = Written(s).cost]
      <4>1. SumFunctionOnSet(g, Tiers) <= Rounded(DailyLimit)
        BY <2>2, <3>1, <3>9, EnforceFits
      <4>2. \A t \in Tiers : Seen(s, t)' =
                IF t = tx[s].tier THEN Written(s) ELSE Seen(s, t)
        <5>1. Written(s).made /\ usage' = usage
          BY <3>1 DEF Written
        <5> QED BY ONLY <3>5, <5>1 DEF Seen
      <4>3. SeenCost(s)' = g
        BY <4>2 DEF SeenCost
      <4> QED BY <4>1, <4>3 DEF SeenTotal
    <3>10. ASSUME NEW o \in Session \ {s} PROVE SeenTotal(o)' = SeenTotal(o)
      BY <3>1, SameSeen DEF Seen
    <3>11. Spent' = Spent
      BY <3>1 DEF Spent
    <3>12. SpendInv'
      BY <3>1, <3>9, <3>10, <3>11 DEF BudgetInv, SpendInv
    <3> QED BY <3>6, <3>8, <3>12 DEF BudgetInv
  <2> QED BY <2>1, <2>2
<1>5. ASSUME NEW s \in Session, Rollback(s) PROVE BudgetInv'
  <2>1. /\ UNCHANGED <<opened, usage>>
        /\ \A o \in Session \ {s} : tx'[o] = tx[o]
        /\ tx'[s].rows = [t \in Tiers |-> NoRow] /\ tx'[s].mem = NoRow
    BY <1>0, <1>5 DEF Rollback, NewTx
  <2>2. NoRow.cost \in Grains /\ ~NoRow.made
    <3>1. 0 = 0 * Grain
      BY BudgetConstants
    <3> QED BY <3>1 DEF NoRow, Grains
  <2>3. GrainInv' /\ WholeInv'
    BY <2>1, <2>2 DEF BudgetInv, GrainInv, WholeInv
  <2>4. SeenTotal(s)' = Spent'
    <3>1. \A t \in Tiers : ~tx'[s].rows[t].made
      BY <2>1, <2>2
    <3> QED BY <3>1, SeenCommittedNext
  <2>5. ASSUME NEW o \in Session \ {s} PROVE SeenTotal(o)' = SeenTotal(o)
    BY <2>1, SameSeen DEF Seen
  <2>6. Spent' = Spent
    BY <2>1 DEF Spent
  <2> QED BY <2>1, <2>3, <2>4, <2>5, <2>6 DEF BudgetInv, SpendInv
<1>6. ASSUME NEW s \in Session, Commit(s) PROVE BudgetInv'
  <2>1. /\ UNCHANGED opened
        /\ usage' = [t \in Tiers |-> Seen(s, t)]
        /\ \A o \in Session \ {s} : tx'[o] = tx[o]
        /\ tx'[s].rows = [t \in Tiers |-> NoRow] /\ tx'[s].mem = NoRow
    BY <1>0, <1>6 DEF Commit, NewTx
  <2>2. NoRow.cost \in Grains /\ ~NoRow.made
    <3>1. 0 = 0 * Grain
      BY BudgetConstants
    <3> QED BY <3>1 DEF NoRow, Grains
  <2>3. GrainInv'
    BY <2>1, <2>2, SeenGrain DEF BudgetInv, GrainInv
  <2>4. WholeInv'
    BY <2>1, <2>2 DEF BudgetInv, WholeInv
  <2>5. SpendInv'
    <3> SUFFICES ASSUME opened PROVE SpendInv'
      BY <2>1 DEF SpendInv
    <3>1. Spent' = SeenTotal(s)
      <4>1. [t \in Tiers |-> usage'[t].cost] = SeenCost(s)
        BY <2>1 DEF SeenCost
      <4>2. DOMAIN SeenCost(s) = Tiers
        BY DEF SeenCost
      <4> QED BY <4>1, <4>2 DEF Spent, SeenTotal, SumFunction
    <3>2. SeenTotal(s)' = Spent'
      <4>1. \A t \in Tiers : ~tx'[s].rows[t].made
        BY <2>1, <2>2
      <4> QED BY <4>1, SeenCommittedNext
    <3>3. ASSUME NEW o \in Session \ {s}
          PROVE  SeenTotal(o)' \in {SeenTotal(o), Spent'}
      <4>1. CASE \E t \in Tiers : tx[s].rows[t].made
        <5>1. Tiers \subseteq tx[s].held
          BY <4>1 DEF BudgetInv, WholeInv
        <5>2. \A t \in Tiers : ~tx[o].rows[t].made
          BY <5>1, BudgetConstants DEF BudgetInv, WholeInv, OrderInv, Others
        <5>3. \A t \in Tiers : ~tx'[o].rows[t].made
          BY <2>1, <5>2
        <5> QED BY <5>3, SeenCommittedNext
      <4>2. CASE \A t \in Tiers : ~tx[s].rows[t].made
        <5>1. \A t \in Tiers : usage'[t] = usage[t]
          BY <2>1, <4>2 DEF Seen
        <5>2. \A t \in Tiers : Seen(o, t)' = Seen(o, t)
          BY <2>1, <5>1 DEF Seen
        <5> QED BY <5>2, SameSeen
      <4> QED BY <4>1, <4>2
    <3> QED BY <3>1, <3>2, <3>3 DEF BudgetInv, SpendInv
  <2> QED BY <2>3, <2>4, <2>5 DEF BudgetInv
<1>7. CASE UNCHANGED vars
  <2>1. \A o \in Session : SeenTotal(o)' = SeenTotal(o)
    BY <1>7, SameSeen DEF vars, Seen
  <2>2. Spent' = Spent
    BY <1>7 DEF vars, Spent
  <2>3. GrainInv' /\ WholeInv'
    BY <1>7 DEF vars, BudgetInv, GrainInv, WholeInv
  <2> QED BY <1>7, <2>1, <2>2, <2>3 DEF vars, BudgetInv, SpendInv
<1> QED BY <1>1, <1>2, <1>3, <1>4, <1>5, <1>6, <1>7 DEF Next, Done

(* Whatever the limit: once the rows of the day exist, what they hold is   *)
(* within the limit as the cost column would store it (record_usage adds   *)
(* the locked rows of the other tiers to its own, perhaps stale, one).     *)
THEOREM SpendRounded == Spec => [](opened => Spent <= Rounded(DailyLimit))
<1>1. BudgetTypeOK /\ BudgetTypeOK' /\ OrderInv /\ OrderInv' /\ BudgetInv /\ [Next]_vars
        => BudgetInv'
  BY BudgetStep
<1>2. BudgetInv => (opened => Spent <= Rounded(DailyLimit))
  BY DEF BudgetInv, SpendInv
<1> QED BY <1>1, <1>2, BudgetInit, BudgetTypeCorrect, OrderInvariant, PTL DEF Spec

(* A limit of at most as many decimals as the column keeps is never        *)
(* exceeded by the rows of the day, once they exist.                       *)
THEOREM SpendLimited ==
    ASSUME DailyLimit \in Grains
    PROVE  Spec => []SpendWithinLimit
<1>1. Rounded(DailyLimit) <= DailyLimit
  <2>1. PICK n \in Nat : DailyLimit = n * Grain
    BY DEF Grains
  <2> DEFINE h == Grain \div 2
             q == (DailyLimit + h) \div Grain
  <2>2. Grain \in Nat \ {0} /\ h \in Nat /\ h < Grain /\ DailyLimit \in Nat
    BY BudgetConstants
  <2> HIDE DEF h
  <2>3. q \in Nat /\ q * Grain <= DailyLimit + h
    BY <2>2, Quotient
  <2>4. Rounded(DailyLimit) = q * Grain
    BY DEF Rounded, h
  <2> HIDE DEF q
  <2>5. ASSUME q > n PROVE FALSE
    <3>1. q * Grain >= (n + 1) * Grain
      BY <2>2, <2>3, <2>5
    <3>2. (n + 1) * Grain = n * Grain + Grain /\ n * Grain \in Nat /\ q * Grain \in Nat
      BY <2>2, <2>3
    <3> QED BY <2>1, <2>2, <2>3, <3>1, <3>2
  <2>6. q * Grain <= n * Grain
    BY <2>2, <2>3, <2>5
  <2> QED BY <2>1, <2>4, <2>6
<1>2. BudgetTypeOK /\ (opened => Spent <= Rounded(DailyLimit)) => SpendWithinLimit
  <2> SUFFICES ASSUME BudgetTypeOK, opened, Spent <= Rounded(DailyLimit)
               PROVE  Spent <= DailyLimit
    BY DEF SpendWithinLimit
  <2> DEFINE f == [t \in Tiers |-> usage[t].cost]
  <2>1. Spent \in Int
    <3>1. \A t \in Tiers : f[t] \in Int
      BY DEF BudgetTypeOK, UsageRows
    <3>2. IsFiniteSet(Tiers) /\ DOMAIN f = Tiers
      BY BudgetConstants
    <3>3. Spent = SumFunctionOnSet(f, Tiers)
      BY <3>2 DEF Spent, SumFunction
    <3> HIDE DEF f
    <3>4. SumFunctionOnSet(f, Tiers) \in Int
      BY ONLY <3>1, <3>2, SumType
    <3> QED BY <3>3, <3>4
  <2>2. DailyLimit \in Nat /\ Rounded(DailyLimit) \in Nat
    BY BudgetConstants, RoundedType
  <2> QED BY <1>1, <2>1, <2>2
<1> QED BY <1>2, SpendRounded, BudgetTypeCorrect, PTL
=============================================================================
