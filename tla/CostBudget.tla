----------------------------- MODULE CostBudget -----------------------------
(***************************************************************************)
(* The daily budget of LLM calls: CostTracker over the rows of api_usage   *)
(* of one day, one row per tier, shared by sessions that each make several *)
(* calls and then commit.                                                  *)
(*                                                                         *)
(* A call is checked before it is made and recorded after.  The check and  *)
(* the record load the tier's row, or insert it.  The record then selects  *)
(* all rows of the day FOR UPDATE, which returns for the tier's row the    *)
(* object already loaded, not refreshed.  Locks are kept to the end of     *)
(* the transaction; an inserted row is visible to others after it.         *)
(***************************************************************************)
EXTENDS Integers, FiniteSets, Functions

CONSTANTS
    Session,      \* the database sessions
    Tiers,        \* the tiers, as integers: their alphabetical order
    Costs,        \* what one call may cost
    Grain,        \* the unit of the cost column, NUMERIC(10, 4)
    CallLimit,    \* calls a day and tier
    DailyLimit,   \* cost a day, all tiers together
    MaxCalls      \* bound: calls a session tries

ASSUME BudgetConstants ==
    /\ Tiers \subseteq Int /\ Tiers # {} /\ IsFiniteSet(Tiers)
    /\ Costs \subseteq Nat \ {0} /\ Grain \in Nat \ {0}
    /\ CallLimit \in Nat \ {0} /\ DailyLimit \in Nat \ {0} /\ MaxCalls \in Nat

VARIABLES
    opened,     \* history: an earlier transaction has inserted all rows of the day
    usage,      \* usage[t]: the committed row of tier t
    accepted,   \* history: accepted[t] counts the committed calls of tier t
    tx          \* tx[s]: the transaction of session s

vars == <<opened, usage, accepted, tx>>

UsageRows == [made : BOOLEAN, calls : Nat, cost : Nat]
NoRow == [made |-> FALSE, calls |-> 0, cost |-> 0]
NewRow == [made |-> TRUE, calls |-> 0, cost |-> 0]

Txs ==
    [pc    : {"open", "check", "called", "record", "select", "lock", "over"},
     tier  : Tiers,                    \* the tier of the call at hand
     cost  : Nat,                      \* what that call cost
     mem   : UsageRows,                \* the tier's row as loaded for the record
     scope : SUBSET Tiers,             \* the rows its SELECT FOR UPDATE has found
     held  : SUBSET Tiers,             \* the rows it has locked
     rows  : [Tiers -> UsageRows],     \* the rows it has inserted or written
     done  : [Tiers -> Nat],           \* the calls it has recorded
     tried : 0..MaxCalls]

NewTx(pc) ==
    [pc |-> pc, tier |-> CHOOSE t \in Tiers : TRUE, cost |-> 0, mem |-> NoRow,
     scope |-> {}, held |-> {}, rows |-> [t \in Tiers |-> NoRow],
     done |-> [t \in Tiers |-> 0], tried |-> 0]

Init ==
    /\ opened \in BOOLEAN
    /\ usage = [t \in Tiers |-> IF opened THEN NewRow ELSE NoRow]
    /\ accepted = [t \in Tiers |-> 0]
    /\ tx = [s \in Session |-> NewTx("open")]

-----------------------------------------------------------------------------
At(s, pc) == tx[s].pc = pc
Others(s) == Session \ {s}

(* The row of tier t as session s sees it. *)
Seen(s, t) == IF tx[s].rows[t].made THEN tx[s].rows[t] ELSE usage[t]
Visible(s) == {t \in Tiers : Seen(s, t).made}

(* The rows s has selected and not yet locked. *)
Wanted(s) == tx[s].scope \ tx[s].held

(* Mutant: the tier's own row is locked first. *)
OwnFirst(s, t) ==
    /\ t \in Wanted(s)
    /\ tx[s].tier \in Wanted(s) => t = tx[s].tier
    /\ tx[s].tier \notin Wanted(s) => \A u \in Wanted(s) : t <= u

(* The row s locks next: ORDER BY tier. *)
Turn(s, t) == t \in Wanted(s) /\ \A u \in Wanted(s) : t <= u

(* The sessions the next statement of s waits for: one that has inserted   *)
(* the row s is to insert, or locked the row s is to lock next.            *)
Blockers(s) ==
    {o \in Others(s) :
        \/ /\ At(s, "check") /\ tx[s].tier \notin Visible(s)
           /\ tx[o].rows[tx[s].tier].made
        \/ At(s, "lock") /\ \E t \in tx[o].held : Turn(s, t)}

Free(s) == Blockers(s) = {}

-----------------------------------------------------------------------------
(* The next call, of any tier. *)
Choose(s) ==
    /\ At(s, "open") /\ tx[s].tried < MaxCalls
    /\ \E t \in Tiers :
         tx' = [tx EXCEPT ![s].pc = "check", ![s].tier = t, ![s].tried = @ + 1]
    /\ UNCHANGED <<opened, usage, accepted>>

(* _get_or_create_usage: insert the tier's row when it is not visible. *)
Create(s) ==
    /\ At(s, "check") /\ tx[s].tier \notin Visible(s) /\ Free(s)
    /\ tx' = [tx EXCEPT ![s].rows[tx[s].tier] = NewRow]
    /\ UNCHANGED <<opened, usage, accepted>>

SpentSeen(s) == SumFunction([t \in Visible(s) |-> Seen(s, t).cost])

(* check_budget: is there room for one more call of the tier? *)
CheckBudget(s) ==
    /\ At(s, "check") /\ tx[s].tier \in Visible(s)
    /\ tx' = [tx EXCEPT ![s].pc =
                IF Seen(s, tx[s].tier).calls < CallLimit /\ SpentSeen(s) < DailyLimit
                THEN "called" ELSE "open"]
    /\ UNCHANGED <<opened, usage, accepted>>

(* The provider answers, or fails; a failed call is not recorded. *)
Answer(s) ==
    /\ At(s, "called")
    /\ \E c \in Costs : tx' = [tx EXCEPT ![s].pc = "record", ![s].cost = c]
    /\ UNCHANGED <<opened, usage, accepted>>

(* Mutant: a failed call is taken off the counter it was never added to. *)
RefundFail(s) ==
    /\ At(s, "called")
    /\ tx' = [tx EXCEPT ![s].pc = "open",
                  ![s].rows[tx[s].tier] = [Seen(s, tx[s].tier) EXCEPT !.calls = @ - 1]]
    /\ UNCHANGED <<opened, usage, accepted>>

Fail(s) ==
    /\ At(s, "called")
    /\ tx' = [tx EXCEPT ![s].pc = "open"]
    /\ UNCHANGED <<opened, usage, accepted>>

(* record_usage loads the tier's row, unlocked; the row is there since the *)
(* check.                                                                  *)
Load(s) ==
    /\ At(s, "record")
    /\ tx' = [tx EXCEPT ![s].pc = "select", ![s].mem = Seen(s, tx[s].tier)]
    /\ UNCHANGED <<opened, usage, accepted>>

(* SELECT ... ORDER BY tier FOR UPDATE finds the visible rows, and then    *)
(* locks them one by one.                                                  *)
Select(s) ==
    /\ At(s, "select")
    /\ tx' = [tx EXCEPT ![s].pc = "lock", ![s].scope = Visible(s)]
    /\ UNCHANGED <<opened, usage, accepted>>

LockRow(s) ==
    /\ At(s, "lock") /\ Free(s)
    /\ \E t \in Tiers : Turn(s, t) /\ tx' = [tx EXCEPT ![s].held = @ \cup {t}]
    /\ UNCHANGED <<opened, usage, accepted>>

(* The rows the SELECT returns: the tier's own as it was loaded. *)
Returned(s, t) == IF t = tx[s].tier THEN tx[s].mem ELSE Seen(s, t)

(* Mutant: the cost limit is taken per tier. *)
OwnProjected(s) == tx[s].mem.cost + tx[s].cost

Projected(s) ==
    SumFunction([t \in tx[s].scope |-> Returned(s, t).cost]) + tx[s].cost

Fits(s) == tx[s].mem.calls + 1 <= CallLimit /\ Projected(s) <= DailyLimit

(* A cost as the column stores it, rounded half up. *)
Rounded(c) == ((c + Grain \div 2) \div Grain) * Grain

Written(s) ==
    [made |-> TRUE, calls |-> tx[s].mem.calls + 1,
     cost |-> Rounded(tx[s].mem.cost + tx[s].cost)]

(* Mutant: the row is written before the limits are checked, and the error *)
(* does not undo it.                                                       *)
EarlyEnforce(s) ==
    /\ At(s, "lock") /\ Wanted(s) = {}
    /\ tx' = [tx EXCEPT ![s].pc = "open", ![s].rows[tx[s].tier] = Written(s),
                        ![s].done[tx[s].tier] = IF Fits(s) THEN @ + 1 ELSE @]
    /\ UNCHANGED <<opened, usage, accepted>>

(* Enforce the limits: the call is written, or an error raised. *)
Enforce(s) ==
    /\ At(s, "lock") /\ Wanted(s) = {}
    /\ tx' = IF Fits(s)
             THEN [tx EXCEPT ![s].pc = "open", ![s].rows[tx[s].tier] = Written(s),
                             ![s].done[tx[s].tier] = @ + 1]
             ELSE [tx EXCEPT ![s].pc = "open"]
    /\ UNCHANGED <<opened, usage, accepted>>

(* Commit with whatever has been recorded. *)
Commit(s) ==
    /\ At(s, "open")
    /\ usage' = [t \in Tiers |-> Seen(s, t)]
    /\ accepted' = [t \in Tiers |-> accepted[t] + tx[s].done[t]]
    /\ tx' = [tx EXCEPT ![s] = NewTx("over")]
    /\ UNCHANGED opened

Rollback(s) ==
    /\ ~At(s, "over")
    /\ tx' = [tx EXCEPT ![s] = NewTx("over")]
    /\ UNCHANGED <<opened, usage, accepted>>

Done == (\A s \in Session : At(s, "over")) /\ UNCHANGED vars

Next ==
    \/ \E s \in Session :
         \/ Choose(s) \/ Create(s) \/ CheckBudget(s) \/ Answer(s) \/ Fail(s)
         \/ Load(s) \/ Select(s) \/ LockRow(s) \/ Enforce(s) \/ Commit(s) \/ Rollback(s)
    \/ Done

Spec == Init /\ [][Next]_vars

-----------------------------------------------------------------------------
(* Properties.                                                             *)

(* Every variable has its type. *)
BudgetTypeOK ==
    /\ opened \in BOOLEAN
    /\ usage \in [Tiers -> UsageRows]
    /\ accepted \in [Tiers -> Nat]
    /\ tx \in [Session -> Txs]

(* Once the rows of the day exist, they never hold more than the daily     *)
(* limit: record_usage adds the fresh rows of the other tiers to a         *)
(* possibly stale own row, and what it overwrites is that same row.        *)
(* (While a row is missing, another session's insertion is not seen.)      *)
Spent == SumFunction([t \in Tiers |-> usage[t].cost])
SpendWithinLimit == opened => Spent <= DailyLimit

(* A tier's counter never exceeds the calls accepted and committed: stale  *)
(* writes can lose calls, but none is counted that was refused, rolled     *)
(* back or counted before.                                                 *)
NeverOvercounted == \A t \in Tiers : usage[t].calls <= accepted[t]

(* Once the rows of the day exist, no set of sessions waits for itself,    *)
(* although each locks all rows while it holds those of earlier calls.     *)
(* (The first sessions of a day insert rows in the order of their calls.)  *)
NoWaitCycle ==
    opened => ~ \E waiting \in (SUBSET Session) \ {{}} :
                    \A s \in waiting : Blockers(s) \cap waiting # {}
=============================================================================
