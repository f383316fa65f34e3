----------------------- MODULE PrivilegedWritesProofs -----------------------
(***************************************************************************)
(* Proofs about PrivilegedWrites, for any requests, keys and routes: the   *)
(* types, that a key is applied at most once, and that its audit row tells *)
(* the truth.                                                              *)
(*                                                                         *)
(* The argument: only the request that has entered the row of its key      *)
(* works on the resource, and a row once entered is never entered again.   *)
(* So the requests that have changed the resource own the rows of their    *)
(* keys, which are therefore different keys.                               *)
(***************************************************************************)
EXTENDS PrivilegedWrites, TLAPS

LEMMA KeyOf ==
  ASSUME NEW r \in Requests
  PROVE  Key[r] \in Keys
  BY DEF Keys

(* An audit row and a handler keep their types under the updates made.     *)
LEMMA FreshType ==
  ASSUME NEW pc \in {"new", "loaded", "started", "flushed", "get", "put", "abort",
                     "done", "dead"}
  PROVE  Fresh(pc) \in Handlers
  BY DEF Fresh, Handlers, Outcomes, NoToken

Types ==
    /\ log \in Seq(Changers)
    /\ lock \in Changers
    /\ audit \in [Keys -> AuditRows]
    /\ req \in [Requests -> Handlers]

LEMMA ConcludeType ==
  ASSUME Types, NEW r \in Requests, NEW o \in Outcomes, Conclude(r, o)
  PROVE  /\ req' \in [Requests -> Handlers]
         /\ req'[r].pc = "get" /\ req'[r].out = o
         /\ \A q \in Requests \ {r} : req'[q] = req[q]
  <1>1. [req[r] EXCEPT !.pc = "get", !.out = o] \in Handlers
    BY DEF Types, Handlers
  <1>2. req' = [req EXCEPT ![r] = [req[r] EXCEPT !.pc = "get", !.out = o]]
    BY DEF Conclude
  <1>3. req' \in [Requests -> Handlers] /\ \A q \in Requests \ {r} : req'[q] = req[q]
    BY <1>1, <1>2 DEF Types
  <1>4. [req[r] EXCEPT !.pc = "get", !.out = o].pc = "get"
        /\ [req[r] EXCEPT !.pc = "get", !.out = o].out = o
    BY DEF Types, Handlers
  <1> QED
    BY <1>2, <1>3, <1>4 DEF Types

LEMMA EnterType ==
  ASSUME Types, NEW r \in Requests, NEW o \in Outcomes, Enter(r, o)
  PROVE  /\ audit' \in [Keys -> AuditRows]
         /\ audit'[Key[r]].outcome = o
         /\ o = "in_progress" => audit'[Key[r]].owner = r
         /\ \A k \in Keys \ {Key[r]} : audit'[k] = audit[k]
  BY KeyOf DEF Types, Enter, AuditRows, Changers

LEMMA StepType ==
  ASSUME Types, NEW r \in Requests, NEW pc \in {"done", "dead", "abort"},
         req' = [req EXCEPT ![r] = Fresh(pc)]
  PROVE  /\ req' \in [Requests -> Handlers]
         /\ req'[r] = Fresh(pc) /\ req'[r].pc = pc
         /\ \A q \in Requests \ {r} : req'[q] = req[q]
  BY FreshType DEF Types, Fresh

LEMMA MoveType ==
  ASSUME Types, NEW r \in Requests, NEW pc \in {"started", "flushed", "done"},
         req' = [req EXCEPT ![r].pc = pc]
  PROVE  /\ req' \in [Requests -> Handlers]
         /\ req'[r].pc = pc
         /\ \A q \in Requests \ {r} : req'[q] = req[q]
  <1>1. [req[r] EXCEPT !.pc = pc] \in Handlers /\ [req[r] EXCEPT !.pc = pc].pc = pc
    BY DEF Types, Handlers
  <1>2. req' = [req EXCEPT ![r] = [req[r] EXCEPT !.pc = pc]]
    OBVIOUS
  <1> QED
    BY <1>1, <1>2 DEF Types

-----------------------------------------------------------------------------
Local(r) == Load(r) \/ Handle(r) \/ Fail(r) \/ Crash(r)

(* What a handler's step does to the handlers: it moves its own.           *)
LEMMA HandlerStep ==
  ASSUME Types, NEW r \in Requests, Local(r)
  PROVE  /\ req' \in [Requests -> Handlers]
         /\ \A q \in Requests \ {r} : req'[q] = req[q]
<1>1. CASE Load(r)
  <2>2. Revision \in Nat
    BY DEF Types, Revision
  <2> DEFINE tokens == IF r \in Guarded THEN 0..Revision \cup {NoToken} ELSE {NoToken}
             Loads(token) == req' = [req EXCEPT ![r].pc = "loaded", ![r].match = token,
                                                ![r].seen = Revision]
  <2>5. \E token \in tokens : Loads(token)
    BY <1>1 DEF Load
  <2>6. tokens \subseteq Nat \cup {NoToken}
    BY <2>2
  <2>1. PICK token \in Nat \cup {NoToken} : Loads(token)
    <3> HIDE DEF tokens, Loads
    <3> QED
      BY <2>5, <2>6
  <2>3. [req[r] EXCEPT !.pc = "loaded", !.match = token, !.seen = Revision]
          \in Handlers
    BY <2>2 DEF Types, Handlers
  <2>4. req' = [req EXCEPT ![r] = [req[r] EXCEPT !.pc = "loaded", !.match = token,
                                                 !.seen = Revision]]
    BY <2>1
  <2> QED
    BY <2>3, <2>4 DEF Types
<1>2. CASE Start(r) \/ Mutate(r) \/ Abort(r)
  BY <1>2, MoveType DEF Start, Mutate, Abort
<1>3. CASE Duplicate(r) \/ Refuse412(r) \/ Fail(r) \/ Commit(r) \/ LoseCommit(r)
  BY <1>3, ConcludeType DEF Duplicate, Refuse412, Fail, Commit, LoseCommit, Outcomes
<1>4. CASE Reject(r)
  BY <1>4, StepType, ConcludeType DEF Reject, Outcomes
<1>5. CASE GetAudit(r)
  <2>1. Row(r).outcome \in Outcomes
    BY KeyOf DEF Types, Row, AuditRows
  <2>2. [req[r] EXCEPT !.pc = "put", !.mem = Row(r).outcome] \in Handlers
    BY <2>1 DEF Types, Handlers
  <2>3. req' = [req EXCEPT ![r] = [req[r] EXCEPT !.pc = "put", !.mem = Row(r).outcome]]
    BY <1>5 DEF GetAudit
  <2> QED
    BY <2>2, <2>3 DEF Types
<1>6. CASE PutAudit(r) \/ Crash(r)
  <2>1. PICK pc \in {"done", "dead", "abort"} : req' = [req EXCEPT ![r] = Fresh(pc)]
    BY <1>6 DEF PutAudit, Crash
  <2> QED
    BY <2>1, StepType
<1> QED
  BY <1>1, <1>2, <1>3, <1>4, <1>5, <1>6 DEF Local, Handle

(* The audit table: a row is entered where there was none, or takes the    *)
(* outcome that the handler was to write.                                  *)
LEMMA AuditStep ==
  ASSUME Types, NEW r \in Requests, Local(r)
  PROVE  /\ audit' \in [Keys -> AuditRows]
         /\ \A k \in Keys \ {Key[r]} : audit'[k] = audit[k]
         /\ \/ UNCHANGED audit
            \/ /\ Row(r).outcome = "none" /\ At(r, "loaded")
               /\ \/ Reject(r) /\ audit'[Key[r]].outcome = "missing_revision_token"
                  \/ /\ Start(r) /\ audit'[Key[r]].outcome = "in_progress"
                     /\ audit'[Key[r]].owner = r
            \/ /\ PutAudit(r)
               /\ audit'[Key[r]].outcome = req[r].out
               /\ audit'[Key[r]].owner = Row(r).owner
<1>1. CASE Start(r) \/ Reject(r)
  BY <1>1, EnterType DEF Start, Reject, Unused, Outcomes, Types
<1>2. CASE PutAudit(r)
  <2>1. req[r].out \in Outcomes
    BY DEF Types, Handlers
  <2> QED
    BY <1>2, <2>1, KeyOf DEF PutAudit, Types, AuditRows, Row, Changers
<1>3. CASE UNCHANGED audit
  BY <1>3 DEF Types
<1> QED
  BY <1>1, <1>2, <1>3 DEF Local, Handle, Load, Duplicate, Refuse412, Mutate,
     Fail, Commit, LoseCommit, GetAudit, Abort, Crash

(* The log: a flushed handler appends its change, or nothing happens.      *)
LEMMA LogStep ==
  ASSUME Types, NEW r \in Requests, Local(r)
  PROVE  /\ log' \in Seq(Changers)
         /\ \/ UNCHANGED log
            \/ /\ log' = Append(log, r) /\ At(r, "flushed")
               /\ Commit(r) \/ LoseCommit(r)
<1>1. CASE Commit(r) \/ LoseCommit(r)
  BY <1>1 DEF Commit, LoseCommit, Types, Changers
<1> QED
  BY <1>1 DEF Local, Handle, Load, Reject, Start, Duplicate, Refuse412, Mutate,
     Fail, GetAudit, PutAudit, Abort, Crash, Types

(* The types, and: no ended handler holds the resource's lock              *)
(* (get_session leaves by commit or by rollback).                          *)
LEMMA InitType == Init => WritesTypeOK
<1> SUFFICES ASSUME Init PROVE WritesTypeOK
  OBVIOUS
<1>1. req \in [Requests -> Handlers]
  BY FreshType DEF Init
<1>2. audit \in [Keys -> AuditRows]
  BY DEF Init, NoAudit, AuditRows, Outcomes, Changers
<1> QED
  BY <1>1, <1>2, WriteConstants DEF Init, WritesTypeOK, Changers

LEMMA StepTypeOK == WritesTypeOK /\ [Next]_vars => WritesTypeOK'
<1> SUFFICES ASSUME WritesTypeOK, [Next]_vars PROVE WritesTypeOK'
  OBVIOUS
<1>0. Types
  BY DEF WritesTypeOK, Types
<1>1. CASE UNCHANGED vars
  BY <1>1 DEF vars, WritesTypeOK
<1>2. CASE WriteElsewhere
  BY <1>2 DEF WriteElsewhere, WritesTypeOK, Changers
<1>3. ASSUME NEW r \in Requests, Local(r)
      PROVE  WritesTypeOK'
  <2>1. Types'
    <3>1. lock' \in Changers
      BY <1>0, <1>3 DEF Changers, Local, Handle, Load, Reject, Start, Duplicate, Refuse412,
         Mutate, Fail, Commit, LoseCommit, GetAudit, PutAudit, Abort, Crash, Types
    <3> QED
      BY <1>0, <1>3, <3>1, HandlerStep, AuditStep, LogStep DEF Types
  <2>2. lock' \in {lock, Other} \/ (lock' = r /\ req'[r].pc = "flushed")
    BY <1>0, <1>3, MoveType DEF Local, Handle, Load, Reject, Start, Duplicate,
       Refuse412, Mutate, Fail, Commit, LoseCommit, GetAudit, PutAudit, Abort, Crash
  <2>3. ASSUME lock = r, lock' = r
        PROVE  req'[r].pc \in {"flushed", "get", "put", "abort"}
    <3>1. Other # r /\ req[r].pc \in {"flushed", "get", "put", "abort"}
      BY <2>3, WriteConstants DEF WritesTypeOK
    <3>2. Fail(r) \/ GetAudit(r) \/ PutAudit(r)
      BY <1>3, <2>3, <3>1 DEF Local, Handle, Load, Reject, Start, Duplicate,
         Refuse412, Mutate, Commit, LoseCommit, Abort, Crash, At
    <3>3. CASE Fail(r)
      BY <1>0, <3>3, ConcludeType DEF Fail, Outcomes
    <3>4. CASE GetAudit(r)
      BY <1>0, <3>4 DEF GetAudit, Types, Handlers
    <3>5. CASE PutAudit(r)
      <4>1. req' = [req EXCEPT ![r] = Fresh("abort")]
        BY <2>3, <3>5 DEF PutAudit
      <4> QED
        BY <1>0, <4>1, StepType
    <3> QED
      BY <3>2, <3>3, <3>4, <3>5
  <2>4. ASSUME NEW q \in Requests, lock' = q
        PROVE  req'[q].pc \in {"flushed", "get", "put", "abort"}
    <3>1. Other # q
      BY WriteConstants
    <3>2. CASE q = r
      BY <2>2, <2>3, <2>4, <3>1, <3>2
    <3>3. CASE q # r
      <4>1. lock = q /\ req'[q] = req[q]
        BY <1>0, <1>3, <2>2, <2>4, <3>1, <3>3, HandlerStep
      <4> QED
        BY <4>1 DEF WritesTypeOK
    <3> QED
      BY <3>2, <3>3
  <2> QED
    BY <2>1, <2>4 DEF Types, WritesTypeOK
<1> QED
  BY <1>1, <1>2, <1>3 DEF Next, Local

THEOREM WritesTypeCorrect == Spec => []WritesTypeOK
<1> QED
  BY InitType, StepTypeOK, PTL DEF Spec

-----------------------------------------------------------------------------
(* The inductive invariant: what each request may still do, and has done,  *)
(* to the row of its key.                                                  *)
Made(r) == \E n \in DOMAIN log : log[n] = r
Working(r) == req[r].pc \in {"started", "flushed"}
Closing(r) == req[r].pc \in {"get", "put"}
Owners == {"applied", "rolled_back", "failed", "stale_revision"}
Refused == {"failed", "stale_revision"}

Owned(r) ==
    /\ req[r].pc \in {"new", "loaded"} \/ Working(r) => ~Made(r)
    /\ Working(r) \/ Closing(r) \/ Made(r) => Row(r).outcome # "none"
    /\ Working(r) \/ Made(r) => Row(r).owner = r
    /\ Closing(r) =>
         /\ req[r].out \notin {"none", "in_progress"}
         /\ req[r].out \in Owners => Row(r).owner = r
         /\ req[r].out \in Refused => ~Made(r)
         /\ req[r].out = "applied" => Made(r)

Distinct ==
    \A m, n \in DOMAIN log : m # n /\ log[m] # Other => log[m] # log[n]

OnceInv == (\A r \in Requests : Owned(r)) /\ Distinct

LEMMA MadeStep ==
  ASSUME Types, NEW r \in Requests, Local(r)
  PROVE  /\ \A q \in Requests \ {r} : Made(q)' = Made(q)
         /\ UNCHANGED log => Made(r)' = Made(r)
         /\ ~UNCHANGED log => Made(r)' /\ At(r, "flushed") /\ (Commit(r) \/ LoseCommit(r))
<1>1. CASE UNCHANGED log
  BY <1>1 DEF Made
<1>2. CASE log' = Append(log, r) /\ At(r, "flushed")
           /\ (Commit(r) \/ LoseCommit(r))
  <2>1. log \in Seq(Changers) /\ r \in Changers
    BY DEF Types, Changers
  <2>2. DOMAIN log' = DOMAIN log \cup {Len(log) + 1}
        /\ Len(log) + 1 \notin DOMAIN log
        /\ log'[Len(log) + 1] = r
        /\ \A n \in DOMAIN log : log'[n] = log[n]
    BY <1>2, <2>1
  <2>3. \A q \in Requests : Made(q)' <=> Made(q) \/ q = r
    BY <2>1, <2>2 DEF Made
  <2> QED
    BY <1>2, <2>3 DEF Made
<1> QED
  BY <1>1, <1>2, LogStep

LEMMA OwnOnce == OnceInv /\ Types => AppliedOnce
<1> SUFFICES ASSUME OnceInv, Types,
                    NEW m \in DOMAIN log, NEW n \in DOMAIN log,
                    log[m] # Other, log[n] # Other, m # n,
                    Key[log[m]] = Key[log[n]]
             PROVE  FALSE
  BY DEF AppliedOnce
<1>1. log[m] \in Requests /\ log[n] \in Requests
  <2>1. log[m] \in Changers /\ log[n] \in Changers
    BY DEF Types
  <2> QED
    BY <2>1 DEF Changers
<1>2. Made(log[m]) /\ Made(log[n])
  BY DEF Made
<1>3. Row(log[m]).owner = log[m] /\ Row(log[n]).owner = log[n]
  BY <1>1, <1>2 DEF OnceInv, Owned
<1>4. log[m] = log[n]
  BY <1>3 DEF Row
<1> QED
  BY <1>4 DEF OnceInv, Distinct

(* The requests other than the one that moves: a row they own is not       *)
(* entered anew, and keeps its owner when an outcome is put.               *)
LEMMA OthersOwn ==
  ASSUME Types, OnceInv, NEW r \in Requests, Local(r), NEW q \in Requests \ {r}
  PROVE  Owned(q)'
<1>1. req'[q] = req[q] /\ Made(q)' = Made(q)
  BY HandlerStep, MadeStep
<1>2. Key[q] \in Keys /\ Key[r] \in Keys
  BY KeyOf
<1>3. Owned(q) /\ Owned(r)
  BY DEF OnceInv
<1>4. Working(q)' = Working(q) /\ Closing(q)' = Closing(q)
  BY <1>1 DEF Working, Closing
<1>5. CASE Key[q] # Key[r] \/ UNCHANGED audit
  <2>1. Row(q)' = Row(q)
    BY <1>2, <1>5, AuditStep DEF Row
  <2> QED
    BY <1>1, <1>3, <1>4, <2>1 DEF Owned
<1>6. CASE Key[q] = Key[r] /\ Row(r).outcome = "none"
  <2>1. ~Working(q) /\ ~Closing(q) /\ ~Made(q)
    BY <1>3, <1>6 DEF Owned, Row
  <2> QED
    BY <1>1, <1>4, <2>1 DEF Owned
<1>7. CASE /\ Key[q] = Key[r] /\ PutAudit(r)
           /\ audit'[Key[r]].outcome = req[r].out
           /\ audit'[Key[r]].owner = Row(r).owner
  <2>1. req[r].out # "none"
    BY <1>3, <1>7 DEF Owned, PutAudit, At, Closing
  <2>2. Row(q)'.outcome # "none" /\ Row(q)'.owner = Row(q).owner
    BY <1>7, <2>1 DEF Row
  <2> QED
    BY <1>1, <1>3, <1>4, <2>2 DEF Owned
<1>8. \/ UNCHANGED audit
      \/ Row(r).outcome = "none"
      \/ /\ PutAudit(r)
         /\ audit'[Key[r]].outcome = req[r].out
         /\ audit'[Key[r]].owner = Row(r).owner
  BY AuditStep
<1> QED
  BY <1>5, <1>6, <1>7, <1>8

(* The request that moves.                                                 *)
LEMMA MoverOwns ==
  ASSUME Types, OnceInv, NEW r \in Requests, Local(r)
  PROVE  Owned(r)'
<1>0. Owned(r) /\ Key[r] \in Keys
  BY KeyOf DEF OnceInv
<1>1. CASE Load(r)
  <2>1. req'[r].pc = "loaded" /\ UNCHANGED <<log, audit>> /\ req[r].pc = "new"
    BY <1>1 DEF Load, Types, Handlers, At
  <2>2. ~Made(r) /\ ~Made(r)'
    BY <1>0, <2>1, MadeStep DEF Owned
  <2> QED
    BY <2>1, <2>2 DEF Owned, Working, Closing
<1>2. CASE Reject(r)
  <2>1. UNCHANGED log /\ req[r].pc = "loaded"
    BY <1>2 DEF Reject, At
  <2>2. ~Made(r) /\ ~Made(r)'
    BY <1>0, <2>1, MadeStep DEF Owned
  <2>3. CASE Unused(r)
    <3>1. req'[r].pc = "done"
      BY <1>2, <2>3, StepType DEF Reject
    <3> QED
      BY <2>2, <3>1 DEF Owned, Working, Closing
  <2>4. CASE ~Unused(r)
    <3>1. PICK o \in {"missing_revision_token", "conflict"} : Conclude(r, o)
      BY <1>2, <2>4 DEF Reject
    <3>2. req'[r].pc = "get" /\ req'[r].out = o
      BY <3>1, ConcludeType DEF Outcomes
    <3>3. Row(r)' = Row(r) /\ Row(r).outcome # "none"
      BY <1>2, <2>4 DEF Reject, Row, Unused
    <3> QED
      BY <2>2, <3>2, <3>3 DEF Owned, Working, Closing, Owners, Refused
  <2> QED
    BY <2>3, <2>4
<1>3. CASE Start(r)
  <2>1. UNCHANGED log /\ req[r].pc = "loaded"
    BY <1>3 DEF Start, At
  <2>2. ~Made(r) /\ ~Made(r)'
    BY <1>0, <2>1, MadeStep DEF Owned
  <2>3. req'[r].pc = "started"
    BY <1>3, MoveType DEF Start
  <2>4. Row(r)'.outcome = "in_progress" /\ Row(r)'.owner = r
    BY <1>3, EnterType DEF Start, Row, Outcomes
  <2> QED
    BY <2>2, <2>3, <2>4 DEF Owned, Working, Closing
<1>4. CASE Duplicate(r)
  <2>1. UNCHANGED log /\ req[r].pc = "loaded"
    BY <1>4 DEF Duplicate, At
  <2>2. ~Made(r) /\ ~Made(r)'
    BY <1>0, <2>1, MadeStep DEF Owned
  <2>3. req'[r].pc = "get" /\ req'[r].out = "conflict"
    BY <1>4, ConcludeType DEF Duplicate, Outcomes
  <2>4. Row(r)' = Row(r) /\ Row(r).outcome # "none"
    BY <1>4 DEF Duplicate, Row, Unused
  <2> QED
    BY <2>2, <2>3, <2>4 DEF Owned, Working, Closing, Owners, Refused
<1>5. CASE Refuse412(r) \/ Fail(r)
  <2>1. UNCHANGED <<log, audit>> /\ Working(r)
    BY <1>5 DEF Refuse412, Fail, At, Working
  <2>2. ~Made(r) /\ ~Made(r)'
    BY <1>0, <2>1, MadeStep DEF Owned
  <2>3. req'[r].pc = "get" /\ req'[r].out \in Refused \cup {"conflict"}
    BY <1>5, ConcludeType DEF Refuse412, Fail, Outcomes, Refused
  <2>4. Row(r)' = Row(r) /\ Row(r).outcome # "none" /\ Row(r).owner = r
    BY <1>0, <2>1 DEF Row, Owned
  <2> QED
    BY <2>2, <2>3, <2>4 DEF Owned, Working, Closing, Owners, Refused
<1>6. CASE Mutate(r)
  <2>1. UNCHANGED <<log, audit>> /\ Working(r)
    BY <1>6 DEF Mutate, At, Working
  <2>2. ~Made(r) /\ ~Made(r)'
    BY <1>0, <2>1, MadeStep DEF Owned
  <2>3. req'[r].pc = "flushed"
    BY <1>6, MoveType DEF Mutate
  <2>4. Row(r)' = Row(r) /\ Row(r).outcome # "none" /\ Row(r).owner = r
    BY <1>0, <2>1 DEF Row, Owned
  <2> QED
    BY <2>2, <2>3, <2>4 DEF Owned, Working, Closing
<1>7. CASE Commit(r) \/ LoseCommit(r)
  <2>1. UNCHANGED audit /\ Working(r)
    BY <1>7 DEF Commit, LoseCommit, At, Working
  <2>2. req'[r].pc = "get" /\ req'[r].out \in {"applied", "rolled_back"}
        /\ (req'[r].out = "applied" => Commit(r))
    BY <1>7, ConcludeType DEF Commit, LoseCommit, Outcomes
  <2>3. Commit(r) => Made(r)'
    <3>1. ASSUME Commit(r) PROVE ~UNCHANGED log
      <4>1. log \in Seq(Changers) /\ r \in Changers /\ log' = Append(log, r)
        BY <3>1 DEF Commit, Types, Changers
      <4>2. Len(log') = Len(log) + 1 /\ Len(log) \in Nat
        BY <4>1
      <4> QED
        BY <4>2
    <3> QED
      BY <3>1, MadeStep
  <2>4. Row(r)' = Row(r) /\ Row(r).outcome # "none" /\ Row(r).owner = r
    BY <1>0, <2>1 DEF Row, Owned
  <2> QED
    BY <2>2, <2>3, <2>4 DEF Owned, Working, Closing, Owners, Refused
<1>8. CASE GetAudit(r)
  <2>1. UNCHANGED <<log, audit>> /\ Closing(r)
    BY <1>8 DEF GetAudit, At, Closing
  <2>2. Made(r)' = Made(r) /\ Row(r)' = Row(r)
    BY <2>1, MadeStep DEF Row
  <2>3. req'[r].pc = "put" /\ req'[r].out = req[r].out
    BY <1>8 DEF GetAudit, Types, Handlers
  <2> QED
    BY <1>0, <2>1, <2>2, <2>3 DEF Owned, Working, Closing
<1>9. CASE PutAudit(r)
  <2>1. UNCHANGED log /\ Closing(r)
    BY <1>9 DEF PutAudit, At, Closing
  <2>2. Made(r)' = Made(r)
    BY <2>1, MadeStep
  <2>3. req'[r].pc \in {"done", "abort"}
    BY <1>9, StepType DEF PutAudit
  <2>4. Row(r)'.outcome # "none" /\ Row(r)'.owner = Row(r).owner
    BY <1>0, <1>9, <2>1 DEF PutAudit, Row, Owned, Types, AuditRows
  <2> QED
    BY <1>0, <2>2, <2>3, <2>4 DEF Owned, Working, Closing
<1>10. CASE Abort(r) \/ Crash(r)
  <2>1. UNCHANGED <<log, audit>> /\ req'[r].pc \in {"done", "dead"}
    BY <1>10, StepType, MoveType DEF Abort, Crash
  <2>2. Made(r)' = Made(r) /\ Row(r)' = Row(r)
    BY <2>1, MadeStep DEF Row
  <2> QED
    BY <1>0, <2>1, <2>2 DEF Owned, Working, Closing
<1> QED
  BY <1>1, <1>2, <1>3, <1>4, <1>5, <1>6, <1>7, <1>8, <1>9, <1>10 DEF Local, Handle

LEMMA DistinctStep ==
  ASSUME Types, OnceInv, NEW r \in Requests, Local(r)
  PROVE  Distinct'
<1>1. CASE UNCHANGED log
  BY <1>1 DEF OnceInv, Distinct
<1>2. CASE log' = Append(log, r) /\ At(r, "flushed")
  <2>1. log \in Seq(Changers) /\ r \in Changers
    BY DEF Types, Changers
  <2>2. DOMAIN log' = DOMAIN log \cup {Len(log) + 1}
        /\ log'[Len(log) + 1] = r
        /\ \A n \in DOMAIN log : log'[n] = log[n]
    BY <1>2, <2>1
  <2>3. ~Made(r)
    BY <1>2 DEF OnceInv, Owned, Working, At
  <2>4. \A n \in DOMAIN log : log[n] # r
    BY <2>3 DEF Made
  <2> QED
    BY <2>2, <2>4 DEF OnceInv, Distinct
<1> QED
  BY <1>1, <1>2, LogStep

(* Another session's change is nobody's.                                   *)
LEMMA ElsewhereStep ==
  ASSUME Types, WriteElsewhere
  PROVE  /\ \A q \in Requests : Made(q)' = Made(q)
         /\ Distinct => Distinct'
<1> DEFINE e == Other
<1>1. log \in Seq(Changers) /\ e \in Changers /\ log' = Append(log, e)
  BY DEF WriteElsewhere, Types, Changers
<1>2. DOMAIN log' = DOMAIN log \cup {Len(log) + 1}
      /\ log'[Len(log) + 1] = Other
      /\ \A n \in DOMAIN log : log'[n] = log[n]
  BY <1>1
<1>3. \A q \in Requests : q # Other
  BY WriteConstants
<1>4. ASSUME NEW q \in Requests PROVE Made(q)' = Made(q)
  BY <1>2, <1>3 DEF Made
<1>5. Distinct => Distinct'
  BY <1>2 DEF Distinct
<1> QED
  BY <1>4, <1>5

LEMMA OnceStep == OnceInv /\ WritesTypeOK /\ [Next]_vars => OnceInv'
<1> SUFFICES ASSUME OnceInv, WritesTypeOK, [Next]_vars PROVE OnceInv'
  OBVIOUS
<1>0. Types
  BY DEF WritesTypeOK, Types
<1>1. CASE UNCHANGED vars
  BY <1>1 DEF vars, OnceInv, Owned, Distinct, Made, Working, Closing, Row
<1>2. CASE WriteElsewhere
  <2>1. UNCHANGED <<audit, req>>
    BY <1>2 DEF WriteElsewhere
  <2>2. \A q \in Requests : Owned(q)'
    BY <1>0, <1>2, <2>1, ElsewhereStep DEF OnceInv, Owned, Working, Closing, Row
  <2> QED
    BY <1>0, <1>2, <2>2, ElsewhereStep DEF OnceInv
<1>3. ASSUME NEW r \in Requests, Local(r)
      PROVE  OnceInv'
  <2>1. \A q \in Requests \ {r} : Owned(q)'
    BY <1>0, <1>3, OthersOwn
  <2>2. Owned(r)'
    BY <1>0, <1>3, MoverOwns
  <2>3. Distinct'
    BY <1>0, <1>3, DistinctStep
  <2> QED
    BY <2>1, <2>2, <2>3 DEF OnceInv
<1> QED
  BY <1>1, <1>2, <1>3 DEF Next, Local

LEMMA InitOnce == Init => OnceInv
<1> SUFFICES ASSUME Init PROVE OnceInv
  OBVIOUS
<1>1. DOMAIN log = {}
  BY DEF Init
<1>2. \A r \in Requests : req[r].pc = "new" /\ ~Made(r)
  BY <1>1 DEF Init, Fresh, Made
<1> QED
  BY <1>1, <1>2 DEF OnceInv, Owned, Distinct, Working, Closing

(* One idempotency key makes at most one committed change of the resource, *)
(* for any number of requests, keys and other writers, crashes and lost    *)
(* answers to a commit (start_privileged_write, get_session).              *)
THEOREM KeyAppliedOnce == Spec => []AppliedOnce
<1>1. Init => OnceInv /\ WritesTypeOK
  BY InitOnce, InitType
<1>2. OnceInv /\ WritesTypeOK /\ [Next]_vars => (OnceInv /\ WritesTypeOK)'
  BY OnceStep, StepTypeOK
<1>3. OnceInv /\ WritesTypeOK => AppliedOnce
  BY OwnOnce DEF WritesTypeOK, Types
<1> QED
  BY <1>1, <1>2, <1>3, PTL DEF Spec

-----------------------------------------------------------------------------
MadeFor(k) == \E q \in Requests : Key[q] = k /\ Made(q)

LEMMA ChangedMade == Types => \A k \in Keys : Changed(k) <=> MadeFor(k)
<1> SUFFICES ASSUME Types, NEW k \in Keys PROVE Changed(k) <=> MadeFor(k)
  OBVIOUS
<1>1. ASSUME NEW n \in DOMAIN log, log[n] # Other
      PROVE  log[n] \in Requests
  <2>1. log[n] \in Changers
    BY DEF Types
  <2> QED
    BY <1>1, <2>1 DEF Changers
<1>2. \A q \in Requests : q # Other
  BY WriteConstants
<1> QED
  BY <1>1, <1>2 DEF Changed, Made, MadeFor

LEMMA ChangedMadeNext == Types' => (\A k \in Keys : Changed(k) <=> MadeFor(k))'
  BY ChangedMade, PTL

(* A handler that works after a step worked before, or has just started.   *)
LEMMA WorkingStep ==
  ASSUME Types, NEW r \in Requests, Local(r), NEW q \in Requests, Working(q)'
  PROVE  Working(q) \/ (q = r /\ Start(r))
<1>1. CASE q # r
  BY <1>1, HandlerStep DEF Working
<1>2. CASE q = r
  <2>1. CASE Load(r)
    BY <1>2, <2>1 DEF Load, Working, Types, Handlers
  <2>2. CASE Duplicate(r) \/ Refuse412(r) \/ Fail(r) \/ Commit(r) \/ LoseCommit(r)
             \/ (Reject(r) /\ ~Unused(r))
    BY <1>2, <2>2, ConcludeType DEF Duplicate, Refuse412, Fail, Commit, LoseCommit,
       Reject, Outcomes, Working
  <2>3. CASE PutAudit(r) \/ Crash(r) \/ (Reject(r) /\ Unused(r))
    BY <1>2, <2>3, StepType DEF PutAudit, Crash, Reject, Working
  <2>4. CASE GetAudit(r)
    BY <1>2, <2>4 DEF GetAudit, Working, Types, Handlers
  <2>5. CASE Abort(r)
    BY <1>2, <2>5, MoveType DEF Abort, Working
  <2>6. CASE Start(r) \/ Mutate(r)
    BY <1>2, <2>6 DEF Mutate, Working, At
  <2> QED
    BY <2>1, <2>2, <2>3, <2>4, <2>5, <2>6 DEF Local, Handle
<1> QED
  BY <1>1, <1>2

Truth(k) ==
    /\ audit[k].outcome = "applied" => Changed(k)
    /\ audit[k].outcome \in Refused => ~Changed(k) /\ ~MayChange(k)

LEMMA TruthStep ==
  ASSUME Types, OnceInv, Types', NEW r \in Requests, Local(r), NEW k \in Keys, Truth(k)
  PROVE  Truth(k)'
<1>1. Changed(k) <=> \E q \in Requests : Key[q] = k /\ Made(q)
  BY ChangedMade DEF MadeFor
<1>2. Changed(k)' <=> \E q \in Requests : Key[q] = k /\ Made(q)'
  BY ChangedMadeNext DEF MadeFor
<1>3. \A q \in Requests : Made(q) => Made(q)'
  BY MadeStep
<1>4. CASE audit'[k].outcome = audit[k].outcome
  <2>1. audit[k].outcome = "applied" => Changed(k)'
    BY <1>1, <1>2, <1>3 DEF Truth
  <2>2. ASSUME audit[k].outcome \in Refused PROVE ~Changed(k)'
    <3>1. \A q \in Requests : Key[q] = k => ~Made(q) /\ ~Working(q)
      BY <1>1, <2>2 DEF Truth, MayChange, Working
    <3>2. \A q \in Requests : Key[q] = k => ~Made(q)'
      BY <3>1, MadeStep DEF Working, At
    <3> QED
      BY <1>2, <3>2
  <2>3. ASSUME audit[k].outcome \in Refused PROVE ~MayChange(k)'
    <3>1. SUFFICES ASSUME NEW q \in Requests, Key[q] = k, Working(q)' PROVE FALSE
      BY DEF MayChange, Working
    <3>2. ~Working(q)
      BY <2>3, <3>1 DEF Truth, MayChange, Working
    <3>3. q = r /\ Start(r)
      BY <3>1, <3>2, WorkingStep
    <3>4. audit'[k].outcome = "in_progress"
      BY <3>1, <3>3, EnterType DEF Start, Outcomes
    <3> QED
      BY <1>4, <2>3, <3>4 DEF Refused
  <2> QED
    BY <1>4, <2>1, <2>2, <2>3 DEF Truth
<1>5. CASE /\ k = Key[r] /\ PutAudit(r)
           /\ audit'[Key[r]].outcome = req[r].out
  <2>1. Closing(r) /\ UNCHANGED log
    BY <1>5 DEF PutAudit, At, Closing
  <2>2. Changed(k)' = Changed(k)
    BY <2>1 DEF Changed
  <2>3. req[r].out = "applied" => Made(r)
    BY <2>1 DEF OnceInv, Owned
  <2>4. ASSUME req[r].out \in Refused PROVE ~Changed(k) /\ ~MayChange(k)'
    <3>1. Row(r).owner = r /\ ~Made(r)
      BY <2>1, <2>4 DEF OnceInv, Owned, Refused, Owners
    <3>2. \A q \in Requests \ {r} : Key[q] = k => ~Made(q) /\ ~Working(q)
      BY <1>5, <3>1 DEF OnceInv, Owned, Row
    <3>3. \A q \in Requests : Key[q] = k => ~Working(q)'
      <4>1. SUFFICES ASSUME NEW q \in Requests, Key[q] = k, Working(q)' PROVE FALSE
        OBVIOUS
      <4>2. ~Start(r) /\ ~Working(r)
        BY <1>5 DEF PutAudit, Start, At, Working
      <4> QED
        BY <3>2, <4>1, <4>2, WorkingStep
    <3> QED
      BY <1>1, <3>1, <3>2, <3>3 DEF MayChange, Working
  <2> QED
    BY <1>1, <1>5, <2>2, <2>3, <2>4 DEF Truth
<1>6. CASE /\ k = Key[r]
           /\ audit'[Key[r]].outcome \in {"missing_revision_token", "in_progress"}
  BY <1>6 DEF Truth, Refused
<1>7. CASE k # Key[r] \/ UNCHANGED audit
  <2>1. audit'[k] = audit[k]
    BY <1>7, AuditStep
  <2> QED
    BY <1>4, <2>1
<1>8. \/ UNCHANGED audit
      \/ audit'[Key[r]].outcome \in {"missing_revision_token", "in_progress"}
      \/ PutAudit(r) /\ audit'[Key[r]].outcome = req[r].out
  BY AuditStep
<1> QED
  BY <1>5, <1>6, <1>7, <1>8

LEMMA TrueStep ==
  AuditTrue /\ OnceInv /\ WritesTypeOK /\ [Next]_vars => AuditTrue'
<1> SUFFICES ASSUME AuditTrue, OnceInv, WritesTypeOK, [Next]_vars PROVE AuditTrue'
  OBVIOUS
<1>0. Types /\ Types'
  BY StepTypeOK DEF WritesTypeOK, Types
<1>1. \A k \in Keys : Truth(k)
  BY DEF AuditTrue, Truth, Refused
<1>2. CASE UNCHANGED vars
  BY <1>2 DEF vars, AuditTrue, Changed, MayChange
<1>3. CASE WriteElsewhere
  <2>1. ASSUME NEW k \in Keys PROVE Changed(k)' = Changed(k)
    <3>1. Changed(k) <=> \E q \in Requests : Key[q] = k /\ Made(q)
      BY <1>0, ChangedMade DEF MadeFor
    <3>2. Changed(k)' <=> \E q \in Requests : Key[q] = k /\ Made(q)'
      BY <1>0, ChangedMadeNext DEF MadeFor
    <3>3. \A q \in Requests : Made(q)' = Made(q)
      BY <1>0, <1>3, ElsewhereStep
    <3> DEFINE Mine == \E q \in Requests : Key[q] = k /\ Made(q)
    <3>4. Mine' <=> Mine
      BY <3>3
    <3>5. (Changed(k) <=> Mine) /\ (Changed(k)' <=> Mine')
      BY <3>1, <3>2
    <3>6. Changed(k) \in BOOLEAN /\ Changed(k)' \in BOOLEAN
      BY DEF Changed
    <3> HIDE DEF Mine
    <3> QED
      BY <3>4, <3>5, <3>6
  <2> QED
    BY <1>3, <2>1 DEF WriteElsewhere, AuditTrue, MayChange
<1>4. ASSUME NEW r \in Requests, Local(r)
      PROVE  AuditTrue'
  BY <1>0, <1>1, <1>4, TruthStep DEF AuditTrue, Truth, Refused
<1> QED
  BY <1>2, <1>3, <1>4 DEF Next, Local

(* The audit row of a key never says "applied" of a change that is not     *)
(* committed, nor "failed" or "stale" of one that is or may still be,      *)
(* whatever duplicates and rejections write over the row; of the other     *)
(* outcomes nothing is claimed                                             *)
(* (_update_audit_row, _finalize_pending_privileged_write_audits).         *)
THEOREM AuditTellsTruth == Spec => []AuditTrue
<1>1. Init => AuditTrue /\ OnceInv /\ WritesTypeOK
  <2>1. Init => AuditTrue
    BY DEF Init, AuditTrue, NoAudit
  <2> QED
    BY <2>1, InitOnce, InitType
<1>2. AuditTrue /\ OnceInv /\ WritesTypeOK /\ [Next]_vars
        => (AuditTrue /\ OnceInv /\ WritesTypeOK)'
  BY TrueStep, OnceStep, StepTypeOK
<1> QED
  BY <1>1, <1>2, PTL DEF Spec
=============================================================================
