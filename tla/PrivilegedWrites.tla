-------------------------- MODULE PrivilegedWrites --------------------------
(***************************************************************************)
(* Privileged API writes to one resource: the idempotency key, the         *)
(* revision token and the audit row of _privileged_write_contract.py, with *)
(* the route's transaction of get_session.                                 *)
(*                                                                         *)
(* A request loads the resource without a lock, inserts the audit row of   *)
(* its key through a session of its own (committed at once), compares the  *)
(* caller's token with the one it loaded, flushes its change, and commits. *)
(* Only then is the outcome written to the audit row, again by another     *)
(* session, which reads the row and writes it back.                        *)
(*                                                                         *)
(* The resource exists, and a request has an idempotency key.  One without *)
(* is refused before it can do anything, and its audit row, which has no   *)
(* key, is nobody else's.                                                  *)
(***************************************************************************)
EXTENDS Integers, Sequences, FiniteSets

CONSTANTS
    Requests,     \* the requests that arrive; a client's retry is one more
    Key,          \* Key[r]: actor, action and idempotency key of r
    Guarded,      \* the requests to routes with require_revision
    Other,        \* any other session that writes the resource
    MaxRevision   \* bound: changes of the resource

Keys == {Key[r] : r \in Requests}
Changers == Requests \cup {Other}

ASSUME WriteConstants ==
    /\ Key \in [Requests -> Keys]
    /\ Guarded \subseteq Requests
    /\ Other \notin Requests
    /\ MaxRevision \in Nat

VARIABLES
    log,     \* log[n]: who made the n-th committed change of the resource
    lock,    \* the request that holds the resource's row lock, or Other
    audit,   \* audit[k]: the row of key k in privileged_write_audits
    req      \* req[r]: the handler of request r

vars == <<log, lock, audit, req>>

(* A revision token is a hash of the row, which every change alters: here  *)
(* the number of changes so far.                                           *)
Revision == Len(log)
NoToken == -1

(* "failed" is also the outcome of a write that was denied, not found or   *)
(* found invalid: nothing tells these apart once they are recorded.        *)
Outcomes == {"none", "in_progress", "conflict", "missing_revision_token",
             "stale_revision", "failed", "applied", "rolled_back"}

AuditRows == [outcome : Outcomes, owner : Changers]
NoAudit == [outcome |-> "none", owner |-> Other]

Handlers ==
    [pc    : {"new", "loaded", "started", "flushed", "get", "put", "abort",
              "done", "dead"},
     match : Nat \cup {NoToken},   \* the If-Match header
     seen  : Nat,                  \* the token of the resource as loaded
     out   : Outcomes,             \* the outcome it is to write
     mem   : Outcomes]             \* the outcome of the audit row it has read

Fresh(pc) ==
    [pc |-> pc, match |-> NoToken, seen |-> 0, out |-> "none", mem |-> "none"]

Init ==
    /\ log = <<>>
    /\ lock = Other
    /\ audit = [k \in Keys |-> NoAudit]
    /\ req = [r \in Requests |-> Fresh("new")]

At(r, pc) == req[r].pc = pc
Row(r) == audit[Key[r]]

(* From here on the handler only writes outcome o to the audit row of its  *)
(* key, and ends.                                                          *)
Conclude(r, o) ==
    req' = [req EXCEPT ![r].pc = "get", ![r].out = o]

(* What an audit insertion under a used key turns into; the row keeps its  *)
(* owner.                                                                  *)
Unused(r) == Row(r).outcome = "none"
Enter(r, o) ==
    audit' = [audit EXCEPT ![Key[r]] =
                [outcome |-> o, owner |-> IF o = "in_progress" THEN r ELSE Other]]

(* The request arrives with a token its client has read some time before,  *)
(* or none, and loads the resource.                                        *)
Load(r) ==
    /\ At(r, "new")
    /\ \E token \in IF r \in Guarded THEN 0..Revision \cup {NoToken} ELSE {NoToken} :
         req' = [req EXCEPT ![r].pc = "loaded", ![r].match = token,
                            ![r].seen = Revision]
    /\ UNCHANGED <<log, lock, audit>>

(* No token where one is required: the rejection itself is audited under   *)
(* the key, over an earlier row unless the intent is another one.          *)
Unnamed(r) == r \in Guarded /\ req[r].match = NoToken
Reject(r) ==
    /\ At(r, "loaded") /\ Unnamed(r)
    /\ IF Unused(r)
       THEN /\ Enter(r, "missing_revision_token")
            /\ req' = [req EXCEPT ![r] = Fresh("done")]
       ELSE /\ \E o \in {"missing_revision_token", "conflict"} : Conclude(r, o)
            /\ UNCHANGED audit
    /\ UNCHANGED <<log, lock>>

Start(r) ==
    /\ At(r, "loaded") /\ ~Unnamed(r)
    /\ Unused(r)
    /\ Enter(r, "in_progress")
    /\ req' = [req EXCEPT ![r].pc = "started"]
    /\ UNCHANGED <<log, lock>>

(* A mutation of Duplicate and Start: a key whose write is on record as    *)
(* rolled back may be used again.                                          *)
RetryDuplicate(r) ==
    /\ At(r, "loaded") /\ ~Unnamed(r)
    /\ ~Unused(r)
    /\ IF Row(r).outcome = "rolled_back"
       THEN /\ Enter(r, "in_progress")
            /\ req' = [req EXCEPT ![r].pc = "started"]
       ELSE Conclude(r, "conflict") /\ UNCHANGED audit
    /\ UNCHANGED <<log, lock>>

(* The unique key refuses the row of a used key: 409.                      *)
Duplicate(r) ==
    /\ At(r, "loaded") /\ ~Unnamed(r)
    /\ ~Unused(r)
    /\ Conclude(r, "conflict")
    /\ UNCHANGED <<log, lock, audit>>

Stale(r) == r \in Guarded /\ req[r].match # req[r].seen
Refuse412(r) ==
    /\ At(r, "started") /\ Stale(r)
    /\ Conclude(r, "stale_revision")
    /\ UNCHANGED <<log, lock, audit>>

(* The route's change is flushed and locks the row.                        *)
Mutate(r) ==
    /\ At(r, "started") /\ ~Stale(r)
    /\ lock = Other
    /\ lock' = r
    /\ req' = [req EXCEPT ![r].pc = "flushed"]
    /\ UNCHANGED <<log, audit>>

(* The route raises, before the flush or after it: fail() writes the       *)
(* outcome, for a 409 that of a conflict, before get_session rolls back.   *)
Fail(r) ==
    /\ (At(r, "started") /\ ~Stale(r)) \/ At(r, "flushed")
    /\ \E o \in {"failed", "conflict"} : Conclude(r, o)
    /\ UNCHANGED <<log, lock, audit>>

(* A mutation of Commit: the success is finalized while the transaction is *)
(* still open.                                                             *)
EagerCommit(r) ==
    /\ At(r, "flushed")
    /\ \/ /\ req[r].out # "applied"
          /\ audit' = [audit EXCEPT ![Key[r]].outcome = "applied"]
          /\ req' = [req EXCEPT ![r].out = "applied"]
          /\ UNCHANGED <<log, lock>>
       \/ /\ req[r].out = "applied"
          /\ Revision < MaxRevision
          /\ log' = Append(log, r)
          /\ lock' = Other
          /\ req' = [req EXCEPT ![r].pc = "done"]
          /\ UNCHANGED audit

(* get_session commits and then finalizes the pending success.             *)
Commit(r) ==
    /\ At(r, "flushed")
    /\ Revision < MaxRevision
    /\ log' = Append(log, r)
    /\ lock' = Other
    /\ Conclude(r, "applied")
    /\ UNCHANGED audit

(* A mutation of LoseCommit: the rolled back write is not finalized.       *)
SilentLoseCommit(r) ==
    /\ At(r, "flushed")
    /\ \/ UNCHANGED log
       \/ Revision < MaxRevision /\ log' = Append(log, r)
    /\ lock' = Other
    /\ req' = [req EXCEPT ![r].pc = "done"]
    /\ UNCHANGED audit

(* The commit raises: nothing was committed, or it was and the answer was  *)
(* lost.  Both are finalized as rolled back.                               *)
LoseCommit(r) ==
    /\ At(r, "flushed")
    /\ \/ UNCHANGED log
       \/ Revision < MaxRevision /\ log' = Append(log, r)
    /\ lock' = Other
    /\ Conclude(r, "rolled_back")
    /\ UNCHANGED audit

(* The audit session: get() the row, set the outcome, flush and commit.  A *)
(* value equal to the one read is not written.                             *)
GetAudit(r) ==
    /\ At(r, "get")
    /\ req' = [req EXCEPT ![r].pc = "put", ![r].mem = Row(r).outcome]
    /\ UNCHANGED <<log, lock, audit>>

(* A mutation of PutAudit: after the audit of a refused write the handler  *)
(* is over, and its transaction stays open.                                *)
LeakyPutAudit(r) ==
    /\ At(r, "put")
    /\ audit' = [audit EXCEPT ![Key[r]].outcome = req[r].out]
    /\ req' = [req EXCEPT ![r] = Fresh("done")]
    /\ UNCHANGED <<log, lock>>

PutAudit(r) ==
    /\ At(r, "put")
    /\ audit' = IF req[r].mem = req[r].out THEN audit
                ELSE [audit EXCEPT ![Key[r]].outcome = req[r].out]
    /\ req' = [req EXCEPT ![r] = Fresh(IF lock = r THEN "abort" ELSE "done")]
    /\ UNCHANGED <<log, lock>>

(* get_session rolls the refused write back.                               *)
Abort(r) ==
    /\ At(r, "abort")
    /\ lock' = Other
    /\ req' = [req EXCEPT ![r].pc = "done"]
    /\ UNCHANGED <<log, audit>>

(* The process dies, or its audit session fails: what is not committed is  *)
(* lost, and nobody takes the request up again.  (A handler that dies      *)
(* before it has inserted its audit row leaves nothing behind.)            *)
Crash(r) ==
    /\ req[r].pc \notin {"new", "loaded", "done", "dead"}
    /\ lock' = IF lock = r THEN Other ELSE lock
    /\ req' = [req EXCEPT ![r] = Fresh("dead")]
    /\ UNCHANGED <<log, audit>>

(* Workers, tasks and other routes change the resource too.                *)
WriteElsewhere ==
    /\ lock = Other
    /\ Revision < MaxRevision
    /\ log' = Append(log, Other)
    /\ UNCHANGED <<lock, audit, req>>

Handle(r) ==
    \/ Reject(r) \/ Start(r) \/ Duplicate(r) \/ Refuse412(r) \/ Mutate(r)
    \/ Commit(r) \/ LoseCommit(r) \/ GetAudit(r) \/ PutAudit(r) \/ Abort(r)

Next ==
    \/ \E r \in Requests : Load(r) \/ Handle(r) \/ Fail(r) \/ Crash(r)
    \/ WriteElsewhere

Spec == Init /\ [][Next]_vars

(* A handler that runs goes on: the event loop schedules it, the database  *)
(* answers it, and its connection's errors end a commit.                   *)
FairSpec == Spec /\ \A r \in Requests : WF_vars(Handle(r))

-----------------------------------------------------------------------------
(* The types; and a handler that has ended holds no lock of the resource,  *)
(* whichever way get_session was left.                                     *)
WritesTypeOK ==
    /\ log \in Seq(Changers)
    /\ lock \in Changers
    /\ audit \in [Keys -> AuditRows]
    /\ req \in [Requests -> Handlers]
    /\ \A r \in Requests :
         lock = r => req[r].pc \in {"flushed", "get", "put", "abort"}

(* One idempotency key makes at most one committed change, whatever its    *)
(* retries do, also after an audit row that says the write was rolled back *)
(* when its commit had landed (start_privileged_write's unique key).       *)
AppliedOnce ==
    \A m, n \in DOMAIN log :
        log[m] # Other /\ log[n] # Other /\ m # n
            => Key[log[m]] # Key[log[n]]

(* Three outcomes of an audit row can be relied on: a write on record as   *)
(* applied is in the resource, and one on record as stale or failed is not *)
(* in it and never will be.  The other outcomes say nothing of the write:  *)
(* "rolled_back" also follows a commit whose answer was lost, and a retry  *)
(* writes "conflict", or "missing_revision_token" when it names none, over *)
(* whatever the row of its key says (_update_audit_row), be it "applied".  *)
Changed(k) == \E n \in DOMAIN log : log[n] # Other /\ Key[log[n]] = k
MayChange(k) ==
    \E r \in Requests : Key[r] = k /\ req[r].pc \in {"started", "flushed"}
AuditTrue ==
    \A k \in Keys :
        /\ audit[k].outcome = "applied" => Changed(k)
        /\ audit[k].outcome \in {"stale_revision", "failed"} =>
              ~Changed(k) /\ ~MayChange(k)

(* A write in progress gets its outcome, unless its handler has died: no   *)
(* interleaving of retries, rejections and commits leaves the audit row of *)
(* _insert_audit_row in progress for good.                                 *)
WriteSettles ==
    \A k \in Keys :
        audit[k].outcome = "in_progress"
            ~> \/ audit[k].outcome # "in_progress"
               \/ \E r \in Requests : audit[k].owner = r /\ At(r, "dead")
=============================================================================
