----------------------------- MODULE ReplayQueue -----------------------------
(***************************************************************************)
(* The queue of events to be classified again (llm_replay_queue): held     *)
(* there by the pipeline in degraded mode (pipeline_orchestrator.py) or    *)
(* queued by an operator's split or merge (event_lineage.py), drained by   *)
(* the replay task (_task_replay.py, _task_maintenance.py), which retries, *)
(* gives up, recovers from a commit whose outcome it does not know, and    *)
(* reports to the lineage ledger what became of each repair.               *)
(*                                                                         *)
(* An event has at most one row. "processing" is only flushed, never       *)
(* committed, so no other session sees it and it is not a status here.     *)
(***************************************************************************)
EXTENDS Integers, Sequences, FiniteSets

CONSTANTS
    Event,        \* events
    Worker,       \* runs of the replay task
    Repairer,     \* API requests that split or merge, one each
    Holder,       \* pipeline sessions that hold an event back, one each
    None,         \* no session
    MaxAttempts,  \* LLM_DEGRADED_REPLAY_RETRY_MAX_ATTEMPTS
    Cap,          \* LLM_DEGRADED_REPLAY_MAX_QUEUE
    RunLimit,     \* items one run drains at most
    MaxFaults     \* bound: crashes, lost commits, failed flushes, outages

ASSUME ReplayConstants ==
    /\ None \notin Worker \cup Repairer
    /\ Worker \cap Repairer = {}
    /\ MaxAttempts \in Nat \ {0} /\ RunLimit \in Nat \ {0}
    /\ Cap \in Nat \ {0} /\ MaxFaults \in Nat

VARIABLES
    queue,     \* queue[e]: the committed row of e
    lineage,   \* lineage[n]: the n-th repair, with the events it had queued;
               \* its replay request for one of them is known by n
    stock,     \* stock[e]: whether e has raw items
    rowLock,   \* rowLock[e]: the session that holds e's queue row
    itemLock,  \* itemLock[e]: the repair that holds e's event_items
    eventLock, \* eventLock[e]: the session that holds the row of e
    worker, repair, hold,
    degraded,  \* what the tracker of the Tier-2 calls answers
    served,    \* served[e]: the repairs up to this one were committed when
               \* the last replay of e was begun
    faults     \* faults there have been

locks == <<rowLock, itemLock, eventLock>>
vars == <<queue, lineage, stock, locks, worker, repair, hold, degraded, served, faults>>

Session == Worker \cup Repairer

Rows == [status : {"absent", "pending", "done", "error"},
         attempts : 0..MaxAttempts,
         due : BOOLEAN,      \* next_attempt_after has passed, or is not set
         request : Nat]      \* replay_request_id; 0 in a row of degraded mode
NoRow == [status |-> "absent", attempts |-> 0, due |-> TRUE, request |-> 0]
Asked(n) == [status |-> "pending", attempts |-> 0, due |-> TRUE, request |-> n]

Reports == {"pending", "complete", "error", "superseded"}
Lineages == [events : SUBSET Event, report : Reports]

NoCopies == [e \in {} |-> NoRow]
NoMarks == [n \in {} |-> "pending"]

Idle == [pc |-> "idle",       \* where the run is
         left |-> 0,          \* items it may still drain
         skip |-> {},         \* events it will not pick again
         copies |-> NoCopies, \* the pending rows as scanned
         event |-> None,      \* the event it works on
         item |-> NoRow,      \* the row of that event in memory
         marks |-> NoMarks,   \* marks[n]: the report it writes of lineage n
         seen |-> 0,          \* repairs committed when it took the row
         fate |-> "ok",       \* "ok", or how the replay failed
         tries |-> 0,         \* how often it may still book the failure
         wrote |-> FALSE,     \* a commit reported as failed took effect
         again |-> FALSE]     \* it is on the second commit

(* Some events exist, and one of them may be waiting since an earlier      *)
(* merge.                                                                  *)
Init ==
    /\ stock \in [Event -> {"items", "unborn"}]
    /\ \E e \in Event \cup {None} :
         IF e = None THEN lineage = <<>> /\ queue = [d \in Event |-> NoRow]
         ELSE /\ stock[e] = "items"
              /\ lineage = <<[events |-> {e}, report |-> "pending"]>>
              /\ queue = [d \in Event |-> IF d = e THEN Asked(1) ELSE NoRow]
    /\ rowLock = [e \in Event |-> None]
    /\ itemLock = [e \in Event |-> None]
    /\ eventLock = [e \in Event |-> None]
    /\ worker = [w \in Worker |-> Idle]
    /\ repair = [r \in Repairer |->
                    [pc |-> "new", from |-> None, to |-> None, old |-> {}]]
    /\ hold = [h \in Holder |-> [pc |-> "new", event |-> None]]
    /\ degraded \in BOOLEAN
    /\ served = [e \in Event |-> 0]
    /\ faults = 0

Freed(lock, s) == [e \in Event |-> IF lock[e] = s THEN None ELSE lock[e]]
Release(s) ==
    /\ rowLock' = Freed(rowLock, s)
    /\ itemLock' = Freed(itemLock, s)
    /\ eventLock' = Freed(eventLock, s)
Fault == faults < MaxFaults /\ faults' = faults + 1

(* The repairs that had e queued.                                          *)
Repairs(e) == {n \in DOMAIN lineage : e \in lineage[n].events}

-----------------------------------------------------------------------------
(* The report on lineage.                                                  *)

(* What the rows say of the request of lineage n for e, when the row of    *)
(* the session's own event reads as item.                                  *)
Status(e, item) == [n \in DOMAIN lineage |-> [d \in lineage[n].events |->
    LET row == IF d = e THEN item ELSE queue[d]
    IN IF row.status # "absent" /\ row.request = n THEN row.status ELSE "none"]]

(* A mutation of Report: one replay done completes the repair.             *)
AnyReport(n, of) ==
    LET all == {of[n][d] : d \in lineage[n].events}
    IN IF "error" \in all THEN "error"
       ELSE IF "done" \in all THEN "complete"
       ELSE lineage[n].report

Report(n, of) ==
    LET all == {of[n][d] : d \in lineage[n].events}
    IN IF "error" \in all THEN "error"
       ELSE IF "none" \in all
            THEN IF lineage[n].report \in {"complete", "error"}
                 THEN lineage[n].report ELSE "superseded"
       ELSE IF all = {"done"} THEN "complete"
       ELSE lineage[n].report

(* The reports a session writes that has settled the row of e as item: of  *)
(* the lineages that had e queued, as committed when it looks.             *)
Marks(e, item) ==
    IF item.status \in {"done", "error"}
    THEN [n \in Repairs(e) |-> Report(n, Status(e, item))]
    ELSE NoMarks

Marked(marks) == [n \in DOMAIN lineage |->
    IF n \in DOMAIN marks THEN [lineage[n] EXCEPT !.report = marks[n]]
    ELSE lineage[n]]

-----------------------------------------------------------------------------
(* The replay task.                                                        *)

At(w, pc) == worker[w].pc = pc
Ready(row) == row.status = "pending" /\ row.due

Quit(w) == worker' = [worker EXCEPT ![w] = Idle]

(* The item is finished with; a new session takes the next one, but not    *)
(* one of those in skip.                                                   *)
Finish(w, skip) ==
    worker' = [worker EXCEPT ![w] =
        IF @.left = 1 THEN Idle
        ELSE [Idle EXCEPT !.pc = "scan", !.left = worker[w].left - 1,
                          !.skip = worker[w].skip \cup skip]]

(* The pending rows are loaded without locks. A run starts only while      *)
(* degraded mode is over, and ends when it finds none.                     *)
Scan(w) ==
    /\ At(w, "scan") \/ (At(w, "idle") /\ ~degraded)
    /\ LET found == {e \in Event \ worker[w].skip : Ready(queue[e])}
       IN IF found = {} THEN Quit(w)
          ELSE worker' = [worker EXCEPT ![w].pc = "pick",
                   ![w].left = IF At(w, "idle") THEN RunLimit ELSE @,
                   ![w].copies = [e \in found |-> queue[e]]]
    /\ UNCHANGED <<queue, lineage, stock, locks, repair, hold, degraded, served, faults>>

(* A mutation of Pickable: the row is taken without a lock.                *)
OpenPickable(w) == {e \in DOMAIN worker[w].copies : queue[e].status = "pending"}

(* Then one of them is locked with SKIP LOCKED, if it is still pending.    *)
(* The session goes on with the copy it has: a locking SELECT does not     *)
(* refresh an object already loaded.                                       *)
Pickable(w) == {e \in DOMAIN worker[w].copies :
                  queue[e].status = "pending" /\ rowLock[e] = None}

Pick(w) ==
    /\ At(w, "pick")
    /\ IF Pickable(w) = {} THEN Quit(w) /\ UNCHANGED rowLock
       ELSE \E e \in Pickable(w) :
              /\ rowLock' = [rowLock EXCEPT ![e] = w]
              /\ worker' = [worker EXCEPT ![w].pc = "work", ![w].event = e,
                    ![w].copies = NoCopies, ![w].seen = Len(lineage), ![w].tries = 2,
                    ![w].item = [worker[w].copies[e] EXCEPT !.attempts = @ + 1]]
    /\ UNCHANGED <<queue, lineage, stock, itemLock, eventLock, repair, hold,
                   degraded, served, faults>>

(* The classification and the trend deltas, which write the event row; the *)
(* row is done and the lineage reports follow from what the session sees.  *)
Replay(w) ==
    LET e == worker[w].event
        done == [worker[w].item EXCEPT !.status = "done", !.due = TRUE]
    IN /\ At(w, "work")
       /\ eventLock[e] = None
       /\ eventLock' = [eventLock EXCEPT ![e] = w]
       /\ worker' = [worker EXCEPT ![w].pc = "commit", ![w].item = done,
                                   ![w].marks = Marks(e, done)]
       /\ UNCHANGED <<queue, lineage, stock, rowLock, itemLock, repair, hold,
                      degraded, served, faults>>

(* A mutation of Booked: the attempt counted is that of the row.           *)
RowBooked(row, attempts, fate) ==
    IF fate = "retryable" /\ row.attempts < MaxAttempts
    THEN [row EXCEPT !.status = "pending", !.due = FALSE]
    ELSE [row EXCEPT !.status = "error"]

(* A mutation of Booked: the last attempt is granted once more.            *)
LateBooked(row, attempts, fate) ==
    IF fate = "retryable" /\ attempts <= MaxAttempts
    THEN [row EXCEPT !.status = "pending", !.attempts = attempts, !.due = FALSE]
    ELSE [row EXCEPT !.status = "error", !.attempts = attempts]

(* A failure booked on a row: back to pending with a delay while attempts  *)
(* are left, and terminal otherwise. The attempt counted is that of the    *)
(* session, which a rollback would have taken out of the row.              *)
Booked(row, attempts, fate) ==
    IF fate = "retryable" /\ attempts < MaxAttempts
    THEN [row EXCEPT !.status = "pending", !.attempts = attempts, !.due = FALSE]
    ELSE [row EXCEPT !.status = "error", !.attempts = attempts]

Fates == {"retryable", "final"}

(* The model, or anything else outside the database, fails.                *)
FailCall(w) ==
    /\ At(w, "work")
    /\ \E fate \in Fates :
         LET failed == Booked(worker[w].item, worker[w].item.attempts, fate)
         IN worker' = [worker EXCEPT ![w].pc = "commit", ![w].fate = fate,
                ![w].item = failed, ![w].marks = Marks(worker[w].event, failed)]
    /\ UNCHANGED <<queue, lineage, stock, locks, repair, hold, degraded, served, faults>>

(* A statement fails: everything is rolled back, the row loaded anew.      *)
FailStatement(w) ==
    /\ At(w, "work")
    /\ Release(w)
    /\ \E fate \in Fates :
         worker' = [worker EXCEPT ![w].pc = "reload", ![w].fate = fate]
    /\ UNCHANGED <<queue, lineage, stock, repair, hold, degraded, served, faults>>

(* The row as it is now, whoever has written it and whatever it asks for,  *)
(* takes the failure if it is pending. (replay_request_matches compares    *)
(* the object with itself by then.)                                        *)
Reload(w) ==
    LET e == worker[w].event
        failed == Booked(queue[e], worker[w].item.attempts, worker[w].fate)
    IN /\ At(w, "reload")
       /\ rowLock[e] = None
       /\ IF queue[e].status = "pending"
          THEN /\ rowLock' = [rowLock EXCEPT ![e] = w]
               /\ worker' = [worker EXCEPT ![w].pc = "commit", ![w].item = failed,
                                           ![w].marks = Marks(e, failed)]
          ELSE Finish(w, IF worker[w].tries < 2 THEN {e} ELSE {}) /\ UNCHANGED rowLock
       /\ UNCHANGED <<queue, lineage, stock, itemLock, eventLock, repair, hold,
                      degraded, served, faults>>

(* A statement of the booking fails; it is booked twice at most.           *)
FailBooking(w) ==
    /\ At(w, "commit") /\ worker[w].fate # "ok"
    /\ Fault
    /\ Release(w)
    /\ IF worker[w].tries > 1
       THEN worker' = [worker EXCEPT ![w].pc = "reload", ![w].tries = @ - 1,
                                     ![w].marks = NoMarks]
       ELSE Finish(w, {worker[w].event})
    /\ UNCHANGED <<queue, lineage, stock, repair, hold, degraded, served>>

(* What the commit of w makes true.                                        *)
Effect(w) ==
    LET e == worker[w].event
    IN /\ queue' = [queue EXCEPT ![e] = worker[w].item]
       /\ lineage' = Marked(worker[w].marks)
       /\ served' = IF worker[w].item.status = "done"
                    THEN [served EXCEPT ![e] = worker[w].seen] ELSE served

Commit(w) ==
    /\ At(w, "commit")
    /\ Effect(w)
    /\ Release(w)
    /\ Finish(w, {})
    /\ UNCHANGED <<stock, repair, hold, degraded, faults>>

(* The commit fails as seen by the session, and may have taken effect.     *)
LoseCommit(w) ==
    /\ At(w, "commit")
    /\ Fault
    /\ \E wrote \in BOOLEAN :
         /\ IF wrote THEN Effect(w) ELSE UNCHANGED <<queue, lineage, served>>
         /\ worker' = [worker EXCEPT ![w].pc = "unsure", ![w].wrote = wrote]
    /\ Release(w)
    /\ UNCHANGED <<stock, repair, hold, degraded>>

(* Another session reads the row. It is the one written (its timestamps    *)
(* tell), or the failure is booked and committed once more; a second       *)
(* commit that cannot be confirmed is left at that.                        *)
Confirmed(w) ==
    LET row == queue[worker[w].event]
    IN worker[w].wrote /\ [row EXCEPT !.due = worker[w].item.due] = worker[w].item
Resolve(w) ==
    /\ At(w, "unsure")
    /\ \/ Confirmed(w) /\ Finish(w, {})
       \/ worker[w].again /\ Finish(w, {worker[w].event})
       \/ /\ ~worker[w].again
          /\ \E fate \in IF worker[w].fate = "ok" THEN Fates ELSE {worker[w].fate} :
               worker' = [worker EXCEPT ![w].pc = "reload", ![w].fate = fate,
                              ![w].again = TRUE, ![w].tries = 2, ![w].marks = NoMarks]
    /\ UNCHANGED <<queue, lineage, stock, locks, repair, hold, degraded, served, faults>>

(* The process dies; the database releases what it held.                   *)
Crash(w) ==
    /\ ~At(w, "idle")
    /\ Fault
    /\ Release(w)
    /\ Quit(w)
    /\ UNCHANGED <<queue, lineage, stock, repair, hold, degraded, served>>

-----------------------------------------------------------------------------
(* Splits and merges.                                                      *)

(* The lineages, once the requests in old are given up: those still        *)
(* pending are superseded.                                                 *)
Superseded(old) == [n \in DOMAIN lineage |->
    IF n \in old /\ lineage[n].report = "pending"
    THEN [lineage[n] EXCEPT !.report = "superseded"] ELSE lineage[n]]

(* A split and a merge lock the row of their source, and then its          *)
(* event_items.                                                            *)
TakeSource(r) ==
    /\ repair[r].pc = "new"
    /\ \E from \in Event, to \in Event \cup {None} :
         /\ from # to /\ stock[from] = "items" /\ (to # None => stock[to] = "items")
         /\ itemLock[from] = None /\ eventLock[from] = None
         /\ itemLock' = [itemLock EXCEPT ![from] = r]
         /\ eventLock' = [eventLock EXCEPT ![from] = r]
         /\ repair' = [repair EXCEPT ![r].pc = IF to = None THEN "renew" ELSE "withdraw",
                                     ![r].from = from, ![r].to = to]
    /\ UNCHANGED <<queue, lineage, stock, rowLock, worker, hold, degraded,
                   served, faults>>

(* The request that is about to be given up, of the source of a merge, of  *)
(* its target or of a split's source, is read before the row is locked: a  *)
(* replay that holds the row may leave another one in it.                  *)
ReadRequest(r) ==
    LET mine == repair[r]
        e == IF mine.pc = "renew" /\ mine.to # None THEN mine.to ELSE mine.from
        next == IF mine.pc = "withdraw" THEN "unqueue"
                ELSE IF mine.to = None THEN "split" ELSE "merge"
    IN /\ mine.pc \in {"withdraw", "renew"}
       /\ repair' = [repair EXCEPT ![r].pc = next, ![r].old = @ \cup
              {n \in {queue[e].request} : queue[e].status # "absent"}]
       /\ UNCHANGED <<queue, lineage, stock, locks, worker, hold, degraded,
                      served, faults>>

(* A merge deletes the row of its source ...                               *)
Unqueue(r) ==
    LET from == repair[r].from
    IN /\ repair[r].pc = "unqueue"
       /\ rowLock[from] = None
       /\ rowLock' = [rowLock EXCEPT ![from] = r]
       /\ repair' = [repair EXCEPT ![r].pc = "target"]
       /\ UNCHANGED <<queue, lineage, stock, itemLock, eventLock, worker, hold,
                      degraded, served, faults>>

(* ... and refreshes its target from the event_items, which it locks.      *)
TakeTarget(r) ==
    LET to == repair[r].to
    IN /\ repair[r].pc = "target"
       /\ itemLock[to] = None /\ eventLock[to] = None
       /\ itemLock' = [itemLock EXCEPT ![to] = r]
       /\ eventLock' = [eventLock EXCEPT ![to] = r]
       /\ repair' = [repair EXCEPT ![r].pc = "renew"]
       /\ UNCHANGED <<queue, lineage, stock, rowLock, worker, hold, degraded,
                      served, faults>>

(* The repaired events get a new request each, over whatever their rows    *)
(* hold, and the ledger its entry; then the route commits.                 *)
Merge(r) ==
    LET from == repair[r].from
        to == repair[r].to
        n == Len(lineage) + 1
    IN /\ repair[r].pc = "merge"
       /\ rowLock[to] = None
       /\ queue' = [queue EXCEPT ![from] = NoRow, ![to] = Asked(n)]
       /\ lineage' = Append(Superseded(repair[r].old),
                            [events |-> {to}, report |-> "pending"])
       /\ stock' = [stock EXCEPT ![from] = "empty", ![to] = "items"]
       /\ repair' = [repair EXCEPT ![r].pc = "done"]
       /\ Release(r)
       /\ UNCHANGED <<worker, hold, degraded, served, faults>>

Split(r) ==
    LET from == repair[r].from
        n == Len(lineage) + 1
    IN /\ repair[r].pc = "split"
       /\ rowLock[from] = None
       /\ \E to \in Event :
            /\ stock[to] = "unborn"
            /\ stock' = [stock EXCEPT ![to] = "items"]
            /\ queue' = [queue EXCEPT ![from] = Asked(n), ![to] = Asked(n)]
            /\ lineage' = Append(Superseded(repair[r].old),
                                 [events |-> {from, to}, report |-> "pending"])
       /\ repair' = [repair EXCEPT ![r].pc = "done"]
       /\ Release(r)
       /\ UNCHANGED <<worker, hold, degraded, served, faults>>

(* The request fails, as the victim of a deadlock for instance.            *)
Abort(r) ==
    /\ repair[r].pc \notin {"new", "done"}
    /\ repair' = [repair EXCEPT ![r].pc = "done"]
    /\ Release(r)
    /\ UNCHANGED <<queue, lineage, stock, worker, hold, degraded, served, faults>>

-----------------------------------------------------------------------------
(* Degraded mode.                                                          *)

Outage ==
    /\ ~degraded /\ Fault
    /\ degraded' = TRUE
    /\ UNCHANGED <<queue, lineage, stock, locks, worker, repair, hold, served>>

Recover ==
    /\ degraded
    /\ degraded' = FALSE
    /\ UNCHANGED <<queue, lineage, stock, locks, worker, repair, hold, served, faults>>

Pending == {e \in Event : queue[e].status = "pending"}

(* The pipeline holds e back if the queue, counted without a lock, has     *)
(* room; an event with a row, settled or not, is refused by the key.       *)
Full == Cardinality(Pending) >= Cap

Count(h) ==
    /\ hold[h].pc = "new" /\ degraded
    /\ \E e \in Event :
         /\ stock[e] = "items"
         /\ hold' = [hold EXCEPT ![h] = [pc |-> IF Full THEN "done" ELSE "room",
                                         event |-> e]]
    /\ UNCHANGED <<queue, lineage, stock, locks, worker, repair, degraded, served, faults>>

Enqueue(h) ==
    LET e == hold[h].event
    IN /\ hold[h].pc = "room"
       /\ rowLock[e] = None
       /\ queue' = IF queue[e].status = "absent"
                   THEN [queue EXCEPT ![e] = Asked(0)] ELSE queue
       /\ hold' = [hold EXCEPT ![h].pc = "done"]
       /\ UNCHANGED <<lineage, stock, locks, worker, repair, degraded, served, faults>>

(* The delay of a retry runs out.                                          *)
Tick ==
    /\ \E e \in Event : ~queue[e].due
    /\ queue' = [e \in Event |-> [queue[e] EXCEPT !.due = TRUE]]
    /\ UNCHANGED <<lineage, stock, locks, worker, repair, hold, degraded, served, faults>>

-----------------------------------------------------------------------------
WorkerStep(w) ==
    \/ Scan(w) \/ Pick(w) \/ Replay(w) \/ FailCall(w)
    \/ FailStatement(w) \/ Reload(w) \/ Commit(w) \/ Resolve(w)
RepairStep(r) ==
    \/ ReadRequest(r) \/ Unqueue(r) \/ TakeTarget(r)
    \/ Merge(r) \/ Split(r) \/ Abort(r)

Next ==
    \/ \E w \in Worker : WorkerStep(w) \/ FailBooking(w) \/ LoseCommit(w) \/ Crash(w)
    \/ \E r \in Repairer : TakeSource(r) \/ RepairStep(r)
    \/ \E h \in Holder : Count(h) \/ Enqueue(h)
    \/ Outage \/ Recover \/ Tick

Spec == Init /\ [][Next]_vars

(* Celery starts the task again and again; a statement that waits for a    *)
(* lock gets it, or an error when nobody can go on; requests end.          *)
FairSpec ==
    /\ Spec
    /\ \A w \in Worker : WF_vars(WorkerStep(w))
    /\ \A r \in Repairer : WF_vars(RepairStep(r))
    /\ WF_vars(Recover) /\ WF_vars(Tick)

-----------------------------------------------------------------------------
(* Type invariant; no row has more attempts than granted, and one that is  *)
(* pending has attempts left, through every recovery and retry.            *)
ReplayTypeOK ==
    /\ queue \in [Event -> Rows]
    /\ lineage \in Seq(Lineages)
    /\ stock \in [Event -> {"unborn", "items", "empty"}]
    /\ rowLock \in [Event -> Session \cup {None}]
    /\ itemLock \in [Event -> Session \cup {None}]
    /\ eventLock \in [Event -> Session \cup {None}]
    /\ degraded \in BOOLEAN
    /\ \A e \in Pending : queue[e].attempts < MaxAttempts

(* A repair is reported complete only after each of its events has been    *)
(* replayed, and committed, with the content that repair gave it.          *)
CompleteServed ==
    \A n \in DOMAIN lineage : lineage[n].report = "complete" =>
        \A e \in lineage[n].events : served[e] >= n

(* The events of a repair are queued (docs/ARCHITECTURE.md), and stay so    *)
(* until each has been replayed with the content the repair gave it, given *)
(* up, or emptied by a merge: a replay that was under way when the repair  *)
(* renewed the row, a lost commit or a booked failure does not settle it.  *)
RepairedIsQueued ==
    \A n \in DOMAIN lineage : \A e \in lineage[n].events :
        served[e] >= n \/ queue[e].status \in {"pending", "error"} \/ stock[e] = "empty"

(* Every queued event is replayed or given up in the end.                  *)
QueueDrains == \A e \in Event : (e \in Pending) ~> (e \notin Pending)
=============================================================================
