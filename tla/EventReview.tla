---------------------------- MODULE EventReview ----------------------------
(***************************************************************************)
(* One event, the trend evidence scored from it under one key (trend,      *)
(* claim, signal), and the sessions that rewrite both: pipeline workers    *)
(* that merge an item into the event and reconcile its evidence with the   *)
(* Tier-2 answer, the replay task that classifies a held event again, and  *)
(* operators whose feedback retracts the event (mark_noise), reverses its  *)
(* evidence (invalidate) or adds a compensation (restate).                 *)
(*                                                                         *)
(* A session loads the event once, unlocked.  Locking the row later does   *)
(* not refresh that copy, and a flush writes the columns whose value in    *)
(* memory has changed, no others.  Locks are kept to the end of the        *)
(* transaction (READ COMMITTED).  A session runs one transaction; a retry  *)
(* is another session.                                                     *)
(***************************************************************************)
EXTENDS Integers, Sequences

CONSTANTS
    Workers,       \* pipeline sessions, each processing one item of the event
    Replays,       \* sessions of the replay task
    Noisers,       \* operators recording mark_noise
    Invalidators,  \* operators recording invalidate
    Restaters,     \* operators recording restate
    Deltas         \* the log-odds deltas of evidence and compensations

Reviewers == Noisers \cup Invalidators \cup Restaters
Session == Workers \cup Replays \cup Reviewers

ASSUME ReviewDeltas == Deltas \subseteq Int

VARIABLES
    event,      \* the committed row of table "events"
    links,      \* committed rows of event_items that name the event
    evidence,   \* committed rows of trend_evidence, with their restatements
    noted,      \* committed suppressing feedback on the event
    queue,      \* the event's row of llm_replay_queue
    image,      \* image[s]: the event as written by s, while s holds its lock
    lock,       \* lock[s]: the lock s holds on the event
    tx          \* tx[s]: the transaction of session s

vars == <<event, links, evidence, noted, queue, image, lock, tx>>

-----------------------------------------------------------------------------
(* Types.                                                                  *)

(* "contested" is left out: no rule treats it otherwise than "confirmed". *)
Epistemic == {"emerging", "confirmed", "retracted"}
Activity == {"active", "dormant", "closed"}
Suppressing == {"mark_noise", "invalidate"}

Events == [epi : Epistemic, act : Activity, count : Nat]

(* comp sums the restatements that name the row.  late is history: the row *)
(* was inserted by a session that began after a suppressing feedback.      *)
Evidence == [delta : Int, comp : Int, active : BOOLEAN, late : BOOLEAN]

Statements ==
    {"idle", "matched", "unlinked", "linked", "checked", "classified",
     "claim", "reverse", "insert", "credit",
     "review", "record", "prior", "amend", "post", "touch", "ready", "over"}

Txs ==
    [pc      : Statements,   \* the statement that comes next
     then    : Statements,   \* the one that follows the trend update
     mem     : Events,       \* the event in memory
     snap    : Epistemic,    \* its epistemic state before the classification
     linked  : {0, 1},       \* event_items rows inserted
     seen    : Nat,          \* the active evidence row it has loaded, or 0
     dropped : Nat,          \* the evidence row it has invalidated, or 0
     want    : Int,          \* the delta of the evidence to insert
     comp    : Int,          \* the compensation of row seen
     draft   : Seq(Evidence),   \* the evidence row it has inserted
     trend   : BOOLEAN,      \* it has written the trend row
     queued  : {"keep", "pending", "done"}, \* what it writes to the queue
     note    : SUBSET Suppressing,          \* the feedback it has inserted
     late    : BOOLEAN]

NewTx(pc) ==
    [pc |-> pc, then |-> "ready", mem |-> event, snap |-> event.epi, linked |-> 0, seen |-> 0,
     dropped |-> 0, want |-> 0, comp |-> 0, draft |-> <<>>, trend |-> FALSE,
     queued |-> "keep", note |-> {}, late |-> noted # {}]

Blank == [epi |-> "emerging", act |-> "active", count |-> 0]

Row(d, late) == [delta |-> d, comp |-> 0, active |-> TRUE, late |-> late]

(* An event of one item, with or without evidence from an earlier run. *)
Init ==
    /\ event \in [epi : {"emerging"}, act : {"active", "dormant"}, count : {1}]
    /\ links = 1
    /\ evidence \in {<<>>} \cup {<<Row(d, FALSE)>> : d \in Deltas}
    /\ noted = {}
    /\ queue = "none"
    /\ image = [s \in Session |-> Blank]
    /\ lock = [s \in Session |-> "none"]
    /\ tx = [s \in Session |-> NewTx("idle")]

-----------------------------------------------------------------------------
(* Locks and visibility.                                                   *)

At(s, pc) == tx[s].pc = pc
Others(s) == Session \ {s}
Writing(s) == lock[s] \in {"write", "full"}

(* Mutant of Retracts: an invalidation leaves the event row alone. *)
QuietRetracts(s) ==
    s \in Noisers /\ (tx[s].mem.epi # "retracted" \/ tx[s].mem.act # "closed")

(* Flushing the feedback of s changes the event, as s remembers it. *)
Retracts(s) ==
    \/ s \in Noisers /\ (tx[s].mem.epi # "retracted" \/ tx[s].mem.act # "closed")
    \/ s \in Invalidators /\ tx[s].mem.epi # "retracted"

(* The sessions whose locks the next statement of s waits for.  The merge  *)
(* selects the event FOR UPDATE, a flush updates it, a restatement's       *)
(* foreign key shares it; an evidence row is locked by its invalidation    *)
(* and its unique key by its insertion; the trend row by its update.       *)
Blockers(s) ==
    {t \in Others(s) :
        \/ At(s, "unlinked") /\ lock[t] # "none"
        \/ /\ At(s, "checked") \/ At(s, "touch") \/ (At(s, "record") /\ Retracts(s))
           /\ Writing(t)
        \/ At(s, "post") /\ lock[t] = "full"
        \/ (At(s, "claim") \/ At(s, "amend")) /\ tx[t].dropped = tx[s].seen
        \/ At(s, "insert") /\ tx[t].draft # <<>>
        \/ At(s, "credit") /\ tx[t].trend}

Free(s) == Blockers(s) = {}

Lock(s, mode) ==
    lock' = [lock EXCEPT ![s] = IF @ = "full" \/ (@ = "write" /\ mode = "share")
                                THEN @ ELSE mode]

Current(s) == IF Writing(s) THEN image[s] ELSE event

(* The row after a flush of memory that changed from old to new. *)
Flushed(row, old, new) ==
    [f \in DOMAIN row |-> IF new[f] = old[f] THEN row[f] ELSE new[f]]

ActiveRows == {i \in DOMAIN evidence : evidence[i].active}

Go(s, pc) == tx' = [tx EXCEPT ![s].pc = pc]
Database == <<event, links, evidence, noted, queue>>

-----------------------------------------------------------------------------
(* The pipeline.                                                           *)

(* cluster_item: find the event that matches a new item. *)
Match(s) ==
    /\ s \in Workers /\ At(s, "idle")
    /\ tx' = [tx EXCEPT ![s] = NewTx("matched")]
    /\ UNCHANGED <<Database, image, lock>>

(* cluster_item on an item linked by an earlier run and left pending. *)
Resume(s) ==
    /\ s \in Workers /\ At(s, "idle")
    /\ tx' = [tx EXCEPT ![s] = NewTx("linked")]
    /\ UNCHANGED <<Database, image, lock>>

(* A suppressed event is not merged into; its item becomes noise. *)
PreCheck(s) ==
    /\ At(s, "matched")
    /\ Go(s, IF noted = {} THEN "unlinked" ELSE "ready")
    /\ UNCHANGED <<Database, image, lock>>

(* The epistemic state derived from corroboration and contradictions, for  *)
(* an event that memory does not hold for retracted.                       *)
Derived(mem) == IF mem.epi = "retracted" THEN {"retracted"} ELSE {"emerging", "confirmed"}

(* Mutant of Link: an item that is linked already is counted again. *)
LooseLink(s) ==
    /\ At(s, "unlinked") /\ Free(s)
    /\ Lock(s, "full")
    /\ \E epi \in Derived(tx[s].mem), act \in Activity, linked \in {0, 1} :
         LET mem == tx[s].mem
             new == [epi |-> epi, act |-> act, count |-> mem.count + 1] IN
           /\ image' = [image EXCEPT ![s] = Flushed(event, mem, new)]
           /\ tx' = [tx EXCEPT ![s].pc = "linked", ![s].mem = new, ![s].linked = linked]
    /\ UNCHANGED Database

(* Lock the event, link the item, count it and apply the mention.  The     *)
(* link is always inserted: the batch keeps its items locked, so no other  *)
(* links the item meanwhile, and no session deletes the event.             *)
Link(s) ==
    /\ At(s, "unlinked") /\ Free(s)
    /\ Lock(s, "full")
    /\ \E epi \in Derived(tx[s].mem), act \in Activity :
         LET mem == tx[s].mem
             new == [epi |-> epi, act |-> act, count |-> mem.count + 1] IN
           /\ image' = [image EXCEPT ![s] = Flushed(event, mem, new)]
           /\ tx' = [tx EXCEPT ![s].pc = "linked", ![s].mem = new, ![s].linked = 1]
    /\ UNCHANGED Database

(* Mutant of PostCheck: the check runs before the merge only. *)
BlindPostCheck(s) ==
    /\ At(s, "linked")
    /\ Go(s, "checked")
    /\ UNCHANGED <<Database, image, lock>>

PostCheck(s) ==
    /\ At(s, "linked")
    /\ Go(s, IF noted = {} THEN "checked" ELSE "ready")
    /\ UNCHANGED <<Database, image, lock>>

(* The budget is spent or the model's answer is unusable: what the session *)
(* has written so far is committed all the same.                           *)
GiveUp(s) ==
    /\ At(s, "checked")
    /\ Go(s, "ready")
    /\ UNCHANGED <<Database, image, lock>>

(* classify_event: the model answers, the extraction is flushed. *)
Classify(s) ==
    /\ At(s, "checked") /\ Free(s)
    /\ Lock(s, "write")
    /\ \E epi \in Derived(tx[s].mem) :
         LET mem == tx[s].mem
             new == [mem EXCEPT !.epi = epi] IN
           /\ image' = [image EXCEPT ![s] = Flushed(Current(s), mem, new)]
           /\ tx' = [tx EXCEPT ![s].pc = "classified", ![s].mem = new,
                                ![s].snap = mem.epi]
    /\ UNCHANGED Database

(* Degraded mode: the extraction becomes provisional, the event is put     *)
(* back to what memory held before, and may be queued for replay.          *)
Hold(s) ==
    /\ s \in Workers /\ At(s, "classified")
    /\ LET mem == tx[s].mem IN
         image' = [image EXCEPT ![s] =
                     Flushed(@, mem, [mem EXCEPT !.epi = tx[s].snap])]
    /\ \E q \in {"keep"} \cup (IF queue = "none" THEN {"pending"} ELSE {}) :
         tx' = [tx EXCEPT ![s].pc = "ready", ![s].queued = q]
    /\ UNCHANGED <<Database, lock>>

(* reconcile_event_trend_impacts: load the active evidence and compare it  *)
(* with the impacts of the new extraction.                                 *)
Keep(s) ==
    /\ At(s, "classified")
    /\ tx' = [tx EXCEPT ![s].pc = "ready",
                        ![s].queued = IF s \in Replays THEN "done" ELSE @]
    /\ UNCHANGED <<Database, image, lock>>

Score(s) ==
    /\ At(s, "classified") /\ ActiveRows = {}
    /\ \E d \in Deltas :
         tx' = [tx EXCEPT ![s].pc = "insert", ![s].want = d,
                          ![s].queued = IF s \in Replays THEN "done" ELSE @]
    /\ UNCHANGED <<Database, image, lock>>

(* The row found is to be replaced by evidence of another delta, or to go. *)
Supersede(s) ==
    /\ At(s, "classified")
    /\ \E i \in ActiveRows, d \in Deltas, then \in {"insert", "ready"} :
         tx' = [tx EXCEPT ![s].pc = "claim", ![s].seen = i, ![s].want = d,
                          ![s].then = then,
                          ![s].queued = IF s \in Replays THEN "done" ELSE @]
    /\ UNCHANGED <<Database, image, lock>>

(* UPDATE ... WHERE is_invalidated = false: the claim succeeds once. *)
Claim(s) ==
    /\ At(s, "claim") /\ Free(s)
    /\ tx' = IF tx[s].seen \in ActiveRows
             THEN [tx EXCEPT ![s].pc = "reverse", ![s].dropped = tx[s].seen]
             ELSE [tx EXCEPT ![s].pc = tx[s].then]
    /\ UNCHANGED <<Database, image, lock>>

(* What is left of a row's contribution after its committed restatements. *)
Remaining(i) == evidence[i].delta + evidence[i].comp

(* Read the earlier compensations and insert the reversing restatement. *)
Reverse(s) ==
    /\ At(s, "reverse")
    /\ LET c == -Remaining(tx[s].seen) IN
         tx' = [tx EXCEPT ![s].pc = IF c = 0 THEN tx[s].then ELSE "credit", ![s].comp = c]
    /\ UNCHANGED <<Database, image, lock>>

(* apply_evidence: nothing while an active row with this key exists. *)
Insert(s) ==
    /\ At(s, "insert") /\ Free(s)
    /\ tx' = IF ActiveRows \ {tx[s].dropped} # {}
             THEN [tx EXCEPT ![s].pc = "ready"]
             ELSE [tx EXCEPT ![s].pc = "credit", ![s].then = "ready",
                             ![s].draft = <<Row(tx[s].want, tx[s].late)>>]
    /\ UNCHANGED <<Database, image, lock>>

(* Update the trend's live value by the compensation or the evidence. *)
Credit(s) ==
    /\ At(s, "credit") /\ Free(s)
    /\ tx' = [tx EXCEPT ![s].pc = tx[s].then, ![s].trend = TRUE]
    /\ UNCHANGED <<Database, image, lock>>

(* _replay_one_degraded_item: a pending row no other session has locked;   *)
(* the event is loaded and classified whatever feedback it has received.   *)
Replay(s) ==
    /\ s \in Replays /\ At(s, "idle")
    /\ queue = "pending"
    /\ \A t \in Replays : tx[t].pc \in {"idle", "over"}
    /\ tx' = [tx EXCEPT ![s] = NewTx("checked")]
    /\ UNCHANGED <<Database, image, lock>>

-----------------------------------------------------------------------------
(* Operator feedback.                                                      *)

Review(s) ==
    /\ s \in Reviewers /\ At(s, "idle")
    /\ tx' = [tx EXCEPT ![s] = NewTx(IF s \in Noisers THEN "record" ELSE "review")]
    /\ UNCHANGED <<Database, image, lock>>

(* Load the active evidence, unlocked.  A restatement has to name a row of *)
(* it: without one the request is refused.                                 *)
LoadEvidence(s) ==
    /\ At(s, "review")
    /\ \/ /\ ActiveRows = {}
          /\ Go(s, IF s \in Restaters THEN "ready" ELSE "record")
       \/ \E i \in ActiveRows, c \in IF s \in Restaters THEN Deltas ELSE {0} :
            tx' = [tx EXCEPT ![s].pc = "record", ![s].seen = i, ![s].comp = c]
    /\ UNCHANGED <<Database, image, lock>>

Retracted(s) ==
    IF s \in Noisers THEN [tx[s].mem EXCEPT !.epi = "retracted", !.act = "closed"]
                     ELSE [tx[s].mem EXCEPT !.epi = "retracted"]

Following(s) ==
    IF tx[s].seen = 0 THEN "touch" ELSE IF s \in Restaters THEN "post" ELSE "prior"

(* Flush the event, if the feedback changes it, and insert the feedback. *)
Record(s) ==
    /\ At(s, "record") /\ Free(s)
    /\ tx' = [tx EXCEPT ![s].pc = Following(s), ![s].then = "touch",
                        ![s].note = IF s \in Noisers THEN {"mark_noise"}
                                    ELSE IF s \in Invalidators THEN {"invalidate"} ELSE {}]
    /\ IF Retracts(s)
       THEN /\ Lock(s, "write")
            /\ image' = [image EXCEPT ![s] = Flushed(event, tx[s].mem, Retracted(s))]
       ELSE UNCHANGED <<image, lock>>
    /\ UNCHANGED Database

(* Mutant of Prior: the whole delta, whatever was compensated already. *)
WholePrior(s) ==
    /\ At(s, "prior")
    /\ tx' = [tx EXCEPT ![s].pc = "amend", ![s].comp = -evidence[tx[s].seen].delta]
    /\ UNCHANGED <<Database, image, lock>>

(* The compensation is worked out before the evidence row is written. *)
Prior(s) ==
    /\ At(s, "prior")
    /\ tx' = [tx EXCEPT ![s].pc = "amend", ![s].comp = -Remaining(tx[s].seen)]
    /\ UNCHANGED <<Database, image, lock>>

(* The evidence row is marked invalidated whatever it holds by now. *)
Amend(s) ==
    /\ At(s, "amend") /\ Free(s)
    /\ tx' = [tx EXCEPT ![s].pc = "post", ![s].dropped = tx[s].seen]
    /\ UNCHANGED <<Database, image, lock>>

(* Insert the restatement. *)
Post(s) ==
    /\ At(s, "post") /\ Free(s)
    /\ Lock(s, "share")
    /\ Go(s, IF tx[s].comp = 0 THEN "touch" ELSE "credit")
    /\ UNCHANGED <<Database, image>>

(* Stamp event.last_updated_at. *)
Touch(s) ==
    /\ At(s, "touch") /\ Free(s)
    /\ Lock(s, "write")
    /\ image' = [image EXCEPT ![s] = Current(s)]
    /\ Go(s, "ready")
    /\ UNCHANGED Database

-----------------------------------------------------------------------------
(* The end of a transaction.                                               *)

Close(s) ==
    /\ lock' = [lock EXCEPT ![s] = "none"]
    /\ image' = [image EXCEPT ![s] = Blank]
    /\ tx' = [tx EXCEPT ![s] = [NewTx("over") EXCEPT !.mem = Blank, !.snap = Blank.epi,
                                                    !.late = FALSE]]

(* Row seen as s has rewritten it, then the row s has inserted. *)
Settled(s) ==
    [i \in DOMAIN evidence |->
        IF i = tx[s].seen
        THEN [evidence[i] EXCEPT !.comp = @ + tx[s].comp,
                                 !.active = @ /\ i # tx[s].dropped]
        ELSE evidence[i]] \o tx[s].draft

(* Mutant of Commit: a transaction that leaves the queue alone writes it.  *)
QueueingCommit(s) ==
    /\ At(s, "ready")
    /\ event' = Current(s)
    /\ links' = links + tx[s].linked
    /\ evidence' = Settled(s)
    /\ noted' = noted \cup tx[s].note
    /\ queue' = tx[s].queued
    /\ Close(s)

Commit(s) ==
    /\ At(s, "ready")
    /\ event' = Current(s)
    /\ links' = links + tx[s].linked
    /\ evidence' = Settled(s)
    /\ noted' = noted \cup tx[s].note
    /\ queue' = IF tx[s].queued = "keep" THEN queue ELSE tx[s].queued
    /\ Close(s)

(* An exception, a crash or a lost connection. *)
Rollback(s) ==
    /\ tx[s].pc \notin {"idle", "over"}
    /\ Close(s)
    /\ UNCHANGED Database

(* run_decay_check: one statement ages the event, or closes it. *)
Fade ==
    /\ \A s \in Session : ~Writing(s)
    /\ event' \in [epi : {event.epi}, count : {event.count},
                   act : CASE event.act = "active" -> {"dormant"}
                           [] event.act = "dormant" -> {"closed"}
                           [] OTHER -> {}]
    /\ UNCHANGED <<links, evidence, noted, queue, image, lock, tx>>

Done ==
    /\ \A s \in Session : tx[s].pc = "over" \/ (s \in Replays /\ At(s, "idle"))
    /\ UNCHANGED vars

Pipeline(s) ==
    \/ Match(s) \/ Resume(s) \/ Replay(s)
    \/ PreCheck(s) \/ Link(s) \/ PostCheck(s) \/ GiveUp(s) \/ Classify(s) \/ Hold(s)
    \/ Keep(s) \/ Score(s) \/ Supersede(s)
    \/ Claim(s) \/ Reverse(s) \/ Insert(s) \/ Credit(s)

Feedback(s) ==
    \/ Review(s) \/ LoadEvidence(s) \/ Record(s) \/ Prior(s) \/ Amend(s)
    \/ Post(s) \/ Touch(s)

Next ==
    \/ \E s \in Session : Pipeline(s) \/ Feedback(s) \/ Commit(s) \/ Rollback(s)
    \/ Fade
    \/ Done

Spec == Init /\ [][Next]_vars

-----------------------------------------------------------------------------
(* Properties.                                                             *)

(* Every variable has its type. *)
ReviewTypeOK ==
    /\ event \in Events
    /\ links \in Nat
    /\ evidence \in Seq(Evidence)
    /\ noted \subseteq Suppressing
    /\ queue \in {"none", "pending", "done"}
    /\ image \in [Session -> Events]
    /\ lock \in [Session -> {"none", "share", "write", "full"}]
    /\ tx \in [Session -> Txs]

(* Evidence that has been invalidated contributes nothing to its trend:    *)
(* its delta and all restatements that name it sum to zero, whichever      *)
(* sessions reclassified, reversed or replayed the event meanwhile.        *)
NetZero == \A i \in DOMAIN evidence : ~evidence[i].active => Remaining(i) = 0

(* No set of sessions waits for itself: the event's row, the evidence rows *)
(* and the trend's row are locked in an order that closes no cycle, among  *)
(* workers, replays and one invalidation.  (A restatement, or feedback on  *)
(* an event already retracted, comes to the event's row last.)             *)
NoLockCycle ==
    ~ \E waiting \in (SUBSET Session) \ {{}} :
        \A s \in waiting : Blockers(s) \cap waiting # {}

(* A session that begins after an operator suppressed the event adds no    *)
(* evidence to it, although the feedback is looked up without a lock, in   *)
(* two places, and a retried item reaches only one of them.                *)
NoLateEvidence == \A i \in DOMAIN evidence : ~evidence[i].late

(* Suppressed events are never revived by mention-side effects: no merge   *)
(* makes an event that mark_noise has closed active again, though it       *)
(* looked the suppression up before it waited for the event's row.         *)
NeverRevived ==
    [][("mark_noise" \in noted /\ event.act = "closed") => event'.act # "active"]_vars

(* source_count is at most the number of items that report the event: a    *)
(* stale merge can lose one, but an item that is processed again, or whose *)
(* merge is rolled back, is not counted twice.                             *)
CountsLinked == event.count <= links
=============================================================================
