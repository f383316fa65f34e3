------------------------------ MODULE RawItems ------------------------------
(***************************************************************************)
(* Raw items on their way from the collectors through the batches of the   *)
(* processing task: stored, loaded with FOR UPDATE SKIP LOCKED, compared   *)
(* with their copies, judged by Tier 1, linked to an event, analysed by    *)
(* Tier 2, and committed.                                                  *)
(*                                                                         *)
(* A batch is one transaction.  Every lock it takes is kept to the end,    *)
(* and one of them is taken before any event is looked for: the rows of    *)
(* api_usage of the day, which the booking of the first call selects FOR   *)
(* UPDATE.  No other lock keeps two batches apart between the search for   *)
(* an event and the commit of the event they found.                        *)
(*                                                                         *)
(* Calls are made with the semantic cache off, the default, so every batch *)
(* that links items has booked a call.                                     *)
(***************************************************************************)
EXTENDS Integers, FiniteSets

CONSTANTS
    Item,         \* raw items, numbered in the order of fetched_at
    Run,          \* workers that execute process_pending_items
    None,         \* nobody, no event
    Story(_),     \* the story an item tells: items of one story have embeddings
                  \* of one model that are close, and their events are within
                  \* each other's CLUSTER_TIME_WINDOW_HOURS
    Content(_),   \* what find_duplicate goes by: items of one content have the
                  \* same external id, url or content hash, and the seven days
                  \* for which it looks back have not passed
    Backlog,      \* items that wait to be processed from the start
    Resumed,      \* those of them that an earlier batch may have linked
    Limit,        \* items in a batch
    MaxDay,       \* bound: UTC days
    MaxFaults     \* bound: failed runs, refused calls and deferrals

ASSUME RawItemsConstants ==
    /\ Item \subseteq Nat /\ IsFiniteSet(Item) 
    /\ Resumed \subseteq Backlog /\ Backlog \subseteq Item
    /\ None \notin Item \cup Run
    /\ Limit \in Nat \ {0} /\ MaxDay \in Nat \ {0} /\ MaxFaults \in Nat

VARIABLES
    raw,        \* raw[i]: the committed status of i
    home,       \* home[i]: the event i is linked to; an event is known by the
                \* item it was created for
    added,      \* added[i]: the added_at of the link, which is the time when the
                \* transaction that made it began
    read,       \* read[e]: the items the committed extraction of e was made from
    feed,       \* feed[i]: what the collector that has found i did with it
    day,        \* the UTC day
    since,      \* since[w]: when w began its transaction; only the order of
                \* these numbers counts
    ledger,     \* ledger[d]: the run that holds the api_usage rows of day d
    eventLock,  \* eventLock[e]: the run that holds the row of e
    trendLock,  \* the run that holds the row of the trend
    run,        \* run[w]: the transaction of worker w
    crossed,    \* history: two runs have held rows of two days at a time
    faults

locks == <<ledger, eventLock, trendLock>>
database == <<raw, home, added, read>>
time == <<day, since>>
vars == <<database, feed, time, locks, run, crossed, faults>>

Day == 1..MaxDay

(* "duplicate" is the noise of copies, "dropped" all other noise and error. *)
Settled == {"duplicate", "dropped", "classified"}
Statuses == {"absent", "pending"} \cup Settled

Idle == [pc |-> "idle",
         mem |-> [i \in Item |-> "none"],  \* the statuses of its batch
         left |-> {},                      \* items the phase has yet to handle
         next |-> {},                      \* items that go on to the next phase
         link |-> [i \in Item |-> None],   \* the links it has inserted
         text |-> [e \in Item |-> {}],     \* the extractions it has written
         item |-> None,                    \* the item under analysis
         view |-> {}]                      \* the items that analysis has read

Runs == [pc : {"idle", "prepare", "tier1", "embed", "link", "tier2", "book",
               "write", "apply", "commit"},
         mem : [Item -> {"none", "processing", "pending"} \cup Settled],
         left : SUBSET Item,
         next : SUBSET Item,
         link : [Item -> Item \cup {None}],
         text : [Item -> SUBSET Item],
         item : Item \cup {None},
         view : SUBSET Item]

(* An item is linked and still pending when the budget refused its call.   *)
Init ==
    /\ raw = [i \in Item |-> IF i \in Backlog THEN "pending" ELSE "absent"]
    /\ \E linked \in SUBSET Resumed :
         /\ \A i, j \in linked : Story(i) = Story(j) => i = j
         /\ home = [i \in Item |-> IF i \in linked THEN i ELSE None]
    /\ added = [i \in Item |-> 0]
    /\ read = [i \in Item |-> {}]
    /\ feed = [i \in Item |-> IF i \in Backlog THEN "stored" ELSE "found"]
    /\ day = 1 /\ since = [w \in Run |-> 0]
    /\ ledger = [d \in Day |-> None]
    /\ eventLock = [e \in Item |-> None]
    /\ trendLock = None
    /\ run = [w \in Run |-> Idle]
    /\ crossed = FALSE
    /\ faults = 0

-----------------------------------------------------------------------------
(* The collectors: each stores what it has found and commits once.         *)

Stored(i) == raw[i] # "absent"
Copies(i) == {j \in Item \ {i} : Content(j) = Content(i)}

(* find_duplicate: is there another stored item with the content of i?     *)
(* Any status will do, and nothing says which of the two is the copy.      *)
Duplicate(i) == \E j \in Copies(i) : Stored(j)

(* _process_entry, _store_article. *)
Collect(i) ==
    /\ feed[i] = "found"
    /\ feed' = [feed EXCEPT ![i] = IF Duplicate(i) THEN "skipped" ELSE "inserted"]
    /\ UNCHANGED <<database, time, locks, run, crossed, faults>>

(* The commit at the end of collect_rss_async, collect_gdelt_async. *)
CommitFeed(i) ==
    /\ feed[i] = "inserted"
    /\ feed' = [feed EXCEPT ![i] = "stored"]
    /\ raw' = [raw EXCEPT ![i] = "pending"]
    /\ UNCHANGED <<home, added, read, time, locks, run, crossed, faults>>

Midnight ==
    /\ day < MaxDay /\ day' = day + 1
    /\ UNCHANGED <<database, feed, since, locks, run, crossed, faults>>

-----------------------------------------------------------------------------
(* What a run sees and holds.                                              *)

At(w, pc) == run[w].pc = pc
Batch(w) == {i \in Item : run[w].mem[i] # "none"}
Others(w) == Run \ {w}
Free(lock, w) == lock \in {None, w}
Fault == faults < MaxFaults /\ faults' = faults + 1

(* The committed events. *)
Events == {e \in Item : home[e] = e}

Link(w, i) == IF run[w].link[i] # None THEN run[w].link[i] ELSE home[i]
Linked(w, e) == {i \in Item : Link(w, i) = e}
Added(w, i) == IF run[w].link[i] # None THEN since[w] ELSE added[i]

(* _load_event_context and the budget of the prompt: the latest items of e *)
(* by added_at, five at most and fewer when they are long, but never none; *)
(* of links of one time some come first.                                   *)
Latest(w, e) == {V \in (SUBSET Linked(w, e)) \ {{}} :
    \A i \in Linked(w, e) \ V, j \in V : Added(w, i) <= Added(w, j)}

(* _find_matching_event: the events of its own and the committed ones; the *)
(* nearest of them may be any.  An item that is clustered has an embedding *)
(* and its model: those that could not get one have left the batch.        *)
Matches(w, i) == {e \in Item : Link(w, e) = e /\ Story(e) = Story(i)}

(* The next item in the order of the batch. *)
Head(S) == {i \in S : \A j \in S : i <= j}

(* The items one load returns: the oldest pending ones nobody has locked. *)
Loadable == {i \in Item : raw[i] = "pending" /\ \A w \in Run : i \notin Batch(w)}

Oldest(S) == {i \in S : Cardinality({j \in S : j < i}) < Limit}

(* Mutant: the usage is booked in a transaction of its own. *)
BookAndRelease(w) ==
    /\ Free(ledger[day], w)
    /\ UNCHANGED <<ledger, crossed>>

(* record_usage: the rows of the day are locked, to the end of the run. *)
Book(w) ==
    /\ Free(ledger[day], w)
    /\ ledger' = [ledger EXCEPT ![day] = w]
    /\ crossed' = (crossed \/ \E d \in Day \ {day} : ~Free(ledger[d], w))

(* The call is not made, or its booking gets as far as the locks.          *)
MayBook(w) == Book(w) \/ UNCHANGED <<ledger, crossed>>

Freed(lock, w) == [x \in DOMAIN lock |-> IF lock[x] = w THEN None ELSE lock[x]]

(* The end of the session, after a commit or a rollback. *)
End(w) ==
    /\ run' = [run EXCEPT ![w] = Idle]
    /\ ledger' = Freed(ledger, w)
    /\ eventLock' = Freed(eventLock, w)
    /\ trendLock' = IF trendLock = w THEN None ELSE trendLock
    /\ since' = [since EXCEPT ![w] = 0]
    /\ UNCHANGED <<feed, day, crossed>>

-----------------------------------------------------------------------------
(* The batch.                                                              *)

(* The phase a run goes to when the present one has handled all its items. *)
Onward(r, left, next, pc, then) ==
    IF left # {} THEN [r EXCEPT !.left = left, !.next = next, !.pc = pc]
    ELSE IF next = {} THEN [r EXCEPT !.left = {}, !.next = {}, !.pc = "commit"]
    ELSE [r EXCEPT !.left = next, !.next = {}, !.pc = then]

(* Item i leaves the phase with a status, and goes on if it has none yet.  *)
Verdict(r, i, status, pc, then) ==
    Onward([r EXCEPT !.mem[i] = status], r.left \ {i},
           IF status = "processing" THEN r.next \cup {i} ELSE r.next, pc, then)

(* What becomes of an item that is not served: it is put back when the     *)
(* budget refuses its call or its language is deferred, and dropped when   *)
(* it fails for good.  A failure to be retried ends the run: Fail.         *)
Unserved == {"pending", "dropped"}
Charge(status) == IF status = "pending" THEN Fault ELSE UNCHANGED faults

(* The times when transactions began, as far as anything depends on them.  *)
Begun == {since[w] : w \in Run} \cup {added[i] : i \in Item}

(* _load_pending_items, for a message of the beat, of a collector or of a  *)
(* retry, or one delivered again; a run that loads nothing ends.           *)
Load(w) ==
    /\ At(w, "idle") /\ Loadable # {}
    /\ LET batch == Oldest(Loadable)
       IN run' = [run EXCEPT ![w] = [Idle EXCEPT !.pc = "prepare", !.left = batch,
              !.mem = [i \in Item |-> IF i \in batch THEN "processing" ELSE "none"]]]
    /\ \E t \in Begun : /\ \A u \in Begun : u <= t
                        /\ since' = [since EXCEPT ![w] = t + 1]
    /\ UNCHANGED <<database, feed, day, locks, crossed, faults>>

(* _prepare_item_for_tier1: a copy is noise and an empty text an error; an *)
(* unsupported language is noise, or is deferred until it is supported.    *)
Prepare(w) ==
    /\ At(w, "prepare")
    /\ \E i \in Head(run[w].left) :
         \E s \in IF Duplicate(i) THEN {"duplicate"} ELSE {"processing"} \cup Unserved :
           /\ Charge(s)
           /\ run' = [run EXCEPT ![w] = Verdict(run[w], i, s, "prepare", "tier1")]
    /\ UNCHANGED <<database, feed, time, locks, crossed>>

(* _classify_tier1_prepared_items and the items it does not let pass: one  *)
(* call for all, or one for each when that fails.  An item may be refused  *)
(* by the budget or come back without a result.                            *)
Tier1(w) ==
    /\ At(w, "tier1") /\ Book(w)
    /\ \E verdict \in [run[w].left -> {"processing"} \cup Unserved] :
         LET pass == {i \in run[w].left : verdict[i] = "processing"}
             mem == [i \in Item |-> IF i \in run[w].left THEN verdict[i] ELSE run[w].mem[i]]
         IN /\ IF \E i \in run[w].left : verdict[i] = "pending"
               THEN Fault ELSE UNCHANGED faults
            /\ run' = [run EXCEPT ![w] =
                 Onward([run[w] EXCEPT !.mem = mem], {}, pass, "tier1", "embed")]
    /\ UNCHANGED <<database, feed, time, eventLock, trendLock>>

(* No call is made or succeeds: nothing is booked.                         *)
LeaveUnjudged(w) ==
    /\ At(w, "tier1")
    /\ \E s \in Unserved :
         /\ Charge(s)
         /\ run' = [run EXCEPT ![w] = [@ EXCEPT !.left = {}, !.pc = "commit",
              !.mem = [i \in Item |-> IF i \in run[w].left THEN s ELSE run[w].mem[i]]]]
    /\ UNCHANGED <<database, feed, time, locks, crossed>>

(* ensure_item_embedding: unless the cache has it, one more call.          *)
Embed(w) ==
    /\ At(w, "embed")
    /\ MayBook(w)
    /\ run' = [run EXCEPT ![w].pc = "link"]
    /\ UNCHANGED <<database, feed, time, eventLock, trendLock, faults>>

LeaveUnembedded(w) ==
    /\ At(w, "embed") /\ MayBook(w)
    /\ \E i \in Head(run[w].left), s \in Unserved :
         /\ Charge(s)
         /\ run' = [run EXCEPT ![w] = Verdict(@, i, s, "embed", "tier2")]
    /\ UNCHANGED <<database, feed, time, eventLock, trendLock>>

(* cluster_item, of an item that has a link already.                       *)
Relink(w) ==
    /\ At(w, "link")
    /\ \E i \in Head(run[w].left) :
         /\ Link(w, i) # None
         /\ run' = [run EXCEPT ![w] = Verdict(@, i, "processing", "embed", "tier2")]
    /\ UNCHANGED <<database, feed, time, locks, crossed, faults>>

(* _add_event_link: the event's row is locked, then the link inserted.     *)
LinkTo(w, i, e) ==
    /\ Free(eventLock[e], w)
    /\ eventLock' = [eventLock EXCEPT ![e] = w]
    /\ run' = [run EXCEPT ![w] =
          Verdict([@ EXCEPT !.link[i] = e], i, "processing", "embed", "tier2")]

(* cluster_item: the item joins the event that matches, or founds one.     *)
Cluster(w) ==
    /\ At(w, "link")
    /\ \E i \in Head(run[w].left) :
         /\ Link(w, i) = None
         /\ \E e \in IF Matches(w, i) # {} THEN Matches(w, i) ELSE {i} : LinkTo(w, i, e)
    /\ UNCHANGED <<database, feed, time, ledger, trendLock, crossed, faults>>

(* An operator may have suppressed the committed event it is linked to or  *)
(* matches.                                                                *)
Suppressible(w, i) ==
    \E e \in Events : e = Link(w, i) \/ (Link(w, i) = None /\ e \in Matches(w, i))

(* Mutant: an item of a suppressed event is put back.                      *)
SuppressPending(w) ==
    /\ At(w, "link")
    /\ \E i \in Head(run[w].left) :
         /\ Suppressible(w, i)
         /\ run' = [run EXCEPT ![w] = Verdict(@, i, "pending", "embed", "tier2")]
    /\ UNCHANGED <<database, feed, time, locks, crossed, faults>>

(* The item of a suppressed event is noise.                                *)
Suppress(w) ==
    /\ At(w, "link")
    /\ \E i \in Head(run[w].left) :
         /\ Suppressible(w, i)
         /\ run' = [run EXCEPT ![w] = Verdict(@, i, "dropped", "embed", "tier2")]
    /\ UNCHANGED <<database, feed, time, locks, crossed, faults>>

(* classify_event reads the latest items of the event and makes the call.  *)
(* The candidates come in the order of the scheduler: any.                 *)
Analyse(w) ==
    /\ At(w, "tier2")
    /\ \E i \in run[w].left : \E view \in Latest(w, Link(w, i)) :
         run' = [run EXCEPT ![w].pc = "book", ![w].item = i, ![w].view = view]
    /\ UNCHANGED <<database, feed, time, locks, crossed, faults>>

(* The item under analysis leaves the run with a status.                   *)
Concluded(r, status) ==
    Onward([r EXCEPT !.mem[r.item] = status, !.item = None, !.view = {}],
           r.left \ {r.item}, {}, "tier2", "tier2")

BookAnalysis(w) ==
    /\ At(w, "book") /\ Book(w)
    /\ run' = [run EXCEPT ![w].pc = "write"]
    /\ UNCHANGED <<database, feed, time, eventLock, trendLock, faults>>

(* The call, or its booking, is refused or fails.                          *)
LeaveUnanalysed(w) ==
    /\ At(w, "book") /\ MayBook(w)
    /\ \E s \in Unserved :
         /\ Charge(s)
         /\ run' = [run EXCEPT ![w] = Concluded(@, s)]
    /\ UNCHANGED <<database, feed, time, eventLock, trendLock>>

(* The extraction is written to the event's row.                           *)
Write(w) ==
    /\ At(w, "write")
    /\ LET e == Link(w, run[w].item)
       IN /\ Free(eventLock[e], w)
          /\ eventLock' = [eventLock EXCEPT ![e] = w]
          /\ run' = [run EXCEPT ![w].pc = "apply", ![w].text[e] = run[w].view]
    /\ UNCHANGED <<database, feed, time, ledger, trendLock, crossed, faults>>

(* _apply_tier2_outcome: the impacts, if any, are applied to the trend.  A *)
(* failure after the first of them leaves it applied.                      *)
Apply(w) ==
    /\ At(w, "apply")
    /\ \/ trendLock' = trendLock
       \/ Free(trendLock, w) /\ trendLock' = w
    /\ \E s \in {"classified", "dropped"} : run' = [run EXCEPT ![w] = Concluded(@, s)]
    /\ UNCHANGED <<database, feed, time, ledger, eventLock, crossed, faults>>

Commit(w) ==
    /\ At(w, "commit")
    /\ raw' = [i \in Item |-> IF i \in Batch(w) THEN run[w].mem[i] ELSE raw[i]]
    /\ home' = [i \in Item |-> Link(w, i)]
    /\ added' = [i \in Item |-> Added(w, i)]
    /\ read' = [e \in Item |-> IF run[w].text[e] # {} THEN run[w].text[e] ELSE read[e]]
    /\ End(w) /\ UNCHANGED faults

(* Mutant: what a failed run has done is committed.                        *)
FailAndKeep(w) ==
    /\ ~At(w, "idle") /\ Fault
    /\ raw' = [i \in Item |-> IF i \in Batch(w) THEN run[w].mem[i] ELSE raw[i]]
    /\ End(w) /\ UNCHANGED <<home, added, read>>

(* The run dies, or a call fails in a way to be retried: rolled back, to   *)
(* be delivered or tried again.                                            *)
Fail(w) ==
    /\ ~At(w, "idle") /\ Fault
    /\ End(w) /\ UNCHANGED database

-----------------------------------------------------------------------------
(* Waiting.                                                                *)

(* The rows the next statement of w may have to lock: their holders.       *)
Wanted(w) ==
    CASE run[w].pc \in {"tier1", "book"} -> {ledger[day]}
      [] At(w, "link") -> {eventLock[e] : e \in UNION {Matches(w, i) :
             i \in {j \in Head(run[w].left) : Link(w, j) = None}}}
      [] At(w, "write") -> {eventLock[Link(w, run[w].item)]}
      [] At(w, "apply") -> {trendLock}
      [] OTHER -> {}

Blockers(w) == Wanted(w) \ {None, w}

(* Sets of runs each of which can be waiting for another of the set.       *)
Cycles == {C \in SUBSET Run : C # {} /\ \A w \in C : Blockers(w) \cap C # {}}

(* The server ends a cycle by failing one statement of it.  The exception  *)
(* is not one of those retried, the item cannot be marked either, and the  *)
(* run ends with a rollback.                                               *)
Victim(w) ==
    /\ \E C \in Cycles : w \in C
    /\ End(w) /\ UNCHANGED <<database, faults>>

Step(w) ==
    \/ Load(w) \/ Prepare(w) \/ Tier1(w) \/ LeaveUnjudged(w)
    \/ Embed(w) \/ LeaveUnembedded(w) \/ Relink(w) \/ Cluster(w) \/ Suppress(w)
    \/ Analyse(w) \/ BookAnalysis(w) \/ LeaveUnanalysed(w) \/ Write(w) \/ Apply(w)
    \/ Commit(w) \/ Victim(w)

Next ==
    \/ \E i \in Item : Collect(i) \/ CommitFeed(i)
    \/ Midnight
    \/ \E w \in Run : Step(w) \/ Fail(w)

Spec == Init /\ [][Next]_vars

(* The beat sends a message each period, a worker takes it and its run     *)
(* goes on: calls time out, the server gives a row to those that wait for  *)
(* it in turn, and it ends a cycle.                                        *)
FairSpec == Spec /\ \A w \in Run : SF_vars(Step(w))

-----------------------------------------------------------------------------
(* Types: in particular the status "processing" of an item under work is   *)
(* never committed.                                                        *)
ItemsTypeOK ==
    /\ raw \in [Item -> Statuses]
    /\ home \in [Item -> Item \cup {None}]
    /\ added \in [Item -> Nat]
    /\ read \in [Item -> SUBSET Item]
    /\ feed \in [Item -> {"found", "skipped", "inserted", "stored"}]
    /\ day \in Day /\ since \in [Run -> Nat]
    /\ ledger \in [Day -> Run \cup {None}]
    /\ eventLock \in [Item -> Run \cup {None}]
    /\ trendLock \in Run \cup {None}
    /\ run \in [Run -> Runs]
    /\ crossed \in BOOLEAN
    /\ faults \in 0..MaxFaults

(* Batches that run side by side never make two events of one story within *)
(* the window of the clustering, although neither sees the events of the   *)
(* other: the second waits with its first booking until the first has      *)
(* committed.  Only two batches that book on different days, around        *)
(* midnight, can.                                                          *)
OneEvent == ~crossed =>
    \A e, f \in Events : Story(e) = Story(f) => e = f

(* The extraction that stands was made from the latest items of its event: *)
(* a classified item it has not read was not linked after any item it has. *)
(* No analysis is overwritten by one that had only seen earlier items.     *)
LatestIsRead == ~crossed =>
    \A i \in Item : raw[i] = "classified" =>
        LET e == home[i]
        IN /\ e # None /\ read[e] # {}
           /\ i \in read[e] \/ \A j \in read[e] : added[i] <= added[j]

(* A batch locks the rows of several events and of trends, in the order of *)
(* its items, and no two batches ever wait for each other.                 *)
BatchesDontDeadlock == ~crossed => Cycles = {}

(* Every stored item is settled in the end, over refused calls, failed     *)
(* runs and deadlocks: the backlog is worked off.  (An item that every     *)
(* batch defers never is: the faults are finitely many.)                   *)
ItemsSettle ==
    (\E i \in Item : raw[i] = "pending") ~> (\A i \in Item : raw[i] \in {"absent"} \cup Settled)

(* Of the copies of one text that are stored, one is processed.            *)
OneCopyKept ==
    \A i \in Item : raw[i] = "duplicate" =>
        \E j \in Copies(i) : Stored(j) /\ raw[j] # "duplicate"
=============================================================================
