-------------------------- MODULE ReplayQueueProofs --------------------------
(***************************************************************************)
(* Type correctness of ReplayQueue, and that a repair is reported complete *)
(* only after its events were replayed, for any events, sessions and       *)
(* bounds. The induction follows the row lock: while a session of the      *)
(* replay task has it, nobody else's replay of the event is committed, so  *)
(* what the session saw when it took the row still covers it at commit.    *)
(***************************************************************************)
EXTENDS ReplayQueue, SequenceTheorems, TLAPS

Copies == UNION {[S -> Rows] : S \in SUBSET Event}
Drafts == UNION {[S -> Reports] : S \in SUBSET Nat}

Runs ==
    [pc : {"idle", "scan", "pick", "work", "reload", "commit", "unsure"},
     left : Int, skip : SUBSET Event, copies : Copies,
     event : Event \cup {None}, item : Rows, marks : Drafts, seen : Nat,
     fate : Fates \cup {"ok"}, tries : Int, wrote : BOOLEAN, again : BOOLEAN]

Typed ==
    /\ ReplayTypeOK
    /\ worker \in [Worker -> Runs]
    /\ served \in [Event -> Nat]

(* A row asks for no repair that has not been, and a row done was replayed *)
(* after the repair it asks for.                                           *)
RowsSound ==
    \A e \in Event :
        /\ queue[e].request <= Len(lineage)
        /\ served[e] <= Len(lineage)
        /\ queue[e].status = "done" => queue[e].request <= served[e]

(* What a run has in hand: row copies that are pending, the lock of the    *)
(* row it works on, and reports of completion that its commit makes true.  *)
PickSound(w) ==
    worker[w].pc = "pick" =>
        \A e \in DOMAIN worker[w].copies :
            /\ worker[w].copies[e].status = "pending"
            /\ worker[w].copies[e].attempts < MaxAttempts
            /\ worker[w].copies[e].request <= Len(lineage)

HeldSound(w) ==
    /\ worker[w].seen <= Len(lineage)
    /\ worker[w].pc \in {"work", "commit", "reload", "unsure"} => worker[w].event \in Event
    /\ worker[w].pc \in {"work", "commit"} =>
          /\ rowLock[worker[w].event] = w
          /\ worker[w].item.request <= Len(lineage)
    /\ worker[w].pc = "work" => worker[w].item.status = "pending"
    /\ \/ worker[w].pc = "work"
       \/ worker[w].pc = "commit" /\ worker[w].item.status = "done"
       => /\ worker[w].item.request <= worker[w].seen
          /\ served[worker[w].event] <= worker[w].seen
    /\ worker[w].pc = "commit" /\ worker[w].item.status = "pending" =>
          worker[w].item.attempts < MaxAttempts

Covers(w, n, d) ==
    \/ n <= served[d]
    \/ d = worker[w].event /\ worker[w].item.status = "done" /\ n <= worker[w].seen
MarksSound(w) ==
    worker[w].pc = "commit" =>
        \A n \in DOMAIN worker[w].marks :
            worker[w].marks[n] = "complete" =>
                n \in DOMAIN lineage /\ \A d \in lineage[n].events : Covers(w, n, d)

Sound(w) == PickSound(w) /\ HeldSound(w) /\ MarksSound(w)

(* A repair under way knows its events. *)
Claims ==
    [pc : {"new", "withdraw", "unqueue", "target", "renew", "split", "merge", "done"},
     from : Event \cup {None}, to : Event \cup {None}, old : SUBSET Nat]
Going(r) == repair[r].pc \notin {"new", "done"}
RepairsKnown ==
    /\ repair \in [Repairer -> Claims]
    /\ \A r \in Repairer :
          /\ Going(r) => repair[r].from \in Event
          /\ repair[r].pc \in {"withdraw", "unqueue", "target", "merge"} =>
                repair[r].to \in Event

IInv == Typed /\ RowsSound /\ CompleteServed /\ \A w \in Worker : Sound(w)

-----------------------------------------------------------------------------
LEMMA EmptyMaps == NoCopies \in Copies /\ NoMarks \in Drafts
<1>1. NoCopies \in [{} -> Rows] /\ NoMarks \in [{} -> Reports]
  BY DEF NoCopies, NoMarks
<1> QED
  BY <1>1 DEF Copies, Drafts

LEMMA IdleTyped == Idle \in Runs
<1>1. NoRow \in Rows
  BY ReplayConstants DEF NoRow, Rows
<1> QED
  BY <1>1, EmptyMaps DEF Idle, Runs, Fates

(* The changes of a run. *)
Picking(r, left, copies) ==
    [r EXCEPT !.pc = "pick", !.left = left, !.copies = copies]
Working(r, event, seen, tries, item) ==
    [r EXCEPT !.pc = "work", !.event = event, !.copies = NoCopies,
              !.seen = seen, !.tries = tries, !.item = item]
Committing(r, item, marks) ==
    [r EXCEPT !.pc = "commit", !.item = item, !.marks = marks]
Failing(r, fate, item, marks) ==
    [r EXCEPT !.pc = "commit", !.fate = fate, !.item = item, !.marks = marks]
Reloading(r, fate) ==
    [r EXCEPT !.pc = "reload", !.fate = fate]
Rebooking(r, tries) ==
    [r EXCEPT !.pc = "reload", !.tries = tries, !.marks = NoMarks]
Unsure(r, wrote) ==
    [r EXCEPT !.pc = "unsure", !.wrote = wrote]
Again(r, fate, tries) ==
    [r EXCEPT !.pc = "reload", !.fate = fate, !.again = TRUE,
              !.tries = tries, !.marks = NoMarks]

(* How a scan changes a run. *)
LEMMA ToPick ==
    ASSUME NEW r \in Runs, NEW left \in Int, NEW copies \in Copies
    PROVE  LET u == Picking(r, left, copies) IN
           /\ u \in Runs
           /\ u.pc = "pick" /\ u.event = r.event /\ u.item = r.item
           /\ u.marks = r.marks /\ u.seen = r.seen /\ u.copies = copies
BY EmptyMaps DEF Runs, Fates, Picking

(* How taking a row changes a run. *)
LEMMA ToWork ==
    ASSUME NEW r \in Runs, NEW event \in Event, NEW seen \in Nat, NEW tries \in Int,
           NEW item \in Rows
    PROVE  LET u == Working(r, event, seen, tries, item) IN
           /\ u \in Runs
           /\ u.pc = "work" /\ u.event = event /\ u.item = item
           /\ u.marks = r.marks /\ u.seen = seen /\ u.copies = NoCopies
<1> DEFINE v == [r EXCEPT !.pc = "work", !.event = event, !.copies = NoCopies]
<1>1. Working(r, event, seen, tries, item) = [v EXCEPT !.seen = seen, !.tries = tries, !.item = item]
  BY DEF Working
<1>2. /\ v \in Runs /\ v.pc = "work" /\ v.event = event
      /\ v.copies = NoCopies /\ v.marks = r.marks
  BY EmptyMaps DEF Runs
<1> HIDE DEF v
<1> QED
  BY <1>1, <1>2 DEF Runs

(* How the outcome of a replay changes a run. *)
LEMMA ToCommit ==
    ASSUME NEW r \in Runs, NEW item \in Rows, NEW marks \in Drafts
    PROVE  LET u == Committing(r, item, marks) IN
           /\ u \in Runs
           /\ u.pc = "commit" /\ u.event = r.event /\ u.item = item
           /\ u.marks = marks /\ u.seen = r.seen /\ u.copies = r.copies
BY EmptyMaps DEF Runs, Fates, Committing

(* How a failure outside the database changes a run. *)
LEMMA ToFailed ==
    ASSUME NEW r \in Runs, NEW fate \in Fates, NEW item \in Rows, NEW marks \in Drafts
    PROVE  LET u == Failing(r, fate, item, marks) IN
           /\ u \in Runs
           /\ u.pc = "commit" /\ u.event = r.event /\ u.item = item
           /\ u.marks = marks /\ u.seen = r.seen /\ u.copies = r.copies
BY EmptyMaps DEF Runs, Fates, Failing

(* How a rollback changes a run. *)
LEMMA ToReload ==
    ASSUME NEW r \in Runs, NEW fate \in Fates
    PROVE  LET u == Reloading(r, fate) IN
           /\ u \in Runs
           /\ u.pc = "reload" /\ u.event = r.event /\ u.item = r.item
           /\ u.marks = r.marks /\ u.seen = r.seen /\ u.copies = r.copies
BY EmptyMaps DEF Runs, Fates, Reloading

(* How a failed booking changes a run. *)
LEMMA ToRebook ==
    ASSUME NEW r \in Runs, NEW tries \in Int
    PROVE  LET u == Rebooking(r, tries) IN
           /\ u \in Runs
           /\ u.pc = "reload" /\ u.event = r.event /\ u.item = r.item
           /\ u.marks = NoMarks /\ u.seen = r.seen /\ u.copies = r.copies
BY EmptyMaps DEF Runs, Fates, Rebooking

(* How a commit reported as failed changes a run. *)
LEMMA ToUnsure ==
    ASSUME NEW r \in Runs, NEW wrote \in BOOLEAN
    PROVE  LET u == Unsure(r, wrote) IN
           /\ u \in Runs
           /\ u.pc = "unsure" /\ u.event = r.event /\ u.item = r.item
           /\ u.marks = r.marks /\ u.seen = r.seen /\ u.copies = r.copies
BY EmptyMaps DEF Runs, Fates, Unsure

(* How an unconfirmed commit changes a run. *)
LEMMA ToAgain ==
    ASSUME NEW r \in Runs, NEW fate \in Fates, NEW tries \in Int
    PROVE  LET u == Again(r, fate, tries) IN
           /\ u \in Runs
           /\ u.pc = "reload" /\ u.event = r.event /\ u.item = r.item
           /\ u.marks = NoMarks /\ u.seen = r.seen /\ u.copies = r.copies
<1> DEFINE v == [r EXCEPT !.pc = "reload", !.fate = fate, !.again = TRUE]
<1>1. Again(r, fate, tries) = [v EXCEPT !.tries = tries, !.marks = NoMarks]
  BY DEF Again
<1>2. /\ v \in Runs /\ v.pc = "reload" /\ v.event = r.event
      /\ v.copies = r.copies /\ v.item = r.item /\ v.seen = r.seen
  BY DEF Runs, Fates
<1> HIDE DEF v
<1> QED
  BY <1>1, <1>2, EmptyMaps DEF Runs

(* A sequence by its domain. *)
LEMMA SeqByDomain ==
    ASSUME NEW S, NEW n \in Nat, NEW f \in [1..n -> S]
    PROVE  f \in Seq(S) /\ Len(f) = n
OBVIOUS

LEMMA LineageDomain ==
    ASSUME ReplayTypeOK
    PROVE  /\ Len(lineage) \in Nat
           /\ DOMAIN lineage = 1..Len(lineage)
           /\ \A n \in DOMAIN lineage : lineage[n] \in Lineages
BY DEF ReplayTypeOK

(* A run whose state nobody touches stays sound while the ledger grows and *)
(* nobody else's replay of its event is committed.                         *)
Grown ==
    /\ Len(lineage) <= Len(lineage')
    /\ DOMAIN lineage \subseteq DOMAIN lineage'
    /\ \A n \in DOMAIN lineage : lineage'[n].events = lineage[n].events
    /\ \A e \in Event : served[e] <= served'[e]

LEMMA Kept ==
    ASSUME Typed, Typed', NEW w \in Worker, Sound(w), Grown,
           worker'[w] = worker[w],
           \A e \in Event : rowLock[e] = w =>
               rowLock'[e] = w /\ served'[e] = served[e]
    PROVE  Sound(w)'
<1> USE DEF Typed
<1>1. /\ Len(lineage) \in Nat /\ Len(lineage') \in Nat
      /\ \A n \in DOMAIN lineage : n \in Nat /\ lineage[n].events \subseteq Event
  BY LineageDomain DEF ReplayTypeOK, Lineages
<1>2. worker[w] \in Runs /\ worker[w].item \in Rows /\ worker[w].seen \in Nat
  BY DEF Runs
<1>3. PickSound(w)'
  <2>1. \A e \in DOMAIN worker[w].copies : worker[w].copies[e].request \in Nat
    BY <1>2 DEF Runs, Copies, Rows
  <2> QED
    BY <1>1, <2>1 DEF Sound, PickSound, Grown
<1>4. HeldSound(w)'
  BY <1>1, <1>2 DEF Sound, HeldSound, Grown, Rows
<1>5. MarksSound(w)'
  <2> SUFFICES ASSUME worker[w].pc = "commit", NEW n \in DOMAIN worker[w].marks,
                      worker[w].marks[n] = "complete"
               PROVE  /\ n \in DOMAIN lineage'
                      /\ \A d \in lineage'[n].events : Covers(w, n, d)'
    BY DEF MarksSound
  <2>1. n \in DOMAIN lineage /\ \A d \in lineage[n].events : Covers(w, n, d)
    BY DEF Sound, MarksSound
  <2>2. \A d \in lineage[n].events :
            served[d] \in Nat /\ served'[d] \in Nat /\ served[d] <= served'[d]
    BY <1>1, <2>1 DEF Grown
  <2> QED
    BY <1>1, <1>2, <2>1, <2>2 DEF Covers, Grown
<1> QED
  BY <1>3, <1>4, <1>5 DEF Sound

-----------------------------------------------------------------------------
(* Steps of a run that leave the committed state alone.                    *)
LEMMA LocalStep ==
    ASSUME IInv, NEW w \in Worker, NEW u \in Runs,
           worker' = [worker EXCEPT ![w] = u],
           UNCHANGED <<queue, lineage, served, stock, degraded>>,
           rowLock' \in [Event -> Session \cup {None}],
           itemLock' \in [Event -> Session \cup {None}],
           eventLock' \in [Event -> Session \cup {None}],
           \A e \in Event : rowLock[e] # w => rowLock'[e] = rowLock[e] \/ rowLock[e] = None,
           Sound(w)'
    PROVE  IInv'
<1> USE DEF IInv
<1>1. Typed'
  BY DEF Typed, ReplayTypeOK, Pending
<1>2. RowsSound' /\ CompleteServed'
  BY DEF RowsSound, CompleteServed
<1>3. Grown
  BY <1>1, LineageDomain DEF Grown, Typed
<1>4. ASSUME NEW v \in Worker, v # w PROVE Sound(v)'
  <2>1. worker'[v] = worker[v]
    BY <1>4 DEF Typed
  <2>2. v # None
    BY ReplayConstants
  <2> QED
    BY <1>1, <1>3, <1>4, <2>1, <2>2, Kept
<1> QED
  BY <1>1, <1>2, <1>4

LEMMA FreedTyped ==
    ASSUME NEW lock \in [Event -> Session \cup {None}], NEW s
    PROVE  /\ Freed(lock, s) \in [Event -> Session \cup {None}]
           /\ \A e \in Event : lock[e] # s => Freed(lock, s)[e] = lock[e]
BY DEF Freed

(* A run with nothing in hand is sound. *)
LEMMA EmptyHanded ==
    ASSUME IInv, lineage' = lineage, NEW w \in Worker,
           worker'[w].pc \in {"idle", "scan"}, worker'[w].seen = 0
    PROVE  Sound(w)'
BY LineageDomain DEF IInv, Typed, Sound, PickSound, HeldSound, MarksSound

LEMMA FinishRun ==
    ASSUME IInv, NEW w \in Worker, NEW skip \in SUBSET Event, Finish(w, skip)
    PROVE  \E u \in Runs : /\ worker' = [worker EXCEPT ![w] = u]
                           /\ u.pc \in {"idle", "scan"} /\ u.seen = 0
<1>1. worker[w] \in Runs
  BY DEF IInv, Typed
<1>2. CASE worker[w].left = 1
  BY <1>2, IdleTyped DEF Finish, Idle
<1>3. CASE worker[w].left # 1
  <2> DEFINE left == worker[w].left - 1
             skips == worker[w].skip \cup skip
             u == [Idle EXCEPT !.pc = "scan", !.left = left, !.skip = skips]
  <2>1. left \in Int /\ skips \in SUBSET Event
    BY <1>1 DEF Runs
  <2>2. worker' = [worker EXCEPT ![w] = u]
    BY <1>3 DEF Finish
  <2> HIDE DEF left, skips
  <2>3. u \in Runs
    BY <2>1, IdleTyped DEF Runs
  <2>4. u.pc = "scan" /\ u.seen = 0
    BY DEF Idle
  <2> QED
    BY <2>2, <2>3, <2>4
<1> QED
  BY <1>2, <1>3

LEMMA RunFacts ==
    ASSUME IInv, NEW w \in Worker
    PROVE  /\ worker[w] \in Runs
           /\ worker[w].event \in Event => {worker[w].event} \in SUBSET Event
           /\ w \in Session /\ w # None
           /\ rowLock \in [Event -> Session \cup {None}]
           /\ itemLock \in [Event -> Session \cup {None}]
           /\ eventLock \in [Event -> Session \cup {None}]
           /\ queue \in [Event -> Rows]
           /\ Len(lineage) \in Nat
BY ReplayConstants, LineageDomain DEF IInv, Typed, ReplayTypeOK, Session

(* A step after which the run has nothing in hand. *)
LEMMA LetGo ==
    ASSUME IInv, NEW w \in Worker,
           NEW u \in Runs, u.pc \in {"idle", "scan"}, u.seen = 0,
           worker' = [worker EXCEPT ![w] = u],
           UNCHANGED <<queue, lineage, served, stock, degraded>>,
           Release(w) \/ UNCHANGED locks
    PROVE  IInv'
<1>1. worker'[w] = u
  BY RunFacts DEF IInv, Typed
<1>2. Sound(w)'
  BY <1>1, EmptyHanded
<1>3. /\ rowLock' \in [Event -> Session \cup {None}]
      /\ itemLock' \in [Event -> Session \cup {None}]
      /\ eventLock' \in [Event -> Session \cup {None}]
      /\ \A e \in Event : rowLock[e] # w => rowLock'[e] = rowLock[e]
  BY RunFacts, FreedTyped DEF Release, locks
<1> QED
  BY <1>2, <1>3, LocalStep

LEMMA ScanStep == ASSUME IInv, NEW w \in Worker, Scan(w) PROVE IInv'
<1> DEFINE found == {e \in Event \ worker[w].skip : Ready(queue[e])}
           loaded == [e \in found |-> queue[e]]
           budget == IF At(w, "idle") THEN RunLimit ELSE worker[w].left
           u == Picking(worker[w], budget, loaded)
<1>1. CASE found = {}
  BY <1>1, IdleTyped, LetGo DEF Scan, Quit, locks, Idle
<1>2. CASE found # {}
  <2>1. worker' = [worker EXCEPT ![w] = u]
    BY <1>2, RunFacts DEF Scan, IInv, Typed, Picking
  <2>2. loaded \in Copies
    <3>1. loaded \in [found -> Rows] /\ found \in SUBSET Event
      BY RunFacts
    <3> QED
      BY <3>1 DEF Copies
  <2>3. budget \in Int
    BY RunFacts, ReplayConstants DEF Runs
  <2>4. \A e \in DOMAIN loaded : /\ loaded[e].status = "pending"
                                 /\ loaded[e].attempts < MaxAttempts
                                 /\ loaded[e].request <= Len(lineage)
    <3>1. \A e \in Event : /\ queue[e].status = "pending" => queue[e].attempts < MaxAttempts
                           /\ queue[e].request <= Len(lineage)
      BY DEF IInv, Typed, ReplayTypeOK, Pending, RowsSound
    <3> QED
      BY <3>1 DEF Ready
  <2> HIDE DEF loaded, budget, found
  <2>5. /\ u \in Runs /\ u.pc = "pick" /\ u.copies = loaded
        /\ u.seen = worker[w].seen
    BY <2>2, <2>3, RunFacts, ToPick
  <2> HIDE DEF u
  <2>6. worker'[w] = u
    BY <2>1 DEF IInv, Typed
  <2>7. UNCHANGED <<queue, lineage, served, stock, degraded, rowLock, itemLock, eventLock>>
    BY DEF Scan, locks
  <2>8. Sound(w)'
    BY <2>4, <2>5, <2>6, <2>7 DEF Sound, PickSound, HeldSound, MarksSound, IInv
  <2> QED
    BY <2>1, <2>5, <2>7, <2>8, RunFacts, LocalStep
<1> QED
  BY <1>1, <1>2

LEMMA PickStep == ASSUME IInv, NEW w \in Worker, Pick(w) PROVE IInv'
<1>1. CASE Pickable(w) = {}
  BY <1>1, IdleTyped, LetGo DEF Pick, Quit, locks, Idle
<1>2. ASSUME NEW e \in Pickable(w),
             rowLock' = [rowLock EXCEPT ![e] = w],
             worker' = [worker EXCEPT ![w].pc = "work", ![w].event = e,
                 ![w].copies = NoCopies, ![w].seen = Len(lineage), ![w].tries = 2,
                 ![w].item = [worker[w].copies[e] EXCEPT !.attempts = @ + 1]]
      PROVE  IInv'
  <2> DEFINE taken == [worker[w].copies[e] EXCEPT !.attempts = @ + 1]
             u == Working(worker[w], e, Len(lineage), 2, taken)
  <2>1. worker[w].pc = "pick" /\ e \in DOMAIN worker[w].copies
    BY DEF Pick, At, Pickable
  <2>2. /\ e \in Event /\ worker[w].copies[e] \in Rows
        /\ worker[w].copies[e].status = "pending"
        /\ worker[w].copies[e].attempts < MaxAttempts
        /\ worker[w].copies[e].request <= Len(lineage)
    BY <2>1, RunFacts DEF IInv, Sound, PickSound, Runs, Copies
  <2>3. /\ taken \in Rows /\ taken.status = "pending" /\ taken.request <= Len(lineage)
    BY <2>2, ReplayConstants DEF Rows
  <2>4. rowLock[e] = None
    BY DEF Pickable
  <2>5. worker' = [worker EXCEPT ![w] = u]
    BY <1>2, RunFacts DEF IInv, Typed, Working
  <2> HIDE DEF taken
  <2>6. /\ u \in Runs /\ u.pc = "work" /\ u.event = e /\ u.item = taken
        /\ u.seen = Len(lineage)
    <3>1. 2 \in Int
      OBVIOUS
    <3> QED
      BY <2>2, <2>3, <3>1, RunFacts, ToWork
  <2> HIDE DEF u
  <2>7. worker'[w] = u
    BY <2>5 DEF IInv, Typed
  <2>8. UNCHANGED <<queue, lineage, served, stock, degraded, itemLock, eventLock>>
    BY DEF Pick
  <2>9. rowLock' \in [Event -> Session \cup {None}] /\ rowLock'[e] = w
    BY <1>2, <2>2, RunFacts
  <2>10. served[e] <= Len(lineage)
    BY <2>2 DEF IInv, RowsSound
  <2>11. Sound(w)'
    BY <2>2, <2>3, <2>6, <2>7, <2>8, <2>9, <2>10, RunFacts
       DEF Sound, PickSound, HeldSound, MarksSound
  <2>12. \A d \in Event : rowLock[d] # w => rowLock'[d] = rowLock[d] \/ rowLock[d] = None
    BY <1>2, <2>4, RunFacts
  <2> QED
    BY <2>5, <2>6, <2>8, <2>9, <2>11, <2>12, RunFacts, LocalStep
<1> QED
  BY <1>1, <1>2 DEF Pick

-----------------------------------------------------------------------------
(* The reports a run is to write.                                          *)

LEMMA MarksTyped ==
    ASSUME IInv, NEW e \in Event, NEW item \in Rows
    PROVE  Marks(e, item) \in Drafts
<1>1. Repairs(e) \subseteq DOMAIN lineage /\ DOMAIN lineage \subseteq Nat
  BY LineageDomain DEF Repairs, IInv, Typed
<1>2. ASSUME NEW n \in DOMAIN lineage, NEW of PROVE Report(n, of) \in Reports
  BY LineageDomain DEF Report, Reports, Lineages, IInv, Typed
<1>3. [n \in Repairs(e) |-> Report(n, Status(e, item))] \in [Repairs(e) -> Reports]
  BY <1>1, <1>2
<1> QED
  BY <1>1, <1>3, EmptyMaps DEF Marks, Drafts

(* A report of completion needs every row to answer for the repair. *)
LEMMA MarksCover ==
    ASSUME IInv, NEW e \in Event, NEW item \in Rows, NEW seen \in Nat,
           item.status = "done" => item.request <= seen,
           NEW n \in DOMAIN Marks(e, item), Marks(e, item)[n] = "complete"
    PROVE  /\ n \in DOMAIN lineage
           /\ \A d \in lineage[n].events :
                 \/ n <= served[d]
                 \/ d = e /\ item.status = "done" /\ n <= seen
<1>1. item.status \in {"done", "error"}
  BY DEF Marks, NoMarks
<1>2. n \in DOMAIN lineage /\ e \in lineage[n].events /\ Report(n, Status(e, item)) = "complete"
  BY <1>1 DEF Marks, Repairs
<1>3. lineage[n].events \subseteq Event
  BY <1>2, LineageDomain DEF IInv, Typed, Lineages
<1>4. CASE lineage[n].report = "complete"
  BY <1>2, <1>4 DEF IInv, CompleteServed
<1>5. CASE lineage[n].report # "complete"
  <2> DEFINE all == {Status(e, item)[n][d] : d \in lineage[n].events}
  <2>1. all = {"done"}
    BY <1>2, <1>5 DEF Report
  <2>2. ASSUME NEW d \in lineage[n].events PROVE Status(e, item)[n][d] = "done"
    BY <2>1
  <2> SUFFICES ASSUME NEW d \in lineage[n].events
               PROVE  \/ n <= served[d]
                      \/ d = e /\ item.status = "done" /\ n <= seen
    BY <1>2
  <2>3. CASE d = e
    <3>1. item.status = "done" /\ item.request = n
      BY <1>2, <2>2, <2>3 DEF Status
    <3> QED
      BY <2>3, <3>1
  <2>4. CASE d # e
    <3>1. queue[d].status = "done" /\ queue[d].request = n
      BY <1>2, <2>2, <2>4 DEF Status
    <3> QED
      BY <1>3, <3>1 DEF IInv, RowsSound
  <2> QED
    BY <2>3, <2>4
<1> QED
  BY <1>4, <1>5

(* A run that has decided what it writes. *)
LEMMA Decided ==
    ASSUME IInv, NEW w \in Worker, NEW u \in Runs,
           worker' = [worker EXCEPT ![w] = u],
           UNCHANGED <<queue, lineage, served, stock, degraded, itemLock>>,
           rowLock' \in [Event -> Session \cup {None}],
           eventLock' \in [Event -> Session \cup {None}],
           \A e \in Event : rowLock[e] # w => rowLock'[e] = rowLock[e] \/ rowLock[e] = None,
           u.pc = "commit", u.event \in Event, u.seen = worker[w].seen,
           rowLock'[u.event] = w,
           u.item.request <= Len(lineage),
           u.marks = Marks(u.event, u.item),
           u.item.status = "pending" => u.item.attempts < MaxAttempts,
           u.item.status = "done" => /\ u.item.request <= u.seen
                                     /\ served[u.event] <= u.seen
    PROVE  IInv'
<1>1. worker'[w] = u
  BY DEF IInv, Typed
<1>2. u.item \in Rows /\ u.seen \in Nat
  BY DEF Runs
<1>3. PickSound(w)' /\ HeldSound(w)'
  BY <1>1 DEF IInv, Sound, PickSound, HeldSound
<1>4. MarksSound(w)'
  <2> SUFFICES ASSUME NEW n \in DOMAIN u.marks, u.marks[n] = "complete"
               PROVE  /\ n \in DOMAIN lineage
                      /\ \A d \in lineage[n].events : Covers(w, n, d)'
    BY <1>1 DEF MarksSound
  <2>1. /\ n \in DOMAIN lineage
        /\ \A d \in lineage[n].events :
              \/ n <= served[d]
              \/ d = u.event /\ u.item.status = "done" /\ n <= u.seen
    BY <1>2, MarksCover
  <2> QED
    BY <1>1, <2>1 DEF Covers
<1> QED
  BY <1>3, <1>4, RunFacts, LocalStep DEF Sound

LEMMA ReplayStep == ASSUME IInv, NEW w \in Worker, Replay(w) PROVE IInv'
<1> DEFINE e == worker[w].event
           item == [worker[w].item EXCEPT !.status = "done", !.due = TRUE]
           marks == Marks(e, item)
           u == Committing(worker[w], item, marks)
<1>1. worker' = [worker EXCEPT ![w] = u]
  <2>1. worker \in [Worker -> Runs]
    BY DEF IInv, Typed
  <2>2. worker' = [worker EXCEPT ![w].pc = "commit", ![w].item = item, ![w].marks = marks]
    BY DEF Replay
  <2> HIDE DEF item, marks
  <2> QED
    BY <2>1, <2>2 DEF Committing
<1>2. /\ worker[w].pc = "work" /\ e \in Event /\ rowLock[e] = w
      /\ worker[w].item.request <= Len(lineage)
      /\ worker[w].item.request <= worker[w].seen /\ served[e] <= worker[w].seen
  BY DEF Replay, At, IInv, Sound, HeldSound
<1>3. item \in Rows /\ item.status = "done" /\ item.request = worker[w].item.request
  <2>1. worker[w].item \in Rows
    BY RunFacts DEF Runs
  <2> QED
    BY <2>1 DEF Rows
<1>4. marks \in Drafts
  BY <1>2, <1>3, MarksTyped
<1>5. eventLock' \in [Event -> Session \cup {None}]
  BY <1>2, RunFacts DEF Replay
<1>6. UNCHANGED <<queue, lineage, served, stock, degraded, itemLock, rowLock>>
  BY DEF Replay
<1> HIDE DEF item
<1>7. /\ u \in Runs /\ u.pc = "commit" /\ u.event = e /\ u.item = item
      /\ u.marks = marks /\ u.seen = worker[w].seen
  BY <1>3, <1>4, RunFacts, ToCommit
<1> HIDE DEF u
<1> QED
  BY <1>1, <1>2, <1>3, <1>5, <1>6, <1>7, RunFacts, Decided

(* A failure booked leaves a row of its type, pending with attempts left   *)
(* or terminal.                                                            *)
LEMMA BookedRow ==
    ASSUME NEW row \in Rows, NEW attempts \in 0..MaxAttempts, NEW fate
    PROVE  LET failed == Booked(row, attempts, fate) IN
           /\ failed \in Rows /\ failed.request = row.request
           /\ failed.status # "done"
           /\ failed.status = "pending" => failed.attempts < MaxAttempts
BY ReplayConstants DEF Booked, Rows

LEMMA FailCallStep == ASSUME IInv, NEW w \in Worker, FailCall(w) PROVE IInv'
<1>1. PICK fate \in Fates :
        worker' = [worker EXCEPT ![w].pc = "commit", ![w].fate = fate,
            ![w].item = Booked(worker[w].item, worker[w].item.attempts, fate),
            ![w].marks = Marks(worker[w].event,
                               Booked(worker[w].item, worker[w].item.attempts, fate))]
  BY DEF FailCall
<1> DEFINE e == worker[w].event
           item == Booked(worker[w].item, worker[w].item.attempts, fate)
           marks == Marks(e, item)
           u == Failing(worker[w], fate, item, marks)
<1>2. worker' = [worker EXCEPT ![w] = u]
  BY <1>1, RunFacts DEF IInv, Typed, Failing
<1>3. /\ worker[w].pc = "work" /\ e \in Event /\ rowLock[e] = w
      /\ worker[w].item.request <= Len(lineage)
  BY DEF FailCall, At, IInv, Sound, HeldSound
<1>4. /\ item \in Rows /\ item.request = worker[w].item.request
      /\ item.status # "done"
      /\ item.status = "pending" => item.attempts < MaxAttempts
  <2>1. worker[w].item \in Rows /\ worker[w].item.attempts \in 0..MaxAttempts
    BY RunFacts DEF Runs, Rows
  <2> QED
    BY <2>1, BookedRow
<1>5. marks \in Drafts
  BY <1>3, <1>4, MarksTyped
<1>6. UNCHANGED <<queue, lineage, served, stock, degraded, rowLock, itemLock, eventLock>>
  BY DEF FailCall, locks
<1> HIDE DEF item
<1>7. /\ u \in Runs /\ u.pc = "commit" /\ u.event = e /\ u.item = item
      /\ u.marks = marks /\ u.seen = worker[w].seen
  BY <1>4, <1>5, RunFacts, ToFailed
<1> HIDE DEF u
<1> QED
  BY <1>2, <1>3, <1>4, <1>6, <1>7, RunFacts, Decided

LEMMA ReloadStep == ASSUME IInv, NEW w \in Worker, Reload(w) PROVE IInv'
<1> DEFINE e == worker[w].event
           item == Booked(queue[e], worker[w].item.attempts, worker[w].fate)
           marks == Marks(e, item)
           u == Committing(worker[w], item, marks)
<1>1. worker[w].pc = "reload" /\ e \in Event /\ rowLock[e] = None
  BY DEF Reload, At, IInv, Sound, HeldSound
<1>2. UNCHANGED <<queue, lineage, served, stock, degraded, itemLock, eventLock>>
  BY DEF Reload
<1>3. CASE queue[e].status = "pending"
  <2>1. worker' = [worker EXCEPT ![w] = u] /\ rowLock' = [rowLock EXCEPT ![e] = w]
    BY <1>3, RunFacts DEF Reload, IInv, Typed, Committing
  <2>2. /\ item \in Rows /\ item.request = queue[e].request
        /\ item.status # "done"
        /\ item.status = "pending" => item.attempts < MaxAttempts
    <3>1. queue[e] \in Rows /\ worker[w].item.attempts \in 0..MaxAttempts
      BY <1>1, RunFacts DEF Runs, Rows
    <3> QED
      BY <3>1, BookedRow
  <2>3. marks \in Drafts
    BY <1>1, <2>2, MarksTyped
  <2>4. queue[e].request <= Len(lineage)
    BY <1>1 DEF IInv, RowsSound
  <2>5. /\ rowLock' \in [Event -> Session \cup {None}] /\ rowLock'[e] = w
        /\ \A d \in Event : rowLock[d] # w => rowLock'[d] = rowLock[d] \/ rowLock[d] = None
    BY <1>1, <2>1, RunFacts
  <2> HIDE DEF item
  <2>6. /\ u \in Runs /\ u.pc = "commit" /\ u.event = e /\ u.item = item
        /\ u.marks = marks /\ u.seen = worker[w].seen
    BY <2>2, <2>3, RunFacts, ToCommit
  <2> HIDE DEF u
  <2> QED
    BY <1>1, <1>2, <2>1, <2>2, <2>4, <2>5, <2>6, RunFacts, Decided
<1>4. CASE queue[e].status # "pending"
  <2> DEFINE skip == IF worker[w].tries < 2 THEN {e} ELSE {}
  <2>1. skip \in SUBSET Event /\ Finish(w, skip) /\ rowLock' = rowLock
    BY <1>1, <1>4 DEF Reload
  <2> HIDE DEF skip
  <2>2. PICK v \in Runs : /\ worker' = [worker EXCEPT ![w] = v]
                          /\ v.pc \in {"idle", "scan"} /\ v.seen = 0
    BY <2>1, FinishRun
  <2> QED
    BY <1>2, <2>1, <2>2, LetGo DEF locks
<1> QED
  BY <1>3, <1>4

(* A run that has lost or given up its row, and keeps the event in mind. *)
LEMMA Shelved ==
    ASSUME IInv, NEW w \in Worker, NEW u \in Runs,
           worker' = [worker EXCEPT ![w] = u],
           UNCHANGED <<queue, lineage, served, stock, degraded>>,
           Release(w) \/ UNCHANGED locks,
           u.pc = "reload", u.event \in Event, u.seen = worker[w].seen
    PROVE  IInv'
<1>1. worker'[w] = u
  BY DEF IInv, Typed
<1>2. Sound(w)'
  BY <1>1 DEF IInv, Sound, PickSound, HeldSound, MarksSound
<1>3. /\ rowLock' \in [Event -> Session \cup {None}]
      /\ itemLock' \in [Event -> Session \cup {None}]
      /\ eventLock' \in [Event -> Session \cup {None}]
      /\ \A e \in Event : rowLock[e] # w => rowLock'[e] = rowLock[e]
  BY RunFacts, FreedTyped DEF Release, locks
<1> QED
  BY <1>2, <1>3, LocalStep

LEMMA FailStatementStep == ASSUME IInv, NEW w \in Worker, FailStatement(w) PROVE IInv'
<1>1. PICK fate \in Fates : worker' = [worker EXCEPT ![w].pc = "reload", ![w].fate = fate]
  BY DEF FailStatement
<1> DEFINE u == Reloading(worker[w], fate)
<1>2. worker' = [worker EXCEPT ![w] = u]
  BY <1>1, RunFacts DEF IInv, Typed, Reloading
<1>3. worker[w].event \in Event
  BY DEF FailStatement, At, IInv, Sound, HeldSound
<1>4. u \in Runs /\ u.pc = "reload" /\ u.event = worker[w].event /\ u.seen = worker[w].seen
  BY RunFacts, ToReload
<1>5. UNCHANGED <<queue, lineage, served, stock, degraded>> /\ Release(w)
  BY DEF FailStatement
<1> HIDE DEF u
<1> QED
  BY <1>2, <1>3, <1>4, <1>5, Shelved

LEMMA FailBookingStep == ASSUME IInv, NEW w \in Worker, FailBooking(w) PROVE IInv'
<1>1. worker[w].event \in Event
  BY DEF FailBooking, At, IInv, Sound, HeldSound
<1>2. UNCHANGED <<queue, lineage, served, stock, degraded>> /\ Release(w)
  BY DEF FailBooking
<1>3. CASE worker[w].tries > 1
  <2> DEFINE tries == worker[w].tries - 1
             u == Rebooking(worker[w], tries)
  <2>1. worker' = [worker EXCEPT ![w] = u]
    BY <1>3, RunFacts DEF FailBooking, IInv, Typed, Rebooking
  <2>2. tries \in Int
    BY RunFacts DEF Runs
  <2> HIDE DEF tries
  <2>3. u \in Runs /\ u.pc = "reload" /\ u.event = worker[w].event /\ u.seen = worker[w].seen
    BY <2>2, RunFacts, ToRebook
  <2> HIDE DEF u
  <2> QED
    BY <1>1, <1>2, <2>1, <2>3, Shelved
<1>4. CASE ~(worker[w].tries > 1)
  <2>1. Finish(w, {worker[w].event}) /\ {worker[w].event} \in SUBSET Event
    BY <1>1, <1>4 DEF FailBooking
  <2>2. PICK v \in Runs : /\ worker' = [worker EXCEPT ![w] = v]
                          /\ v.pc \in {"idle", "scan"} /\ v.seen = 0
    BY <2>1, FinishRun
  <2> QED
    BY <1>2, <2>2, LetGo
<1> QED
  BY <1>3, <1>4

LEMMA ResolveStep == ASSUME IInv, NEW w \in Worker, Resolve(w) PROVE IInv'
<1>1. worker[w].event \in Event
  BY DEF Resolve, At, IInv, Sound, HeldSound
<1>2. UNCHANGED <<queue, lineage, served, stock, degraded>> /\ UNCHANGED locks
  BY DEF Resolve
<1>3. ASSUME NEW skip \in SUBSET Event, Finish(w, skip) PROVE IInv'
  <2>1. PICK v \in Runs : /\ worker' = [worker EXCEPT ![w] = v]
                          /\ v.pc \in {"idle", "scan"} /\ v.seen = 0
    BY <1>3, FinishRun
  <2> QED
    BY <1>2, <2>1, LetGo
<1>4. ASSUME NEW fate \in Fates,
             worker' = [worker EXCEPT ![w].pc = "reload", ![w].fate = fate,
                            ![w].again = TRUE, ![w].tries = 2, ![w].marks = NoMarks]
      PROVE  IInv'
  <2> DEFINE u == Again(worker[w], fate, 2)
  <2>1. worker' = [worker EXCEPT ![w] = u]
    BY <1>4, RunFacts DEF IInv, Typed, Again
  <2>2. u \in Runs /\ u.pc = "reload" /\ u.event = worker[w].event /\ u.seen = worker[w].seen
    <3>1. 2 \in Int
      OBVIOUS
    <3> QED
      BY <3>1, RunFacts, ToAgain
  <2> HIDE DEF u
  <2> QED
    BY <1>1, <1>2, <2>1, <2>2, Shelved
<1>5. {} \in SUBSET Event /\ {worker[w].event} \in SUBSET Event
  BY <1>1
<1>6. worker[w].fate # "ok" => worker[w].fate \in Fates
  BY RunFacts DEF Runs
<1> QED
  BY <1>3, <1>4, <1>5, <1>6 DEF Resolve

LEMMA CrashStep == ASSUME IInv, NEW w \in Worker, Crash(w) PROVE IInv'
BY IdleTyped, LetGo DEF Crash, Quit, Idle

-----------------------------------------------------------------------------
(* The commits of the replay task.                                         *)

(* Writing the reports keeps the ledger's length and the repairs' events. *)
LEMMA MarkedLedger ==
    ASSUME IInv, NEW marks \in Drafts
    PROVE  /\ Marked(marks) \in Seq(Lineages)
           /\ Len(Marked(marks)) = Len(lineage)
           /\ DOMAIN Marked(marks) = DOMAIN lineage
           /\ \A n \in DOMAIN lineage :
                 /\ Marked(marks)[n].events = lineage[n].events
                 /\ Marked(marks)[n].report = IF n \in DOMAIN marks THEN marks[n]
                                              ELSE lineage[n].report
<1>1. /\ Len(lineage) \in Nat /\ DOMAIN lineage = 1..Len(lineage)
      /\ \A n \in DOMAIN lineage : lineage[n] \in Lineages
  BY LineageDomain DEF IInv, Typed
<1>2. \A n \in DOMAIN marks : marks[n] \in Reports
  BY DEF Drafts
<1>3. /\ DOMAIN Marked(marks) = DOMAIN lineage
      /\ \A n \in DOMAIN lineage :
                 /\ Marked(marks)[n] \in Lineages
                 /\ Marked(marks)[n].events = lineage[n].events
                 /\ Marked(marks)[n].report = IF n \in DOMAIN marks THEN marks[n]
                                              ELSE lineage[n].report
  BY <1>1, <1>2 DEF Marked, Lineages
<1>4. Marked(marks) \in [1..Len(lineage) -> Lineages]
  BY <1>1, <1>3 DEF Marked
<1> QED
  BY <1>1, <1>3, <1>4, SeqByDomain

LEMMA EffectStep ==
    ASSUME IInv, NEW w \in Worker, worker[w].pc = "commit", Effect(w), Release(w),
           UNCHANGED <<stock, degraded>>,
           NEW u \in Runs, worker' = [worker EXCEPT ![w] = u],
           u.pc \in {"idle", "scan", "unsure"}, u.seen <= Len(lineage),
           u.pc = "unsure" => u.event \in Event
    PROVE  IInv'
<1> DEFINE e == worker[w].event
           item == worker[w].item
           marks == worker[w].marks
<1>1. /\ e \in Event /\ rowLock[e] = w
      /\ item \in Rows /\ item.request <= Len(lineage)
      /\ item.status = "done" => item.request <= worker[w].seen /\ served[e] <= worker[w].seen
      /\ item.status = "pending" => item.attempts < MaxAttempts
      /\ worker[w].seen \in Nat /\ worker[w].seen <= Len(lineage)
      /\ marks \in Drafts
  BY RunFacts DEF IInv, Sound, HeldSound, Runs
<1>2. /\ lineage' \in Seq(Lineages) /\ Len(lineage') = Len(lineage)
      /\ DOMAIN lineage' = DOMAIN lineage
      /\ \A n \in DOMAIN lineage :
            /\ lineage'[n].events = lineage[n].events
            /\ lineage'[n].report = IF n \in DOMAIN marks THEN marks[n]
                                    ELSE lineage[n].report
  BY <1>1, MarkedLedger DEF Effect
<1>3. /\ \A n \in DOMAIN lineage : n \in Nat /\ lineage[n].events \subseteq Event
      /\ Len(lineage) \in Nat
  BY LineageDomain DEF IInv, Typed, Lineages
<1>4. queue' = [queue EXCEPT ![e] = item]
  BY DEF Effect
<1>5. served' = IF item.status = "done"
                THEN [served EXCEPT ![e] = worker[w].seen] ELSE served
  BY DEF Effect
<1>6. served \in [Event -> Nat] /\ queue \in [Event -> Rows]
  BY DEF IInv, Typed, ReplayTypeOK
<1>7. /\ served' \in [Event -> Nat]
      /\ \A d \in Event : served[d] <= served'[d] /\ (d # e => served'[d] = served[d])
      /\ item.status = "done" => served'[e] = worker[w].seen
      /\ item.status # "done" => served'[e] = served[e]
  BY <1>1, <1>5, <1>6
<1>8. rowLock' \in [Event -> Session \cup {None}]
      /\ itemLock' \in [Event -> Session \cup {None}]
      /\ eventLock' \in [Event -> Session \cup {None}]
      /\ \A d \in Event : rowLock[d] # w => rowLock'[d] = rowLock[d]
  BY RunFacts, FreedTyped DEF Release
<1>9. queue' \in [Event -> Rows] /\ queue'[e] = item
      /\ \A d \in Event : d # e => queue'[d] = queue[d]
  BY <1>1, <1>4, <1>6
<1> HIDE DEF item, marks, e
<1>10. Typed'
  <2>1. \A d \in Pending' : queue'[d].attempts < MaxAttempts
    BY <1>1, <1>9 DEF Pending, IInv, Typed, ReplayTypeOK
  <2>2. worker' \in [Worker -> Runs]
    BY DEF IInv, Typed
  <2> QED
    BY <1>2, <1>7, <1>8, <1>9, <2>1, <2>2 DEF IInv, Typed, ReplayTypeOK
<1>11. RowsSound'
  BY <1>1, <1>2, <1>7, <1>9 DEF IInv, RowsSound
<1>12. CompleteServed'
  <2> SUFFICES ASSUME NEW n \in DOMAIN lineage, lineage'[n].report = "complete",
                      NEW d \in lineage[n].events
               PROVE  served'[d] >= n
    BY <1>2 DEF CompleteServed
  <2>0. n \in Nat /\ d \in Event /\ served[d] \in Nat /\ served'[d] \in Nat
        /\ served[d] <= served'[d]
    BY <1>3, <1>6, <1>7
  <2>1. CASE n \in DOMAIN marks
    <3>1. marks[n] = "complete"
      BY <1>2, <2>1
    <3>2. Covers(w, n, d)
      BY <2>1, <3>1 DEF IInv, Sound, MarksSound, marks
    <3>3. n <= served[d] \/ (d = e /\ item.status = "done" /\ n <= worker[w].seen)
      BY <3>2 DEF Covers, e, item
    <3> QED
      BY <1>7, <2>0, <3>3
  <2>2. CASE n \notin DOMAIN marks
    BY <1>2, <2>0, <2>2 DEF IInv, CompleteServed
  <2> QED
    BY <2>1, <2>2
<1>13. Grown
  BY <1>2, <1>3, <1>7 DEF Grown
<1>14. Sound(w)'
  <2>1. worker'[w] = u
    BY DEF IInv, Typed
  <2> QED
    BY <1>2, <2>1 DEF Sound, PickSound, HeldSound, MarksSound
<1>15. ASSUME NEW v \in Worker, v # w PROVE Sound(v)'
  <2>1. worker'[v] = worker[v]
    BY <1>15 DEF IInv, Typed
  <2>2. \A d \in Event : rowLock[d] = v => rowLock'[d] = v /\ served'[d] = served[d]
    BY <1>1, <1>7, <1>8, <1>15
  <2> QED
    BY <1>10, <1>13, <2>1, <2>2, Kept DEF IInv
<1> QED
  BY <1>10, <1>11, <1>12, <1>14, <1>15 DEF IInv

LEMMA CommitStep == ASSUME IInv, NEW w \in Worker, Commit(w) PROVE IInv'
<1>1. worker[w].pc = "commit" /\ Effect(w) /\ Release(w) /\ UNCHANGED <<stock, degraded>>
  BY DEF Commit, At
<1>2. {} \in SUBSET Event /\ Finish(w, {})
  BY DEF Commit
<1>3. PICK v \in Runs : /\ worker' = [worker EXCEPT ![w] = v]
                        /\ v.pc \in {"idle", "scan"} /\ v.seen = 0
  BY <1>2, FinishRun
<1>4. 0 <= Len(lineage)
  BY RunFacts
<1> QED
  BY <1>1, <1>3, <1>4, EffectStep

LEMMA LoseCommitStep == ASSUME IInv, NEW w \in Worker, LoseCommit(w) PROVE IInv'
<1>1. PICK wrote \in BOOLEAN :
         /\ IF wrote THEN Effect(w) ELSE UNCHANGED <<queue, lineage, served>>
         /\ worker' = [worker EXCEPT ![w].pc = "unsure", ![w].wrote = wrote]
  BY DEF LoseCommit
<1> DEFINE u == Unsure(worker[w], wrote)
<1>2. worker' = [worker EXCEPT ![w] = u]
  BY <1>1, RunFacts DEF IInv, Typed, Unsure
<1>3. /\ worker[w].pc = "commit" /\ worker[w].event \in Event
      /\ worker[w].seen <= Len(lineage)
  BY DEF LoseCommit, At, IInv, Sound, HeldSound
<1>4. u \in Runs /\ u.pc = "unsure" /\ u.event = worker[w].event /\ u.seen = worker[w].seen
  BY RunFacts, ToUnsure
<1>5. UNCHANGED <<stock, degraded>> /\ Release(w)
  BY DEF LoseCommit
<1> HIDE DEF u
<1>6. CASE wrote
  BY <1>1, <1>2, <1>3, <1>4, <1>5, <1>6, EffectStep
<1>7. CASE ~wrote
  <2>1. UNCHANGED <<queue, lineage, served>>
    BY <1>1, <1>7
  <2>2. worker'[w] = u
    BY <1>2 DEF IInv, Typed
  <2>3. Sound(w)'
    BY <1>3, <1>4, <2>1, <2>2 DEF Sound, PickSound, HeldSound, MarksSound
  <2>4. /\ rowLock' \in [Event -> Session \cup {None}]
        /\ itemLock' \in [Event -> Session \cup {None}]
        /\ eventLock' \in [Event -> Session \cup {None}]
        /\ \A e \in Event : rowLock[e] # w => rowLock'[e] = rowLock[e]
    BY <1>5, RunFacts, FreedTyped DEF Release
  <2> QED
    BY <1>2, <1>4, <1>5, <2>1, <2>3, <2>4, LocalStep
<1> QED
  BY <1>6, <1>7

-----------------------------------------------------------------------------
(* Steps of the other sessions.                                            *)

LEMMA OtherStep ==
    ASSUME IInv, Typed', RowsSound', CompleteServed', Grown,
           worker' = worker, served' = served,
           \A w \in Worker : \A e \in Event : rowLock[e] = w => rowLock'[e] = w
    PROVE  IInv'
<1>1. ASSUME NEW w \in Worker PROVE Sound(w)'
  BY Kept DEF IInv
<1> QED
  BY <1>1 DEF IInv

(* Those that leave the ledger alone. *)
LEMMA QuietStep ==
    ASSUME IInv, UNCHANGED <<lineage, served, worker>>,
           queue' \in [Event -> Rows],
           \A e \in Event :
              /\ queue'[e].request <= Len(lineage)
              /\ queue'[e].status = "done" => queue'[e].request <= served[e]
              /\ queue'[e].status = "pending" => queue'[e].attempts < MaxAttempts,
           stock' \in [Event -> {"unborn", "items", "empty"}], degraded' \in BOOLEAN,
           rowLock' \in [Event -> Session \cup {None}],
           itemLock' \in [Event -> Session \cup {None}],
           eventLock' \in [Event -> Session \cup {None}],
           \A w \in Worker : \A e \in Event : rowLock[e] = w => rowLock'[e] = w
    PROVE  IInv'
<1>1. Typed'
  BY DEF IInv, Typed, ReplayTypeOK, Pending
<1>2. RowsSound' /\ CompleteServed'
  BY DEF IInv, RowsSound, CompleteServed
<1>3. Grown
  BY LineageDomain DEF IInv, Typed, Grown
<1> QED
  BY <1>1, <1>2, <1>3, OtherStep

LEMMA QueueFacts ==
    ASSUME IInv
    PROVE  /\ queue \in [Event -> Rows]
           /\ stock \in [Event -> {"unborn", "items", "empty"}] /\ degraded \in BOOLEAN
           /\ rowLock \in [Event -> Session \cup {None}]
           /\ itemLock \in [Event -> Session \cup {None}]
           /\ eventLock \in [Event -> Session \cup {None}]
           /\ Len(lineage) \in Nat
           /\ \A e \in Event :
                 /\ queue[e].request <= Len(lineage)
                 /\ queue[e].status = "done" => queue[e].request <= served[e]
                 /\ queue[e].status = "pending" => queue[e].attempts < MaxAttempts
BY LineageDomain DEF IInv, Typed, ReplayTypeOK, RowsSound, Pending

LEMMA RepairerFacts ==
    ASSUME NEW r \in Repairer
    PROVE  r \in Session /\ r # None /\ \A w \in Worker : w # r /\ w # None
BY ReplayConstants DEF Session

LEMMA TakeSourceStep == ASSUME IInv, NEW r \in Repairer, TakeSource(r) PROVE IInv'
<1>1. UNCHANGED <<queue, lineage, stock, rowLock, worker, degraded, served>>
  BY DEF TakeSource
<1>2. itemLock' \in [Event -> Session \cup {None}] /\ eventLock' \in [Event -> Session \cup {None}]
  BY QueueFacts, RepairerFacts DEF TakeSource
<1> QED
  BY <1>1, <1>2, QueueFacts, QuietStep

LEMMA UnqueueStep == ASSUME IInv, NEW r \in Repairer, Unqueue(r) PROVE IInv'
<1> DEFINE from == repair[r].from
<1>1. /\ UNCHANGED <<queue, lineage, stock, itemLock, eventLock, worker, degraded, served>>
      /\ rowLock[from] = None /\ rowLock' = [rowLock EXCEPT ![from] = r]
  BY DEF Unqueue
<1> HIDE DEF from
<1>2. /\ rowLock' \in [Event -> Session \cup {None}]
      /\ \A w \in Worker : \A d \in Event : rowLock[d] = w => rowLock'[d] = w
  BY <1>1, QueueFacts, RepairerFacts
<1> QED
  BY <1>1, <1>2, QueueFacts, QuietStep

LEMMA TakeTargetStep == ASSUME IInv, NEW r \in Repairer, TakeTarget(r) PROVE IInv'
<1> DEFINE to == repair[r].to
<1>1. /\ UNCHANGED <<queue, lineage, stock, rowLock, worker, degraded, served>>
      /\ itemLock' = [itemLock EXCEPT ![to] = r]
      /\ eventLock' = [eventLock EXCEPT ![to] = r]
  BY DEF TakeTarget
<1> HIDE DEF to
<1>2. itemLock' \in [Event -> Session \cup {None}] /\ eventLock' \in [Event -> Session \cup {None}]
  BY <1>1, QueueFacts, RepairerFacts
<1> QED
  BY <1>1, <1>2, QueueFacts, QuietStep

LEMMA Released ==
    ASSUME IInv, NEW r \in Repairer, Release(r)
    PROVE  /\ rowLock' \in [Event -> Session \cup {None}]
           /\ itemLock' \in [Event -> Session \cup {None}]
           /\ eventLock' \in [Event -> Session \cup {None}]
           /\ \A w \in Worker : \A e \in Event : rowLock[e] = w => rowLock'[e] = w
BY QueueFacts, RepairerFacts, FreedTyped DEF Release

LEMMA AbortStep == ASSUME IInv, NEW r \in Repairer, Abort(r) PROVE IInv'
<1>1. UNCHANGED <<queue, lineage, stock, worker, degraded, served>> /\ Release(r)
  BY DEF Abort
<1> QED
  BY <1>1, Released, QueueFacts, QuietStep

(* Giving requests up keeps the repairs and completes none. *)
LEMMA SupersededLedger ==
    ASSUME ReplayTypeOK, NEW old
    PROVE  /\ Superseded(old) \in Seq(Lineages)
           /\ Len(Superseded(old)) = Len(lineage)
           /\ \A n \in 1..Len(lineage) :
                 /\ Superseded(old)[n].events = lineage[n].events
                 /\ Superseded(old)[n].report = "complete" =>
                       lineage[n].report = "complete"
<1> DEFINE new == Superseded(old)
<1>1. /\ Len(lineage) \in Nat /\ DOMAIN lineage = 1..Len(lineage)
      /\ \A n \in 1..Len(lineage) : lineage[n] \in Lineages
  BY LineageDomain
<1>2. \A n \in 1..Len(lineage) :
          /\ new[n] \in Lineages
          /\ new[n].events = lineage[n].events
          /\ new[n].report = "complete" => lineage[n].report = "complete"
  <2> SUFFICES ASSUME NEW n \in 1..Len(lineage)
               PROVE  /\ new[n] \in Lineages
                      /\ new[n].events = lineage[n].events
                      /\ new[n].report = "complete" => lineage[n].report = "complete"
    OBVIOUS
  <2>1. new[n] = lineage[n] \/ new[n] = [lineage[n] EXCEPT !.report = "superseded"]
    BY <1>1 DEF Superseded
  <2> HIDE DEF new
  <2> QED
    BY <1>1, <2>1 DEF Lineages, Reports
<1>3. new = [n \in 1..Len(lineage) |-> new[n]]
  BY <1>1 DEF Superseded
<1> HIDE DEF new
<1>4. new \in [1..Len(lineage) -> Lineages]
  BY <1>2, <1>3
<1>5. new \in Seq(Lineages) /\ Len(new) = Len(lineage)
  BY <1>1, <1>4, SeqByDomain
<1> QED
  BY <1>2, <1>5 DEF new

(* A repair commits: the ledger grows by an entry that waits, and rows are *)
(* gone or ask for it.                                                     *)
LEMMA RepairStepSound ==
    ASSUME IInv, NEW r \in Repairer, Release(r), UNCHANGED <<worker, degraded, served>>,
           NEW ledger \in Seq(Lineages), Len(ledger) = Len(lineage),
           \A n \in 1..Len(lineage) :
              /\ ledger[n].events = lineage[n].events
              /\ ledger[n].report = "complete" => lineage[n].report = "complete",
           NEW events \in SUBSET Event,
           lineage' = Append(ledger, [events |-> events, report |-> "pending"]),
           queue' \in [Event -> Rows],
           \A e \in Event : queue'[e] \in {queue[e], NoRow, Asked(Len(lineage) + 1)},
           stock' \in [Event -> {"unborn", "items", "empty"}]
    PROVE  IInv'
<1> DEFINE k == Len(lineage)
           entry == [events |-> events, report |-> "pending"]
<1>1. k \in Nat /\ DOMAIN lineage = 1..k
  BY LineageDomain DEF IInv, Typed
<1>2. entry \in Lineages
  BY DEF Lineages, Reports
<1> HIDE DEF entry
<1>3. /\ lineage' \in Seq(Lineages) /\ Len(lineage') = k + 1
      /\ \A n \in 1..k : lineage'[n] = ledger[n]
      /\ lineage'[k + 1] = entry
  BY <1>1, <1>2 DEF entry
<1>4. DOMAIN lineage' = 1..(k + 1)
  BY <1>1, <1>3
<1>5. \A e \in Event : served[e] \in Nat /\ served[e] <= k
  BY DEF IInv, Typed, RowsSound
<1>6. Typed'
  <2>1. \A e \in Pending' : queue'[e].attempts < MaxAttempts
    BY QueueFacts, ReplayConstants DEF Pending, NoRow, Asked
  <2> QED
    BY <1>3, <2>1, Released DEF IInv, Typed, ReplayTypeOK
<1>7. RowsSound'
  <2> SUFFICES ASSUME NEW e \in Event
               PROVE  /\ queue'[e].request <= k + 1
                      /\ served[e] <= k + 1
                      /\ queue'[e].status = "done" => queue'[e].request <= served[e]
    BY <1>3 DEF RowsSound
  <2>1. queue[e].request \in Nat
    BY QueueFacts DEF Rows
  <2> QED
    BY <1>1, <1>5, <2>1, QueueFacts DEF NoRow, Asked
<1>8. CompleteServed'
  <2> SUFFICES ASSUME NEW n \in DOMAIN lineage', lineage'[n].report = "complete",
                      NEW d \in lineage'[n].events
               PROVE  served[d] >= n
    BY DEF CompleteServed
  <2>1. n # k + 1
    BY <1>3 DEF entry
  <2>2. n \in 1..k
    BY <1>1, <1>4, <2>1
  <2> QED
    BY <1>1, <1>3, <2>2 DEF IInv, CompleteServed
<1>9. Grown
  BY <1>1, <1>3, <1>4, <1>5 DEF Grown
<1> QED
  BY <1>6, <1>7, <1>8, <1>9, Released, OtherStep

LEMMA AskedRow ==
    ASSUME NEW n \in Nat
    PROVE  Asked(n) \in Rows /\ NoRow \in Rows
BY ReplayConstants DEF Asked, NoRow, Rows

LEMMA MergeStep ==
    ASSUME IInv, RepairsKnown, NEW r \in Repairer, Merge(r)
    PROVE  IInv'
<1> DEFINE from == repair[r].from
           to == repair[r].to
           ledger == Superseded(repair[r].old)
           n == Len(lineage) + 1
<1>1. n \in Nat /\ lineage \in Seq(Lineages)
  BY QueueFacts DEF IInv, Typed, ReplayTypeOK
<1>2. /\ ledger \in Seq(Lineages) /\ Len(ledger) = Len(lineage)
      /\ \A k \in 1..Len(lineage) :
            /\ ledger[k].events = lineage[k].events
            /\ ledger[k].report = "complete" => lineage[k].report = "complete"
  BY SupersededLedger DEF IInv, Typed
<1>3. /\ Release(r) /\ UNCHANGED <<worker, degraded, served>>
      /\ lineage' = Append(ledger, [events |-> {to}, report |-> "pending"])
      /\ queue' = [queue EXCEPT ![from] = NoRow, ![to] = Asked(n)]
      /\ stock' = [stock EXCEPT ![from] = "empty", ![to] = "items"]
  BY DEF Merge
<1>4. to \in Event
  BY DEF Merge, RepairsKnown, Going
<1> HIDE DEF ledger, to, from
<1>5. queue' \in [Event -> Rows]
  BY <1>1, <1>3, AskedRow, QueueFacts
<1>6. \A e \in Event : queue'[e] \in {queue[e], NoRow, Asked(n)}
  BY <1>3, QueueFacts
<1>7. stock' \in [Event -> {"unborn", "items", "empty"}]
  BY <1>3, QueueFacts
<1>8. {to} \in SUBSET Event
  BY <1>4
<1> QED
  BY <1>2, <1>3, <1>5, <1>6, <1>7, <1>8, RepairStepSound

LEMMA SplitStep ==
    ASSUME IInv, RepairsKnown, NEW r \in Repairer, Split(r)
    PROVE  IInv'
<1> DEFINE from == repair[r].from
           ledger == Superseded(repair[r].old)
           n == Len(lineage) + 1
<1>1. n \in Nat /\ lineage \in Seq(Lineages)
  BY QueueFacts DEF IInv, Typed, ReplayTypeOK
<1>2. /\ ledger \in Seq(Lineages) /\ Len(ledger) = Len(lineage)
      /\ \A k \in 1..Len(lineage) :
            /\ ledger[k].events = lineage[k].events
            /\ ledger[k].report = "complete" => lineage[k].report = "complete"
  BY SupersededLedger DEF IInv, Typed
<1>3. PICK to \in Event :
         /\ stock' = [stock EXCEPT ![to] = "items"]
         /\ queue' = [queue EXCEPT ![from] = Asked(n), ![to] = Asked(n)]
         /\ lineage' = Append(ledger, [events |-> {from, to}, report |-> "pending"])
  BY DEF Split
<1>4. Release(r) /\ UNCHANGED <<worker, degraded, served>>
  BY DEF Split
<1>5. from \in Event
  BY DEF Split, RepairsKnown, Going
<1> HIDE DEF ledger, from
<1>6. queue' \in [Event -> Rows]
  BY <1>1, <1>3, AskedRow, QueueFacts
<1>7. \A e \in Event : queue'[e] \in {queue[e], NoRow, Asked(n)}
  BY <1>3, QueueFacts
<1>8. stock' \in [Event -> {"unborn", "items", "empty"}]
  BY <1>3, QueueFacts
<1>9. {from, to} \in SUBSET Event
  BY <1>5
<1> QED
  BY <1>2, <1>3, <1>4, <1>6, <1>7, <1>8, <1>9, RepairStepSound

LEMMA EnqueueStep == ASSUME IInv, NEW h \in Holder, Enqueue(h) PROVE IInv'
<1> DEFINE e == hold[h].event
<1>1. UNCHANGED <<lineage, stock, worker, degraded, served, rowLock, itemLock, eventLock>>
  BY DEF Enqueue, locks
<1>2. queue' = queue \/ queue' = [queue EXCEPT ![e] = Asked(0)]
  BY DEF Enqueue
<1>3. Asked(0) \in Rows
  BY AskedRow
<1>4. queue' \in [Event -> Rows]
      /\ \A d \in Event : queue'[d] = queue[d] \/ queue'[d] = Asked(0)
  BY <1>2, <1>3, QueueFacts
<1>5. \A d \in Event :
         /\ queue'[d].request <= Len(lineage)
         /\ queue'[d].status = "done" => queue'[d].request <= served[d]
         /\ queue'[d].status = "pending" => queue'[d].attempts < MaxAttempts
  BY <1>4, QueueFacts, ReplayConstants DEF Asked
<1> QED
  BY <1>1, <1>4, <1>5, QueueFacts, QuietStep

LEMMA TickStep == ASSUME IInv, Tick PROVE IInv'
<1>1. UNCHANGED <<lineage, stock, worker, degraded, served, rowLock, itemLock, eventLock>>
  BY DEF Tick, locks
<1>2. \A e \in Event : /\ queue'[e] \in Rows /\ queue'[e].status = queue[e].status
                       /\ queue'[e].request = queue[e].request
                       /\ queue'[e].attempts = queue[e].attempts
  BY QueueFacts DEF Tick, Rows
<1>3. queue' \in [Event -> Rows]
  BY <1>2 DEF Tick
<1> QED
  BY <1>1, <1>2, <1>3, QueueFacts, QuietStep

(* Steps that change neither the rows, the ledger nor a run. *)
LEMMA ModeStep ==
    ASSUME IInv, UNCHANGED <<queue, lineage, stock, locks, worker, served>>,
           degraded' \in BOOLEAN
    PROVE  IInv'
BY QueueFacts, QuietStep DEF locks

-----------------------------------------------------------------------------
LEMMA RepairsInit == Init => RepairsKnown
BY DEF Init, RepairsKnown, Claims, Going

LEMMA RepairsStep == IInv /\ RepairsKnown /\ [Next]_vars => RepairsKnown'
<1> SUFFICES ASSUME IInv, RepairsKnown, [Next]_vars, repair' # repair PROVE RepairsKnown'
  BY DEF RepairsKnown, Going
<1> USE DEF RepairsKnown, Claims, Going
<1>1. PICK r \in Repairer : TakeSource(r) \/ ReadRequest(r) \/ Unqueue(r)
                            \/ TakeTarget(r) \/ Merge(r) \/ Split(r) \/ Abort(r)
  <2>1. ASSUME NEW w \in Worker, WorkerStep(w) PROVE repair' = repair
    BY <2>1 DEF WorkerStep, Scan, Pick, Replay, FailCall, FailStatement, Reload,
                Commit, Resolve
  <2>2. ASSUME NEW w \in Worker, FailBooking(w) \/ LoseCommit(w) \/ Crash(w)
        PROVE  repair' = repair
    BY <2>2 DEF FailBooking, LoseCommit, Crash
  <2>3. ASSUME NEW h \in Holder, Count(h) \/ Enqueue(h) PROVE repair' = repair
    BY <2>3 DEF Count, Enqueue
  <2>4. Outage \/ Recover \/ Tick \/ UNCHANGED vars => repair' = repair
    BY DEF Outage, Recover, Tick, vars
  <2> QED
    BY <2>1, <2>2, <2>3, <2>4 DEF Next, RepairStep
<1>2. CASE TakeSource(r)
  <2>1. PICK from \in Event, to \in Event \cup {None} :
           repair' = [repair EXCEPT ![r].pc = IF to = None THEN "renew" ELSE "withdraw",
                                    ![r].from = from, ![r].to = to]
    BY <1>2 DEF TakeSource
  <2> DEFINE next == IF to = None THEN "renew" ELSE "withdraw"
  <2>2. repair' = [repair EXCEPT ![r].pc = next, ![r].from = from, ![r].to = to]
    BY <2>1
  <2>3. next \in {"renew", "withdraw"} /\ (next = "withdraw" => to \in Event)
    OBVIOUS
  <2>4. /\ from \in Event /\ to \in Event \cup {None}
        /\ repair' = [s \in Repairer |-> IF s = r
              THEN [repair[r] EXCEPT !.pc = next, !.from = from, !.to = to]
              ELSE repair[s]]
    BY <2>1, <2>2
  <2> HIDE DEF next
  <2>5. [repair[r] EXCEPT !.pc = next, !.from = from, !.to = to] \in Claims
    BY <2>3, <2>4
  <2> QED
    BY <2>3, <2>4, <2>5
<1>3. CASE ReadRequest(r)
  <2> DEFINE e == IF repair[r].pc = "renew" /\ repair[r].to # None
                  THEN repair[r].to ELSE repair[r].from
             next == IF repair[r].pc = "withdraw" THEN "unqueue"
                     ELSE IF repair[r].to = None THEN "split" ELSE "merge"
             old == repair[r].old \cup {n \in {queue[e].request} : queue[e].status # "absent"}
  <2>1. repair[r] \in Claims /\ repair[r].pc \in {"withdraw", "renew"}
    BY <1>3 DEF ReadRequest
  <2>2. e \in Event
    BY <2>1
  <2>3. queue[e].request \in Nat
    BY <2>2, QueueFacts DEF Rows
  <2>4. old \in SUBSET Nat
    BY <2>1, <2>3
  <2>5. repair' = [repair EXCEPT ![r].pc = next, ![r].old = old]
    BY <1>3 DEF ReadRequest
  <2>6. /\ next \in {"unqueue", "split", "merge"}
        /\ next \in {"unqueue", "merge"} => repair[r].to \in Event
        /\ repair[r].from \in Event
    BY <2>1
  <2> HIDE DEF e, next, old
  <2> QED
    BY <2>4, <2>5, <2>6
<1>4. CASE Unqueue(r)
  BY <1>4 DEF Unqueue
<1>5. CASE TakeTarget(r)
  BY <1>5 DEF TakeTarget
<1>6. CASE Merge(r) \/ Split(r) \/ Abort(r)
  <2>1. repair' = [repair EXCEPT ![r].pc = "done"]
    BY <1>6 DEF Merge, Split, Abort
  <2> QED
    BY <2>1
<1> QED
  BY <1>1, <1>2, <1>3, <1>4, <1>5, <1>6

LEMMA IInvInit == Init => IInv
<1> SUFFICES ASSUME Init PROVE IInv
  OBVIOUS
<1>1. /\ lineage \in Seq(Lineages) /\ Len(lineage) \in {0, 1}
      /\ \A n \in DOMAIN lineage : lineage[n].report = "pending"
  <2>1. CASE lineage = <<>>
    BY <2>1
  <2>2. ASSUME NEW e \in Event, lineage = <<[events |-> {e}, report |-> "pending"]>>
        PROVE  /\ lineage \in Seq(Lineages) /\ Len(lineage) \in {0, 1}
               /\ \A n \in DOMAIN lineage : lineage[n].report = "pending"
    BY <2>2 DEF Lineages, Reports
  <2> QED
    BY <2>1, <2>2 DEF Init
<1>2. /\ queue \in [Event -> Rows]
      /\ \A e \in Event : /\ queue[e].request <= Len(lineage)
                          /\ queue[e].attempts = 0 /\ queue[e].status # "done"
  <2>1. NoRow \in Rows /\ Asked(1) \in Rows
    BY AskedRow
  <2>2. CASE lineage = <<>> /\ queue = [d \in Event |-> NoRow]
    BY <2>1, <2>2 DEF NoRow
  <2>3. ASSUME NEW e \in Event, lineage = <<[events |-> {e}, report |-> "pending"]>>,
               queue = [d \in Event |-> IF d = e THEN Asked(1) ELSE NoRow]
        PROVE  /\ queue \in [Event -> Rows]
               /\ \A d \in Event : /\ queue[d].request <= Len(lineage)
                                   /\ queue[d].attempts = 0 /\ queue[d].status # "done"
    <3>1. Len(lineage) = 1
      BY <2>3
    <3>2. \A d \in Event : queue[d] \in {Asked(1), NoRow}
      BY <2>3
    <3>3. queue \in [Event -> Rows]
      BY <2>1, <2>3
    <3> QED
      BY <3>1, <3>2, <3>3 DEF NoRow, Asked
  <2> QED
    BY <2>2, <2>3 DEF Init
<1>3. ReplayTypeOK
  BY <1>1, <1>2, ReplayConstants DEF ReplayTypeOK, Init, Pending
<1>4. worker \in [Worker -> Runs] /\ served \in [Event -> Nat]
  BY IdleTyped DEF Init
<1>5. RowsSound /\ CompleteServed
  BY <1>1, <1>2 DEF RowsSound, CompleteServed, Init
<1>6. ASSUME NEW w \in Worker PROVE Sound(w)
  <2>1. worker[w].pc = "idle" /\ worker[w].seen = 0
    BY DEF Init, Idle
  <2> QED
    BY <1>1, <2>1 DEF Sound, PickSound, HeldSound, MarksSound
<1> QED
  BY <1>3, <1>4, <1>5, <1>6 DEF IInv, Typed

LEMMA IInvStep == IInv /\ RepairsKnown /\ [Next]_vars => IInv'
<1> SUFFICES ASSUME IInv, RepairsKnown, [Next]_vars PROVE IInv'
  OBVIOUS
<1>1. CASE UNCHANGED vars
  <2>1. UNCHANGED <<queue, lineage, stock, locks, worker, degraded, served>>
    BY <1>1 DEF vars
  <2> QED
    BY <2>1, QueueFacts, ModeStep
<1>2. ASSUME NEW w \in Worker, WorkerStep(w) \/ FailBooking(w) \/ LoseCommit(w) \/ Crash(w)
      PROVE  IInv'
  BY <1>2, ScanStep, PickStep, ReplayStep, FailCallStep, FailStatementStep, ReloadStep,
     CommitStep, ResolveStep, FailBookingStep, LoseCommitStep, CrashStep DEF WorkerStep
<1>3. ASSUME NEW r \in Repairer, TakeSource(r) \/ RepairStep(r)
      PROVE  IInv'
  <2>1. CASE ReadRequest(r)
    <3>1. UNCHANGED <<queue, lineage, stock, locks, worker, degraded, served>>
      BY <2>1 DEF ReadRequest
    <3> QED
      BY <3>1, QueueFacts, ModeStep
  <2> QED
    BY <1>3, <2>1, TakeSourceStep, UnqueueStep, TakeTargetStep, MergeStep, SplitStep,
       AbortStep DEF RepairStep
<1>4. ASSUME NEW h \in Holder, Count(h) PROVE IInv'
  <2>1. UNCHANGED <<queue, lineage, stock, locks, worker, degraded, served>>
    BY <1>4 DEF Count
  <2> QED
    BY <2>1, QueueFacts, ModeStep
<1>5. ASSUME NEW h \in Holder, Enqueue(h) PROVE IInv'
  BY <1>5, EnqueueStep
<1>6. CASE Outage \/ Recover
  <2>1. UNCHANGED <<queue, lineage, stock, locks, worker, served>> /\ degraded' \in BOOLEAN
    BY <1>6 DEF Outage, Recover
  <2> QED
    BY <2>1, ModeStep
<1>7. CASE Tick
  BY <1>7, TickStep
<1> QED
  BY <1>1, <1>2, <1>3, <1>4, <1>5, <1>6, <1>7 DEF Next

(* Every reachable state is well typed; no row has more attempts than      *)
(* granted, and one that is pending has attempts left.                     *)
THEOREM ReplayTypeCorrect == Spec => []ReplayTypeOK
<1>1. IInv => ReplayTypeOK
  BY DEF IInv, Typed
<1>2. Init => IInv /\ RepairsKnown
  BY IInvInit, RepairsInit
<1>3. IInv /\ RepairsKnown /\ [Next]_vars => (IInv /\ RepairsKnown)'
  BY IInvStep, RepairsStep
<1> QED
  BY <1>1, <1>2, <1>3, PTL DEF Spec

(* A repair is reported complete only after each of its events has been    *)
(* replayed with the content the repair gave it.                           *)
THEOREM CompleteOnlyServed == Spec => []CompleteServed
<1>1. IInv => CompleteServed
  BY DEF IInv
<1>2. Init => IInv /\ RepairsKnown
  BY IInvInit, RepairsInit
<1>3. IInv /\ RepairsKnown /\ [Next]_vars => (IInv /\ RepairsKnown)'
  BY IInvStep, RepairsStep
<1> QED
  BY <1>1, <1>2, <1>3, PTL DEF Spec

-----------------------------------------------------------------------------
(***************************************************************************)
(* The events of a repair stay queued until they are replayed with the     *)
(* content it gave them (RepairedIsQueued of ReplayQueue), for any events, *)
(* sessions and bounds. A repair takes the row lock of what it renews, so  *)
(* a run that is to commit a replay of an event holds off every repair of  *)
(* it, but for the split that gives birth to the event; and no run has a   *)
(* row of an event unborn.                                                 *)
(***************************************************************************)

Born(e) == stock[e] # "unborn"

HoldsKnown ==
    /\ hold \in [Holder -> [pc : {"new", "room", "done"}, event : Event \cup {None}]]
    /\ \A h \in Holder : hold[h].pc = "room" =>
          hold[h].event \in Event /\ Born(hold[h].event)

RowsBorn ==
    /\ \A e \in Event : queue[e].status # "absent" => Born(e)
    /\ \A r \in Repairer : Going(r) => Born(repair[r].from)

(* A run has rows of events that exist, and commits no replay that a       *)
(* repair of the event has overtaken.                                      *)
Chosen(w) == worker[w].pc = "pick" => \A e \in DOMAIN worker[w].copies : Born(e)
Pursued(w) ==
    /\ worker[w].pc \in {"work", "commit", "reload", "unsure"} => Born(worker[w].event)
    /\ worker[w].pc = "commit" => worker[w].item.status # "absent"
Latest(w) ==
    \/ worker[w].pc = "work"
    \/ worker[w].pc = "commit" /\ worker[w].item.status = "done"
    => \A n \in Repairs(worker[w].event) : n <= worker[w].seen

OnTop(w) == Chosen(w) /\ Pursued(w) /\ Latest(w)

QInv == RepairedIsQueued /\ HoldsKnown /\ RowsBorn /\ \A w \in Worker : OnTop(w)
Inv == IInv /\ RepairsKnown /\ QInv

Birth == \A e \in Event : Born(e) => Born(e)'

(* A run nobody touches stays on top while no repair takes its event.      *)
LEMMA KeptOnTop ==
    ASSUME Inv, Birth, NEW w \in Worker, worker'[w] = worker[w],
           worker[w].pc \in {"work", "commit"} =>
               Repairs(worker[w].event)' = Repairs(worker[w].event)
    PROVE  OnTop(w)'
<1>1. worker[w].pc = "pick" => DOMAIN worker[w].copies \subseteq Event
  BY RunFacts DEF Inv, Runs, Copies
<1>2. worker[w].pc \in {"work", "commit", "reload", "unsure"} => worker[w].event \in Event
  BY DEF Inv, IInv, Sound, HeldSound
<1>3. Chosen(w)' /\ Pursued(w)'
  BY <1>1, <1>2 DEF Inv, QInv, OnTop, Chosen, Pursued, Birth
<1>4. Latest(w)'
  BY DEF Inv, QInv, OnTop, Latest
<1> QED
  BY <1>3, <1>4 DEF OnTop

(* Steps that leave the rows, the ledger and the events alone.             *)
LEMMA Still ==
    ASSUME Inv, UNCHANGED <<queue, lineage, served, stock>>, HoldsKnown',
           \A r \in Repairer : Going(r)' => Born(repair'[r].from),
           \A w \in Worker : worker'[w] = worker[w] \/ OnTop(w)'
    PROVE  QInv'
<1>1. RepairedIsQueued' /\ RowsBorn'
  BY DEF Inv, QInv, RepairedIsQueued, RowsBorn, Born
<1>2. Birth /\ \A e : Repairs(e)' = Repairs(e)
  BY DEF Birth, Born, Repairs
<1>3. ASSUME NEW w \in Worker PROVE OnTop(w)'
  BY <1>2, KeptOnTop
<1> QED
  BY <1>1, <1>3 DEF QInv

(* Steps of a run that leave the committed state alone.                    *)
LEMMA RunStill ==
    ASSUME Inv, NEW w \in Worker, UNCHANGED <<queue, lineage, served, stock, repair, hold>>,
           \A v \in Worker : v # w => worker'[v] = worker[v], OnTop(w)'
    PROVE  QInv'
<1>1. HoldsKnown' /\ \A r \in Repairer : Going(r)' => Born(repair'[r].from)
  BY DEF Inv, QInv, HoldsKnown, RowsBorn, Going, Born
<1> QED
  BY <1>1, Still

LEMMA Free ==
    ASSUME NEW w \in Worker, worker'[w].pc \in {"idle", "scan"}
    PROVE  OnTop(w)'
BY DEF OnTop, Chosen, Pursued, Latest

(* A run that ends or takes its next item. *)
LEMMA Leaves ==
    ASSUME Inv, NEW w \in Worker, NEW skip \in SUBSET Event, Finish(w, skip) \/ Quit(w)
    PROVE  /\ OnTop(w)'
           /\ \A v \in Worker : v # w => worker'[v] = worker[v]
<1>0. worker \in [Worker -> Runs]
  BY DEF Inv, IInv, Typed
<1>1. CASE Finish(w, skip)
  BY <1>0, <1>1, FinishRun, Free DEF Inv
<1>2. CASE Quit(w)
  BY <1>0, <1>2, Free DEF Quit, Idle
<1> QED
  BY <1>1, <1>2

(* A run that keeps its event and is not to commit. *)
LEMMA Keeps ==
    ASSUME Inv, NEW w \in Worker, UNCHANGED <<lineage, stock>>,
           worker[w].pc \in {"work", "commit", "reload", "unsure"},
           worker'[w].event = worker[w].event, worker'[w].pc \in {"reload", "unsure"}
    PROVE  OnTop(w)'
BY DEF Inv, QInv, OnTop, Chosen, Pursued, Latest, Born

-----------------------------------------------------------------------------
LEMMA QScan == ASSUME Inv, NEW w \in Worker, Scan(w) PROVE QInv'
<1> DEFINE found == {e \in Event \ worker[w].skip : Ready(queue[e])}
<1>1. UNCHANGED <<queue, lineage, served, stock, repair, hold>>
  BY DEF Scan
<1>2. CASE found = {}
  <2>1. Quit(w) /\ {} \in SUBSET Event
    BY <1>2 DEF Scan
  <2> QED
    BY <1>1, <2>1, Leaves, RunStill
<1>3. CASE found # {}
  <2>1. /\ worker'[w].pc = "pick" /\ worker'[w].copies = [e \in found |-> queue[e]]
        /\ \A v \in Worker : v # w => worker'[v] = worker[v]
    <3>1. worker \in [Worker -> Runs]
      BY DEF Inv, IInv, Typed
    <3> QED
      BY <1>3, <3>1 DEF Scan, Runs
  <2>2. \A e \in found : Born(e)'
    BY <1>1 DEF Inv, QInv, RowsBorn, Born, Ready
  <2>3. OnTop(w)'
    BY <2>1, <2>2 DEF OnTop, Chosen, Pursued, Latest
  <2> QED
    BY <1>1, <2>1, <2>3, RunStill
<1> QED
  BY <1>2, <1>3

LEMMA QPick == ASSUME Inv, NEW w \in Worker, Pick(w) PROVE QInv'
<1>1. UNCHANGED <<queue, lineage, served, stock, repair, hold>>
  BY DEF Pick
<1>2. CASE Pickable(w) = {}
  <2>1. Quit(w) /\ {} \in SUBSET Event
    BY <1>2 DEF Pick
  <2> QED
    BY <1>1, <2>1, Leaves, RunStill
<1>3. ASSUME NEW e \in Pickable(w),
             worker' = [worker EXCEPT ![w].pc = "work", ![w].event = e,
                 ![w].copies = NoCopies, ![w].seen = Len(lineage), ![w].tries = 2,
                 ![w].item = [worker[w].copies[e] EXCEPT !.attempts = @ + 1]]
      PROVE  QInv'
  <2>1. worker[w].pc = "pick" /\ e \in DOMAIN worker[w].copies
    BY DEF Pick, At, Pickable
  <2>2. /\ worker'[w].pc = "work" /\ worker'[w].event = e /\ worker'[w].seen = Len(lineage)
        /\ \A v \in Worker : v # w => worker'[v] = worker[v]
    <3>1. worker \in [Worker -> Runs]
      BY DEF Inv, IInv, Typed
    <3> QED
      BY <1>3, <3>1 DEF Runs
  <2>3. Born(e)'
    BY <1>1, <2>1 DEF Inv, QInv, OnTop, Chosen, Born
  <2>4. \A n \in Repairs(e)' : n <= Len(lineage)
    BY <1>1, LineageDomain DEF Inv, IInv, Typed, Repairs
  <2>5. OnTop(w)'
    BY <2>2, <2>3, <2>4 DEF OnTop, Chosen, Pursued, Latest
  <2> QED
    BY <1>1, <2>2, <2>5, RunStill
<1> QED
  BY <1>2, <1>3 DEF Pick

LEMMA QReplay == ASSUME Inv, NEW w \in Worker, Replay(w) PROVE QInv'
<1>1. UNCHANGED <<queue, lineage, served, stock, repair, hold>> /\ worker[w].pc = "work"
  BY DEF Replay, At
<1>2. worker \in [Worker -> Runs] /\ worker[w].item \in Rows
  BY DEF Inv, IInv, Typed, Runs
<1>3. /\ worker'[w].pc = "commit" /\ worker'[w].event = worker[w].event
      /\ worker'[w].seen = worker[w].seen /\ worker'[w].item.status = "done"
      /\ \A v \in Worker : v # w => worker'[v] = worker[v]
  BY <1>2 DEF Replay, Runs, Rows
<1>4. OnTop(w)'
  BY <1>1, <1>3 DEF Inv, QInv, OnTop, Chosen, Pursued, Latest, Born, Repairs
<1> QED
  BY <1>1, <1>3, <1>4, RunStill

(* The outcome booked for a failure is never done. *)
LEMMA BookedStatus ==
    ASSUME NEW row \in Rows, NEW attempts, NEW fate
    PROVE  Booked(row, attempts, fate).status \in {"pending", "error"}
BY DEF Booked, Rows

LEMMA QFailCall == ASSUME Inv, NEW w \in Worker, FailCall(w) PROVE QInv'
<1>1. UNCHANGED <<queue, lineage, served, stock, repair, hold>> /\ worker[w].pc = "work"
  BY DEF FailCall, At
<1>2. worker \in [Worker -> Runs] /\ worker[w].item \in Rows
  BY DEF Inv, IInv, Typed, Runs
<1>3. PICK fate \in Fates :
        worker' = [worker EXCEPT ![w].pc = "commit", ![w].fate = fate,
            ![w].item = Booked(worker[w].item, worker[w].item.attempts, fate),
            ![w].marks = Marks(worker[w].event,
                               Booked(worker[w].item, worker[w].item.attempts, fate))]
  BY DEF FailCall
<1>4. /\ worker'[w].pc = "commit" /\ worker'[w].event = worker[w].event
      /\ worker'[w].item = Booked(worker[w].item, worker[w].item.attempts, fate)
      /\ \A v \in Worker : v # w => worker'[v] = worker[v]
  BY <1>2, <1>3 DEF Runs
<1>5. worker'[w].item.status \in {"pending", "error"}
  BY <1>2, <1>4, BookedStatus
<1>6. OnTop(w)'
  BY <1>1, <1>4, <1>5 DEF Inv, QInv, OnTop, Chosen, Pursued, Latest, Born
<1> QED
  BY <1>1, <1>4, <1>6, RunStill

LEMMA QFailStatement == ASSUME Inv, NEW w \in Worker, FailStatement(w) PROVE QInv'
<1>1. UNCHANGED <<queue, lineage, served, stock, repair, hold>> /\ worker[w].pc = "work"
  BY DEF FailStatement, At
<1>2. worker \in [Worker -> Runs]
  BY DEF Inv, IInv, Typed
<1>3. /\ worker'[w].pc = "reload" /\ worker'[w].event = worker[w].event
      /\ \A v \in Worker : v # w => worker'[v] = worker[v]
  BY <1>2 DEF FailStatement, Runs
<1> QED
  BY <1>1, <1>3, Keeps, RunStill

LEMMA QReload == ASSUME Inv, NEW w \in Worker, Reload(w) PROVE QInv'
<1> DEFINE e == worker[w].event
           failed == Booked(queue[e], worker[w].item.attempts, worker[w].fate)
<1>1. UNCHANGED <<queue, lineage, served, stock, repair, hold>> /\ worker[w].pc = "reload"
      /\ e \in Event
  BY DEF Reload, At, Inv, IInv, Sound, HeldSound
<1>2. worker \in [Worker -> Runs] /\ queue[e] \in Rows
  BY <1>1 DEF Inv, IInv, Typed, ReplayTypeOK
<1>3. CASE queue[e].status = "pending"
  <2>1. worker' = [worker EXCEPT ![w].pc = "commit", ![w].item = failed,
                                 ![w].marks = Marks(e, failed)]
    BY <1>3 DEF Reload
  <2>2. failed.status \in {"pending", "error"}
    BY <1>2, BookedStatus
  <2> HIDE DEF failed
  <2>3. /\ worker'[w].pc = "commit" /\ worker'[w].event = e /\ worker'[w].item = failed
        /\ \A v \in Worker : v # w => worker'[v] = worker[v]
    BY <1>2, <2>1 DEF Runs
  <2>4. OnTop(w)'
    BY <1>1, <2>2, <2>3 DEF Inv, QInv, OnTop, Chosen, Pursued, Latest, Born
  <2> QED
    BY <1>1, <2>3, <2>4, RunStill
<1>4. CASE queue[e].status # "pending"
  <2> DEFINE skip == IF worker[w].tries < 2 THEN {e} ELSE {}
  <2>1. skip \in SUBSET Event /\ Finish(w, skip)
    BY <1>1, <1>4 DEF Reload
  <2> HIDE DEF skip
  <2> QED
    BY <1>1, <2>1, Leaves, RunStill
<1> QED
  BY <1>3, <1>4

LEMMA QFailBooking == ASSUME Inv, NEW w \in Worker, FailBooking(w) PROVE QInv'
<1>1. UNCHANGED <<queue, lineage, served, stock, repair, hold>> /\ worker[w].pc = "commit"
      /\ worker[w].event \in Event
  BY DEF FailBooking, At, Inv, IInv, Sound, HeldSound
<1>2. CASE worker[w].tries > 1
  <2>1. worker \in [Worker -> Runs]
    BY DEF Inv, IInv, Typed
  <2>2. /\ worker'[w].pc = "reload" /\ worker'[w].event = worker[w].event
        /\ \A v \in Worker : v # w => worker'[v] = worker[v]
    BY <1>2, <2>1 DEF FailBooking, Runs
  <2> QED
    BY <1>1, <2>2, Keeps, RunStill
<1>3. CASE ~(worker[w].tries > 1)
  <2>1. {worker[w].event} \in SUBSET Event /\ Finish(w, {worker[w].event})
    BY <1>1, <1>3 DEF FailBooking
  <2> QED
    BY <1>1, <2>1, Leaves, RunStill
<1> QED
  BY <1>2, <1>3

LEMMA QResolve == ASSUME Inv, NEW w \in Worker, Resolve(w) PROVE QInv'
<1>1. UNCHANGED <<queue, lineage, served, stock, repair, hold>> /\ worker[w].pc = "unsure"
      /\ worker[w].event \in Event
  BY DEF Resolve, At, Inv, IInv, Sound, HeldSound
<1>2. ASSUME NEW skip \in SUBSET Event, Finish(w, skip) PROVE QInv'
  BY <1>1, <1>2, Leaves, RunStill
<1>3. ASSUME NEW fate,
             worker' = [worker EXCEPT ![w].pc = "reload", ![w].fate = fate,
                            ![w].again = TRUE, ![w].tries = 2, ![w].marks = NoMarks]
      PROVE  QInv'
  <2>1. worker \in [Worker -> Runs]
    BY DEF Inv, IInv, Typed
  <2>2. /\ worker'[w].pc = "reload" /\ worker'[w].event = worker[w].event
        /\ \A v \in Worker : v # w => worker'[v] = worker[v]
    BY <1>3, <2>1 DEF Runs
  <2> QED
    BY <1>1, <2>2, Keeps, RunStill
<1>4. {} \in SUBSET Event /\ {worker[w].event} \in SUBSET Event
  BY <1>1
<1> QED
  BY <1>2, <1>3, <1>4 DEF Resolve

LEMMA QCrash == ASSUME Inv, NEW w \in Worker, Crash(w) PROVE QInv'
<1>1. UNCHANGED <<queue, lineage, served, stock, repair, hold>> /\ Quit(w)
      /\ {} \in SUBSET Event
  BY DEF Crash
<1> QED
  BY <1>1, Leaves, RunStill

-----------------------------------------------------------------------------
(* What a commit writes is the latest replay of the event, or a row that   *)
(* is to be replayed or given up.                                          *)
LEMMA QEffect ==
    ASSUME Inv, NEW w \in Worker, worker[w].pc = "commit", Effect(w),
           UNCHANGED <<stock, repair, hold>>, OnTop(w)',
           \A v \in Worker : v # w => worker'[v] = worker[v]
    PROVE  QInv'
<1> DEFINE e == worker[w].event
           item == worker[w].item
<1>1. /\ e \in Event /\ Born(e) /\ item.status # "absent" /\ item \in Rows
      /\ worker[w].seen \in Nat
      /\ item.status = "done" => served[e] <= worker[w].seen
  BY RunFacts DEF Inv, IInv, Sound, HeldSound, Runs, QInv, OnTop, Pursued
<1>2. /\ DOMAIN lineage' = DOMAIN lineage /\ DOMAIN lineage \subseteq Nat
      /\ \A n \in DOMAIN lineage : /\ lineage'[n].events = lineage[n].events
                                   /\ lineage[n].events \subseteq Event
  <2>1. worker[w].marks \in Drafts /\ lineage' = Marked(worker[w].marks) /\ IInv
    BY RunFacts DEF Inv, Runs, Effect
  <2>2. /\ DOMAIN lineage' = DOMAIN lineage
        /\ \A n \in DOMAIN lineage : lineage'[n].events = lineage[n].events
    BY <2>1, MarkedLedger
  <2>3. /\ DOMAIN lineage \subseteq Nat
        /\ \A n \in DOMAIN lineage : lineage[n].events \subseteq Event
    BY <2>1, LineageDomain DEF IInv, Typed, Lineages
  <2> QED
    BY <2>2, <2>3
<1>3. queue' = [queue EXCEPT ![e] = item] /\ queue \in [Event -> Rows]
      /\ served \in [Event -> Nat]
  BY DEF Effect, Inv, IInv, Typed, ReplayTypeOK
<1>4. served' = IF item.status = "done"
                THEN [served EXCEPT ![e] = worker[w].seen] ELSE served
  BY DEF Effect
<1>5. \A d \in Event : Repairs(d)' = Repairs(d)
  BY <1>2 DEF Repairs
<1>6. item.status = "done" => \A n \in Repairs(e) : n <= worker[w].seen
  BY DEF Inv, QInv, OnTop, Latest
<1> HIDE DEF e, item
<1>7. RepairedIsQueued'
  <2> SUFFICES ASSUME NEW n \in DOMAIN lineage, NEW d \in lineage[n].events
               PROVE  served'[d] >= n \/ queue'[d].status \in {"pending", "error"}
                      \/ stock[d] = "empty"
    BY <1>2 DEF RepairedIsQueued
  <2>1. d \in Event /\ n \in Nat
    BY <1>2
  <2>2. CASE d # e
    BY <1>3, <1>4, <2>1, <2>2 DEF Inv, QInv, RepairedIsQueued
  <2>3. CASE d = e /\ item.status = "done"
    <3>1. n <= worker[w].seen
      BY <1>6, <2>3 DEF Repairs
    <3> QED
      BY <1>1, <1>3, <1>4, <2>1, <2>3, <3>1
  <2>4. CASE d = e /\ item.status # "done"
    <3>1. item.status \in {"pending", "error"}
      BY <1>1, <2>4 DEF Rows
    <3>2. queue'[e] = item
      BY <1>1, <1>3
    <3> QED
      BY <2>4, <3>1, <3>2
  <2> QED
    BY <2>2, <2>3, <2>4
<1>8. HoldsKnown' /\ RowsBorn'
  <2>1. \A d \in Event : d # e => queue'[d] = queue[d]
    BY <1>3
  <2>2. HoldsKnown'
    BY DEF Inv, QInv, HoldsKnown, Born
  <2>3. RowsBorn'
    BY <1>1, <2>1 DEF Inv, QInv, RowsBorn, Going, Born
  <2> QED
    BY <2>2, <2>3
<1>9. ASSUME NEW v \in Worker PROVE OnTop(v)'
  <2>1. v # w /\ worker[v].pc \in {"work", "commit"} => worker[v].event \in Event
    BY DEF Inv, IInv, Sound, HeldSound
  <2> QED
    BY <1>5, <2>1, KeptOnTop DEF Birth, Born
<1> QED
  BY <1>7, <1>8, <1>9 DEF QInv

LEMMA QCommit == ASSUME Inv, NEW w \in Worker, Commit(w) PROVE QInv'
<1>1. worker[w].pc = "commit" /\ Effect(w) /\ UNCHANGED <<stock, repair, hold>>
      /\ {} \in SUBSET Event /\ Finish(w, {})
  BY DEF Commit, At
<1> QED
  BY <1>1, Leaves, QEffect

LEMMA QLoseCommit == ASSUME Inv, NEW w \in Worker, LoseCommit(w) PROVE QInv'
<1>1. PICK wrote \in BOOLEAN :
         /\ IF wrote THEN Effect(w) ELSE UNCHANGED <<queue, lineage, served>>
         /\ worker' = [worker EXCEPT ![w].pc = "unsure", ![w].wrote = wrote]
  BY DEF LoseCommit
<1>2. worker \in [Worker -> Runs]
  BY DEF Inv, IInv, Typed
<1>3. /\ worker'[w].pc = "unsure" /\ worker'[w].event = worker[w].event
      /\ \A v \in Worker : v # w => worker'[v] = worker[v]
  BY <1>1, <1>2 DEF Runs
<1>4. worker[w].pc = "commit" /\ UNCHANGED <<stock, repair, hold>>
  BY DEF LoseCommit, At
<1>5. OnTop(w)'
  BY <1>3, <1>4 DEF Inv, QInv, OnTop, Chosen, Pursued, Latest, Born
<1> QED
  BY <1>1, <1>3, <1>4, <1>5, QEffect, RunStill

-----------------------------------------------------------------------------
(* A repair of events whose rows no run holds: they are renewed, and the   *)
(* event it takes apart is empty.                                          *)
LEMMA QRepair ==
    ASSUME Inv, NEW r \in Repairer, UNCHANGED <<worker, hold, served>>,
           NEW ledger \in Seq(Lineages), Len(ledger) = Len(lineage),
           \A n \in 1..Len(lineage) : ledger[n].events = lineage[n].events,
           NEW events \in SUBSET Event,
           lineage' = Append(ledger, [events |-> events, report |-> "pending"]),
           repair' = [repair EXCEPT ![r].pc = "done"],
           Birth,
           \A e \in events : /\ queue'[e].status = "pending" /\ stock'[e] # "unborn"
                             /\ rowLock[e] = None \/ ~Born(e),
           \A e \in Event \ events :
              \/ queue'[e] = queue[e] /\ stock'[e] = stock[e]
              \/ queue'[e].status = "absent" /\ stock'[e] = "empty"
    PROVE  QInv'
<1> DEFINE entry == [events |-> events, report |-> "pending"]
<1>1. /\ Len(lineage) \in Nat /\ DOMAIN lineage = 1..Len(lineage)
      /\ \A n \in DOMAIN lineage : lineage[n].events \subseteq Event
  BY LineageDomain DEF Inv, IInv, Typed, Lineages
<1>2. /\ DOMAIN lineage' = 1..(Len(lineage) + 1)
      /\ \A n \in 1..Len(lineage) : lineage'[n].events = lineage[n].events
      /\ lineage'[Len(lineage) + 1].events = events
  <2>1. entry \in Lineages
    BY DEF Lineages, Reports
  <2>2. entry.events = events
    OBVIOUS
  <2> HIDE DEF entry
  <2>3. lineage' = Append(ledger, entry)
    BY DEF entry
  <2> QED
    BY <1>1, <2>1, <2>2, <2>3
<1>3. RepairedIsQueued'
  <2> SUFFICES ASSUME NEW n \in DOMAIN lineage', NEW d \in lineage'[n].events
               PROVE  served[d] >= n \/ queue'[d].status \in {"pending", "error"}
                      \/ stock'[d] = "empty"
    BY DEF RepairedIsQueued
  <2>1. CASE d \in events
    BY <2>1
  <2>2. CASE d \notin events
    <3>1. n \in DOMAIN lineage /\ d \in lineage[n].events /\ d \in Event
      BY <1>1, <1>2, <2>2
    <3> QED
      BY <2>2, <3>1 DEF Inv, QInv, RepairedIsQueued
  <2> QED
    BY <2>1, <2>2
<1>4. HoldsKnown'
  BY DEF Inv, QInv, HoldsKnown, Birth
<1>5. RowsBorn'
  <2>1. \A e \in Event : queue'[e].status # "absent" => Born(e)'
    BY DEF Inv, QInv, RowsBorn, Born
  <2>2. ASSUME NEW s \in Repairer, Going(s)'
        PROVE  stock'[repair'[s].from] # "unborn"
    <3>1. Going(s) /\ repair'[s].from = repair[s].from
          /\ repair[s].from \in Event
      BY <2>2 DEF Inv, RepairsKnown, Claims, Going
    <3>2. Born(repair[s].from)
      BY <3>1 DEF Inv, QInv, RowsBorn
    <3>3. stock'[repair[s].from] # "unborn"
      BY <3>1, <3>2 DEF Birth, Born
    <3> QED
      BY <3>1, <3>3
  <2> QED
    BY <2>1, <2>2 DEF RowsBorn, Born
<1>6. ASSUME NEW w \in Worker PROVE OnTop(w)'
  <2>1. ASSUME worker[w].pc \in {"work", "commit"}
        PROVE  Repairs(worker[w].event)' = Repairs(worker[w].event)
    <3>1. worker[w].event \in Event /\ rowLock[worker[w].event] = w /\ w # None
      BY <2>1, RunFacts DEF Inv, IInv, Sound, HeldSound
    <3>2. Born(worker[w].event)
      BY <2>1 DEF Inv, QInv, OnTop, Pursued
    <3>3. worker[w].event \notin events
      BY <3>1, <3>2
    <3> QED
      BY <1>1, <1>2, <3>3 DEF Repairs
  <2> QED
    BY <2>1, KeptOnTop
<1> QED
  BY <1>3, <1>4, <1>5, <1>6 DEF QInv

LEMMA QMerge == ASSUME Inv, NEW r \in Repairer, Merge(r) PROVE QInv'
<1> DEFINE from == repair[r].from
           to == repair[r].to
           ledger == Superseded(repair[r].old)
           n == Len(lineage) + 1
<1>1. lineage \in Seq(Lineages) /\ queue \in [Event -> Rows]
      /\ stock \in [Event -> {"unborn", "items", "empty"}]
  BY DEF Inv, IInv, Typed, ReplayTypeOK
<1>2. /\ ledger \in Seq(Lineages) /\ Len(ledger) = Len(lineage)
      /\ \A k \in 1..Len(lineage) : ledger[k].events = lineage[k].events
  BY SupersededLedger DEF Inv, IInv, Typed
<1>3. /\ to \in Event /\ rowLock[to] = None
      /\ UNCHANGED <<worker, hold, served>>
      /\ repair' = [repair EXCEPT ![r].pc = "done"]
      /\ lineage' = Append(ledger, [events |-> {to}, report |-> "pending"])
      /\ queue' = [queue EXCEPT ![from] = NoRow, ![to] = Asked(n)]
      /\ stock' = [stock EXCEPT ![from] = "empty", ![to] = "items"]
  BY DEF Merge, Inv, RepairsKnown, Going
<1> HIDE DEF ledger, from, to, n
<1>4. queue'[to] = Asked(n) /\ stock'[to] = "items"
  BY <1>1, <1>3
<1>5. \A e \in Event \ {to} :
         \/ queue'[e] = queue[e] /\ stock'[e] = stock[e]
         \/ queue'[e] = NoRow /\ stock'[e] = "empty"
  BY <1>1, <1>3
<1>6. Birth
  BY <1>4, <1>5 DEF Birth, Born
<1>7. Asked(n).status = "pending" /\ NoRow.status = "absent"
  BY DEF Asked, NoRow
<1>8. \A e \in {to} : /\ queue'[e].status = "pending" /\ stock'[e] # "unborn"
                      /\ rowLock[e] = None \/ ~Born(e)
  BY <1>3, <1>4, <1>7
<1>9. \A e \in Event \ {to} :
          \/ queue'[e] = queue[e] /\ stock'[e] = stock[e]
          \/ queue'[e].status = "absent" /\ stock'[e] = "empty"
  BY <1>5, <1>7
<1>10. {to} \in SUBSET Event
  BY <1>3
<1> QED
  BY <1>2, <1>3, <1>6, <1>8, <1>9, <1>10, QRepair

LEMMA QSplit == ASSUME Inv, NEW r \in Repairer, Split(r) PROVE QInv'
<1> DEFINE from == repair[r].from
           ledger == Superseded(repair[r].old)
           n == Len(lineage) + 1
<1>1. lineage \in Seq(Lineages) /\ queue \in [Event -> Rows]
      /\ stock \in [Event -> {"unborn", "items", "empty"}]
  BY DEF Inv, IInv, Typed, ReplayTypeOK
<1>2. PICK to \in Event :
         /\ stock[to] = "unborn"
         /\ stock' = [stock EXCEPT ![to] = "items"]
         /\ queue' = [queue EXCEPT ![from] = Asked(n), ![to] = Asked(n)]
         /\ lineage' = Append(ledger, [events |-> {from, to}, report |-> "pending"])
  BY DEF Split
<1>3. /\ from \in Event /\ Born(from) /\ rowLock[from] = None
      /\ UNCHANGED <<worker, hold, served>>
      /\ repair' = [repair EXCEPT ![r].pc = "done"]
  BY DEF Split, Inv, RepairsKnown, Going, QInv, RowsBorn
<1>4. /\ ledger \in Seq(Lineages) /\ Len(ledger) = Len(lineage)
      /\ \A k \in 1..Len(lineage) : ledger[k].events = lineage[k].events
  BY SupersededLedger DEF Inv, IInv, Typed
<1> HIDE DEF ledger, from, n
<1>5. /\ queue'[from] = Asked(n) /\ queue'[to] = Asked(n)
      /\ stock'[to] = "items" /\ stock'[from] # "unborn"
      /\ \A e \in Event \ {from, to} : queue'[e] = queue[e] /\ stock'[e] = stock[e]
  BY <1>1, <1>2, <1>3 DEF Born
<1>6. Birth
  BY <1>1, <1>2, <1>5 DEF Birth, Born
<1>7. /\ \A e \in {from, to} : /\ queue'[e].status = "pending" /\ stock'[e] # "unborn"
                               /\ rowLock[e] = None \/ ~Born(e)
      /\ {from, to} \in SUBSET Event
  BY <1>2, <1>3, <1>5 DEF Asked, Born
<1> QED
  BY <1>2, <1>3, <1>4, <1>5, <1>6, <1>7, QRepair

-----------------------------------------------------------------------------
LEMMA QTakes ==
    ASSUME Inv, NEW r \in Repairer,
           TakeSource(r) \/ ReadRequest(r) \/ Unqueue(r) \/ TakeTarget(r) \/ Abort(r)
    PROVE  QInv'
<1>1. UNCHANGED <<queue, lineage, served, stock, worker, hold>>
  BY DEF TakeSource, ReadRequest, Unqueue, TakeTarget, Abort
<1>2. ASSUME NEW s \in Repairer, Going(s)' PROVE Born(repair'[s].from)
  <2> USE DEF Inv, RepairsKnown, Claims, Going, QInv, RowsBorn
  <2>1. CASE TakeSource(r)
    <3>1. PICK from \in Event, to \in Event \cup {None} :
             /\ stock[from] = "items"
             /\ repair' = [repair EXCEPT ![r].pc = IF to = None THEN "renew" ELSE "withdraw",
                                         ![r].from = from, ![r].to = to]
      BY <2>1 DEF TakeSource
    <3>2. CASE s = r
      BY <3>1, <3>2 DEF Born
    <3>3. CASE s # r
      BY <1>2, <3>1, <3>3
    <3> QED
      BY <3>2, <3>3
  <2>2. CASE ReadRequest(r)
    BY <1>2, <2>2 DEF ReadRequest
  <2>3. CASE Unqueue(r)
    BY <1>2, <2>3 DEF Unqueue
  <2>4. CASE TakeTarget(r)
    BY <1>2, <2>4 DEF TakeTarget
  <2>5. CASE Abort(r)
    BY <1>2, <2>5 DEF Abort
  <2> QED
    BY <2>1, <2>2, <2>3, <2>4, <2>5
<1>3. HoldsKnown'
  BY <1>1 DEF Inv, QInv, HoldsKnown, Born
<1> QED
  BY <1>1, <1>2, <1>3, Still

LEMMA QCount == ASSUME Inv, NEW h \in Holder, Count(h) PROVE QInv'
<1>1. UNCHANGED <<queue, lineage, served, stock, worker, repair>>
  BY DEF Count
<1>2. PICK e \in Event : /\ stock[e] = "items"
                         /\ hold' = [hold EXCEPT ![h] =
                                [pc |-> IF Full THEN "done" ELSE "room", event |-> e]]
  BY DEF Count
<1>3. HoldsKnown'
  BY <1>1, <1>2 DEF Inv, QInv, HoldsKnown, Born
<1> QED
  BY <1>1, <1>3, Still DEF Inv, QInv, RowsBorn, Going

(* Rows that come into the queue or fall due, and none settled. *)
LEMMA QRows ==
    ASSUME Inv, UNCHANGED <<lineage, served, stock, worker, repair>>, HoldsKnown',
           \A e \in Event : \/ queue'[e].status = queue[e].status
                            \/ queue'[e].status = "pending" /\ Born(e)
    PROVE  QInv'
<1>1. RepairedIsQueued'
  <2>1. \A n \in DOMAIN lineage : lineage[n].events \subseteq Event
    BY LineageDomain DEF Inv, IInv, Typed, Lineages
  <2> QED
    BY <2>1 DEF Inv, QInv, RepairedIsQueued
<1>2. RowsBorn'
  BY DEF Inv, QInv, RowsBorn, Going, Born
<1>3. ASSUME NEW w \in Worker PROVE OnTop(w)'
  BY KeptOnTop DEF Birth, Born, Repairs
<1> QED
  BY <1>1, <1>2, <1>3 DEF QInv

LEMMA QEnqueue == ASSUME Inv, NEW h \in Holder, Enqueue(h) PROVE QInv'
<1> DEFINE e == hold[h].event
<1>1. UNCHANGED <<lineage, served, stock, worker, repair>> /\ e \in Event /\ Born(e)
  BY DEF Enqueue, Inv, QInv, HoldsKnown
<1>2. HoldsKnown'
  BY DEF Enqueue, Inv, QInv, HoldsKnown, Born
<1>3. \A d \in Event : queue'[d] = queue[d] \/ (d = e /\ queue'[d] = Asked(0))
  BY DEF Enqueue, Inv, IInv, Typed, ReplayTypeOK
<1> QED
  BY <1>1, <1>2, <1>3, QRows DEF Asked

LEMMA QTick == ASSUME Inv, Tick PROVE QInv'
<1>1. UNCHANGED <<lineage, served, stock, worker, repair>> /\ HoldsKnown'
  BY DEF Tick, Inv, QInv, HoldsKnown, Born
<1>2. \A e \in Event : queue'[e].status = queue[e].status
  BY DEF Tick, Inv, IInv, Typed, ReplayTypeOK, Rows
<1> QED
  BY <1>1, <1>2, QRows

LEMMA QMode == ASSUME Inv, Outage \/ Recover \/ UNCHANGED vars PROVE QInv'
<1>1. UNCHANGED <<queue, lineage, served, stock, worker, repair, hold>>
  BY DEF Outage, Recover, vars
<1>2. HoldsKnown' /\ \A r \in Repairer : Going(r)' => Born(repair'[r].from)
  BY <1>1 DEF Inv, QInv, HoldsKnown, RowsBorn, Going, Born
<1> QED
  BY <1>1, <1>2, Still

-----------------------------------------------------------------------------
LEMMA QInit == Init => QInv
<1> SUFFICES ASSUME Init PROVE QInv
  OBVIOUS
<1>1. RepairedIsQueued /\ \A e \in Event : queue[e].status # "absent" => Born(e)
  <2>1. CASE lineage = <<>> /\ queue = [d \in Event |-> NoRow]
    BY <2>1 DEF RepairedIsQueued, NoRow
  <2>2. ASSUME NEW e \in Event, stock[e] = "items",
               lineage = <<[events |-> {e}, report |-> "pending"]>>,
               queue = [d \in Event |-> IF d = e THEN Asked(1) ELSE NoRow]
        PROVE  RepairedIsQueued /\ \A d \in Event : queue[d].status # "absent" => Born(d)
    <3>1. DOMAIN lineage = {1} /\ lineage[1].events = {e}
      BY <2>2
    <3>2. \A d \in Event : queue[d] = IF d = e THEN Asked(1) ELSE NoRow
      BY <2>2
    <3>3. Asked(1).status = "pending" /\ NoRow.status = "absent"
      BY DEF Asked, NoRow
    <3> QED
      BY <2>2, <3>1, <3>2, <3>3 DEF RepairedIsQueued, Born
  <2> QED
    BY <2>1, <2>2 DEF Init
<1>2. HoldsKnown
  BY DEF Init, HoldsKnown
<1>3. \A r \in Repairer : ~Going(r)
  BY DEF Init, Going
<1>4. ASSUME NEW w \in Worker PROVE OnTop(w)
  BY DEF Init, Idle, OnTop, Chosen, Pursued, Latest
<1> QED
  BY <1>1, <1>2, <1>3, <1>4 DEF QInv, RowsBorn

LEMMA QStep == Inv /\ [Next]_vars => QInv'
<1> SUFFICES ASSUME Inv, [Next]_vars PROVE QInv'
  OBVIOUS
<1>1. ASSUME NEW w \in Worker, WorkerStep(w) \/ FailBooking(w) \/ LoseCommit(w) \/ Crash(w)
      PROVE  QInv'
  BY <1>1, QScan, QPick, QReplay, QFailCall, QFailStatement, QReload, QCommit, QResolve,
     QFailBooking, QLoseCommit, QCrash DEF WorkerStep
<1>2. ASSUME NEW r \in Repairer, TakeSource(r) \/ RepairStep(r)
      PROVE  QInv'
  BY <1>2, QTakes, QMerge, QSplit DEF RepairStep
<1>3. ASSUME NEW h \in Holder, Count(h) \/ Enqueue(h) PROVE QInv'
  BY <1>3, QCount, QEnqueue
<1>4. CASE Outage \/ Recover \/ Tick \/ UNCHANGED vars
  BY <1>4, QTick, QMode
<1> QED
  BY <1>1, <1>2, <1>3, <1>4 DEF Next

(* The events a repair had queued stay queued until each has been replayed *)
(* with the content the repair gave it, given up, or emptied by a merge.   *)
THEOREM RepairsStayQueued == Spec => []RepairedIsQueued
<1>1. Init => Inv
  BY IInvInit, RepairsInit, QInit DEF Inv
<1>2. Inv /\ [Next]_vars => Inv'
  BY IInvStep, RepairsStep, QStep DEF Inv
<1>3. Inv => RepairedIsQueued
  BY DEF Inv, QInv
<1> QED
  BY <1>1, <1>2, <1>3, PTL DEF Spec
=============================================================================
