--------------------------- MODULE RawItemsProofs ---------------------------
(***************************************************************************)
(* Type correctness of RawItems, and what its batches owe to the ledger:   *)
(* while no two runs have held the rows of two days, the run that has      *)
(* booked a call is the only one with links, extractions or locks, so it   *)
(* sees every event there is.  Hence one event for each story, no analysis *)
(* overwritten by one that had read less, and no cycle of waiting batches. *)
(***************************************************************************)
EXTENDS RawItems, TLAPS

Phases == {"idle", "prepare", "tier1", "embed", "link", "tier2", "book",
           "write", "apply", "commit"}
Marks == {"none", "processing", "pending"} \cup Settled
Analysing == {"book", "write", "apply"}
Working == {"embed", "link", "tier2"} \cup Analysing

(* What a run has in hand is what is under work, and it is linked when     *)
(* Tier 2 gets it.                                                         *)
WorkSound(w) ==
    /\ run[w].pc \in Analysing => run[w].item \in run[w].left
    /\ run[w].left \cap run[w].next = {}
    /\ \A i \in Item : i \in run[w].left \cup run[w].next <=> run[w].mem[i] = "processing"
    /\ run[w].pc \in {"idle", "tier1", "commit"} => run[w].next = {}
    /\ run[w].pc \in {"idle", "commit"} => run[w].left = {}
    /\ run[w].pc \in {"embed", "link"} => \A i \in run[w].next : Link(w, i) # None
    /\ run[w].pc \in {"tier2"} \cup Analysing =>
          run[w].next = {} /\ \A i \in run[w].left : Link(w, i) # None

Typed == ItemsTypeOK /\ \A w \in Run : WorkSound(w)

(* Who has anything that others could meet has booked a call.              *)
Holds(w) == \E d \in Day : ledger[d] = w
Owns(w) ==
    \/ run[w].pc \in Working
    \/ \E i \in Item : run[w].link[i] # None \/ run[w].mem[i] = "classified"
    \/ \E e \in Item : run[w].text[e] # {} \/ eventLock[e] = w
    \/ trendLock = w
Alone == ~crossed =>
    \A c, d \in Day : ledger[c] # None /\ ledger[d] # None => ledger[c] = ledger[d]
Ledger == Alone /\ \A w \in Run : Owns(w) => Holds(w)

(* What run w sees: its own and the committed.                             *)
Status(w, i) == IF run[w].mem[i] # "none" THEN run[w].mem[i] ELSE raw[i]
Text(w, e) == IF run[w].text[e] # {} THEN run[w].text[e] ELSE read[e]

SeesStories(w) ==
    \A e, f \in Item : Link(w, e) = e /\ Link(w, f) = f /\ Story(e) = Story(f) => e = f
SeesReads(w) == \A e \in Item : \A j \in Text(w, e) : Link(w, j) = e
Fresh(w, i, V) == V # {} /\ (i \in V \/ \A j \in V : Added(w, i) <= Added(w, j))
SeesDone(w) ==
    \A i \in Item : Status(w, i) = "classified" =>
        Link(w, i) # None /\ Fresh(w, i, Text(w, Link(w, i)))
Viewed(w) ==
    /\ run[w].pc \in {"book", "write"} =>
          run[w].view \in Latest(w, Link(w, run[w].item))
    /\ run[w].pc = "apply" =>
          Fresh(w, run[w].item, run[w].text[Link(w, run[w].item)])

Sees(w) == SeesStories(w) /\ SeesReads(w) /\ SeesDone(w) /\ Viewed(w)
Seen == ~crossed => \A w \in Run : Sees(w)

(* An extraction is made of items of its event, and of the latest of them. *)
ReadLinked == ~crossed => \A e \in Item : \A j \in read[e] : home[j] = e
ReadSound == ReadLinked /\ LatestIsRead

IInv == Typed /\ Ledger /\ OneEvent /\ ReadSound /\ Seen

-----------------------------------------------------------------------------
(* How the changes of a run read.                                          *)

LEMMA IdleTyped == Idle \in Runs
BY RawItemsConstants DEF Idle, Runs

LEMMA MarkTyped ==
    ASSUME NEW r \in Runs, NEW i \in Item, NEW s \in Marks
    PROVE  LET u == [r EXCEPT !.mem[i] = s] IN
           /\ u \in Runs
           /\ u.mem = [r.mem EXCEPT ![i] = s]
           /\ u.link = r.link /\ u.text = r.text /\ u.item = r.item /\ u.view = r.view
           /\ u.left = r.left /\ u.next = r.next /\ u.pc = r.pc
BY DEF Runs, Marks

(* A verdict marks the item and takes it off the phase. *)
LEMMA VerdictKeeps ==
    ASSUME NEW r \in Runs, NEW i \in Item, NEW s \in Marks,
           NEW pc \in Phases, NEW then \in Phases, pc # then, pc # "commit", then # "commit"
    PROVE  LET u == Verdict(r, i, s, pc, then) IN
           /\ u \in Runs
           /\ u.mem = [r.mem EXCEPT ![i] = s]
           /\ u.link = r.link /\ u.text = r.text /\ u.item = r.item /\ u.view = r.view
           /\ u.pc \in {pc, then, "commit"}
           /\ u.pc = "commit" => u.left = {} /\ u.next = {}
           /\ u.left \cup u.next =
                (r.left \ {i}) \cup r.next \cup (IF s = "processing" THEN {i} ELSE {})
           /\ u.pc = pc => /\ u.left = r.left \ {i}
                           /\ u.next \subseteq r.next \cup (IF s = "processing" THEN {i} ELSE {})
           /\ u.pc = then => /\ u.left \subseteq r.next \cup (IF s = "processing" THEN {i} ELSE {})
                             /\ u.next = {}
<1> DEFINE q == [r EXCEPT !.mem[i] = s]
           next == IF s = "processing" THEN r.next \cup {i} ELSE r.next
<1>1. /\ q \in Runs /\ q.mem = [r.mem EXCEPT ![i] = s]
      /\ q.link = r.link /\ q.text = r.text /\ q.item = r.item /\ q.view = r.view
  BY MarkTyped
<1>2. r.left \ {i} \in SUBSET Item /\ next \in SUBSET Item
  BY DEF Runs
<1>3. Verdict(r, i, s, pc, then) = Onward(q, r.left \ {i}, next, pc, then)
  BY DEF Verdict
<1>4. next = r.next \cup (IF s = "processing" THEN {i} ELSE {})
  OBVIOUS
<1> DEFINE v == Onward(q, r.left \ {i}, next, pc, then)
<1> HIDE DEF q, next
<1>5. /\ v \in Runs
      /\ v.mem = q.mem /\ v.link = q.link /\ v.text = q.text
      /\ v.item = q.item /\ v.view = q.view
      /\ v.pc \in {pc, then, "commit"}
      /\ v.pc = "commit" => v.left = {} /\ v.next = {}
      /\ v.left \cup v.next = (r.left \ {i}) \cup next
      /\ v.pc = pc => v.left = r.left \ {i} /\ v.next = next
      /\ v.pc = then => v.left = next /\ v.next = {}
  BY <1>1, <1>2 DEF Onward, Runs, Phases
<1>6. Verdict(r, i, s, pc, then) = v
  BY <1>3 DEF v
<1> HIDE DEF v
<1> QED
  BY <1>1, <1>4, <1>5, <1>6

(* A conclusion marks the item under analysis and takes it off the phase.  *)
LEMMA ConcludedKeeps ==
    ASSUME NEW r \in Runs, r.item \in Item, NEW s \in Marks
    PROVE  LET u == Concluded(r, s) IN
           /\ u \in Runs
           /\ u.mem = [r.mem EXCEPT ![r.item] = s]
           /\ u.link = r.link /\ u.text = r.text
           /\ u.item = None
           /\ u.pc \in {"tier2", "commit"}
           /\ u.left = r.left \ {r.item} /\ u.next = {}
           /\ u.pc = "commit" => u.left = {}
<1> DEFINE q == [r EXCEPT !.mem[r.item] = s, !.item = None, !.view = {}]
<1>1. /\ q \in Runs /\ q.mem = [r.mem EXCEPT ![r.item] = s]
      /\ q.link = r.link /\ q.text = r.text /\ q.item = None
  BY DEF Runs, Marks
<1>2. r.left \ {r.item} \in SUBSET Item /\ {} \in SUBSET Item /\ "tier2" \in Phases
  BY DEF Runs, Phases
<1>3. Concluded(r, s) = Onward(q, r.left \ {r.item}, {}, "tier2", "tier2")
  BY DEF Concluded
<1> DEFINE v == Onward(q, r.left \ {r.item}, {}, "tier2", "tier2")
<1> HIDE DEF q
<1>4. /\ v \in Runs
      /\ v.mem = q.mem /\ v.link = q.link /\ v.text = q.text /\ v.item = q.item
      /\ v.pc \in {"tier2", "commit"}
      /\ v.left = r.left \ {r.item} /\ v.next = {}
      /\ v.pc = "commit" => v.left = {}
  BY <1>1, <1>2 DEF Onward, Runs, Phases
<1>6. Concluded(r, s) = v
  BY <1>3 DEF v
<1> HIDE DEF v
<1> QED
  BY <1>1, <1>4, <1>6

-----------------------------------------------------------------------------
(* The steps of the locks.                                                 *)

LEMMA BookStep ==
    ASSUME ItemsTypeOK, NEW w \in Run, MayBook(w)
    PROVE  /\ ledger' \in [Day -> Run \cup {None}] /\ crossed' \in BOOLEAN
           /\ crossed => crossed'
           /\ \A v \in Run : Holds(v) => Holds(v)'
           /\ Alone => Alone'
<1>1. day \in Day /\ ledger \in [Day -> Run \cup {None}] /\ crossed \in BOOLEAN
  BY DEF ItemsTypeOK
<1>2. CASE UNCHANGED <<ledger, crossed>>
  BY <1>1, <1>2 DEF Holds, Alone
<1>3. CASE Book(w)
  <2>1. /\ ledger[day] \in {None, w} /\ ledger' = [ledger EXCEPT ![day] = w]
        /\ crossed' = (crossed \/ \E d \in Day \ {day} : ledger[d] \notin {None, w})
    BY <1>3 DEF Book, Free
  <2>2. ledger' \in [Day -> Run \cup {None}] /\ crossed' \in BOOLEAN /\ (crossed => crossed')
    BY <1>1, <2>1
  <2>3. ASSUME NEW v \in Run, Holds(v) PROVE Holds(v)'
    BY <1>1, <2>1, <2>3, RawItemsConstants DEF Holds
  <2>4. ASSUME Alone PROVE Alone'
    <3>1. ASSUME ~crossed' PROVE \A d \in Day : ledger'[d] \in {None, w}
      BY <1>1, <2>1, <3>1
    <3> QED
      BY <3>1 DEF Alone
  <2> QED
    BY <2>2, <2>3, <2>4
<1> QED
  BY <1>2, <1>3 DEF MayBook

LEMMA BookHolds ==
    ASSUME ItemsTypeOK, NEW w \in Run, Book(w)
    PROVE  Holds(w)'
BY DEF ItemsTypeOK, Book, Holds

LEMMA EndStep ==
    ASSUME ItemsTypeOK, NEW w \in Run, End(w)
    PROVE  /\ run' = [run EXCEPT ![w] = Idle] /\ run' \in [Run -> Runs]
           /\ ledger' \in [Day -> Run \cup {None}] /\ eventLock' \in [Item -> Run \cup {None}]
           /\ trendLock' \in Run \cup {None}
           /\ \A v \in Run \ {w} : Holds(v) => Holds(v)'
           /\ \A v \in Run : trendLock' = v => v # w /\ trendLock = v
           /\ \A v \in Run, e \in Item : eventLock'[e] = v => v # w /\ eventLock[e] = v
           /\ Alone => Alone'
           /\ since' = [since EXCEPT ![w] = 0]
           /\ UNCHANGED <<feed, day, crossed>>
<1>1. /\ ledger \in [Day -> Run \cup {None}] /\ eventLock \in [Item -> Run \cup {None}]
      /\ trendLock \in Run \cup {None} /\ run \in [Run -> Runs]
  BY DEF ItemsTypeOK
<1>2. /\ run' = [run EXCEPT ![w] = Idle] /\ UNCHANGED <<feed, day, crossed>>
      /\ since' = [since EXCEPT ![w] = 0]
      /\ ledger' = [d \in Day |-> IF ledger[d] = w THEN None ELSE ledger[d]]
      /\ eventLock' = [e \in Item |-> IF eventLock[e] = w THEN None ELSE eventLock[e]]
      /\ trendLock' = IF trendLock = w THEN None ELSE trendLock
  BY <1>1 DEF End, Freed
<1>3. run' \in [Run -> Runs]
  BY <1>1, <1>2, IdleTyped
<1>4. \A v \in Run \ {w} : Holds(v) => Holds(v)'
  BY <1>2 DEF Holds
<1>5. Alone => Alone'
  BY <1>1, <1>2 DEF Alone
<1>6. /\ \A v \in Run : trendLock' = v => v # w /\ trendLock = v
      /\ \A v \in Run, e \in Item : eventLock'[e] = v => v # w /\ eventLock[e] = v
  BY <1>1, <1>2, RawItemsConstants
<1>7. /\ ledger' \in [Day -> Run \cup {None}] /\ eventLock' \in [Item -> Run \cup {None}]
      /\ trendLock' \in Run \cup {None}
  BY <1>1, <1>2
<1> QED
  BY <1>2, <1>3, <1>4, <1>5, <1>6, <1>7

-----------------------------------------------------------------------------
(* Types, and what a run has in hand.                                      *)

(* A step of w that changes only its own run and takes no link away.       *)
LEMMA OwnStep ==
    ASSUME Typed, NEW w \in Run, NEW u \in Runs, run' = [run EXCEPT ![w] = u],
           \A i \in Item : home'[i] = None => home[i] = None
    PROVE  /\ run' \in [Run -> Runs] /\ run'[w] = u
           /\ \A v \in Run \ {w} : run'[v] = run[v] /\ WorkSound(v)'
<1>1. run' \in [Run -> Runs] /\ run'[w] = u /\ \A v \in Run \ {w} : run'[v] = run[v]
  BY DEF Typed, ItemsTypeOK
<1>2. ASSUME NEW v \in Run \ {w} PROVE WorkSound(v)'
  <2>1. WorkSound(v) /\ run'[v] = run[v] /\ run[v].left \subseteq Item /\ run[v].next \subseteq Item
    BY <1>1 DEF Typed, ItemsTypeOK, Runs
  <2>2. \A i \in Item : Link(v, i) # None => Link(v, i)' # None
    BY <2>1 DEF Link
  <2> QED
    BY <2>1, <2>2 DEF WorkSound
<1> QED
  BY <1>1, <1>2

LEMMA StatusTyped == {"pending", "dropped", "duplicate", "processing", "classified"} \subseteq Marks
BY DEF Marks, Settled

LEMMA TypedInit == Init => Typed
<1> SUFFICES ASSUME Init PROVE Typed
  OBVIOUS
<1>1. Idle \in Runs
  BY IdleTyped
<1>2. run = [w \in Run |-> Idle] /\ faults \in 0..MaxFaults /\ day \in Day
  BY RawItemsConstants DEF Init, Day
<1>3. /\ raw \in [Item -> Statuses] /\ home \in [Item -> Item \cup {None}]
      /\ added \in [Item -> Nat] /\ since \in [Run -> Nat]
      /\ read \in [Item -> SUBSET Item]
      /\ feed \in [Item -> {"found", "skipped", "inserted", "stored"}]
  BY DEF Init, Statuses
<1>4. /\ ledger \in [Day -> Run \cup {None}] /\ eventLock \in [Item -> Run \cup {None}]
      /\ trendLock \in Run \cup {None} /\ crossed \in BOOLEAN
  BY DEF Init
<1>5. ItemsTypeOK
  BY <1>1, <1>2, <1>3, <1>4 DEF ItemsTypeOK
<1>6. \A w \in Run : WorkSound(w)
  BY <1>2 DEF WorkSound, Idle, Analysing
<1> QED
  BY <1>5, <1>6 DEF Typed

(* The actions that change the run of w by a verdict.                      *)
LEMMA VerdictSound ==
    ASSUME Typed, NEW w \in Run, NEW r \in Runs, NEW i \in Item, NEW s \in Marks,
           NEW pc \in Phases, NEW then \in Phases,
           <<pc, then>> \in {<<"prepare", "tier1">>, <<"embed", "tier2">>},
           r.mem = run[w].mem, r.left = run[w].left, r.next = run[w].next,
           i \in run[w].left,
           \A j \in Item : r.link[j] = None => run[w].link[j] = None,
           pc = "embed" => run[w].pc \in {"embed", "link"},
           pc = "embed" /\ s = "processing" => r.link[i] # None \/ home[i] # None,
           run' = [run EXCEPT ![w] = Verdict(r, i, s, pc, then)],
           UNCHANGED home
    PROVE  run' \in [Run -> Runs] /\ \A v \in Run : WorkSound(v)'
<1> DEFINE u == Verdict(r, i, s, pc, then)
<1>1. pc # then /\ pc # "commit" /\ then # "commit"
  OBVIOUS
<1>2. /\ u \in Runs
      /\ u.mem = [r.mem EXCEPT ![i] = s]
      /\ u.link = r.link
      /\ u.pc \in {pc, then, "commit"}
      /\ u.pc = "commit" => u.left = {} /\ u.next = {}
      /\ u.left \cup u.next =
           (r.left \ {i}) \cup r.next \cup (IF s = "processing" THEN {i} ELSE {})
      /\ u.pc = pc => /\ u.left = r.left \ {i}
                      /\ u.next \subseteq r.next \cup (IF s = "processing" THEN {i} ELSE {})
      /\ u.pc = then => /\ u.left \subseteq r.next \cup (IF s = "processing" THEN {i} ELSE {})
                        /\ u.next = {}
  BY <1>1, VerdictKeeps
<1> HIDE DEF u
<1>3. run' = [run EXCEPT ![w] = u]
  BY DEF u
<1>4. run' \in [Run -> Runs] /\ run'[w] = u /\ \A v \in Run \ {w} : WorkSound(v)'
  BY <1>2, <1>3, OwnStep
<1>5. WorkSound(w)'
  <2>1. /\ run[w].left \cap run[w].next = {}
        /\ \A j \in Item : j \in run[w].left \cup run[w].next <=> run[w].mem[j] = "processing"
        /\ run[w].pc \in {"embed", "link"} => \A j \in run[w].next : Link(w, j) # None
        /\ run[w] \in Runs /\ run[w].left \cup run[w].next \subseteq Item
    BY DEF Typed, ItemsTypeOK, WorkSound, Runs
  <2>2. ASSUME NEW j \in Item
        PROVE  j \in u.left \cup u.next <=> u.mem[j] = "processing"
    <3>1. r.mem \in [Item -> Marks]
      BY DEF Runs, Marks
    <3>2. CASE j = i
      BY <1>2, <2>1, <3>1, <3>2
    <3>3. CASE j # i
      <4>1. j \in u.left \cup u.next <=> j \in run[w].left \cup run[w].next
        BY <1>2, <3>3
      <4> QED
        BY <1>2, <2>1, <3>1, <3>3, <4>1
    <3> QED
      BY <3>2, <3>3
  <2>3. pc = "embed" => \A j \in r.next \cup (IF s = "processing" THEN {i} ELSE {}) : Link(w, j)' # None
    BY <1>2, <1>4, <2>1 DEF Link
  <2>4. u.pc \notin Analysing /\ u.left \cap u.next = {}
    BY <1>2, <2>1 DEF Analysing
  <2>5. u.pc \in {"embed", "link"} => \A j \in u.next : Link(w, j)' # None
    BY <1>2, <2>3
  <2>7. /\ u.pc \in {"idle", "tier1", "commit"} => u.next = {}
        /\ u.pc \in {"idle", "commit"} => u.left = {}
    BY <1>2
  <2>6. u.pc \in {"tier2"} => u.next = {} /\ \A j \in u.left : Link(w, j)' # None
    BY <1>2, <2>3
  <2> QED
    BY <1>4, <2>2, <2>4, <2>5, <2>6, <2>7 DEF WorkSound
<1> QED
  BY <1>4, <1>5

(* The actions that conclude the analysis of an item.                      *)
LEMMA ConcludedSound ==
    ASSUME Typed, NEW w \in Run, run[w].pc \in Analysing,
           NEW s \in Marks, s # "processing",
           run' = [run EXCEPT ![w] = Concluded(@, s)],
           UNCHANGED home
    PROVE  run' \in [Run -> Runs] /\ \A v \in Run : WorkSound(v)'
<1> DEFINE u == Concluded(run[w], s)
<1>1. run[w] \in Runs /\ run[w].item \in Item /\ run[w].left \subseteq Item
  BY DEF Typed, ItemsTypeOK, WorkSound, Runs
<1>2. /\ u \in Runs
      /\ u.mem = [run[w].mem EXCEPT ![run[w].item] = s]
      /\ u.link = run[w].link
      /\ u.pc \in {"tier2", "commit"}
      /\ u.left = run[w].left \ {run[w].item} /\ u.next = {}
      /\ u.pc = "commit" => u.left = {}
  BY <1>1, ConcludedKeeps
<1>3. run' = [run EXCEPT ![w] = u]
  OBVIOUS
<1> HIDE DEF u
<1>4. run' \in [Run -> Runs] /\ run'[w] = u /\ \A v \in Run \ {w} : WorkSound(v)'
  BY <1>2, <1>3, OwnStep
<1>5. WorkSound(w)'
  <2>1. /\ run[w].next = {}
        /\ \A j \in Item : j \in run[w].left <=> run[w].mem[j] = "processing"
        /\ \A j \in run[w].left : Link(w, j) # None
    BY DEF Typed, WorkSound, Analysing
  <2>2. /\ \A j \in Item : j \in u.left <=> u.mem[j] = "processing"
        /\ \A j \in u.left : Link(w, j)' # None
    <3>1. run[w].mem \in [Item -> Marks]
      BY <1>1 DEF Runs, Marks
    <3> QED
      BY <1>1, <1>2, <1>4, <2>1, <3>1 DEF Link
  <2>3. u.next = {} /\ u.pc \notin Analysing
    BY <1>2 DEF Analysing
  <2> QED
    BY <1>2, <1>4, <2>2, <2>3 DEF WorkSound
<1> QED
  BY <1>4, <1>5

(* The end of a session leaves the run idle.                               *)
LEMMA EndSound ==
    ASSUME Typed, NEW w \in Run, End(w),
           \A i \in Item : home'[i] = None => home[i] = None
    PROVE  \A v \in Run : WorkSound(v)'
<1>1. run' = [run EXCEPT ![w] = Idle] /\ Idle \in Runs
  BY EndStep, IdleTyped DEF Typed
<1>2. run'[w] = Idle /\ \A v \in Run \ {w} : WorkSound(v)'
  BY <1>1, OwnStep
<1>3. WorkSound(w)'
  BY <1>2 DEF WorkSound, Idle, Analysing
<1> QED
  BY <1>2, <1>3

LEMMA TypedCollect ==
    ASSUME Typed, NEW i \in Item, Collect(i) \/ CommitFeed(i)
    PROVE  Typed'
<1>1. ItemsTypeOK'
  BY DEF Typed, ItemsTypeOK, Collect, CommitFeed, database, time, locks, Statuses
<1>2. \A v \in Run : WorkSound(v)'
  BY DEF Typed, Collect, CommitFeed, database, time, locks, WorkSound, Link
<1> QED
  BY <1>1, <1>2 DEF Typed

LEMMA TypedLoad ==
    ASSUME Typed, NEW w \in Run, Load(w)
    PROVE  Typed'
<1> DEFINE batch == Oldest(Loadable)
           mem == [i \in Item |-> IF i \in batch THEN "processing" ELSE "none"]
           u == [Idle EXCEPT !.pc = "prepare", !.left = batch, !.mem = mem]
<1>1. batch \subseteq Item
  BY DEF Oldest, Loadable
<1>2. u \in Runs /\ u.pc = "prepare" /\ u.left = batch /\ u.next = {} /\ u.mem = mem
  BY <1>1, RawItemsConstants DEF Runs, Idle
<1>3. run' = [run EXCEPT ![w] = u] /\ UNCHANGED <<database, feed, day, locks, crossed, faults>>
  BY DEF Load
<1>7. since' \in [Run -> Nat]
  <2>1. \A t \in Begun : t \in Nat
    BY DEF Begun, Typed, ItemsTypeOK
  <2>2. PICK t \in Begun : since' = [since EXCEPT ![w] = t + 1]
    BY DEF Load
  <2> QED
    BY <2>1, <2>2 DEF Typed, ItemsTypeOK
<1> HIDE DEF u, batch
<1>4. run' \in [Run -> Runs] /\ run'[w] = u /\ \A v \in Run \ {w} : WorkSound(v)'
  BY <1>2, <1>3, OwnStep DEF database, time
<1>5. WorkSound(w)'
  BY <1>1, <1>2, <1>4 DEF WorkSound, Analysing
<1>6. ItemsTypeOK'
  BY <1>3, <1>4, <1>7 DEF Typed, ItemsTypeOK, database, time, locks
<1> QED
  BY <1>4, <1>5, <1>6 DEF Typed

(* The budget and the faults of an item put back. *)
LEMMA ChargeTyped ==
    ASSUME ItemsTypeOK, NEW s, Charge(s)
    PROVE  faults' \in 0..MaxFaults
BY RawItemsConstants DEF Charge, Fault, ItemsTypeOK

LEMMA TypedPrepare ==
    ASSUME Typed, NEW w \in Run, Prepare(w)
    PROVE  Typed'
<1>1. PICK i \in Head(run[w].left) :
        \E s \in IF Duplicate(i) THEN {"duplicate"} ELSE {"processing"} \cup Unserved :
          /\ Charge(s)
          /\ run' = [run EXCEPT ![w] = Verdict(run[w], i, s, "prepare", "tier1")]
  BY DEF Prepare
<1>2. PICK s \in IF Duplicate(i) THEN {"duplicate"} ELSE {"processing"} \cup Unserved :
         /\ Charge(s)
         /\ run' = [run EXCEPT ![w] = Verdict(run[w], i, s, "prepare", "tier1")]
  BY <1>1
<1>3. i \in run[w].left /\ run[w] \in Runs /\ i \in Item /\ s \in Marks
  BY <1>1, <1>2, StatusTyped DEF Head, Typed, ItemsTypeOK, Runs, Unserved
<1>4. UNCHANGED <<database, feed, time, locks, crossed>>
  BY DEF Prepare
<1>5. run' \in [Run -> Runs] /\ \A v \in Run : WorkSound(v)'
  BY <1>2, <1>3, <1>4, VerdictSound DEF database, time, Phases
<1>6. faults' \in 0..MaxFaults
  BY <1>2, ChargeTyped DEF Typed
<1> QED
  BY <1>4, <1>5, <1>6 DEF Typed, ItemsTypeOK, database, time, locks

LEMMA TypedTier1 ==
    ASSUME Typed, NEW w \in Run, Tier1(w)
    PROVE  Typed'
<1>1. PICK verdict \in [run[w].left -> {"processing"} \cup Unserved] :
        LET pass == {i \in run[w].left : verdict[i] = "processing"}
            mem == [i \in Item |-> IF i \in run[w].left THEN verdict[i] ELSE run[w].mem[i]]
        IN /\ IF \E i \in run[w].left : verdict[i] = "pending"
              THEN Fault ELSE UNCHANGED faults
           /\ run' = [run EXCEPT ![w] =
                Onward([run[w] EXCEPT !.mem = mem], {}, pass, "tier1", "embed")]
  BY DEF Tier1
<1> DEFINE pass == {i \in run[w].left : verdict[i] = "processing"}
           mem == [i \in Item |-> IF i \in run[w].left THEN verdict[i] ELSE run[w].mem[i]]
           r == [run[w] EXCEPT !.mem = mem]
           u == Onward(r, {}, pass, "tier1", "embed")
<1>2. /\ run[w] \in Runs /\ run[w].left \subseteq Item /\ run[w].mem \in [Item -> Marks]
      /\ \A i \in Item : i \in run[w].left <=> run[w].mem[i] = "processing"
  BY DEF Typed, ItemsTypeOK, Runs, Marks, WorkSound, Tier1, At
<1>3. /\ mem \in [Item -> Marks] /\ pass \subseteq Item
      /\ \A i \in Item : i \in pass <=> mem[i] = "processing"
  BY <1>1, <1>2, StatusTyped DEF Unserved
<1> HIDE DEF mem, pass
<1>4. r \in Runs /\ r.mem = mem
  BY <1>2, <1>3 DEF Runs, Marks
<1> HIDE DEF r
<1>5. /\ u \in Runs /\ u.mem = mem /\ u.pc \in {"embed", "commit"}
      /\ u.left = pass /\ u.next = {} /\ (u.pc = "commit" => u.left = {})
  BY <1>3, <1>4 DEF Onward, Runs
<1>6. run' = [run EXCEPT ![w] = u] /\ UNCHANGED <<database, feed, time, eventLock, trendLock>>
  BY <1>1 DEF Tier1, u, r, pass, mem
<1> HIDE DEF u
<1>7. run' \in [Run -> Runs] /\ run'[w] = u /\ \A v \in Run \ {w} : WorkSound(v)'
  BY <1>5, <1>6, OwnStep DEF database, time
<1>8. WorkSound(w)'
  BY <1>3, <1>5, <1>7 DEF WorkSound, Analysing
<1>9. ledger' \in [Day -> Run \cup {None}] /\ crossed' \in BOOLEAN
  BY BookStep DEF Tier1, MayBook, Typed
<1>10. faults' \in 0..MaxFaults
  BY <1>1, RawItemsConstants DEF Fault, Typed, ItemsTypeOK
<1> QED
  BY <1>6, <1>7, <1>8, <1>9, <1>10 DEF Typed, ItemsTypeOK, database, time

LEMMA TypedLeaveUnjudged ==
    ASSUME Typed, NEW w \in Run, LeaveUnjudged(w)
    PROVE  Typed'
<1>1. PICK s \in Unserved :
        /\ Charge(s)
        /\ run' = [run EXCEPT ![w] = [@ EXCEPT !.left = {}, !.pc = "commit",
              !.mem = [i \in Item |-> IF i \in run[w].left THEN s ELSE run[w].mem[i]]]]
  BY DEF LeaveUnjudged
<1> DEFINE mem == [i \in Item |-> IF i \in run[w].left THEN s ELSE run[w].mem[i]]
           u == [run[w] EXCEPT !.left = {}, !.pc = "commit", !.mem = mem]
<1>2. /\ run[w] \in Runs /\ run[w].left \subseteq Item /\ run[w].mem \in [Item -> Marks]
      /\ run[w].next = {}
      /\ \A i \in Item : i \in run[w].left <=> run[w].mem[i] = "processing"
  BY DEF Typed, ItemsTypeOK, Runs, Marks, WorkSound, LeaveUnjudged, At
<1>3. mem \in [Item -> Marks] /\ \A i \in Item : mem[i] # "processing"
  BY <1>1, <1>2, StatusTyped DEF Unserved
<1> HIDE DEF mem
<1>4. /\ u \in Runs /\ u.mem = mem /\ u.pc = "commit"
      /\ u.left = {} /\ u.next = {}
  BY <1>2, <1>3 DEF Runs, Marks
<1>5. run' = [run EXCEPT ![w] = u] /\ UNCHANGED <<database, feed, time, locks, crossed>>
  BY <1>1 DEF LeaveUnjudged, u, mem
<1> HIDE DEF u
<1>6. run' \in [Run -> Runs] /\ run'[w] = u /\ \A v \in Run \ {w} : WorkSound(v)'
  BY <1>4, <1>5, OwnStep DEF database, time
<1>7. WorkSound(w)'
  BY <1>2, <1>3, <1>4, <1>6 DEF WorkSound, Analysing
<1>8. faults' \in 0..MaxFaults
  BY <1>1, ChargeTyped DEF Typed
<1> QED
  BY <1>5, <1>6, <1>7, <1>8 DEF Typed, ItemsTypeOK, database, time, locks

(* A step to another phase with the same items in hand.                    *)
LEMMA MoveSound ==
    ASSUME Typed, NEW w \in Run, NEW u \in Runs, run' = [run EXCEPT ![w] = u],
           UNCHANGED home,
           u.mem = run[w].mem, u.left = run[w].left, u.next = run[w].next,
           u.link = run[w].link,
           \/ run[w].pc \in {"embed", "link"} /\ u.pc \in {"embed", "link"}
           \/ /\ run[w].pc \in {"tier2"} \cup Analysing /\ u.pc \in Analysing
              /\ u.item \in u.left
    PROVE  run' \in [Run -> Runs] /\ \A v \in Run : WorkSound(v)'
<1>1. run' \in [Run -> Runs] /\ run'[w] = u /\ \A v \in Run \ {w} : WorkSound(v)'
  BY OwnStep
<1>2. WorkSound(w) /\ \A i \in Item : Link(w, i)' = Link(w, i)
  BY <1>1 DEF Typed, Link
<1>3. u.left \subseteq Item /\ u.next \subseteq Item
  BY DEF Runs
<1>4. WorkSound(w)'
  BY <1>1, <1>2, <1>3 DEF WorkSound, Analysing
<1> QED
  BY <1>1, <1>4

LEMMA TypedEmbed ==
    ASSUME Typed, NEW w \in Run, Embed(w)
    PROVE  Typed'
<1> DEFINE u == [run[w] EXCEPT !.pc = "link"]
<1>1. /\ run[w].pc = "embed" /\ run' = [run EXCEPT ![w] = u]
      /\ UNCHANGED <<database, feed, time, eventLock, trendLock, faults>>
  BY DEF Embed, At
<1>0. run[w] \in Runs
  BY DEF Typed, ItemsTypeOK
<1>2. /\ u \in Runs /\ u.pc = "link" /\ u.mem = run[w].mem /\ u.left = run[w].left
      /\ u.next = run[w].next /\ u.link = run[w].link
  BY <1>0 DEF Runs
<1> HIDE DEF u
<1>3. run' \in [Run -> Runs] /\ \A v \in Run : WorkSound(v)'
  BY <1>1, <1>2, MoveSound DEF database, time
<1>4. ledger' \in [Day -> Run \cup {None}] /\ crossed' \in BOOLEAN
  BY BookStep DEF Embed, Typed
<1> QED
  BY <1>1, <1>3, <1>4 DEF Typed, ItemsTypeOK, database, time

LEMMA TypedLeaveUnembedded ==
    ASSUME Typed, NEW w \in Run, LeaveUnembedded(w)
    PROVE  Typed'
<1>1. PICK i \in Head(run[w].left), s \in Unserved :
        Charge(s) /\ run' = [run EXCEPT ![w] = Verdict(@, i, s, "embed", "tier2")]
  BY DEF LeaveUnembedded
<1>2. /\ i \in run[w].left /\ run[w] \in Runs /\ i \in Item
      /\ s \in Marks /\ s # "processing"
  BY <1>1, StatusTyped DEF Head, Typed, ItemsTypeOK, Runs, Unserved
<1>3. run[w].pc = "embed" /\ UNCHANGED <<database, feed, time, eventLock, trendLock>>
  BY DEF LeaveUnembedded, At
<1>4. run' \in [Run -> Runs] /\ \A v \in Run : WorkSound(v)'
  BY <1>1, <1>2, <1>3, VerdictSound DEF database, time, Phases
<1>5. ledger' \in [Day -> Run \cup {None}] /\ crossed' \in BOOLEAN
  BY BookStep DEF LeaveUnembedded, Typed
<1>6. faults' \in 0..MaxFaults
  BY <1>1, ChargeTyped DEF Typed
<1> QED
  BY <1>3, <1>4, <1>5, <1>6 DEF Typed, ItemsTypeOK, database, time

LEMMA TypedRelink ==
    ASSUME Typed, NEW w \in Run, Relink(w)
    PROVE  Typed'
<1>1. PICK i \in Head(run[w].left) :
        /\ Link(w, i) # None
        /\ run' = [run EXCEPT ![w] = Verdict(@, i, "processing", "embed", "tier2")]
  BY DEF Relink
<1>2. /\ i \in run[w].left /\ run[w] \in Runs /\ i \in Item /\ "processing" \in Marks
      /\ run[w].link[i] # None \/ home[i] # None
  BY <1>1, StatusTyped DEF Head, Typed, ItemsTypeOK, Runs, Link
<1>3. run[w].pc = "link" /\ UNCHANGED <<database, feed, time, locks, crossed, faults>>
  BY DEF Relink, At
<1>4. run' \in [Run -> Runs] /\ \A v \in Run : WorkSound(v)'
  BY <1>1, <1>2, <1>3, VerdictSound DEF database, time, Phases
<1> QED
  BY <1>3, <1>4 DEF Typed, ItemsTypeOK, database, time, locks

LEMMA TypedSuppress ==
    ASSUME Typed, NEW w \in Run, Suppress(w)
    PROVE  Typed'
<1>1. PICK i \in Head(run[w].left) :
        run' = [run EXCEPT ![w] = Verdict(@, i, "dropped", "embed", "tier2")]
  BY DEF Suppress
<1>2. i \in run[w].left /\ run[w] \in Runs /\ i \in Item /\ "dropped" \in Marks
  BY <1>1, StatusTyped DEF Head, Typed, ItemsTypeOK, Runs
<1>3. run[w].pc = "link" /\ UNCHANGED <<database, feed, time, locks, crossed, faults>>
  BY DEF Suppress, At
<1>4. run' \in [Run -> Runs] /\ \A v \in Run : WorkSound(v)'
  BY <1>1, <1>2, <1>3, VerdictSound DEF database, time, Phases
<1> QED
  BY <1>3, <1>4 DEF Typed, ItemsTypeOK, database, time, locks

(* What the link of an item changes. *)
LEMMA ClusterStep ==
    ASSUME Typed, NEW w \in Run, Cluster(w)
    PROVE  \E i \in run[w].left, e \in Item, r \in Runs :
             /\ run[w].pc = "link" /\ Link(w, i) = None
             /\ e \in Matches(w, i) \/ (e = i /\ Matches(w, i) = {})
             /\ Free(eventLock[e], w) /\ eventLock' = [eventLock EXCEPT ![e] = w]
             /\ r.link = [run[w].link EXCEPT ![i] = e]
             /\ r.mem = run[w].mem /\ r.left = run[w].left /\ r.next = run[w].next
             /\ r.text = run[w].text
             /\ run' = [run EXCEPT ![w] = Verdict(r, i, "processing", "embed", "tier2")]
             /\ UNCHANGED <<database, feed, time, ledger, trendLock, crossed, faults>>
<1>1. PICK i \in Head(run[w].left) :
         /\ Link(w, i) = None
         /\ \E e \in IF Matches(w, i) # {} THEN Matches(w, i) ELSE {i} : LinkTo(w, i, e)
  BY DEF Cluster
<1>2. i \in run[w].left /\ run[w] \in Runs /\ i \in Item
  BY <1>1 DEF Head, Typed, ItemsTypeOK, Runs
<1>3. PICK e \in IF Matches(w, i) # {} THEN Matches(w, i) ELSE {i} : LinkTo(w, i, e)
  BY <1>1
<1>4. e \in Item /\ (e \in Matches(w, i) \/ (e = i /\ Matches(w, i) = {}))
  BY <1>2, <1>3 DEF Matches
<1> DEFINE r == [run[w] EXCEPT !.link[i] = e]
<1>5. /\ r \in Runs /\ r.link = [run[w].link EXCEPT ![i] = e] /\ r.mem = run[w].mem
      /\ r.left = run[w].left /\ r.next = run[w].next /\ r.text = run[w].text
  BY <1>2, <1>4 DEF Runs
<1>6. /\ Free(eventLock[e], w) /\ eventLock' = [eventLock EXCEPT ![e] = w]
      /\ run' = [run EXCEPT ![w] = Verdict(r, i, "processing", "embed", "tier2")]
  BY <1>3 DEF LinkTo
<1>7. run[w].pc = "link" /\ UNCHANGED <<database, feed, time, ledger, trendLock, crossed, faults>>
  BY DEF Cluster, At
<1> HIDE DEF r
<1> QED
  BY <1>1, <1>2, <1>4, <1>5, <1>6, <1>7

LEMMA TypedCluster ==
    ASSUME Typed, NEW w \in Run, Cluster(w)
    PROVE  Typed'
<1>1. PICK i \in run[w].left, e \in Item, r \in Runs :
        /\ run[w].pc = "link" /\ Link(w, i) = None
        /\ e \in Matches(w, i) \/ (e = i /\ Matches(w, i) = {})
        /\ Free(eventLock[e], w) /\ eventLock' = [eventLock EXCEPT ![e] = w]
        /\ r.link = [run[w].link EXCEPT ![i] = e]
        /\ r.mem = run[w].mem /\ r.left = run[w].left /\ r.next = run[w].next
        /\ r.text = run[w].text
        /\ run' = [run EXCEPT ![w] = Verdict(r, i, "processing", "embed", "tier2")]
        /\ UNCHANGED <<database, feed, time, ledger, trendLock, crossed, faults>>
  BY ClusterStep
<1>2. /\ run[w] \in Runs /\ i \in Item /\ "processing" \in Marks
      /\ run[w].link \in [Item -> Item \cup {None}]
  BY StatusTyped DEF Typed, ItemsTypeOK, Runs
<1>3. r.link[i] # None /\ \A j \in Item : r.link[j] = None => run[w].link[j] = None
  BY <1>1, <1>2, RawItemsConstants
<1>4. run' \in [Run -> Runs] /\ \A v \in Run : WorkSound(v)'
  BY <1>1, <1>2, <1>3, VerdictSound DEF database, time, Phases
<1> QED
  BY <1>1, <1>4 DEF Typed, ItemsTypeOK, database, time

LEMMA TypedAnalyse ==
    ASSUME Typed, NEW w \in Run, Analyse(w)
    PROVE  Typed'
<1>0. PICK i \in run[w].left : \E view \in Latest(w, Link(w, i)) :
        run' = [run EXCEPT ![w].pc = "book", ![w].item = i, ![w].view = view]
  BY DEF Analyse
<1>1. PICK view \in Latest(w, Link(w, i)) :
        run' = [run EXCEPT ![w].pc = "book", ![w].item = i, ![w].view = view]
  BY <1>0
<1> DEFINE u == [run[w] EXCEPT !.pc = "book", !.item = i, !.view = view]
<1>2. /\ run' = [run EXCEPT ![w] = u] /\ run[w].pc = "tier2"
      /\ UNCHANGED <<database, feed, time, locks, crossed, faults>>
  BY <1>1 DEF Analyse, At, Typed, ItemsTypeOK, Runs
<1>3. i \in Item /\ i \in run[w].left /\ view \subseteq Item /\ run[w] \in Runs
  BY <1>0, <1>1 DEF Typed, ItemsTypeOK, Runs, Latest, Linked
<1>4. /\ u \in Runs /\ u.pc = "book" /\ u.mem = run[w].mem /\ u.left = run[w].left
      /\ u.next = run[w].next /\ u.link = run[w].link /\ u.item = i
  BY <1>3 DEF Runs
<1> HIDE DEF u
<1>5. run' \in [Run -> Runs] /\ \A v \in Run : WorkSound(v)'
  BY <1>2, <1>3, <1>4, MoveSound DEF database, time, Analysing
<1> QED
  BY <1>2, <1>5 DEF Typed, ItemsTypeOK, database, time, locks

LEMMA TypedBookAnalysis ==
    ASSUME Typed, NEW w \in Run, BookAnalysis(w)
    PROVE  Typed'
<1> DEFINE u == [run[w] EXCEPT !.pc = "write"]
<1>1. /\ run[w].pc = "book" /\ run' = [run EXCEPT ![w] = u]
      /\ UNCHANGED <<database, feed, time, eventLock, trendLock, faults>>
  BY DEF BookAnalysis, At
<1>0. run[w] \in Runs
  BY DEF Typed, ItemsTypeOK
<1>2. /\ u \in Runs /\ u.pc = "write" /\ u.mem = run[w].mem /\ u.left = run[w].left
      /\ u.next = run[w].next /\ u.link = run[w].link /\ u.item = run[w].item
  BY <1>0 DEF Runs
<1> HIDE DEF u
<1>3. u.item \in u.left /\ run[w].pc \in Analysing /\ u.pc \in Analysing
  BY <1>1, <1>2 DEF Typed, WorkSound, Analysing
<1>4. run' \in [Run -> Runs] /\ \A v \in Run : WorkSound(v)'
  BY <1>1, <1>2, <1>3, MoveSound DEF database, time
<1>5. ledger' \in [Day -> Run \cup {None}] /\ crossed' \in BOOLEAN
  BY BookStep DEF BookAnalysis, Typed, MayBook
<1> QED
  BY <1>1, <1>4, <1>5 DEF Typed, ItemsTypeOK, database, time

LEMMA TypedLeaveUnanalysed ==
    ASSUME Typed, NEW w \in Run, LeaveUnanalysed(w)
    PROVE  Typed'
<1>1. PICK s \in Unserved : Charge(s) /\ run' = [run EXCEPT ![w] = Concluded(@, s)]
  BY DEF LeaveUnanalysed
<1>2. s \in Marks /\ s # "processing" /\ run[w].pc \in Analysing
  BY <1>1, StatusTyped DEF Unserved, LeaveUnanalysed, At, Analysing
<1>3. UNCHANGED <<database, feed, time, eventLock, trendLock>>
  BY DEF LeaveUnanalysed
<1>4. run' \in [Run -> Runs] /\ \A v \in Run : WorkSound(v)'
  BY <1>1, <1>2, <1>3, ConcludedSound DEF database, time
<1>5. ledger' \in [Day -> Run \cup {None}] /\ crossed' \in BOOLEAN
  BY BookStep DEF LeaveUnanalysed, Typed
<1>6. faults' \in 0..MaxFaults
  BY <1>1, ChargeTyped DEF Typed
<1> QED
  BY <1>3, <1>4, <1>5, <1>6 DEF Typed, ItemsTypeOK, database, time

(* What the extraction of an event changes. *)
LEMMA WriteStep ==
    ASSUME Typed, NEW w \in Run, Write(w)
    PROVE  \E e \in Item, u \in Runs :
             /\ e = Link(w, run[w].item) /\ run[w].item \in run[w].left
             /\ Free(eventLock[e], w) /\ eventLock' = [eventLock EXCEPT ![e] = w]
             /\ u.pc = "apply" /\ u.text = [run[w].text EXCEPT ![e] = run[w].view]
             /\ u.mem = run[w].mem /\ u.left = run[w].left /\ u.next = run[w].next
             /\ u.link = run[w].link /\ u.item = run[w].item
             /\ run[w].pc = "write" /\ run' = [run EXCEPT ![w] = u]
             /\ UNCHANGED <<database, feed, time, ledger, trendLock, crossed, faults>>
<1> DEFINE e == Link(w, run[w].item)
           u == [run[w] EXCEPT !.pc = "apply", !.text[e] = run[w].view]
<1>0. run[w] \in Runs /\ run[w].pc = "write" /\ WorkSound(w) /\ home \in [Item -> Item \cup {None}]
  BY DEF Write, At, Typed, ItemsTypeOK
<1>9. run[w].item \in run[w].left /\ e # None
  BY <1>0 DEF WorkSound, Analysing
<1>1. run[w] \in Runs /\ run[w].item \in run[w].left /\ e \in Item /\ run[w].pc = "write"
  BY <1>0, <1>9 DEF Runs, Link
<1>2. Free(eventLock[e], w) /\ eventLock' = [eventLock EXCEPT ![e] = w]
  BY DEF Write
<1>3. /\ run' = [run EXCEPT ![w].pc = "apply", ![w].text[e] = run[w].view]
      /\ UNCHANGED <<database, feed, time, ledger, trendLock, crossed, faults>>
  BY DEF Write
<1> HIDE DEF e
<1>4. /\ u \in Runs /\ u.pc = "apply" /\ u.text = [run[w].text EXCEPT ![e] = run[w].view]
      /\ u.mem = run[w].mem /\ u.left = run[w].left /\ u.next = run[w].next
      /\ u.link = run[w].link /\ u.item = run[w].item
  BY <1>1 DEF Runs
<1>5. run' = [run EXCEPT ![w] = u]
  BY <1>1, <1>3 DEF Typed, ItemsTypeOK
<1> HIDE DEF u
<1>6. e = Link(w, run[w].item)
  BY DEF e
<1> QED
  BY <1>1, <1>2, <1>3, <1>4, <1>5, <1>6

LEMMA TypedWrite ==
    ASSUME Typed, NEW w \in Run, Write(w)
    PROVE  Typed'
<1>1. PICK e \in Item, u \in Runs :
        /\ e = Link(w, run[w].item) /\ run[w].item \in run[w].left
        /\ Free(eventLock[e], w) /\ eventLock' = [eventLock EXCEPT ![e] = w]
        /\ u.pc = "apply" /\ u.text = [run[w].text EXCEPT ![e] = run[w].view]
        /\ u.mem = run[w].mem /\ u.left = run[w].left /\ u.next = run[w].next
        /\ u.link = run[w].link /\ u.item = run[w].item
        /\ run[w].pc = "write" /\ run' = [run EXCEPT ![w] = u]
        /\ UNCHANGED <<database, feed, time, ledger, trendLock, crossed, faults>>
  BY WriteStep
<1>2. run' \in [Run -> Runs] /\ \A v \in Run : WorkSound(v)'
  BY <1>1, MoveSound DEF database, time, Analysing
<1> QED
  BY <1>1, <1>2 DEF Typed, ItemsTypeOK, database, time

LEMMA TypedApply ==
    ASSUME Typed, NEW w \in Run, Apply(w)
    PROVE  Typed'
<1>1. PICK s \in {"classified", "dropped"} : run' = [run EXCEPT ![w] = Concluded(@, s)]
  BY DEF Apply
<1>2. s \in Marks /\ s # "processing" /\ run[w].pc \in Analysing
  BY <1>1, StatusTyped DEF Apply, At, Analysing
<1>3. /\ UNCHANGED <<database, feed, time, ledger, eventLock, crossed, faults>>
      /\ trendLock' \in {trendLock, w}
  BY DEF Apply
<1>4. run' \in [Run -> Runs] /\ \A v \in Run : WorkSound(v)'
  BY <1>1, <1>2, <1>3, ConcludedSound DEF database, time
<1> QED
  BY <1>3, <1>4 DEF Typed, ItemsTypeOK, database, time

LEMMA TypedCommit ==
    ASSUME Typed, NEW w \in Run, Commit(w)
    PROVE  Typed'
<1>1. /\ raw' = [i \in Item |-> IF i \in Batch(w) THEN run[w].mem[i] ELSE raw[i]]
      /\ home' = [i \in Item |-> Link(w, i)]
      /\ added' = [i \in Item |-> Added(w, i)]
      /\ read' = [e \in Item |-> IF run[w].text[e] # {} THEN run[w].text[e] ELSE read[e]]
      /\ End(w) /\ UNCHANGED faults /\ run[w].pc = "commit"
  BY DEF Commit, At
<1>2. run[w] \in Runs /\ \A i \in Item : run[w].mem[i] # "processing"
  BY <1>1 DEF Typed, ItemsTypeOK, WorkSound
<1>3. \A i \in Batch(w) : run[w].mem[i] \in Statuses
  BY <1>2 DEF Batch, Runs, Statuses, Settled
<1>4. raw' \in [Item -> Statuses]
  BY <1>1, <1>3 DEF Typed, ItemsTypeOK
<1>5. home' \in [Item -> Item \cup {None}] /\ \A i \in Item : home'[i] = None => home[i] = None
  BY <1>1, <1>2 DEF Typed, ItemsTypeOK, Link, Runs
<1>6. read' \in [Item -> SUBSET Item]
  BY <1>1, <1>2 DEF Typed, ItemsTypeOK, Runs
<1>7. \A v \in Run : WorkSound(v)'
  BY <1>1, <1>5, EndSound
<1>8. /\ run' \in [Run -> Runs] /\ ledger' \in [Day -> Run \cup {None}]
      /\ eventLock' \in [Item -> Run \cup {None}] /\ trendLock' \in Run \cup {None}
      /\ UNCHANGED <<feed, day, crossed>>
  BY <1>1, EndStep DEF Typed
<1>9. added' \in [Item -> Nat] /\ since' \in [Run -> Nat]
  BY <1>1, EndStep DEF Typed, ItemsTypeOK, Added
<1> QED
  BY <1>1, <1>4, <1>5, <1>6, <1>7, <1>8, <1>9 DEF Typed, ItemsTypeOK

LEMMA TypedAbort ==
    ASSUME Typed, NEW w \in Run, Fail(w) \/ Victim(w)
    PROVE  Typed'
<1>1. End(w) /\ UNCHANGED database /\ (Fault \/ UNCHANGED faults)
  BY DEF Fail, Victim
<1>2. \A v \in Run : WorkSound(v)'
  BY <1>1, EndSound DEF database, time
<1>3. /\ run' \in [Run -> Runs] /\ ledger' \in [Day -> Run \cup {None}]
      /\ eventLock' \in [Item -> Run \cup {None}] /\ trendLock' \in Run \cup {None}
      /\ UNCHANGED <<feed, day, crossed>>
  BY <1>1, EndStep DEF Typed
<1>5. since' \in [Run -> Nat]
  BY <1>1, EndStep DEF Typed, ItemsTypeOK
<1>4. faults' \in 0..MaxFaults
  BY <1>1, RawItemsConstants DEF Fault, Typed, ItemsTypeOK
<1> QED
  BY <1>1, <1>2, <1>3, <1>4, <1>5 DEF Typed, ItemsTypeOK, database, time

(* What happens outside the runs. *)
LEMMA TypedMidnight == Typed /\ Midnight => Typed'
<1> SUFFICES ASSUME Typed, Midnight PROVE Typed'
  OBVIOUS
<1>1. day' \in Day
  BY RawItemsConstants DEF Midnight, Typed, ItemsTypeOK, Day
<1>2. UNCHANGED <<raw, home, added, read, feed, since, ledger, eventLock, trendLock, run, crossed, faults>>
  BY DEF Midnight, database, time, locks
<1>3. ItemsTypeOK'
  BY <1>1, <1>2 DEF Typed, ItemsTypeOK
<1>4. \A v \in Run : WorkSound(v)'
  BY <1>2 DEF Typed, WorkSound, Link
<1> QED
  BY <1>3, <1>4 DEF Typed

LEMMA TypedNext == Typed /\ [Next]_vars => Typed'
<1> SUFFICES ASSUME Typed, [Next]_vars PROVE Typed'
  OBVIOUS
<1>1. CASE UNCHANGED vars
  <2>1. UNCHANGED <<raw, home, added, read, feed, day, since, ledger, eventLock, trendLock, run, crossed, faults>>
    BY <1>1 DEF vars, database, time, locks
  <2>2. ItemsTypeOK'
    BY <2>1 DEF Typed, ItemsTypeOK
  <2>3. \A v \in Run : WorkSound(v)'
    BY <2>1 DEF Typed, WorkSound, Link
  <2> QED
    BY <2>2, <2>3 DEF Typed
<1>2. CASE \E i \in Item : Collect(i) \/ CommitFeed(i)
  BY <1>2, TypedCollect
<1>3. CASE Midnight
  BY <1>3, TypedMidnight
<1>4. ASSUME NEW w \in Run, Step(w) \/ Fail(w) PROVE Typed'
  BY <1>4, TypedLoad, TypedPrepare, TypedTier1, TypedLeaveUnjudged, TypedEmbed,
     TypedLeaveUnembedded, TypedRelink, TypedCluster, TypedSuppress, TypedAnalyse,
     TypedBookAnalysis, TypedLeaveUnanalysed, TypedWrite, TypedApply, TypedCommit,
     TypedAbort DEF Step
<1> QED
  BY <1>1, <1>2, <1>3, <1>4 DEF Next

-----------------------------------------------------------------------------
(* What a step shows to the ledger and to the runs.                        *)

(* The actions that write no link, no extraction and no classified item.   *)
Plain(w) ==
    \/ Prepare(w) \/ Tier1(w) \/ LeaveUnjudged(w) \/ Embed(w) \/ LeaveUnembedded(w)
    \/ Relink(w) \/ Suppress(w) \/ BookAnalysis(w) \/ LeaveUnanalysed(w)

(* u follows r, with nothing new to show. *)
Follows(u, r) ==
    /\ u.link = r.link /\ u.text = r.text
    /\ \A i \in Item : u.mem[i] = r.mem[i] \/ u.mem[i] \notin {"none", "classified"}
    /\ u.pc \in Analysing =>
          u.pc = "write" /\ r.pc = "book" /\ u.view = r.view /\ u.item = r.item

LEMMA VerdictFollows ==
    ASSUME NEW r \in Runs, NEW i \in Item, NEW s \in Marks, s \notin {"none", "classified"},
           NEW pc \in Phases, NEW then \in Phases,
           <<pc, then>> \in {<<"prepare", "tier1">>, <<"embed", "tier2">>}
    PROVE  /\ Verdict(r, i, s, pc, then) \in Runs
           /\ Follows(Verdict(r, i, s, pc, then), r)
           /\ Verdict(r, i, s, pc, then).pc \in {pc, then, "commit"}
<1> DEFINE u == Verdict(r, i, s, pc, then)
<1>1. pc # then /\ pc # "commit" /\ then # "commit"
  OBVIOUS
<1>2. /\ u \in Runs /\ u.mem = [r.mem EXCEPT ![i] = s] /\ u.link = r.link /\ u.text = r.text
      /\ u.pc \in {pc, then, "commit"}
  BY <1>1, VerdictKeeps
<1>3. r.mem \in [Item -> Marks]
  BY DEF Runs, Marks
<1> HIDE DEF u
<1>4. Follows(u, r)
  BY <1>2, <1>3 DEF Follows, Analysing
<1> QED
  BY <1>2, <1>4 DEF u

LEMMA PlainStep ==
    ASSUME Typed, NEW w \in Run, Plain(w)
    PROVE  \E u \in Runs :
             /\ run' = [run EXCEPT ![w] = u] /\ Follows(u, run[w])
             /\ u.pc \in Working => run[w].pc \in Working \/ Tier1(w)
             /\ UNCHANGED <<raw, home, added, read, feed, day, since, eventLock, trendLock>>
             /\ MayBook(w)
<1>0. run[w] \in Runs
  BY DEF Typed, ItemsTypeOK
<1>1. CASE Prepare(w)
  <2>1. PICK i \in Head(run[w].left), s \in {"duplicate", "processing"} \cup Unserved :
           run' = [run EXCEPT ![w] = Verdict(run[w], i, s, "prepare", "tier1")]
    BY <1>1 DEF Prepare
  <2>2. i \in Item /\ s \in Marks /\ s \notin {"none", "classified"}
    BY <1>0, <2>1, StatusTyped DEF Head, Runs, Unserved
  <2> DEFINE u == Verdict(run[w], i, s, "prepare", "tier1")
  <2>3. u \in Runs /\ Follows(u, run[w]) /\ u.pc \in {"prepare", "tier1", "commit"}
    BY <1>0, <2>2, VerdictFollows DEF Phases
  <2>4. u.pc \notin Working
    BY <2>3 DEF Working, Analysing
  <2>5. UNCHANGED <<raw, home, added, read, feed, day, since, eventLock, trendLock>> /\ MayBook(w)
    BY <1>1 DEF Prepare, database, time, locks, MayBook
  <2> QED
    BY <2>1, <2>3, <2>4, <2>5
<1>2. CASE Tier1(w)
  <2>1. PICK verdict \in [run[w].left -> {"processing"} \cup Unserved] :
          LET pass == {i \in run[w].left : verdict[i] = "processing"}
              mem == [i \in Item |-> IF i \in run[w].left THEN verdict[i] ELSE run[w].mem[i]]
          IN run' = [run EXCEPT ![w] =
                Onward([run[w] EXCEPT !.mem = mem], {}, pass, "tier1", "embed")]
    BY <1>2 DEF Tier1
  <2> DEFINE pass == {i \in run[w].left : verdict[i] = "processing"}
             mem == [i \in Item |-> IF i \in run[w].left THEN verdict[i] ELSE run[w].mem[i]]
             r == [run[w] EXCEPT !.mem = mem]
             u == Onward(r, {}, pass, "tier1", "embed")
  <2>2. run[w].left \subseteq Item /\ run[w].mem \in [Item -> Marks]
    BY <1>0 DEF Runs, Marks
  <2>3. /\ mem \in [Item -> Marks] /\ pass \subseteq Item
        /\ \A i \in Item : mem[i] = run[w].mem[i] \/ mem[i] \notin {"none", "classified"}
    BY <2>1, <2>2, StatusTyped DEF Unserved
  <2>4. run' = [run EXCEPT ![w] = u]
    BY <2>1
  <2> HIDE DEF mem, pass
  <2>5. r \in Runs /\ r.mem = mem /\ r.link = run[w].link /\ r.text = run[w].text
    BY <1>0, <2>3 DEF Runs, Marks
  <2> HIDE DEF r
  <2>6. /\ u \in Runs /\ u.mem = mem /\ u.pc \in {"embed", "commit"}
        /\ u.link = r.link /\ u.text = r.text
    BY <2>3, <2>5 DEF Onward, Runs
  <2> HIDE DEF u
  <2>7. Follows(u, run[w])
    BY <2>3, <2>5, <2>6 DEF Follows, Analysing
  <2>8. UNCHANGED <<raw, home, added, read, feed, day, since, eventLock, trendLock>> /\ MayBook(w)
    BY <1>2 DEF Tier1, database, time, MayBook
  <2> QED
    BY <1>2, <2>4, <2>6, <2>7, <2>8
<1>3. CASE LeaveUnjudged(w)
  <2>1. PICK s \in Unserved :
          run' = [run EXCEPT ![w] = [@ EXCEPT !.left = {}, !.pc = "commit",
                !.mem = [i \in Item |-> IF i \in run[w].left THEN s ELSE run[w].mem[i]]]]
    BY <1>3 DEF LeaveUnjudged
  <2> DEFINE mem == [i \in Item |-> IF i \in run[w].left THEN s ELSE run[w].mem[i]]
             u == [run[w] EXCEPT !.left = {}, !.pc = "commit", !.mem = mem]
  <2>2. run[w].mem \in [Item -> Marks]
    BY <1>0 DEF Runs, Marks
  <2>3. /\ mem \in [Item -> Marks]
        /\ \A i \in Item : mem[i] = run[w].mem[i] \/ mem[i] \notin {"none", "classified"}
    BY <2>1, <2>2, StatusTyped DEF Unserved
  <2>4. run' = [run EXCEPT ![w] = u]
    BY <2>1
  <2> HIDE DEF mem
  <2>5. /\ u \in Runs /\ u.mem = mem /\ u.pc = "commit"
        /\ u.link = run[w].link /\ u.text = run[w].text
    BY <1>0, <2>3 DEF Runs, Marks
  <2> HIDE DEF u
  <2>6. Follows(u, run[w]) /\ u.pc \notin Working
    BY <2>3, <2>5 DEF Follows, Analysing, Working
  <2>7. UNCHANGED <<raw, home, added, read, feed, day, since, eventLock, trendLock>> /\ MayBook(w)
    BY <1>3 DEF LeaveUnjudged, database, time, locks, MayBook
  <2> QED
    BY <2>4, <2>5, <2>6, <2>7
<1>4. CASE Embed(w)
  <2> DEFINE u == [run[w] EXCEPT !.pc = "link"]
  <2>1. run[w].pc = "embed" /\ run' = [run EXCEPT ![w] = u]
    BY <1>4 DEF Embed, At
  <2>2. /\ u \in Runs /\ u.pc = "link" /\ u.mem = run[w].mem
        /\ u.link = run[w].link /\ u.text = run[w].text
    BY <1>0 DEF Runs
  <2> HIDE DEF u
  <2>3. Follows(u, run[w]) /\ run[w].pc \in Working
    BY <2>1, <2>2 DEF Follows, Analysing, Working
  <2>4. UNCHANGED <<raw, home, added, read, feed, day, since, eventLock, trendLock>> /\ MayBook(w)
    BY <1>4 DEF Embed, database, time, MayBook
  <2> QED
    BY <2>1, <2>2, <2>3, <2>4
<1>5. CASE LeaveUnembedded(w) \/ Relink(w) \/ Suppress(w)
  <2>1. PICK i \in Head(run[w].left), s \in {"processing"} \cup Unserved :
           run' = [run EXCEPT ![w] = Verdict(run[w], i, s, "embed", "tier2")]
    BY <1>5 DEF LeaveUnembedded, Relink, Suppress, Unserved
  <2>2. i \in Item /\ s \in Marks /\ s \notin {"none", "classified"}
    BY <1>0, <2>1, StatusTyped DEF Head, Runs, Unserved
  <2> DEFINE u == Verdict(run[w], i, s, "embed", "tier2")
  <2>3. u \in Runs /\ Follows(u, run[w])
    BY <1>0, <2>2, VerdictFollows DEF Phases
  <2>4. run[w].pc \in Working
    BY <1>5 DEF Working, LeaveUnembedded, Relink, Suppress, At
  <2>5. UNCHANGED <<raw, home, added, read, feed, day, since, eventLock, trendLock>> /\ MayBook(w)
    BY <1>5 DEF LeaveUnembedded, Relink, Suppress, database, time, locks, MayBook
  <2> QED
    BY <2>1, <2>3, <2>4, <2>5
<1>6. CASE BookAnalysis(w)
  <2> DEFINE u == [run[w] EXCEPT !.pc = "write"]
  <2>1. run[w].pc = "book" /\ run' = [run EXCEPT ![w] = u]
    BY <1>6 DEF BookAnalysis, At
  <2>2. /\ u \in Runs /\ u.pc = "write" /\ u.mem = run[w].mem /\ u.view = run[w].view
        /\ u.link = run[w].link /\ u.text = run[w].text /\ u.item = run[w].item
    BY <1>0 DEF Runs
  <2> HIDE DEF u
  <2>3. Follows(u, run[w]) /\ run[w].pc \in Working
    BY <2>1, <2>2 DEF Follows, Working, Analysing
  <2>4. UNCHANGED <<raw, home, added, read, feed, day, since, eventLock, trendLock>> /\ MayBook(w)
    BY <1>6 DEF BookAnalysis, database, time, MayBook
  <2> QED
    BY <2>1, <2>2, <2>3, <2>4
<1>7. CASE LeaveUnanalysed(w)
  <2>1. PICK s \in Unserved : run' = [run EXCEPT ![w] = Concluded(run[w], s)]
    BY <1>7 DEF LeaveUnanalysed
  <2> DEFINE u == Concluded(run[w], s)
  <2>2. /\ s \in Marks /\ s \notin {"none", "classified"} /\ run[w].item \in Item
        /\ run[w].mem \in [Item -> Marks] /\ run[w].pc = "book"
    BY <1>0, <1>7, <2>1, StatusTyped
       DEF Unserved, Typed, WorkSound, Runs, Marks, LeaveUnanalysed, At, Analysing
  <2>3. /\ u \in Runs /\ u.mem = [run[w].mem EXCEPT ![run[w].item] = s]
        /\ u.link = run[w].link /\ u.text = run[w].text /\ u.pc \in {"tier2", "commit"}
    BY <1>0, <2>2, ConcludedKeeps
  <2>4. run' = [run EXCEPT ![w] = u]
    BY <2>1
  <2> HIDE DEF u
  <2>5. Follows(u, run[w]) /\ run[w].pc \in Working
    BY <2>2, <2>3 DEF Follows, Working, Analysing
  <2>6. UNCHANGED <<raw, home, added, read, feed, day, since, eventLock, trendLock>> /\ MayBook(w)
    BY <1>7 DEF LeaveUnanalysed, database, time, MayBook
  <2> QED
    BY <2>3, <2>4, <2>5, <2>6
<1> QED
  BY <1>1, <1>2, <1>3, <1>4, <1>5, <1>6, <1>7 DEF Plain

-----------------------------------------------------------------------------
(* Whoever has something to show holds the ledger.                         *)

LEMMA LedgerInit == Init => Ledger
BY RawItemsConstants DEF Init, Ledger, Alone, Owns, Holds, Idle, Working, Analysing

(* A step of w by which nobody gives up the ledger. *)
LEMMA LedgerKept ==
    ASSUME Typed, Ledger, NEW w \in Run, NEW u \in Runs, run' = [run EXCEPT ![w] = u],
           Alone => Alone', \A v \in Run : Holds(v) => Holds(v)',
           \A e \in Item : eventLock'[e] \in {eventLock[e], w},
           trendLock' \in {trendLock, w},
           Owns(w)' => Owns(w) \/ Holds(w)'
    PROVE  Ledger'
<1>1. ASSUME NEW v \in Run, v # w, Owns(v)' PROVE Holds(v)'
  <2>1. run'[v] = run[v]
    BY <1>1 DEF Typed, ItemsTypeOK
  <2>2. Owns(v)
    BY <1>1, <2>1 DEF Owns
  <2> QED
    BY <2>2 DEF Ledger
<1>2. Owns(w)' => Holds(w)'
  BY DEF Ledger
<1>3. Alone'
  BY DEF Ledger
<1> QED
  BY <1>1, <1>2, <1>3 DEF Ledger

(* A step outside the ledger. *)
LEMMA HoldsKept == UNCHANGED <<ledger, crossed>> =>
                     (Alone => Alone') /\ \A v \in Run : Holds(v) => Holds(v)'
BY DEF Alone, Holds

LEMMA LedgerPlain ==
    ASSUME Typed, Ledger, NEW w \in Run, Plain(w)
    PROVE  Ledger'
<1>1. PICK u \in Runs :
        /\ run' = [run EXCEPT ![w] = u] /\ Follows(u, run[w])
        /\ u.pc \in Working => run[w].pc \in Working \/ Tier1(w)
        /\ UNCHANGED <<raw, home, added, read, feed, day, since, eventLock, trendLock>>
        /\ MayBook(w)
  BY PlainStep
<1>2. (Alone => Alone') /\ \A v \in Run : Holds(v) => Holds(v)'
  BY <1>1, BookStep DEF Typed
<1>3. Owns(w)' => Owns(w) \/ Holds(w)'
  <2>1. ASSUME Owns(w)', ~Tier1(w) PROVE Owns(w)
    <3>1. run'[w] = u
      BY <1>1 DEF Typed, ItemsTypeOK
    <3> QED
      BY <1>1, <2>1, <3>1 DEF Owns, Follows
  <2>2. Tier1(w) => Holds(w)'
    BY BookHolds DEF Tier1, Typed
  <2> QED
    BY <2>1, <2>2
<1> QED
  BY <1>1, <1>2, <1>3, LedgerKept

LEMMA LedgerLoad ==
    ASSUME Typed, Ledger, NEW w \in Run, Load(w)
    PROVE  Ledger'
<1> DEFINE batch == Oldest(Loadable)
           mem == [i \in Item |-> IF i \in batch THEN "processing" ELSE "none"]
           u == [Idle EXCEPT !.pc = "prepare", !.left = batch, !.mem = mem]
<1>1. batch \subseteq Item
  BY DEF Oldest, Loadable
<1>2. u \in Runs /\ u.pc = "prepare" /\ u.mem = mem /\ u.link = Idle.link /\ u.text = Idle.text
  BY <1>1, RawItemsConstants DEF Runs, Idle
<1>3. run' = [run EXCEPT ![w] = u] /\ UNCHANGED <<ledger, crossed, eventLock, trendLock>>
  BY DEF Load, locks
<1>4. \A i \in Item : mem[i] # "classified" /\ Idle.link[i] = None /\ Idle.text[i] = {}
  BY DEF Idle
<1> HIDE DEF u, mem, batch
<1>5. run'[w] = u
  BY <1>3 DEF Typed, ItemsTypeOK
<1>6. Owns(w)' => Owns(w)
  BY <1>2, <1>3, <1>4, <1>5 DEF Owns, Working, Analysing
<1> QED
  BY <1>2, <1>3, <1>6, LedgerKept, HoldsKept

(* The steps of a run that has booked already. *)
LEMMA LedgerWork ==
    ASSUME Typed, Ledger, NEW w \in Run, Cluster(w) \/ Analyse(w) \/ Write(w) \/ Apply(w)
    PROVE  Ledger'
<1>1. Owns(w)
  BY DEF Owns, Cluster, Analyse, Write, Apply, At, Working, Analysing
<1>2. UNCHANGED <<ledger, crossed>>
  BY DEF Cluster, Analyse, Write, Apply, locks
<1>3. trendLock' \in {trendLock, w}
  BY DEF Cluster, Analyse, Write, Apply, locks
<1>4. \A e \in Item : eventLock'[e] \in {eventLock[e], w}
  BY DEF Cluster, LinkTo, Analyse, Write, Apply, locks, Typed, ItemsTypeOK
<1>5. \E u \in Runs : run' = [run EXCEPT ![w] = u]
  <2>1. run' \in [Run -> Runs]
    BY TypedCluster, TypedAnalyse, TypedWrite, TypedApply DEF Typed, ItemsTypeOK
  <2>2. run' = [run EXCEPT ![w] = run'[w]]
    BY <2>1 DEF Cluster, LinkTo, Analyse, Write, Apply, Typed, ItemsTypeOK
  <2> QED
    BY <2>1, <2>2
<1> QED
  BY <1>1, <1>2, <1>3, <1>4, <1>5, LedgerKept, HoldsKept

LEMMA LedgerEnd ==
    ASSUME Typed, Ledger, NEW w \in Run, End(w)
    PROVE  Ledger'
<1>1. /\ run' = [run EXCEPT ![w] = Idle]
      /\ \A v \in Run \ {w} : Holds(v) => Holds(v)'
      /\ \A v \in Run : trendLock' = v => v # w /\ trendLock = v
      /\ \A v \in Run, e \in Item : eventLock'[e] = v => v # w /\ eventLock[e] = v
      /\ Alone => Alone'
  BY EndStep DEF Typed
<1>2. run'[w] = Idle /\ \A v \in Run \ {w} : run'[v] = run[v]
  BY <1>1 DEF Typed, ItemsTypeOK
<1>3. ~Owns(w)'
  BY <1>1, <1>2 DEF Owns, Idle, Working, Analysing
<1>4. ASSUME NEW v \in Run \ {w}, Owns(v)' PROVE Holds(v)'
  <2>1. Owns(v)
    BY <1>1, <1>2, <1>4 DEF Owns
  <2> QED
    BY <1>1, <2>1 DEF Ledger
<1> QED
  BY <1>1, <1>3, <1>4 DEF Ledger

LEMMA LedgerNext == Typed /\ Ledger /\ [Next]_vars => Ledger'
<1> SUFFICES ASSUME Typed, Ledger, [Next]_vars PROVE Ledger'
  OBVIOUS
<1>1. CASE UNCHANGED <<ledger, eventLock, trendLock, run, crossed>>
  BY <1>1 DEF Ledger, Alone, Owns, Holds
<1>2. CASE \E i \in Item : Collect(i) \/ CommitFeed(i)
  BY <1>1, <1>2 DEF Collect, CommitFeed, locks
<1>3. CASE Midnight
  BY <1>1, <1>3 DEF Midnight, locks
<1>4. ASSUME NEW w \in Run, Step(w) \/ Fail(w) PROVE Ledger'
  <2>1. CASE Commit(w) \/ Fail(w) \/ Victim(w)
    BY <2>1, LedgerEnd DEF Commit, Fail, Victim
  <2>2. CASE Cluster(w) \/ Analyse(w) \/ Write(w) \/ Apply(w)
    BY <2>2, LedgerWork
  <2> QED
    BY <1>4, <2>1, <2>2, LedgerPlain, LedgerLoad DEF Step, Plain
<1> QED
  BY <1>1, <1>2, <1>3, <1>4 DEF Next, vars, locks

-----------------------------------------------------------------------------
(* What the runs see.                                                      *)

LEMMA SeenInit == Init => OneEvent /\ ReadSound /\ Seen
<1> SUFFICES ASSUME Init PROVE OneEvent /\ ReadSound /\ Seen
  OBVIOUS
<1>1. PICK linked \in SUBSET Resumed :
        /\ \A i, j \in linked : Story(i) = Story(j) => i = j
        /\ home = [i \in Item |-> IF i \in linked THEN i ELSE None]
  BY DEF Init
<1>2. /\ raw = [i \in Item |-> IF i \in Backlog THEN "pending" ELSE "absent"]
      /\ run = [w \in Run |-> Idle] /\ read = [i \in Item |-> {}]
  BY DEF Init
<1>3. \A e \in Item : home[e] = e => e \in linked
  BY <1>1, RawItemsConstants
<1>4. OneEvent /\ ReadSound
  BY <1>1, <1>2, <1>3 DEF OneEvent, Events, ReadSound, ReadLinked, LatestIsRead
<1>5. ASSUME NEW w \in Run PROVE Sees(w)
  <2>1. /\ run[w].pc = "idle" /\ \A i \in Item : run[w].link[i] = None /\ run[w].mem[i] = "none"
        /\ \A i \in Item : run[w].text[i] = {}
    BY <1>2 DEF Idle
  <2>2. \A i \in Item : Link(w, i) = home[i] /\ Status(w, i) # "classified" /\ Text(w, i) = {}
    BY <1>2, <2>1 DEF Link, Status, Text
  <2>3. SeesStories(w) /\ SeesReads(w) /\ SeesDone(w)
    BY <1>1, <1>3, <2>2 DEF SeesStories, SeesReads, SeesDone
  <2>4. Viewed(w)
    BY <2>1 DEF Viewed
  <2> QED
    BY <2>3, <2>4 DEF Sees
<1> QED
  BY <1>4, <1>5 DEF Seen

(* The links a run sees, and their times, while it inserts none.           *)
LEMMA LinksKept ==
    ASSUME NEW w \in Run, run'[w].link = run[w].link, since'[w] = since[w],
           UNCHANGED <<home, added>>
    PROVE  /\ \A i : Link(w, i)' = Link(w, i) /\ Added(w, i)' = Added(w, i)
           /\ \A e : Latest(w, e)' = Latest(w, e)
           /\ \A i, V : Fresh(w, i, V)' = Fresh(w, i, V)
<1>1. \A i : Link(w, i)' = Link(w, i) /\ Added(w, i)' = Added(w, i)
  BY DEF Link, Added
<1>2. \A e : Linked(w, e)' = Linked(w, e)
  BY <1>1 DEF Linked
<1> QED
  BY <1>1, <1>2 DEF Latest, Fresh

(* A run that writes no extraction either sees what it saw. *)
LEMMA SameSees ==
    ASSUME NEW w \in Run, Sees(w), run'[w].link = run[w].link, since'[w] = since[w],
           UNCHANGED <<home, added, read>>, run'[w].text = run[w].text,
           \A i \in Item : Status(w, i)' = "classified" => Status(w, i) = "classified"
    PROVE  SeesStories(w)' /\ SeesReads(w)' /\ SeesDone(w)'
<1>1. /\ \A i : Link(w, i)' = Link(w, i)
      /\ \A i, V : Fresh(w, i, V)' = Fresh(w, i, V)
  BY LinksKept
<1>2. \A e : Text(w, e)' = Text(w, e)
  BY DEF Text
<1>3. SeesStories(w)' /\ SeesReads(w)'
  BY <1>1, <1>2 DEF Sees, SeesStories, SeesReads
<1>4. SeesDone(w)'
  <2> SUFFICES ASSUME NEW i \in Item, Status(w, i)' = "classified"
               PROVE  Link(w, i)' # None /\ Fresh(w, i, Text(w, Link(w, i)))'
    BY DEF SeesDone
  <2>1. Link(w, i) # None /\ Fresh(w, i, Text(w, Link(w, i)))
    BY DEF Sees, SeesDone
  <2>2. Text(w, Link(w, i))' = Text(w, Link(w, i))
    BY <1>1 DEF Text, Link
  <2>3. Added(w, i)' = Added(w, i) /\ \A j : Added(w, j)' = Added(w, j)
    BY LinksKept
  <2> QED
    BY <1>1, <2>1, <2>2, <2>3 DEF Fresh
<1> QED
  BY <1>3, <1>4

(* A run that does not step sees no less, when nothing is committed.       *)
LEMMA OthersSee ==
    ASSUME NEW v \in Run, Sees(v), run'[v] = run[v], since'[v] = since[v],
           UNCHANGED <<home, added, read>>,
           \A i \in Item : raw'[i] = "classified" => raw[i] = "classified"
    PROVE  Sees(v)'
<1>1. \A i \in Item : Status(v, i)' = "classified" => Status(v, i) = "classified"
  BY DEF Status
<1>2. SeesStories(v)' /\ SeesReads(v)' /\ SeesDone(v)'
  BY <1>1, SameSees
<1>3. Viewed(v)'
  BY DEF Sees, Viewed, Latest, Linked, Link, Added, Fresh
<1> QED
  BY <1>2, <1>3 DEF Sees

(* What the database shows after a step to a run that has written nothing. *)
LEMMA BareSees ==
    ASSUME NEW v \in Run, ~crossed', OneEvent', ReadSound',
           home' \in [Item -> Item \cup {None}], read' \in [Item -> SUBSET Item],
           \A i \in Item : /\ run'[v].link[i] = None /\ run'[v].text[i] = {}
                          /\ run'[v].mem[i] # "classified",
           run'[v].pc \notin Analysing
    PROVE  Sees(v)'
<1>1. \A i \in Item : /\ Link(v, i)' = home'[i] /\ Text(v, i)' = read'[i]
                      /\ Added(v, i)' = added'[i]
                      /\ Status(v, i)' = "classified" => raw'[i] = "classified"
  BY DEF Link, Text, Status, Added
<1>2. SeesStories(v)'
  BY <1>1 DEF SeesStories, OneEvent, Events
<1>3. SeesReads(v)'
  BY <1>1 DEF SeesReads, ReadSound, ReadLinked
<1>4. SeesDone(v)'
  <2> SUFFICES ASSUME NEW i \in Item, Status(v, i)' = "classified"
               PROVE  Link(v, i)' # None /\ Fresh(v, i, Text(v, Link(v, i)))'
    BY DEF SeesDone
  <2> DEFINE e == home'[i]
  <2>1. /\ e # None /\ read'[e] # {}
        /\ i \in read'[e] \/ \A j \in read'[e] : added'[i] <= added'[j]
    BY <1>1 DEF ReadSound, LatestIsRead
  <2>2. e \in Item /\ Link(v, i)' = e
    BY <1>1, <2>1
  <2>3. Text(v, Link(v, i))' = read'[e] /\ read'[e] \subseteq Item
    BY <2>2 DEF Text, Link
  <2> HIDE DEF e
  <2> QED
    BY <1>1, <2>1, <2>2, <2>3 DEF Fresh
<1>5. Viewed(v)'
  BY DEF Viewed, Analysing
<1> QED
  BY <1>2, <1>3, <1>4, <1>5 DEF Sees

(* Alone with the ledger: nobody else has anything to show.                *)
LEMMA Bare ==
    ASSUME Ledger, ~crossed, NEW w \in Run, NEW v \in Run \ {w}, Owns(w),
           None \notin Run
    PROVE  /\ \A i \in Item : run[v].link[i] = None /\ run[v].text[i] = {}
                               /\ run[v].mem[i] # "classified"
           /\ run[v].pc \notin Working
<1>1. ~Owns(v)
  BY DEF Ledger, Alone, Holds
<1> QED
  BY <1>1 DEF Owns

LEMMA PlainSees ==
    ASSUME Typed, NEW w \in Run, Plain(w), Sees(w)
    PROVE  Sees(w)'
<1>1. PICK u \in Runs :
        /\ run' = [run EXCEPT ![w] = u] /\ Follows(u, run[w])
        /\ u.pc \in Working => run[w].pc \in Working \/ Tier1(w)
        /\ UNCHANGED <<raw, home, added, read, feed, day, since, eventLock, trendLock>>
        /\ MayBook(w)
  BY PlainStep
<1>2. run'[w] = u
  BY <1>1 DEF Typed, ItemsTypeOK
<1>3. /\ u.link = run[w].link /\ u.text = run[w].text
      /\ \A i \in Item : u.mem[i] = run[w].mem[i] \/ u.mem[i] \notin {"none", "classified"}
      /\ u.pc \in Analysing =>
          u.pc = "write" /\ run[w].pc = "book" /\ u.view = run[w].view /\ u.item = run[w].item
  BY <1>1 DEF Follows
<1>4. \A i \in Item : Status(w, i)' = "classified" => Status(w, i) = "classified"
  BY <1>1, <1>2, <1>3 DEF Status
<1>5. SeesStories(w)' /\ SeesReads(w)' /\ SeesDone(w)'
  BY <1>1, <1>2, <1>3, <1>4, SameSees
<1>6. Viewed(w)'
  <2> SUFFICES ASSUME u.pc = "write"
               PROVE  run'[w].view \in Latest(w, Link(w, run[w].item))'
    BY <1>2, <1>3 DEF Viewed, Analysing
  <2> DEFINE e == Link(w, run[w].item)
  <2>1. run[w].view \in Latest(w, e)
    BY <1>3 DEF Sees, Viewed, Analysing
  <2>2. Latest(w, e)' = Latest(w, e) /\ Link(w, run[w].item)' = e
    BY <1>1, <1>2, <1>3, LinksKept DEF Link, Latest, Linked, Added, Analysing
  <2> QED
    BY <1>1, <1>2, <1>3, <2>1 DEF Latest, Linked, Link, Added, Analysing
<1> QED
  BY <1>5, <1>6 DEF Sees

LEMMA LoadSees ==
    ASSUME Typed, NEW w \in Run, Load(w), ~crossed, OneEvent, ReadSound
    PROVE  Sees(w)'
<1> DEFINE batch == Oldest(Loadable)
           mem == [i \in Item |-> IF i \in batch THEN "processing" ELSE "none"]
           u == [Idle EXCEPT !.pc = "prepare", !.left = batch, !.mem = mem]
<1>1. u.pc = "prepare" /\ u.mem = mem /\ u.link = Idle.link /\ u.text = Idle.text
  BY RawItemsConstants DEF Idle
<1>2. /\ run' = [run EXCEPT ![w] = u]
      /\ UNCHANGED <<raw, home, added, read, crossed>>
  BY DEF Load, locks, database, time
<1>3. \A i \in Item : mem[i] # "classified" /\ Idle.link[i] = None /\ Idle.text[i] = {}
  BY DEF Idle
<1> HIDE DEF u, mem, batch
<1>4. run'[w] = u
  BY <1>2 DEF Typed, ItemsTypeOK
<1>5. \A i \in Item : run'[w].link[i] = None /\ run'[w].text[i] = {}
                      /\ run'[w].mem[i] # "classified"
  BY <1>1, <1>3, <1>4
<1>6. /\ OneEvent' /\ ReadSound' /\ ~crossed'
      /\ home' \in [Item -> Item \cup {None}] /\ read' \in [Item -> SUBSET Item]
  BY <1>2 DEF OneEvent, Events, ReadSound, ReadLinked, LatestIsRead, Typed, ItemsTypeOK
<1> QED
  BY <1>1, <1>4, <1>5, <1>6, BareSees DEF Analysing

(* An event is founded only where the run sees none of the story.          *)
LEMMA ClusterSees ==
    ASSUME Typed, NEW w \in Run, Cluster(w), Sees(w)
    PROVE  Sees(w)'
<1>1. PICK i \in run[w].left, e \in Item, r \in Runs :
        /\ run[w].pc = "link" /\ Link(w, i) = None
        /\ e \in Matches(w, i) \/ (e = i /\ Matches(w, i) = {})
        /\ Free(eventLock[e], w) /\ eventLock' = [eventLock EXCEPT ![e] = w]
        /\ r.link = [run[w].link EXCEPT ![i] = e]
        /\ r.mem = run[w].mem /\ r.left = run[w].left /\ r.next = run[w].next
        /\ r.text = run[w].text
        /\ run' = [run EXCEPT ![w] = Verdict(r, i, "processing", "embed", "tier2")]
        /\ UNCHANGED <<database, feed, time, ledger, trendLock, crossed, faults>>
  BY ClusterStep
<1> DEFINE u == Verdict(r, i, "processing", "embed", "tier2")
<1>2. /\ i \in Item /\ "processing" \in Marks /\ run[w].link \in [Item -> Item \cup {None}]
      /\ run[w].mem[i] = "processing"
  BY StatusTyped DEF Typed, ItemsTypeOK, Runs, WorkSound
<1>3. u \in Runs /\ Follows(u, r) /\ u.pc \in {"embed", "tier2", "commit"}
  BY <1>2, VerdictFollows DEF Phases
<1>4. run'[w] = u
  BY <1>1 DEF Typed, ItemsTypeOK
<1> HIDE DEF u
<1>5. UNCHANGED <<raw, home, added, read, since>>
  BY <1>1 DEF database, time
<1>6. Link(w, i)' = e /\ \A j \in Item \ {i} : Link(w, j)' = Link(w, j) /\ Added(w, j)' = Added(w, j)
  BY <1>1, <1>2, <1>3, <1>4, <1>5, RawItemsConstants DEF Link, Added, Follows
<1>7. SeesStories(w)'
  <2> SUFFICES ASSUME NEW f \in Item, NEW g \in Item, Link(w, f)' = f, Link(w, g)' = g,
                      Story(f) = Story(g)
               PROVE  f = g
    BY DEF SeesStories
  <2>1. CASE e \in Matches(w, i)
    <3>1. e # i
      BY <1>1, <2>1, RawItemsConstants DEF Matches
    <3>2. f # i /\ g # i
      BY <1>6, <3>1
    <3> QED
      BY <1>6, <3>2 DEF Sees, SeesStories
  <2>2. CASE e = i /\ Matches(w, i) = {}
    <3>1. \A h \in Item : Link(w, h) = h => Story(h) # Story(i)
      BY <2>2 DEF Matches
    <3> QED
      BY <1>6, <3>1 DEF Sees, SeesStories
  <2> QED
    BY <1>1, <2>1, <2>2
<1>8. \A x : Text(w, x)' = Text(w, x)
  BY <1>1, <1>3, <1>4, <1>5 DEF Text, Follows
<1>9. \A x \in Item : i \notin Text(w, x)
  BY <1>1, RawItemsConstants DEF Sees, SeesReads
<1>10. \A x \in Item : Text(w, x) \subseteq Item
  BY DEF Text, Typed, ItemsTypeOK, Runs
<1>11. SeesReads(w)'
  BY <1>6, <1>8, <1>9, <1>10 DEF Sees, SeesReads
<1>12. SeesDone(w)'
  <2> SUFFICES ASSUME NEW j \in Item, Status(w, j)' = "classified"
               PROVE  Link(w, j)' # None /\ Fresh(w, j, Text(w, Link(w, j)))'
    BY DEF SeesDone
  <2> DEFINE x == Link(w, j)
  <2>1. Status(w, j) = "classified"
    BY <1>1, <1>3, <1>4, <1>5 DEF Status, Follows
  <2>2. x # None /\ Fresh(w, j, Text(w, x))
    BY <2>1 DEF Sees, SeesDone
  <2>3. x \in Item
    BY <2>2 DEF Link, Typed, ItemsTypeOK, Runs
  <2>4. j # i
    BY <1>2, <2>1 DEF Status
  <2>5. Link(w, j)' = x
    BY <1>6, <2>4
  <2>6. Text(w, Link(w, j))' = Text(w, x)
    BY <1>8, <2>5 DEF Text
  <2>7. \A k \in Text(w, x) \cup {j} : Added(w, k)' = Added(w, k)
    BY <1>6, <1>9, <1>10, <2>3, <2>4
  <2> HIDE DEF x
  <2> QED
    BY <2>2, <2>5, <2>6, <2>7 DEF Fresh
<1>13. Viewed(w)'
  BY <1>3, <1>4 DEF Viewed
<1> QED
  BY <1>7, <1>11, <1>12, <1>13 DEF Sees

LEMMA AnalyseSees ==
    ASSUME Typed, NEW w \in Run, Analyse(w), Sees(w)
    PROVE  Sees(w)'
<1>0. PICK i \in run[w].left : \E view \in Latest(w, Link(w, i)) :
        run' = [run EXCEPT ![w].pc = "book", ![w].item = i, ![w].view = view]
  BY DEF Analyse
<1>1. PICK view \in Latest(w, Link(w, i)) :
        run' = [run EXCEPT ![w].pc = "book", ![w].item = i, ![w].view = view]
  BY <1>0
<1>2. UNCHANGED <<raw, home, added, read, since>> /\ run[w] \in Runs
  BY DEF Analyse, database, time, Typed, ItemsTypeOK
<1>3. /\ run'[w].pc = "book" /\ run'[w].item = i /\ run'[w].view = view
      /\ run'[w].link = run[w].link /\ run'[w].text = run[w].text /\ run'[w].mem = run[w].mem
  BY <1>1, <1>2 DEF Typed, ItemsTypeOK, Runs
<1>4. \A j \in Item : Status(w, j)' = "classified" => Status(w, j) = "classified"
  BY <1>2, <1>3 DEF Status
<1>5. SeesStories(w)' /\ SeesReads(w)' /\ SeesDone(w)'
  BY <1>2, <1>3, <1>4, SameSees
<1>6. Viewed(w)'
  <2>1. view \in Latest(w, Link(w, i))
    BY <1>1
  <2> QED
    BY <1>2, <1>3, <2>1 DEF Viewed, Latest, Linked, Link, Added
<1> QED
  BY <1>5, <1>6 DEF Sees

(* The extraction written has read the latest items the run sees.          *)
LEMMA WriteSees ==
    ASSUME Typed, NEW w \in Run, Write(w), Sees(w)
    PROVE  Sees(w)'
<1>1. PICK e \in Item, u \in Runs :
        /\ e = Link(w, run[w].item) /\ run[w].item \in run[w].left
        /\ Free(eventLock[e], w) /\ eventLock' = [eventLock EXCEPT ![e] = w]
        /\ u.pc = "apply" /\ u.text = [run[w].text EXCEPT ![e] = run[w].view]
        /\ u.mem = run[w].mem /\ u.left = run[w].left /\ u.next = run[w].next
        /\ u.link = run[w].link /\ u.item = run[w].item
        /\ run[w].pc = "write" /\ run' = [run EXCEPT ![w] = u]
        /\ UNCHANGED <<database, feed, time, ledger, trendLock, crossed, faults>>
  BY WriteStep
<1>0. PICK V, x : V = run[w].view /\ x = run[w].item
  OBVIOUS
<1>2. run'[w] = u /\ run[w].text \in [Item -> SUBSET Item] /\ run[w].item \in Item
  BY <1>1 DEF Typed, ItemsTypeOK, Runs
<1>3. UNCHANGED <<raw, home, added, read, since>>
  BY <1>1 DEF database, time
<1>4. /\ V # {} /\ \A j \in V : j \in Item /\ Link(w, j) = e
      /\ \A i \in Item : Link(w, i) = e => Fresh(w, i, V)
  <2>1. V \in Latest(w, e)
    BY <1>0, <1>1 DEF Sees, Viewed
  <2>2. /\ V \subseteq Linked(w, e) /\ V # {}
        /\ \A i \in Linked(w, e) \ V, j \in V : Added(w, i) <= Added(w, j)
    BY <2>1 DEF Latest
  <2> QED
    BY <2>2 DEF Linked, Fresh
<1>5. /\ \A j : Link(w, j)' = Link(w, j) /\ Status(w, j)' = Status(w, j)
      /\ \A i, S : Fresh(w, i, S)' = Fresh(w, i, S)
  <2>1. run'[w].link = run[w].link /\ run'[w].mem = run[w].mem
    BY <1>1, <1>2
  <2>2. \A j : Status(w, j)' = Status(w, j)
    BY <1>3, <2>1 DEF Status
  <2> QED
    BY <1>3, <2>1, <2>2, LinksKept
<1>6. run'[w].text[e] = V /\ \A d \in Item \ {e} : run'[w].text[d] = run[w].text[d]
  BY <1>0, <1>1, <1>2
<1>7. Text(w, e)' = V /\ \A d \in Item \ {e} : Text(w, d)' = Text(w, d)
  BY <1>3, <1>4, <1>6 DEF Text
<1>8. SeesStories(w)' /\ SeesReads(w)'
  BY <1>4, <1>5, <1>7 DEF Sees, SeesStories, SeesReads
<1>9. SeesDone(w)'
  <2> SUFFICES ASSUME NEW j \in Item, Status(w, j)' = "classified"
               PROVE  Link(w, j)' # None /\ Fresh(w, j, Text(w, Link(w, j)))'
    BY DEF SeesDone
  <2> DEFINE y == Link(w, j)
  <2>1. y # None /\ Fresh(w, j, Text(w, y)) /\ Link(w, j)' = y
    BY <1>5 DEF Sees, SeesDone
  <2>2. y \in Item
    BY <1>2, <2>1 DEF Typed, ItemsTypeOK, Link, Runs
  <2>3. Text(w, Link(w, j))' = IF y = e THEN V ELSE Text(w, y)
    BY <1>7, <2>1, <2>2 DEF Text
  <2>4. Fresh(w, j, Text(w, Link(w, j))')
    BY <1>4, <2>1, <2>3
  <2>5. Added(w, j)' = Added(w, j) /\ \A k : Added(w, k)' = Added(w, k)
    BY <1>1, <1>2, <1>3 DEF Added
  <2> QED
    BY <2>1, <2>4, <2>5 DEF Fresh
<1>10. Viewed(w)'
  <2>1. Fresh(w, x, V)'
    BY <1>0, <1>1, <1>2, <1>4, <1>5
  <2>2. run'[w].pc = "apply" /\ run'[w].item = x /\ Link(w, x)' = e
    BY <1>0, <1>1, <1>2, <1>5
  <2>3. run'[w].text[e] = V
    BY <1>6
  <2> QED
    BY <2>1, <2>2, <2>3 DEF Viewed, Fresh, Link, Added
<1> QED
  BY <1>8, <1>9, <1>10 DEF Sees

(* The item classified is in the extraction just written, or no later than *)
(* what is in it.                                                          *)
LEMMA ApplySees ==
    ASSUME Typed, NEW w \in Run, Apply(w), Sees(w)
    PROVE  Sees(w)'
<1>1. PICK s \in {"classified", "dropped"} : run' = [run EXCEPT ![w] = Concluded(run[w], s)]
  BY DEF Apply
<1> DEFINE u == Concluded(run[w], s)
           x == run[w].item
<1>2. /\ run[w] \in Runs /\ x \in Item /\ run[w].mem \in [Item -> Marks] /\ s \in Marks
      /\ run[w].pc = "apply" /\ Link(w, x) # None
  BY StatusTyped DEF Typed, ItemsTypeOK, Runs, Marks, WorkSound, Apply, At, Analysing
<1>3. /\ u.mem = [run[w].mem EXCEPT ![x] = s]
      /\ u.link = run[w].link /\ u.text = run[w].text /\ u.pc \in {"tier2", "commit"}
  BY <1>2, ConcludedKeeps
<1>4. run'[w] = u
  BY <1>1 DEF Typed, ItemsTypeOK
<1> HIDE DEF u
<1>5. UNCHANGED <<raw, home, added, read, since>>
  BY DEF Apply, database, time
<1>6. /\ \A j : /\ Link(w, j)' = Link(w, j) /\ Text(w, j)' = Text(w, j)
                /\ Added(w, j)' = Added(w, j)
      /\ run'[w].link = run[w].link
  BY <1>3, <1>4, <1>5 DEF Link, Text, Added
<1>7. Fresh(w, x, Text(w, Link(w, x)))
  <2>1. Fresh(w, x, run[w].text[Link(w, x)])
    BY <1>2 DEF Sees, Viewed
  <2> QED
    BY <2>1 DEF Fresh, Text
<1>8. SeesStories(w)' /\ SeesReads(w)'
  BY <1>6 DEF Sees, SeesStories, SeesReads
<1>9. SeesDone(w)'
  <2> SUFFICES ASSUME NEW j \in Item, Status(w, j)' = "classified"
               PROVE  Link(w, j)' # None /\ Fresh(w, j, Text(w, Link(w, j)))'
    BY DEF SeesDone
  <2>1. Link(w, j) # None /\ Fresh(w, j, Text(w, Link(w, j)))
    <3>1. CASE j = x
      BY <1>2, <1>7, <3>1
    <3>2. CASE j # x
      <4>1. Status(w, j) = "classified"
        BY <1>2, <1>3, <1>4, <1>5, <3>2 DEF Status
      <4> QED
        BY <4>1 DEF Sees, SeesDone
    <3> QED
      BY <3>1, <3>2
  <2>2. Text(w, Link(w, j))' = Text(w, Link(w, j))
    BY <1>3, <1>4, <1>5 DEF Text, Link
  <2> QED
    BY <1>6, <2>1, <2>2 DEF Fresh
<1>10. Viewed(w)'
  BY <1>3, <1>4 DEF Viewed
<1> QED
  BY <1>8, <1>9, <1>10 DEF Sees

-----------------------------------------------------------------------------
(* A commit shows everybody what its run has seen.                         *)
LEMMA CommitSeen ==
    ASSUME Typed, Ledger, ~crossed, OneEvent, ReadSound, Seen, NEW w \in Run, Commit(w)
    PROVE  OneEvent' /\ ReadSound' /\ Seen'
<1>1. /\ raw' = [i \in Item |-> IF i \in Batch(w) THEN run[w].mem[i] ELSE raw[i]]
      /\ home' = [i \in Item |-> Link(w, i)]
      /\ added' = [i \in Item |-> Added(w, i)]
      /\ read' = [e \in Item |-> IF run[w].text[e] # {} THEN run[w].text[e] ELSE read[e]]
      /\ End(w)
  BY DEF Commit
<1>2. /\ run' = [run EXCEPT ![w] = Idle] /\ UNCHANGED crossed
      /\ since' = [since EXCEPT ![w] = 0]
  BY <1>1, EndStep DEF Typed
<1>3. run'[w] = Idle /\ \A v \in Run \ {w} : run'[v] = run[v] /\ since'[v] = since[v]
  BY <1>2 DEF Typed, ItemsTypeOK
<1>4. Sees(w)
  BY DEF Seen
<1>5. \A i \in Item : /\ raw'[i] = Status(w, i) /\ home'[i] = Link(w, i)
                      /\ read'[i] = Text(w, i) /\ added'[i] = Added(w, i)
  BY <1>1 DEF Batch, Status, Text
<1>6. \A i \in Item : Link(w, i) \in Item \cup {None} /\ Text(w, i) \in SUBSET Item
  BY DEF Typed, ItemsTypeOK, Link, Text, Runs
<1>7. OneEvent'
  BY <1>4, <1>5 DEF Sees, SeesStories, OneEvent, Events
<1>8. ReadSound'
  <2>1. ReadLinked'
    BY <1>4, <1>5, <1>6 DEF Sees, SeesReads, ReadLinked
  <2>2. LatestIsRead'
    <3> SUFFICES ASSUME NEW i \in Item, raw'[i] = "classified"
                 PROVE  /\ home'[i] # None /\ read'[home'[i]] # {}
                        /\ \/ i \in read'[home'[i]]
                           \/ \A j \in read'[home'[i]] : added'[i] <= added'[j]
      BY DEF LatestIsRead
    <3> DEFINE e == Link(w, i)
    <3>1. e # None /\ Fresh(w, i, Text(w, e))
      BY <1>4, <1>5 DEF Sees, SeesDone
    <3>2. e \in Item /\ home'[i] = e /\ read'[e] = Text(w, e) /\ Text(w, e) \subseteq Item
      BY <1>5, <1>6, <3>1
    <3> HIDE DEF e
    <3> QED
      BY <1>5, <3>1, <3>2 DEF Fresh
  <2> QED
    BY <2>1, <2>2 DEF ReadSound
<1>9. home' \in [Item -> Item \cup {None}] /\ read' \in [Item -> SUBSET Item]
  <2>1. read' = [e \in Item |-> Text(w, e)]
    BY <1>1 DEF Text
  <2> QED
    BY <1>1, <1>6, <2>1
<1>10. ASSUME NEW v \in Run PROVE Sees(v)'
  <2>2. CASE v = w
    BY <1>2, <1>3, <1>7, <1>8, <1>9, <2>2, BareSees DEF Idle, Analysing
  <2>3. CASE v # w /\ Owns(w)
    <3>1. /\ \A i \in Item : run[v].link[i] = None /\ run[v].text[i] = {}
                            /\ run[v].mem[i] # "classified"
          /\ run[v].pc \notin Analysing
      BY <2>3, Bare, RawItemsConstants DEF Working
    <3> QED
      BY <1>2, <1>3, <1>7, <1>8, <1>9, <2>3, <3>1, BareSees
  <2>4. CASE v # w /\ ~Owns(w)
    <3>1. \A i \in Item : /\ run[w].link[i] = None /\ run[w].text[i] = {}
                          /\ run[w].mem[i] # "classified"
      BY <2>4 DEF Owns
    <3>2. UNCHANGED <<home, added, read>>
      BY <1>1, <3>1 DEF Link, Added, Typed, ItemsTypeOK
    <3>3. \A i \in Item : raw'[i] = "classified" => raw[i] = "classified"
      BY <1>1, <3>1
    <3> QED
      BY <1>3, <2>4, <3>2, <3>3, OthersSee DEF Seen
  <2> QED
    BY <2>2, <2>3, <2>4
<1> QED
  BY <1>7, <1>8, <1>10 DEF Seen

LEMMA AbortSeen ==
    ASSUME Typed, ~crossed, OneEvent, ReadSound, Seen, NEW w \in Run, Fail(w) \/ Victim(w)
    PROVE  OneEvent' /\ ReadSound' /\ Seen'
<1>1. End(w) /\ UNCHANGED <<raw, home, added, read>>
  BY DEF Fail, Victim, database, time
<1>2. /\ run' = [run EXCEPT ![w] = Idle] /\ UNCHANGED crossed
      /\ since' = [since EXCEPT ![w] = 0]
  BY <1>1, EndStep DEF Typed
<1>3. run'[w] = Idle /\ \A v \in Run \ {w} : run'[v] = run[v] /\ since'[v] = since[v]
  BY <1>2 DEF Typed, ItemsTypeOK
<1>4. /\ OneEvent' /\ ReadSound' /\ ~crossed'
      /\ home' \in [Item -> Item \cup {None}] /\ read' \in [Item -> SUBSET Item]
  BY <1>1, <1>2 DEF OneEvent, Events, ReadSound, ReadLinked, LatestIsRead, Typed, ItemsTypeOK
<1>5. Sees(w)'
  BY <1>3, <1>4, BareSees DEF Idle, Analysing
<1>6. ASSUME NEW v \in Run \ {w} PROVE Sees(v)'
  BY <1>1, <1>3, OthersSee DEF Seen
<1> QED
  BY <1>4, <1>5, <1>6 DEF Seen

(* A step of w with no commit in it. *)
LEMMA OpenSeen ==
    ASSUME OneEvent, ReadSound, Seen, ~crossed, NEW w \in Run,
           UNCHANGED <<raw, home, added, read>>, Sees(w)',
           \A v \in Run \ {w} : run'[v] = run[v] /\ since'[v] = since[v]
    PROVE  OneEvent' /\ ReadSound' /\ Seen'
<1>1. OneEvent' /\ ReadSound'
  BY DEF OneEvent, Events, ReadSound, ReadLinked, LatestIsRead
<1>2. ASSUME NEW v \in Run \ {w} PROVE Sees(v)'
  BY OthersSee DEF Seen
<1> QED
  BY <1>1, <1>2 DEF Seen

LEMMA SeenNext ==
    ASSUME IInv, [Next]_vars
    PROVE  OneEvent' /\ ReadSound' /\ Seen'
<1> USE DEF IInv
<1>0. CASE crossed
  <2>1. crossed'
    <3>1. CASE \E w \in Run : Plain(w)
      <4>1. PICK w \in Run : Plain(w)
        BY <3>1
      <4>2. MayBook(w)
        BY <4>1, PlainStep DEF Typed
      <4> QED
        BY <1>0, <4>2, BookStep DEF Typed
    <3>2. CASE \A w \in Run : ~Plain(w)
      BY <1>0, <3>2 DEF Next, Step, Plain, Collect, CommitFeed, Midnight, Load, Cluster,
         Analyse, Write, Apply, Commit, Fail, Victim, End, vars, locks
    <3> QED
      BY <3>1, <3>2
  <2> QED
    BY <2>1 DEF OneEvent, ReadSound, ReadLinked, LatestIsRead, Seen
<1>1. CASE ~crossed /\ UNCHANGED <<home, added, read, run, since>>
             /\ \A i \in Item : raw'[i] = "classified" => raw[i] = "classified"
  <2>1. \A v \in Run : Sees(v)'
    BY <1>1, OthersSee DEF Seen
  <2>2. OneEvent' /\ ReadSound'
    BY <1>1 DEF OneEvent, Events, ReadSound, ReadLinked, LatestIsRead
  <2> QED
    BY <2>1, <2>2 DEF Seen
<1>2. CASE ~crossed /\ \E i \in Item : Collect(i) \/ CommitFeed(i)
  <2>1. UNCHANGED <<home, added, read, run, since>>
    BY <1>2 DEF Collect, CommitFeed, database, time
  <2>2. \A i \in Item : raw'[i] = "classified" => raw[i] = "classified"
    BY <1>2 DEF Collect, CommitFeed, database, time, Typed, ItemsTypeOK
  <2> QED
    BY <1>1, <1>2, <2>1, <2>2
<1>3. CASE ~crossed /\ (Midnight \/ UNCHANGED vars)
  BY <1>1, <1>3 DEF Midnight, vars, database, time
<1>4. ASSUME ~crossed, NEW w \in Run, Step(w) \/ Fail(w)
      PROVE  OneEvent' /\ ReadSound' /\ Seen'
  <2>0. Sees(w)
    BY <1>4 DEF Seen
  <2>1. CASE Commit(w)
    BY <1>4, <2>1, CommitSeen
  <2>2. CASE Fail(w) \/ Victim(w)
    BY <1>4, <2>2, AbortSeen
  <2>3. CASE Plain(w) \/ Load(w) \/ Cluster(w) \/ Analyse(w) \/ Write(w) \/ Apply(w)
    <3>1. Sees(w)'
      BY <1>4, <2>0, <2>3, PlainSees, LoadSees, ClusterSees, AnalyseSees, WriteSees, ApplySees
    <3>2. UNCHANGED <<raw, home, added, read>>
      BY <2>3, PlainStep DEF Load, Cluster, Analyse, Write, Apply, database, time
    <3>3. \A v \in Run \ {w} : run'[v] = run[v] /\ since'[v] = since[v]
      <4>1. CASE Plain(w)
        BY <4>1, PlainStep DEF Typed, ItemsTypeOK
      <4>2. CASE ~Plain(w)
        BY <2>3, <4>2 DEF Load, Cluster, LinkTo, Analyse, Write, Apply, time, Typed, ItemsTypeOK
      <4> QED
        BY <4>1, <4>2
    <3> QED
      BY <1>4, <3>1, <3>2, <3>3, OpenSeen
  <2> QED
    BY <1>4, <2>1, <2>2, <2>3 DEF Step, Plain
<1> QED
  BY <1>0, <1>2, <1>3, <1>4 DEF Next

-----------------------------------------------------------------------------
(* The invariant and what follows from it.                                 *)

LEMMA Inductive == Spec => []IInv
<1>1. Init => IInv
  BY TypedInit, LedgerInit, SeenInit DEF IInv
<1>2. IInv /\ [Next]_vars => IInv'
  BY TypedNext, LedgerNext, SeenNext DEF IInv
<1> QED
  BY <1>1, <1>2, PTL DEF Spec

(* ItemsTypeOK: every variable keeps its type, through every step of the   *)
(* batches, the collectors and their failures.                             *)
THEOREM ItemsTypeCorrect == Spec => []ItemsTypeOK
BY Inductive, PTL DEF IInv, Typed

(* OneEvent: batches that book on the same day never found two events of   *)
(* one story, however many run side by side.                               *)
THEOREM StoryHasOneEvent == Spec => []OneEvent
BY Inductive, PTL DEF IInv

(* LatestIsRead: a classified item the extraction of its event has not     *)
(* read was not linked after any item it has read.                         *)
THEOREM LatestWasRead == Spec => []LatestIsRead
BY Inductive, PTL DEF IInv, ReadSound

(* Only who holds the ledger can keep another run waiting. *)
LEMMA BlockerHolds ==
    ASSUME Typed, Ledger, NEW w \in Run, NEW v \in Run, v \in Blockers(w)
    PROVE  Holds(v)
<1>1. v \in Wanted(w)
  BY DEF Blockers
<1>2. CASE run[w].pc \in {"tier1", "book"}
  <2>1. v = ledger[day] /\ day \in Day
    BY <1>1, <1>2 DEF Wanted, At, Typed, ItemsTypeOK
  <2> QED
    BY <2>1 DEF Holds
<1>3. CASE run[w].pc = "link"
  <2>1. PICK e \in Item : v = eventLock[e]
    BY <1>1, <1>3 DEF Wanted, At, Matches
  <2> QED
    BY <2>1 DEF Ledger, Owns
<1>4. CASE run[w].pc = "write"
  <2>1. v = eventLock[Link(w, run[w].item)]
    BY <1>1, <1>4 DEF Wanted, At
  <2>2. Link(w, run[w].item) \in Item
    BY <1>4 DEF Typed, ItemsTypeOK, Runs, WorkSound, Link, Analysing
  <2> QED
    BY <2>1, <2>2 DEF Ledger, Owns
<1>5. CASE run[w].pc = "apply"
  BY <1>1, <1>5 DEF Wanted, At, Ledger, Owns
<1>6. CASE run[w].pc \notin {"tier1", "book", "link", "write", "apply"}
  BY <1>1, <1>6 DEF Wanted, At
<1> QED
  BY <1>2, <1>3, <1>4, <1>5, <1>6

(* BatchesDontDeadlock: no set of runs ever waits in a circle, whatever    *)
(* the events and trends of their batches.                                 *)
THEOREM NoBatchDeadlock == Spec => []BatchesDontDeadlock
<1>1. IInv => BatchesDontDeadlock
  <2> SUFFICES ASSUME Typed, Ledger, ~crossed, NEW C \in Cycles PROVE FALSE
    <3>1. Cycles # {} => \E C \in Cycles : TRUE
      OBVIOUS
    <3> QED
      BY <3>1 DEF IInv, BatchesDontDeadlock
  <2>1. C \subseteq Run /\ C # {} /\ \A w \in C : Blockers(w) \cap C # {}
    BY DEF Cycles
  <2>2. PICK w \in C : TRUE
    BY <2>1
  <2>3. PICK v \in C : v \in Blockers(w)
    BY <2>1
  <2>4. PICK u \in C : u \in Blockers(v)
    BY <2>1
  <2>5. u # v
    BY <2>4 DEF Blockers
  <2>6. Holds(v) /\ Holds(u)
    BY <2>1, <2>3, <2>4, BlockerHolds
  <2>7. u = v
    BY <2>1, <2>6, RawItemsConstants DEF Ledger, Alone, Holds
  <2> QED
    BY <2>5, <2>7
<1> QED
  BY <1>1, Inductive, PTL

=============================================================================
