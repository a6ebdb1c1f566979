------------------------------- MODULE KeeperTick -------------------------------
(***************************************************************************)
(* The Keeper: one tick drains a batch of the neighbour queue into the     *)
(* edge graph, makes the graph's components into shelves, and asks about   *)
(* the pairs; the keyholder saves, archives and deletes memories between   *)
(* any two of its steps, and the process may die there.                    *)
(*                                                                         *)
(* Memories and shelves are numbers, in filename order.  A text has a      *)
(* subject, and two memories are neighbours when their embeddings are of   *)
(* the same one: distances, the limit of eight neighbours and the cohesion *)
(* gate of large components are left out, and so are first lights, the     *)
(* thoughts, the receipt and the snapshot before a bulk pass.  Edges of    *)
(* memories are the only ones there are: other tiers are left out.         *)
(***************************************************************************)
EXTENDS Integers, FiniteSets, Sequences, FiniteSetsExt

CONSTANTS
  Memories,     \* a set 1..n
  Shelves,      \* a set 1..n, the bound on filenames of shelves
  Texts,
  Subject,      \* what each text is about
  Crisis,       \* the texts that match the crisis lexicon
  Library,      \* the text of each memory at first
  MinShelf, Batch, NudgeTicks,
  MaxEvents     \* bound on what the keyholder does and on kills

None == "none"

ASSUME KeeperAssumption ==
  /\ Memories \subseteq Nat \ {0} /\ IsFiniteSet(Memories)
  /\ Shelves \subseteq Nat \ {0} /\ IsFiniteSet(Shelves)
  /\ Crisis \subseteq Texts /\ Library \in [Memories -> Texts]
  /\ \A t \in Texts : Subject[t] # None
  /\ MinShelf \in Nat \ {0} /\ Batch \in Nat \ {0} /\ NudgeTicks \in Nat \ {0}
  /\ MaxEvents \in Nat

VARIABLES
  mem,          \* place, text, embedding, neighbours_at set?, updated_at
  edges,        \* memory_edges
  shelf,        \* made, live (not archived), members
  ledger,       \* keeper_pairs: what was last asked about each pair
  manner,       \* the steering rule that the Keeper proposes
  events,       \* how much has happened; the clock of updated_at
  step,         \* where the tick is
  queue,        \* the rows still to process, as the tick has read them
  clusters,     \* the components it found, still to shelve
  claim,        \* the shelf each of them claimed (0: none)
  seen,         \* the shelves that were live when it matched
  taken,        \* those of them that it has not given up
  pairs,        \* the pairs still to ask about
  next,         \* the pair ledger it is building
  missed,       \* memories whose neighbours_at may be newer than their edges
  asked,        \* what the keyholder was asked about the pairs that are still there
  calm          \* nothing has happened since the tick began

world == <<mem, shelf, manner, events, calm>>
tick == <<step, queue, clusters, claim, seen, taken, pairs, next>>
vars == <<mem, edges, shelf, ledger, manner, events, tick, missed, asked, calm>>

-----------------------------------------------------------------------------
(* Sources and the neighbour queue *)

\* sourceWhere
Source(m) == mem[m].place = "live"

Waiting == {m \in Memories : Source(m) /\ mem[m].emb # None /\ ~mem[m].marked}

\* updated_at, then filename.
Before(m, n) == mem[m].at < mem[n].at \/ (mem[m].at = mem[n].at /\ m < n)

Least(x, y) == IF x <= y THEN x ELSE y

\* The row that comes after i - 1 others, with the vector it has now.
Row(i) ==
  LET m == CHOOSE m \in Waiting : Cardinality({n \in Waiting : Before(n, m)}) = i - 1
  IN [name |-> m, vec |-> mem[m].emb]

\* Slip: no LIMIT.
Batched_Bug == [i \in 1..Cardinality(Waiting) |-> Row(i)]

\* _neighbourQueue: the first Batch rows.
Batched == [i \in 1..Least(Cardinality(Waiting), Batch) |-> Row(i)]

Queued == {queue[i].name : i \in DOMAIN queue}

Near(row) == {m \in Memories \ {row.name} : Source(m) /\ mem[m].emb = row.vec}

EdgesOf(m) == {e \in edges : m \in e}

-----------------------------------------------------------------------------
(* Components and shelves *)

Strict == {e \in edges : \A m \in e : Source(m)}

Closed(ms) == \A e \in Strict : e \subseteq ms \/ e \intersect ms = {}

\* components: the least sets of linked memories that no edge leaves.
Components ==
  LET closed == {ms \in SUBSET (UNION Strict) : ms # {} /\ Closed(ms)}
  IN {c \in closed : \A d \in closed : d \subseteq c => d = c}

\* Those that are large enough for a shelf.
Formed == {c \in Components : Cardinality(c) >= MinShelf}

\* What of a component may be on a shelf.
Clear(c) == {m \in c : mem[m].text \notin Crisis}

LiveShelves == {s \in Shelves : shelf[s].live}

Overlap(c, s) == Cardinality(c \intersect shelf[s].members)

\* At least half of the smaller side, and one.
Needed(c, s) ==
  LET least == Least(Cardinality(c), Cardinality(shelf[s].members))
  IN IF least <= 1 THEN 1 ELSE (least + 1) \div 2

Better(a, b) ==
  LET x == Overlap(a[1], a[2])
      y == Overlap(b[1], b[2])
  IN \/ x > y
     \/ x = y /\ a[2] < b[2]
     \/ x = y /\ a[2] = b[2] /\ Min(a[1]) < Min(b[1])

Claims == {a \in Formed \X LiveShelves : Overlap(a[1], a[2]) >= Needed(a[1], a[2])}

\* matchClusters: a claim wins unless a better one for its cluster or its shelf
\* does.
Matched ==
  CHOOSE won \in SUBSET Claims :
    \A a \in Claims :
      a \in won <=> ~\E b \in won : Better(b, a) /\ (a[1] = b[1] \/ a[2] = b[2])

\* The first name that no row has, archived ones included.
FreeName == Min({s \in Shelves : ~shelf[s].made})

-----------------------------------------------------------------------------
(* The tick: the neighbour queue *)

KeepShelving == UNCHANGED <<clusters, claim, seen, taken, pairs, next>>

\* The tick reads its queue before it writes anything.
Plan ==
  /\ step = "idle"
  /\ step' = "prune"
  /\ queue' = Batched
  /\ calm' = TRUE
  /\ missed' = missed \ {Batched[i].name : i \in DOMAIN Batched}
  /\ UNCHANGED <<mem, edges, shelf, ledger, manner, events, asked>>
  /\ KeepShelving

\* _pruneDeadEdges
Prune ==
  /\ step = "prune"
  /\ step' = IF queue = <<>> THEN "group" ELSE "link"
  /\ edges' = Strict
  /\ UNCHANGED <<world, queue, ledger, missed, asked>>
  /\ KeepShelving

\* Slip: the edges the row had before stay.
Linked_Bug(row) == edges \union {{row.name, m} : m \in Near(row)}

Linked(row) == (edges \ EdgesOf(row.name)) \union {{row.name, m} : m \in Near(row)}

\* _processRow: the old edges out, those to the neighbours of the vector read
\* with the queue in.
Link ==
  /\ step = "link"
  /\ step' = "mark"
  /\ edges' = Linked(Head(queue))
  /\ UNCHANGED <<world, queue, ledger, missed, asked>>
  /\ KeepShelving

\* Slip: a row without neighbours is not marked.
Marked_Bug(m) == [mem[m] EXCEPT !.marked = EdgesOf(m) # {}]

Marked(m) == [mem[m] EXCEPT !.marked = TRUE]

Mark ==
  /\ step = "mark"
  /\ mem' = [mem EXCEPT ![Head(queue).name] = Marked(Head(queue).name)]
  /\ queue' = Tail(queue)
  /\ step' = IF Tail(queue) = <<>> THEN "group" ELSE "link"
  /\ UNCHANGED <<edges, shelf, ledger, manner, events, missed, asked, calm>>
  /\ KeepShelving

-----------------------------------------------------------------------------
(* The tick: shelves *)

Group ==
  /\ step = "group"
  /\ step' = "shelve"
  /\ clusters' = Formed
  /\ pairs' = {c \in Components : Cardinality(c) = 2}
  /\ claim' = [c \in Formed |->
                 IF \E s \in LiveShelves : <<c, s>> \in Matched
                 THEN CHOOSE s \in LiveShelves : <<c, s>> \in Matched ELSE 0]
  /\ taken' = {pair[2] : pair \in Matched}
  /\ seen' = LiveShelves
  /\ asked' = {a \in asked : a[1] \in pairs'}
  /\ UNCHANGED <<world, edges, queue, ledger, next, missed>>

First == CHOOSE c \in clusters : \A d \in clusters : Min(c) <= Min(d)

KeepPairs == UNCHANGED <<step, queue, claim, seen, pairs, next, edges, ledger, missed, asked>>

Written(s, ms) == [shelf EXCEPT ![s] = [made |-> TRUE, live |-> TRUE, members |-> ms]]

\* Rendered the same (threads and dates are left out), a shelf is not written.
ShelveKnown ==
  /\ step = "shelve" /\ clusters # {}
  /\ clusters' = clusters \ {First}
  /\ claim[First] # 0 /\ Cardinality(Clear(First)) >= MinShelf
  /\ \/ shelf' = Written(claim[First], Clear(First))
     \/ shelf[claim[First]].members = Clear(First) /\ UNCHANGED shelf
  /\ UNCHANGED <<mem, manner, events, calm, taken>>
  /\ KeepPairs

ShelveNew ==
  /\ step = "shelve" /\ clusters # {}
  /\ clusters' = clusters \ {First}
  /\ claim[First] = 0 /\ Cardinality(Clear(First)) >= MinShelf
  /\ \E s \in Shelves : ~shelf[s].made
  /\ shelf' = Written(FreeName, Clear(First))
  /\ UNCHANGED <<mem, manner, events, calm, taken>>
  /\ KeepPairs

\* Slip: a shelf whose cluster is too small without its crisis rows stays.
Released_Bug(s) == taken

Released(s) == taken \ {s}

ShelveNone ==
  /\ step = "shelve" /\ clusters # {}
  /\ clusters' = clusters \ {First}
  /\ Cardinality(Clear(First)) < MinShelf
  /\ taken' = Released(claim[First])
  /\ UNCHANGED world
  /\ KeepPairs

\* The end-of-tick sweep, shelf by shelf.
Sweep(s) ==
  /\ step = "shelve" /\ clusters = {}
  /\ s \in seen \ taken
  /\ shelf' = [shelf EXCEPT ![s].live = FALSE]
  /\ seen' = seen \ {s}
  /\ UNCHANGED <<step, queue, clusters, claim, taken, pairs, next, mem, edges, ledger,
                 manner, events, missed, asked, calm>>

Swept ==
  /\ step = "shelve" /\ clusters = {} /\ seen \subseteq taken
  /\ step' = "ask"
  /\ UNCHANGED <<world, queue, clusters, claim, seen, taken, pairs, next, edges, ledger, missed, asked>>

-----------------------------------------------------------------------------
(* The tick: pairs *)

Pairs == {ms \in SUBSET Memories : Cardinality(ms) = 2}

NoEntry == [sig |-> {}, count |-> 0, nudged |-> FALSE]
NoLedger == [p \in Pairs |-> NoEntry]

Sig(p) == {<<m, mem[m].at>> : m \in p}

Askable(p) == \A m \in p : mem[m].text \notin Crisis

\* The same occurrence, still open.
Open(p) == ledger[p].sig = Sig(p)

Nudged(p) == Open(p) /\ ledger[p].nudged

\* askCount, as far as the threshold.
Count(p) == IF Open(p) THEN Least(ledger[p].count + 1, NudgeTicks) ELSE 1

Nudges(p) == ~Nudged(p) /\ Count(p) >= NudgeTicks

\* What the keyholder is asked.
Asks(p) ==
  (IF Open(p) THEN {} ELSE {<<p, Sig(p), "pair">>})
    \union (IF Nudges(p) /\ manner # "granted" THEN {<<p, Sig(p), "manner">>} ELSE {})

\* Slip: only what was asked is written down.
Noted_Bug(p) ==
  IF Asks(p) = {} THEN next
  ELSE [next EXCEPT ![p] = [sig |-> Sig(p), count |-> Count(p), nudged |-> Nudged(p) \/ Nudges(p)]]

Noted(p) ==
  [next EXCEPT ![p] = [sig |-> Sig(p), count |-> Count(p), nudged |-> Nudged(p) \/ Nudges(p)]]

KeepRest == UNCHANGED <<step, queue, clusters, claim, seen, taken, mem, edges, shelf, ledger,
                        events, missed, calm>>

Ask(p) ==
  /\ step = "ask" /\ p \in pairs
  /\ pairs' = pairs \ {p}
  /\ Askable(p)
  /\ next' = Noted(p)
  /\ asked' = asked \union Asks(p)
  /\ manner' = IF Nudges(p) /\ manner = "none" THEN "proposed" ELSE manner
  /\ KeepRest

PassOver(p) ==
  /\ step = "ask" /\ p \in pairs
  /\ pairs' = pairs \ {p}
  /\ ~Askable(p)
  /\ asked' = {a \in asked : a[1] # p}
  /\ UNCHANGED <<next, manner>>
  /\ KeepRest

Idle ==
  /\ step' = "idle" /\ queue' = <<>>
  /\ clusters' = {} /\ claim' = <<>> /\ seen' = {} /\ taken' = {}
  /\ pairs' = {} /\ next' = NoLedger

\* Pairs that this tick has not seen are forgotten.
SaveLedger ==
  /\ step = "ask" /\ pairs = {}
  /\ ledger' = next
  /\ Idle
  /\ UNCHANGED <<world, edges, missed, asked>>

-----------------------------------------------------------------------------
(* The keyholder, the host and kills *)

Happens == events < MaxEvents /\ events' = events + 1

KeepTick == UNCHANGED <<tick, edges, ledger, asked>>

\* A row that comes back with its neighbours_at, or that changes after the tick
\* has read it, may be marked without its edges.
Suspect(m, back) == IF back \/ m \in Queued THEN missed \union {m} ELSE missed

\* setMemory without a vector: only a new text drops the old one.
Save(m, t) ==
  LET r == mem[m]
      same == r.text = t
  IN
  /\ mem' = [mem EXCEPT ![m] =
               [place |-> IF r.place = "deleted" THEN "live" ELSE r.place, text |-> t,
                emb |-> IF same THEN r.emb ELSE None, marked |-> same /\ r.marked,
                at |-> events + 1]]
  /\ missed' = Suspect(m, r.place = "deleted" /\ same /\ r.marked)
  /\ UNCHANGED <<shelf, manner>>

\* setMemoryArchive
Archive(m, archived) ==
  /\ mem[m].place = IF archived THEN "live" ELSE "archived"
  /\ mem' = [mem EXCEPT ![m].place = IF archived THEN "archived" ELSE "live"]
  /\ missed' = Suspect(m, ~archived /\ mem[m].marked)
  /\ UNCHANGED <<shelf, manner>>

\* deleteMemory
Delete(m) ==
  /\ Source(m)
  /\ mem' = [mem EXCEPT ![m].place = "deleted"]
  /\ UNCHANGED <<missed, shelf, manner>>

ArchiveShelf(s, archived) ==
  /\ shelf[s].made /\ shelf[s].live = archived
  /\ shelf' = [shelf EXCEPT ![s].live = ~archived]
  /\ UNCHANGED <<mem, missed, manner>>

\* grantSteering
Grant ==
  /\ manner = "proposed"
  /\ manner' = "granted"
  /\ UNCHANGED <<mem, missed, shelf>>

Keyholder ==
  /\ Happens
  /\ calm' = FALSE
  /\ \/ \E m \in Memories :
          \/ \E t \in Texts : Save(m, t)
          \/ \E archived \in BOOLEAN : Archive(m, archived)
          \/ Delete(m)
     \/ \E s \in Shelves, archived \in BOOLEAN : ArchiveShelf(s, archived)
     \/ Grant
  /\ KeepTick

\* The host embeds what has no vector: setMemoryEmbedding.
Embed(m) ==
  /\ Source(m) /\ mem[m].emb = None
  /\ mem' = [mem EXCEPT ![m].emb = Subject[mem[m].text], ![m].marked = FALSE]
  /\ missed' = Suspect(m, FALSE)
  /\ calm' = FALSE
  /\ UNCHANGED <<shelf, manner, events>>
  /\ KeepTick

\* The process dies: of the edges of a row some may have been written.
Crash ==
  /\ step # "idle"
  /\ Happens
  /\ IF step = "link"
     THEN \E part \in SUBSET {{Head(queue).name, m} : m \in Near(Head(queue))} :
            edges' \in {edges, (edges \ EdgesOf(Head(queue).name)) \union part}
     ELSE UNCHANGED edges
  /\ asked' = {a \in asked : ledger[a[1]].sig = a[2] /\ (a[3] = "manner" => ledger[a[1]].nudged)}
  /\ Idle
  /\ UNCHANGED <<mem, shelf, manner, calm, ledger, missed>>

-----------------------------------------------------------------------------

\* A library that the host has embedded and no tick has read.
Init ==
  /\ mem = [m \in Memories |->
              [place |-> "live", text |-> Library[m], emb |-> Subject[Library[m]],
               marked |-> FALSE, at |-> 0]]
  /\ edges = {}
  /\ shelf = [s \in Shelves |-> [made |-> FALSE, live |-> FALSE, members |-> {}]]
  /\ ledger = NoLedger
  /\ manner = "none"
  /\ events = 0
  /\ step = "idle" /\ queue = <<>>
  /\ clusters = {} /\ claim = <<>> /\ seen = {} /\ taken = {}
  /\ pairs = {} /\ next = NoLedger
  /\ missed = {} /\ asked = {} /\ calm = FALSE

Keeper ==
  \/ Plan \/ Prune \/ Link \/ Mark
  \/ Group \/ ShelveKnown \/ ShelveNew \/ ShelveNone \/ Swept
  \/ \E s \in Shelves : Sweep(s)
  \/ \E p \in Pairs : Ask(p) \/ PassOver(p)
  \/ SaveLedger

Next == Keeper \/ Keyholder \/ Crash \/ \E m \in Memories : Embed(m)

\* The host calls keeperTick whenever it is idle, and a tick that is not killed
\* ends.
Spec == Init /\ [][Next]_vars /\ WF_vars(Keeper)

-----------------------------------------------------------------------------
(* Properties *)

\* Every variable keeps its shape.
TypeOK ==
  /\ mem \in [Memories -> [place: {"live", "archived", "deleted"}, text: Texts,
                            emb: {Subject[t] : t \in Texts} \union {None},
                            marked: BOOLEAN, at: 0..MaxEvents]]
  /\ edges \subseteq Pairs
  /\ shelf \in [Shelves -> [made: BOOLEAN, live: BOOLEAN, members: SUBSET Memories]]
  /\ DOMAIN ledger = Pairs /\ DOMAIN next = Pairs
  /\ \A p \in Pairs : ledger[p].count \in 0..NudgeTicks /\ next[p].count \in 0..NudgeTicks
  /\ manner \in {"none", "proposed", "granted"}
  /\ events \in 0..MaxEvents
  /\ step \in {"idle", "prune", "link", "mark", "group", "shelve", "ask"}
  /\ Queued \subseteq Memories /\ Len(queue) <= Batch
  /\ clusters \subseteq DOMAIN claim
  /\ \A c \in DOMAIN claim : c \subseteq Memories /\ claim[c] \in Shelves \union {0}
  /\ seen \subseteq Shelves /\ taken \subseteq Shelves /\ pairs \subseteq Pairs
  /\ missed \subseteq Memories /\ calm \in BOOLEAN

\* The watermark tells the truth: of two live memories that have left the queue
\* the graph knows whether they are neighbours, however often the tick was
\* killed, unless one came back with its watermark or changed under the tick.
WatermarkHonest ==
  \A p \in Pairs :
    (\A m \in p : Source(m) /\ mem[m].marked /\ m \notin missed) =>
      (p \in edges <=> \A m, n \in p : mem[m].emb = mem[n].emb)

\* When a tick in which nothing else happened has shelved, the live shelves are
\* the components of the graph without their crisis rows, one each, so that no
\* memory is on two shelves and no crisis row on any.
ShelvesMirrorGraph ==
  step = "ask" /\ calm =>
    /\ {shelf[s].members : s \in LiveShelves} =
         {Clear(c) : c \in {d \in Components : Cardinality(Clear(d)) >= MinShelf}}
    /\ \A s, t \in LiveShelves : shelf[s].members = shelf[t].members => s = t

\* A pair that stays open is asked about once for each state of its memories,
\* and nudged about once, except by a tick that was killed before it wrote down
\* that it asked.
AskedOnce ==
  [][\A p \in pairs : step' = "ask" /\ p \notin pairs' /\ Askable(p) => Asks(p) \intersect asked = {}]_vars

\* Once nothing happens any more the queue drains.
QueueDrains == <>[][~Keyholder /\ ~Crash]_vars => <>[](Waiting = {})

=============================================================================
