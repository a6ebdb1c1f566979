------------------------------- MODULE MindLadder -------------------------------
(***************************************************************************)
(* The Mind's promotion ladder: mindTick over the ledger of patterns, the  *)
(* Keeper's shelves that carry them and the memories that are their        *)
(* evidence.  A tick reads everything, resolves which pattern each live    *)
(* shelf continues, and then takes the patterns one by one: a knowledge    *)
(* row is written (and archived on retirement), then the ledger row saved. *)
(*                                                                         *)
(* A shelf's filename is a number, in filename order, and a pattern is     *)
(* named after the first shelf that carried it.  Days stand for times, per *)
(* cents for confidence.  The reads of a tick are one step, and the process *)
(* may die between any two of its writes.  The writes look at nothing but  *)
(* the tick's own copy, so a memory or shelf that changes meanwhile may as *)
(* well change after the tick, and is modelled so.  A knowledge row that   *)
(* the keyholder archives, takes out of the archive or deletes is another  *)
(* matter: a tick writes these rows, and the keyholder may come between    *)
(* any two of its steps.  Captures and the text of rows are left out, and  *)
(* so are confirmed pairs, a second kind of producer row, and rows that    *)
(* the keyholder writes under a name of the Mind's.                        *)
(***************************************************************************)
EXTENDS Integers, FiniteSets, FiniteSetsExt

CONSTANTS
  Memories,
  Shelves,      \* a set 1..n
  Themes,       \* common threads of shelves, or NoTheme
  Touchy,       \* may memories be about what the Guard holds back?
  TargetN, PromoteN, MinPatternN, PromoteAge, FreshDays, HorizonDays,
  MaxDay,       \* bound on days
  MaxRows,      \* bound on knowledge rows
  MaxEvents     \* bound on what happens between and to ticks

NoTheme == "none"

ASSUME MindAssumption ==
  /\ IsFiniteSet(Memories)
  /\ Shelves \subseteq Nat \ {0} /\ IsFiniteSet(Shelves)
  /\ NoTheme \in Themes
  /\ Touchy \subseteq BOOLEAN
  /\ TargetN \in Nat \ {0} /\ MinPatternN \in Nat \ {0}
  /\ FreshDays \in Nat /\ HorizonDays \in Nat /\ HorizonDays > FreshDays
  /\ MaxDay \in Nat /\ MaxRows \in Nat /\ MaxEvents \in Nat

VARIABLES
  now,
  mem,          \* memories: live, day of the last update, touchy
  shelf,        \* shelves: made, live (not archived), members, common thread
  ledger,       \* state rows mind:pattern:<id>
  rows,         \* knowledge rows: the pattern that wrote each (0: there is no such
                \* live row), archived
  step,         \* where the tick is
  cur,          \* the pattern it is at (0: none)
  todo,         \* the patterns still to come
  draft,        \* the tick's own copy of the ledger
  grade,        \* the evidence and the confidence it found for each pattern
  carry,        \* which pattern each live shelf carries, by the last tick that was
                \* not killed before it could save it (0: none)
  loose,        \* history: patterns whose row somebody else had a hand in, or over
                \* which a tick was killed between two writes, and whose row the
                \* Mind has not written since
  events        \* how much has happened

vars == <<now, mem, shelf, ledger, rows, step, cur, todo, draft, grade, carry, loose, events>>

-----------------------------------------------------------------------------
(* Evidence *)

Days == 0..MaxDay

\* SOURCE_WHERE: rows archived by the keyholder and deleted ones do not count.
\* Rows archived by decay do, so that to the Mind decay changes nothing.
IsEvidence(m) == mem[m].here

Evidence(ms) == {m \in ms : IsEvidence(m)}

Held(ms) == \E m \in Evidence(ms) : mem[m].touchy

Candidates ==
  {s \in Shelves : shelf[s].live /\ Cardinality(Evidence(shelf[s].members)) >= MinPatternN}

Times(s) == {mem[m].at : m \in Evidence(shelf[s].members)}

Least(x, y) == IF x <= y THEN x ELSE y

\* Slip: no freshDays, so that what is new counts for more than one.
Confidence_Bug(n, last) ==
  LET d == now - last
      span == HorizonDays - FreshDays
      part == IF d >= HorizonDays THEN 0 ELSE HorizonDays - d
  IN (200 * Least(n, TargetN) * part + TargetN * span) \div (2 * TargetN * span)

\* min(1, n/targetN) times a recency that is 1 for freshDays and then falls to
\* 0 at horizonDays, rounded to per cents.
Confidence(n, last) ==
  LET d == now - last
      span == HorizonDays - FreshDays
      part == IF d <= FreshDays THEN span ELSE IF d >= HorizonDays THEN 0 ELSE HorizonDays - d
  IN (200 * Least(n, TargetN) * part + TargetN * span) \div (2 * TargetN * span)

PromoteConf == 80
ReviseConf == 40
RetireConf == 20

-----------------------------------------------------------------------------
(* Patterns *)

Statuses == {"none", "forming", "hardened", "retired"}
Patterns == [status: Statuses, aliases: SUBSET Shelves, refs: SUBSET Memories,
             born: Days, last: Days, soft: BOOLEAN, knowledge: 0..MaxRows,
             guard: BOOLEAN, sig: Themes]

NoPattern == [status |-> "none", aliases |-> {}, refs |-> {}, born |-> 0,
              last |-> 0, soft |-> FALSE, knowledge |-> 0, guard |-> FALSE, sig |-> NoTheme]

Known == {i \in Shelves : ledger[i].status # "none"}

-----------------------------------------------------------------------------
(* Which pattern does a live shelf continue? *)

ById == {s \in Candidates : s \in Known}

Namesakes(s) == {i \in Known : s \in ledger[i].aliases}

\* Slip: an alias binds also while the pattern's own shelf carries it.
ByAlias_Bug ==
  {pair \in (Candidates \ ById) \X Known :
     Namesakes(pair[1]) # {} /\ pair[2] = Max(Namesakes(pair[1]))}

\* Of the patterns that have the shelf for an alias the last in the ledger
\* counts, if its own shelf does not carry it.
ByAlias ==
  {pair \in (Candidates \ ById) \X (Known \ ById) :
     Namesakes(pair[1]) # {} /\ pair[2] = Max(Namesakes(pair[1]))}

\* Of two such shelves the first; the order of both is taken to be by name.
Aliased ==
  {pair \in ByAlias : \A other \in ByAlias : other[2] = pair[2] => pair[1] <= other[1]}

Direct == {<<s, s>> : s \in ById} \union Aliased

Unrecognized == Candidates \ {pair[1] : pair \in Direct}
Orphans == Known \ {pair[2] : pair \in Direct}

Overlap(s, i) == Cardinality(Evidence(ledger[i].refs) \intersect Evidence(shelf[s].members))

\* At least half of the smaller side, and one.
Needed(s, i) ==
  LET least == Least(Cardinality(Evidence(ledger[i].refs)),
                     Cardinality(Evidence(shelf[s].members)))
  IN IF least <= 1 THEN 1 ELSE (least + 1) \div 2

ByEvidence ==
  {pair \in Unrecognized \X Orphans :
     Overlap(pair[1], pair[2]) >= Needed(pair[1], pair[2])}

\* Only when one shelf and one orphan have the theme.
ByTheme ==
  {pair \in Unrecognized \X Orphans :
     LET theme == shelf[pair[1]].theme IN
     /\ theme # NoTheme
     /\ {t \in Unrecognized : shelf[t].theme = theme} = {pair[1]}
     /\ {j \in Orphans : ledger[j].sig = theme} = {pair[2]}}

Score(pair) == IF pair \in ByEvidence THEN 1 + Overlap(pair[1], pair[2]) ELSE 0

Better(a, b) ==
  \/ Score(a) > Score(b)
  \/ Score(a) = Score(b) /\ a[1] < b[1]
  \/ Score(a) = Score(b) /\ a[1] = b[1] /\ a[2] < b[2]

\* adoptionClaims: a claim wins unless a better one for its shelf or its orphan
\* does.
Adopted ==
  CHOOSE won \in SUBSET (ByEvidence \union ByTheme) :
    \A a \in ByEvidence \union ByTheme :
      a \in won <=> ~\E b \in won : Better(b, a) /\ (a[1] = b[1] \/ a[2] = b[2])

\* 0 when the shelf is no candidate; a shelf that continues nothing starts a
\* pattern of its own.
Carrier(s, resolved) ==
  IF s \notin Candidates THEN 0
  ELSE IF \E i \in Shelves : <<s, i>> \in resolved
       THEN CHOOSE i \in Shelves : <<s, i>> \in resolved ELSE s

-----------------------------------------------------------------------------
(* mindTick: read, resolve, upsert, recompute *)

\* Slip: an adopted shelf is not recorded.
Aliases_Bug(i, s, adopted) == ledger[i].aliases

Aliases(i, s, adopted) == ledger[i].aliases \union (IF <<s, i>> \in adopted THEN {s} ELSE {})

\* Slip: the Guard is asked about a pattern only when it is first seen.
Verdict_Bug(i, s) == IF i \in Known THEN ledger[i].guard ELSE Held(shelf[s].members)

Verdict(i, s) == Held(shelf[s].members)

\* The signal of the shelf that carries the pattern.
Upserted(i, s, adopted) ==
  LET p == ledger[i]
      ev == Evidence(shelf[s].members)
      first == Min(Times(s))
      recent == Max(Times(s))
      revived == p.status = "retired" /\ recent > p.last
  IN [p EXCEPT
        !.status = IF p.status = "none" \/ revived THEN "forming" ELSE @,
        !.aliases = Aliases(i, s, adopted),
        !.refs = ev,
        !.born = IF p.status = "none" THEN first ELSE Least(@, first),
        !.last = recent,
        !.soft = @ /\ ~revived,
        !.guard = Verdict(i, s),
        !.sig = shelf[s].theme]

\* Slip: a pattern without a shelf keeps the evidence it was last counted with.
Counted_Bug(i) == Cardinality(draft'[i].refs)

\* A pattern that no shelf carries counts what is left of its refs; its Guard
\* verdict and all else stay as they were.
Counted(i) == Cardinality(Evidence(draft'[i].refs))

Tick ==
  /\ step = "idle"
  /\ step' = "pick"
  /\ LET adopted == Adopted
         resolved == Direct \union adopted
     IN /\ carry' = [s \in Shelves |-> Carrier(s, resolved)]
        /\ draft' = [i \in Shelves |->
                       IF \E s \in Shelves : carry'[s] = i
                       THEN Upserted(i, CHOOSE s \in Shelves : carry'[s] = i, adopted)
                       ELSE ledger[i]]
  /\ grade' = [i \in Shelves |-> [n |-> Counted(i), conf |-> Confidence(Counted(i), draft'[i].last)]]
  /\ todo' = {i \in Shelves : draft'[i].status # "none"}
  /\ UNCHANGED <<now, mem, shelf, ledger, rows, cur, loose, events>>

-----------------------------------------------------------------------------
(* mindTick: transitions *)

Carried(i) == \E s \in Shelves : carry[s] = i

Promotable(i) ==
  LET p == draft[i] IN
  /\ p.status = "forming"
  /\ grade[i].conf >= PromoteConf
  /\ grade[i].n >= PromoteN
  /\ now - p.born >= PromoteAge

Absent == [of |-> 0, archived |-> FALSE]

\* A row that was deleted does not hold its name.
Free == {k \in 1..MaxRows : rows[k].of = 0}

\* The patterns that go by a row.
Users(k) == {j \in Shelves : ledger[j].knowledge = k \/ draft[j].knowledge = k}

KeepWorld == UNCHANGED <<now, mem, shelf, carry, grade, events>>

Becomes(i, p, place) ==
  /\ draft' = [draft EXCEPT ![i] = p]
  /\ cur' = i
  /\ step' = place
  /\ UNCHANGED <<ledger, todo>>
  /\ KeepWorld

\* The first name that no live row has.
NewRow == Min(Free)

\* setMemoryDerived: the row is there (again), pinned and out of the archive.
WriteRow(k, i) ==
  /\ rows' = [rows EXCEPT ![k] = [of |-> i, archived |-> FALSE]]
  /\ loose' = (loose \ {i}) \union (Users(k) \ {i})

Promote(i) ==
  LET p == draft[i]
      k == IF p.knowledge # 0 THEN p.knowledge ELSE NewRow
  IN
  /\ Promotable(i) /\ ~p.guard
  /\ p.knowledge # 0 \/ Free # {}
  /\ WriteRow(k, i)
  /\ Becomes(i, [p EXCEPT !.status = "hardened", !.knowledge = k, !.soft = FALSE], "save")

HoldBack(i) ==
  /\ Promotable(i) /\ draft[i].guard
  /\ Becomes(i, draft[i], "save")
  /\ UNCHANGED <<rows, loose>>

\* The row is rewritten first, and archived in a statement of its own.
Retire(i) ==
  LET p == draft[i] IN
  /\ p.status = "hardened" /\ grade[i].conf < RetireConf
  /\ WriteRow(p.knowledge, i)
  /\ Becomes(i, [p EXCEPT !.status = "retired"], "archive")

Revise(i) ==
  LET p == draft[i] IN
  /\ p.status = "hardened" /\ grade[i].conf \in RetireConf..(ReviseConf - 1) /\ ~p.soft
  /\ WriteRow(p.knowledge, i)
  /\ Becomes(i, [p EXCEPT !.soft = TRUE], "save")

Recover(i) ==
  LET p == draft[i] IN
  /\ p.status = "hardened" /\ grade[i].conf >= ReviseConf /\ p.soft
  /\ Becomes(i, [p EXCEPT !.soft = FALSE], "save")
  /\ UNCHANGED <<rows, loose>>

Fizzled(i) == draft[i].status = "forming" /\ ~Carried(i) /\ grade[i].conf < RetireConf

Cull(i) ==
  /\ ~Promotable(i) /\ Fizzled(i)
  /\ ledger' = [ledger EXCEPT ![i] = NoPattern]
  /\ todo' = todo \ {i}
  /\ UNCHANGED <<rows, step, cur, draft, loose>>
  /\ KeepWorld

Stay(i) ==
  LET p == draft[i] IN
  /\ ~Promotable(i) /\ ~Fizzled(i)
  /\ p.status = "hardened" => IF p.soft THEN grade[i].conf \in RetireConf..(ReviseConf - 1)
                              ELSE grade[i].conf >= ReviseConf
  /\ Becomes(i, p, "save")
  /\ UNCHANGED <<rows, loose>>

Pick ==
  /\ step = "pick"
  /\ \E i \in todo :
       Promote(i) \/ HoldBack(i) \/ Retire(i) \/ Revise(i) \/ Recover(i) \/ Cull(i) \/ Stay(i)

\* Slip: a retirement leaves the row where it is.
Archived_Bug(row) == row

Archived(row) == [of |-> row.of, archived |-> TRUE]

Archive ==
  /\ step = "archive"
  /\ step' = "save"
  /\ LET k == draft[cur].knowledge IN
     /\ rows' = [rows EXCEPT ![k] = Archived(@)]
     /\ loose' = loose \union (Users(k) \ {cur})
  /\ UNCHANGED <<ledger, cur, todo, draft>>
  /\ KeepWorld

Save ==
  /\ step = "save"
  /\ ledger' = [ledger EXCEPT ![cur] = draft[cur]]
  /\ todo' = todo \ {cur}
  /\ step' = "pick"
  /\ cur' = 0
  /\ UNCHANGED <<rows, draft, loose>>
  /\ KeepWorld

NoDraft == [i \in Shelves |-> NoPattern]
NoGrade == [i \in Shelves |-> [n |-> 0, conf |-> 0]]

Done ==
  /\ step = "pick" /\ todo = {}
  /\ step' = "idle"
  /\ draft' = NoDraft
  /\ grade' = NoGrade
  /\ UNCHANGED <<now, mem, shelf, carry, ledger, rows, cur, todo, loose, events>>

Happens == events < MaxEvents /\ events' = events + 1

\* The process dies in the middle of a tick.
Crash ==
  /\ step # "idle"
  /\ Happens
  /\ step' = "idle"
  /\ loose' = loose \union ({cur} \ {0})
  /\ cur' = 0
  /\ todo' = {}
  /\ draft' = NoDraft
  /\ grade' = NoGrade
  /\ carry' = [s \in Shelves |-> IF carry[s] \in todo THEN 0 ELSE carry[s]]
  /\ UNCHANGED <<now, mem, shelf, ledger, rows>>

-----------------------------------------------------------------------------
(* Users and the Keeper *)

KeepMind == UNCHANGED <<ledger, rows, step, cur, todo, draft, grade, carry, loose>>

Day ==
  /\ now < MaxDay
  /\ now' = now + 1
  /\ UNCHANGED <<mem, shelf>>
  /\ KeepMind

Write(m, touchy) ==
  /\ mem' = [mem EXCEPT ![m] = [here |-> TRUE, at |-> now, touchy |-> touchy]]
  /\ UNCHANGED <<now, shelf>>
  /\ KeepMind

\* Deleted, or archived by the keyholder.
Withdraw(m) ==
  /\ IsEvidence(m)
  /\ mem' = [mem EXCEPT ![m] = [here |-> FALSE, at |-> 0, touchy |-> FALSE]]
  /\ UNCHANGED <<now, shelf>>
  /\ KeepMind

\* The Keeper makes a shelf of live memories that no other live shelf has, under
\* a name that was never taken, or under its own again.
Shelve(s, ms, theme) ==
  /\ Cardinality(ms) >= MinPatternN
  /\ \A m \in ms : IsEvidence(m)
  /\ \A t \in Shelves \ {s} : shelf[t].live => shelf[t].members \intersect ms = {}
  /\ shelf[s].made => shelf[s].live
  /\ shelf' = [shelf EXCEPT ![s] = [made |-> TRUE, live |-> TRUE, members |-> ms,
                                     theme |-> theme]]
  /\ UNCHANGED <<now, mem>>
  /\ KeepMind

\* Archived when its cluster dissolves, and taken out again by the keyholder.
SetShelf(s, live) ==
  /\ shelf[s].made /\ shelf[s].live # live
  /\ shelf' = [shelf EXCEPT ![s].live = live]
  /\ UNCHANGED <<now, mem>>
  /\ KeepMind

\* The keyholder archives a knowledge row, takes it out of the archive or deletes
\* it, while a tick runs or not.  (Neither call asks whose row it is; deleting
\* leaves the archive flag alone.)
SetRow(k, row) ==
  /\ rows[k].of # 0
  /\ rows' = [rows EXCEPT ![k] = row]
  /\ loose' = loose \union Users(k)
  /\ UNCHANGED <<now, mem, shelf, ledger, step, cur, todo, draft, grade, carry>>

Keyholder ==
  /\ Happens
  /\ \E k \in 1..MaxRows :
       \/ \E archived \in BOOLEAN :
            archived # rows[k].archived /\ SetRow(k, [rows[k] EXCEPT !.archived = archived])
       \/ SetRow(k, [rows[k] EXCEPT !.of = 0])

World ==
  /\ step = "idle"
  /\ Happens
  /\ \/ Day
     \/ \E m \in Memories :
          Withdraw(m) \/ \E touchy \in Touchy : Write(m, touchy)
     \/ \E s \in Shelves :
          \/ \E ms \in SUBSET Memories, theme \in Themes : Shelve(s, ms, theme)
          \/ \E live \in BOOLEAN : SetShelf(s, live)

-----------------------------------------------------------------------------

\* The memories have been written, and no tick has run.
Init ==
  /\ now = 0
  /\ mem = [m \in Memories |-> [here |-> TRUE, at |-> 0, touchy |-> FALSE]]
  /\ shelf = [s \in Shelves |-> [made |-> FALSE, live |-> FALSE, members |-> {},
                               theme |-> NoTheme]]
  /\ ledger = [i \in Shelves |-> NoPattern]
  /\ rows = [k \in 1..MaxRows |-> Absent]
  /\ step = "idle"
  /\ cur = 0
  /\ todo = {}
  /\ draft = NoDraft
  /\ grade = NoGrade
  /\ carry = [s \in Shelves |-> 0]
  /\ loose = {}
  /\ events = 0

Mind == Tick \/ Pick \/ Archive \/ Save \/ Done

Next == Mind \/ World \/ Keyholder \/ Crash

\* The host calls mindTick (keeperTick) again and again, and a tick that is not
\* killed ends.
Spec == Init /\ [][Next]_vars /\ WF_vars(Mind)

-----------------------------------------------------------------------------
(* Properties *)

\* Every variable keeps its shape.
TypeOK ==
  /\ now \in Days
  /\ mem \in [Memories -> [here: BOOLEAN, at: Days, touchy: BOOLEAN]]
  /\ shelf \in [Shelves -> [made: BOOLEAN, live: BOOLEAN, members: SUBSET Memories,
                          theme: Themes]]
  /\ ledger \in [Shelves -> Patterns] /\ draft \in [Shelves -> Patterns]
  /\ grade \in [Shelves -> [n: Nat, conf: 0..100]]
  /\ rows \in [1..MaxRows -> [of: Shelves \union {0}, archived: BOOLEAN]]
  /\ step \in {"idle", "pick", "archive", "save"}
  /\ cur \in Shelves \union {0}
  /\ todo \subseteq Shelves /\ loose \subseteq Shelves /\ events \in 0..MaxEvents
  /\ carry \in [Shelves -> Shelves \union {0}]

\* One pattern is carried by one shelf at most: adoption is one to one, and a
\* pattern's own shelf outranks its aliases.
OneCarrier ==
  \A s, t \in Shelves : carry[s] = carry[t] /\ carry[s] # 0 => s = t

\* Between ticks ledger and knowledge agree: a hardened pattern's row is there,
\* its own and out of the archive, and a retired one's in it.  A kill between two
\* writes, the keyholder and a pattern that takes a deleted row's name can part
\* them, until the Mind writes the row again: by then they must agree once more.
RowsMatchLedger ==
  step = "idle" => \A i \in Shelves \ loose :
    LET k == ledger[i].knowledge IN
    /\ ledger[i].status = "hardened" =>
         k # 0 /\ rows[k] = [of |-> i, archived |-> FALSE]
    /\ ledger[i].status = "retired" /\ k # 0 =>
         rows[k] = [of |-> i, archived |-> TRUE]

\* A live shelf keeps its pattern from tick to tick: only the return of another
\* shelf of the pattern's, its own or an adopted one, can take it over.
StableIdentity ==
  [][Tick => \A s \in Candidates :
       LET i == carry[s] IN
       /\ i \in Known /\ \A j \in Known \ {i} : s \notin ledger[j].aliases
       /\ \A t \in Candidates \ {s} : t # i /\ t \notin ledger[i].aliases
       => carry'[s] = i]_vars

\* Evidence that is gone for good takes every pattern off the ladder, unless
\* the process keeps dying.
Fades ==
  <>[][~Crash]_vars /\ <>[](\A m \in Memories : ~IsEvidence(m)) =>
    <>[](\A i \in Shelves : ledger[i].status # "hardened")

Hardens(i) == draft[i].status = "forming" /\ draft'[i].status = "hardened"

\* A pattern that a live shelf carries never hardens over evidence that the
\* Guard holds back, whatever was known of it before.
CarriedAreGuarded ==
  [][\A i \in Shelves : Hardens(i) /\ Carried(i) => ~Held(draft[i].refs)]_vars

\* No pattern ever hardens over such evidence; one whose shelf dissolved has its
\* verdict derived again from the refs that are left (mind.js, tick).  A stored
\* verdict that the refs have outlived breaks this.
GuardHolds ==
  [][\A i \in Shelves : Hardens(i) => ~Held(draft[i].refs)]_vars

=============================================================================
