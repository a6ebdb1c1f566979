------------------------------- MODULE Captures -------------------------------
(***************************************************************************)
(* The stream of captures: addCapture with its suppression of consecutive  *)
(* duplicates, deleteCaptures with its watermark, and what a forward-merge *)
(* takes from the stream of a snapshot.                                    *)
(*                                                                         *)
(* A source stands for a source and type.  addCapture looks for the newest *)
(* row and inserts in two statements, deleteCaptures deletes and marks in  *)
(* two; other calls come in between, and the pruner may be killed there.   *)
(***************************************************************************)
EXTENDS Integers, FiniteSets

CONSTANTS
  Sources,      \* producers' (source, type) pairs
  Payloads,     \* what they send
  Feeders,      \* concurrent callers of addCapture
  MaxTime,      \* bound on the clock
  MaxCaptures   \* bound on the ids given out

ASSUME CapturesAssumption == MaxTime \in Nat /\ MaxCaptures \in Nat

VARIABLES
  now,          \* the kernel's clock, in its whole seconds
  stream,       \* the captures table
  lastCapture,  \* where its sequence of ids stands
  watermark,    \* captures_prune_watermark; 0 when it is not set
  feeder,       \* per feeder, the captures it is about to insert
  pruner,       \* the prune that is still to move the watermark
  gone          \* history: what was pruned by time, and has not been fed since

captureVars == <<now, stream, lastCapture, watermark, feeder, pruner, gone>>

-----------------------------------------------------------------------------

Times == 1 .. MaxTime

Events == [src: Sources, ts: Times, data: Payloads]

Event(src, ts, data) == [src |-> src, ts |-> ts, data |-> data]
Captured(id, e) == [id |-> id, event |-> e]

Streams == SUBSET [id: 1 .. MaxCaptures, event: Events]

\* _captureHash
HashesOf(rows) == {r.event : r \in rows}

\* ORDER BY ts DESC, id DESC
NewerCapture(r, s) == r.event.ts > s.event.ts \/ (r.event.ts = s.event.ts /\ r.id > s.id)

\* The newest capture of the source carries the same payload.
Repeated(src, data) ==
  \E r \in stream :
    /\ r.event.src = src /\ r.event.data = data
    /\ \A s \in stream \ {r} : s.event.src = src => NewerCapture(r, s)

-----------------------------------------------------------------------------
(* addCapture *)

\* The look at the newest row; a producer may bring its own stamp, and may ask
\* for the repetition.
Offer(p, src, ts, data, allowDuplicate) ==
  /\ feeder[p] = {}
  /\ ts <= now
  /\ allowDuplicate \/ ~Repeated(src, data)
  /\ feeder' = [feeder EXCEPT ![p] = {Event(src, ts, data)}]
  /\ UNCHANGED <<now, stream, lastCapture, watermark, pruner, gone>>

Store(p) ==
  /\ feeder[p] # {}
  /\ lastCapture < MaxCaptures
  /\ lastCapture' = lastCapture + 1
  /\ stream' = stream \union {Captured(lastCapture + 1, e) : e \in feeder[p]}
  /\ feeder' = [feeder EXCEPT ![p] = {}]
  /\ gone' = gone \ feeder[p]
  /\ UNCHANGED <<now, watermark, pruner>>

-----------------------------------------------------------------------------
(* deleteCaptures *)

NoPrune == [until |-> 0, pruned |-> {}]

Prunes == [until: Times \union {0}, pruned: SUBSET Events]

\* Only a prune by time alone, and one that hit something.
MovesWatermark(srcs, pruned) == srcs = Sources /\ pruned # {}

DeleteCaptures(until, srcs) ==
  LET hit == {r \in stream : r.event.ts <= until /\ r.event.src \in srcs} IN
  /\ pruner = NoPrune
  /\ stream' = stream \ hit
  /\ pruner' = IF MovesWatermark(srcs, hit)
               THEN [until |-> until, pruned |-> HashesOf(hit)]
               ELSE NoPrune
  /\ UNCHANGED <<now, lastCapture, watermark, feeder, gone>>

\* GREATEST of the two.
Raised(mark, until) == IF until > mark THEN until ELSE mark

MarkPruned ==
  /\ pruner # NoPrune
  /\ watermark' = Raised(watermark, pruner.until)
  /\ gone' = gone \union (pruner.pruned \ HashesOf(stream))
  /\ pruner' = NoPrune
  /\ UNCHANGED <<now, stream, lastCapture, feeder>>

PrunerKilled ==
  /\ pruner # NoPrune
  /\ pruner' = NoPrune
  /\ UNCHANGED <<now, stream, lastCapture, watermark, feeder, gone>>

-----------------------------------------------------------------------------
(* What a forward-merge takes from a snapshot's stream *)

\* Slip: the watermark is not asked.
Missing_Bug(rows, mark) == {e \in HashesOf(rows) : e \notin HashesOf(stream)}

\* Set union by hash, above the watermark.
Missing(rows, mark) == {e \in HashesOf(rows) : e \notin HashesOf(stream) /\ e.ts > mark}

\* They are inserted in the order they are read, newest first.
ReadBefore(rows, e, f) ==
  \/ e.ts > f.ts
  \/ /\ e.ts = f.ts
     /\ \E r \in rows : r.event = e /\ \A s \in rows : s.event = f => r.id > s.id

Inserted(rows, mark) ==
  LET missing == Missing(rows, mark)
      Rank(e) == Cardinality({f \in missing : ReadBefore(rows, f, e)})
  IN {Captured(lastCapture + 1 + Rank(e), e) : e \in missing}

CapturesInit ==
  /\ now = 1
  /\ stream = {} /\ lastCapture = 0 /\ watermark = 0
  /\ feeder = [p \in Feeders |-> {}]
  /\ pruner = NoPrune
  /\ gone = {}

CapturesTypeOK ==
  /\ now \in Times
  /\ stream \in Streams
  /\ lastCapture \in 0 .. MaxCaptures
  /\ watermark \in Times \union {0}
  /\ feeder \in [Feeders -> SUBSET Events]
  /\ pruner \in Prunes
  /\ gone \subseteq Events

=============================================================================
