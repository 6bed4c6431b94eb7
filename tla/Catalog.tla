------------------------------ MODULE Catalog -------------------------------
(***************************************************************************)
(* The ClickHouse catalog over restarts of the server: the migrations that *)
(* every start runs from the first statement on, the rows that the sink    *)
(* and the nsys imports insert into `events`, which of them the            *)
(* materialized views existing at that moment read, what the views make of *)
(* them in tiles_activity, and what the timeline endpoint answers.         *)
(*                                                                         *)
(* Times are small numbers, Widths stands for TILE_WIDTHS_NS, Shed and     *)
(* Keep for the two lists of 0006_shed_metric_tiles.  A bag of rows is     *)
(* a function from events to how often they were inserted.  Durations and  *)
(* top names of a bucket, and the metric tiles, for which no METRIC row    *)
(* ever reaches a view, are left out.                                      *)
(***************************************************************************)
EXTENDS Integers, Sequences, FiniteSets, Functions, FiniteSetsExt

CONSTANTS Widths,      \* tile widths, ascending
          Shed, Keep,  \* those whose view 0006 drops, and asserts again
          Event,       \* events that may be stored: [ts, gpu, cat]
          Live,        \* those that agents send
          Upload,      \* nsys reports uploaded over HTTP
          CliUpload,   \* nsys reports imported by `perfweave import`
          RowsOf,      \* the kernel rows of each report
          Query,       \* timeline requests
          RawLimit,    \* LIMIT of the raw query
          MaxStarts, MaxCopies,  \* bounds on starts and on re-inserted rows
          NoUpload

ASSUME CatalogAssumption ==
    /\ \A i \in 1..Len(Widths) - 1 : Widths[i] < Widths[i + 1]
    /\ Widths \in Seq(Nat \ {0}) /\ Len(Widths) > 1
    /\ Shed \in Seq(Nat) /\ Keep \in Seq(Nat)
    /\ \A j \in 1..Len(Keep) : \E i \in 1..Len(Widths) : Keep[j] = Widths[i]
    /\ \A i \in 1..Len(Shed), j \in 1..Len(Keep) : Shed[i] # Keep[j]
    /\ Live \subseteq Event /\ NoUpload \notin Upload
    /\ \A u \in Upload \cup CliUpload : RowsOf[u] \subseteq Event \ Live
    /\ IsFiniteSet(Event) /\ \A e \in Event : e.ts \in Nat
    /\ \A q \in Query : q.start \in Nat /\ q.end \in Nat
    /\ RawLimit \in Nat

VARIABLES
    phase,     \* the server: "down", "migrating" or "serving"
    starts,    \* how often it was started
    stmt,      \* next statement of MIGRATIONS
    tables, views,  \* the tables there are, the widths that have a view
    migrated,  \* history: apply() has once run to its end
    events,    \* rows of `events`
    due,       \* history: those of them inserted since migrated
    read,      \* the rows that the view of each width has read
    imp,       \* per upload: "none", "exporting", "inserting", "done", "failed"
    sqlite,    \* the upload whose export trace.sqlite holds
    took,      \* history, per upload: the upload whose rows its import inserted
    overlapped \* history: uploads imported while another one was

server == <<phase, starts, stmt, tables, views, migrated>>
rows == <<events, due, read>>
imports == <<imp, sqlite, took, overlapped>>
vars == <<server, rows, imports>>

Width == {Widths[i] : i \in 1..Len(Widths)}
Kept  == {Keep[i] : i \in 1..Len(Keep)}

Init == /\ phase = "down" /\ starts = 0 /\ stmt = 1 /\ tables = {} /\ views = {}
        /\ migrated = FALSE
        /\ events = [e \in Event |-> 0] /\ due = events
        /\ read = [w \in Width |-> events]
        /\ imp = [u \in Upload |-> "none"] /\ sqlite = NoUpload
        /\ took = [u \in Upload |-> NoUpload] /\ overlapped = {}

-----------------------------------------------------------------------------
(* store/migrations.rs and the scripts it embeds.                          *)

Table(name) == [op |-> "table", arg |-> name]
CreateViews(ws) == [i \in 1..Len(ws) |-> [op |-> "create", arg |-> ws[i]]]
DropViews(ws) == [i \in 1..Len(ws) |-> [op |-> "drop", arg |-> ws[i]]]

\* Mutated form of MIGRATIONS: 0006 drops every view and creates the kept ones
\* again, in place of dropping the others.
MigrationsRebuild ==
    <<Table("events"), Table("tiles_activity")>> \o CreateViews(Widths) \o
    DropViews(Widths) \o CreateViews(Keep) \o <<Table("kernel_sol")>>

\* 0001 events, 0003 tiles and a view per width, 0006 drops the views that
\* are not kept and asserts the others again, 0008 kernel_sol.  Statements
\* about other tables and columns change nothing here.
MIGRATIONS ==
    <<Table("events"), Table("tiles_activity")>> \o CreateViews(Widths) \o
    DropViews(Shed) \o CreateViews(Keep) \o <<Table("kernel_sol")>>

\* run() of app.rs: migrations first, everything else after them.
Start == /\ phase = "down" /\ starts < MaxStarts
         /\ phase' = "migrating" /\ starts' = starts + 1 /\ stmt' = 1
         /\ UNCHANGED <<tables, views, migrated, rows, imports>>

\* apply(): one statement per request, each of them IF [NOT] EXISTS.
Apply ==
    /\ phase = "migrating" /\ stmt <= Len(MIGRATIONS)
    /\ stmt' = stmt + 1
    /\ LET s == MIGRATIONS[stmt]
       IN  /\ tables' = IF s.op = "table" THEN tables \cup {s.arg} ELSE tables
           /\ views'  = CASE s.op = "create" -> views \cup {s.arg}
                          [] s.op = "drop"   -> views \ {s.arg}
                          [] OTHER           -> views
    /\ UNCHANGED <<phase, starts, migrated, rows, imports>>

Serve == /\ phase = "migrating" /\ stmt > Len(MIGRATIONS)
         /\ phase' = "serving" /\ migrated' = TRUE
         /\ UNCHANGED <<starts, stmt, tables, views, rows, imports>>

\* A statement fails and run() returns the error, or the process ends.  The
\* import tasks end with it; the next process has another temporary directory.
Stop == /\ phase # "down"
        /\ phase' = "down" /\ sqlite' = NoUpload
        /\ imp' = [u \in Upload |-> IF imp[u] \in {"exporting", "inserting"}
                                    THEN "failed" ELSE imp[u]]
        /\ UNCHANGED <<starts, stmt, tables, views, migrated, rows, took, overlapped>>

-----------------------------------------------------------------------------
(* Rows: store/sink.rs converts what agents send, ClickHouse runs each     *)
(* INSERT through the views that exist.                                    *)

\* category_to_i8: an unspecified category is stored as METRIC, a SOL event
\* that reaches the sink as KERNEL.
StoredCategory(cat) == CASE cat = "UNSPECIFIED" -> "METRIC"
                         [] cat = "SOL"         -> "KERNEL"
                         [] OTHER               -> cat

\* gpu_id as u8.
Row(e) == [ts |-> e.ts, gpu |-> e.gpu % 256, cat |-> StoredCategory(e.cat)]

Activity(e) == Row(e).cat # "METRIC"

Add(bag, S) == [e \in Event |-> IF e \in S THEN bag[e] + 1 ELSE bag[e]]

\* INSERT INTO events: the table, and every view at once; the views read what
\* is not METRIC.
Insert(S) ==
    /\ events' = Add(events, S)
    /\ due'    = IF migrated THEN Add(due, S) ELSE due
    /\ read'   = [w \in Width |-> IF w \in views
                                  THEN Add(read[w], {e \in S : Activity(e)})
                                  ELSE read[w]]

\* A flush of the sink; a retried one inserts its rows again (module Sink).
\* absorb() skips METRIC events, so Live has none.
Flush(e) == /\ phase = "serving" /\ events[e] < MaxCopies
            /\ Insert({e})
            /\ UNCHANGED <<server, imports>>

-----------------------------------------------------------------------------
(* api/imports.rs and the upload handler of api/app.rs.                    *)

Importing == {u \in Upload : imp[u] \in {"exporting", "inserting"}}

\* nsys_import_handler spawns import_nsys for every upload; all uploads of one
\* server process share one temporary directory and file.
StartImport(u) ==
    /\ phase = "serving" /\ imp[u] = "none"
    /\ imp' = [imp EXCEPT ![u] = "exporting"]
    /\ overlapped' = IF Importing = {} THEN overlapped
                     ELSE overlapped \cup Importing \cup {u}
    /\ UNCHANGED <<server, rows, sqlite, took>>

\* Mutated form of ExportTo: without --force-overwrite an existing file stays.
ExportToKeeps(u) == IF sqlite = NoUpload THEN u ELSE sqlite

ExportTo(u) == u

\* `nsys export --force-overwrite=true -o trace.sqlite` ends.
Export(u) ==
    /\ imp[u] = "exporting"
    /\ \/ imp' = [imp EXCEPT ![u] = "inserting"] /\ sqlite' = ExportTo(u)
       \/ imp' = [imp EXCEPT ![u] = "failed"] /\ UNCHANGED sqlite
    /\ UNCHANGED <<server, rows, took, overlapped>>

\* INSERT ... SELECT FROM sqlite(trace.sqlite), whatever the file holds now.
InsertImport(u) ==
    /\ imp[u] = "inserting"
    /\ imp' = [imp EXCEPT ![u] = "done"]
    /\ took' = [took EXCEPT ![u] = sqlite]
    /\ Insert(RowsOf[sqlite])
    /\ UNCHANGED <<server, sqlite, overlapped>>

InsertImportFails(u) ==
    /\ imp[u] = "inserting"
    /\ imp' = [imp EXCEPT ![u] = "failed"]
    /\ UNCHANGED <<server, rows, sqlite, took, overlapped>>

\* `perfweave import`: a process and a directory of its own, no migrations.
CliImport(c) ==
    /\ "events" \in tables
    /\ \A e \in RowsOf[c] : events[e] < MaxCopies
    /\ Insert(RowsOf[c])
    /\ UNCHANGED <<server, imports>>

Next == \/ Start \/ Apply \/ Serve \/ Stop
        \/ \E e \in Live : Flush(e)
        \/ \E u \in Upload : \/ StartImport(u) \/ Export(u)
                             \/ InsertImport(u) \/ InsertImportFails(u)
        \/ \E c \in CliUpload : CliImport(c)

Spec == Init /\ [][Next]_vars

-----------------------------------------------------------------------------
(* api/lod.rs and api/timeline.rs.  A request is [start, end, pixels, kind,*)
(* gpus, cats]; kind "default", gpus {} and cats {} stand for a parameter  *)
(* that is absent.  An answer maps what its rows stand for (a bucket with  *)
(* GPU and category, or a time) to how many rows they count.               *)

\* The smallest width that is at least a pixel wide, else the largest.
choose_tile(range, pixels) ==
    LET wide == {w \in Width : w >= range \div pixels}
    IN  CASE pixels = 0 -> Widths[1]
          [] pixels # 0 /\ wide # {} -> Min(wide)
          [] OTHER -> Widths[Len(Widths)]

should_serve_raw(range, pixels) == pixels > 0 /\ range \div pixels < Widths[1]

Kind(q) == IF q.kind # "default" THEN q.kind
           ELSE IF should_serve_raw(q.end - q.start, q.pixels) THEN "raw" ELSE "activity"

Category == {"METRIC", "API_CALL", "KERNEL", "MEMCPY", "MEMSET", "SYNC", "OVERHEAD", "MARKER"}

\* gpu_filter_sql and category_filter_sql; a list of unknown categories only
\* is no filter at all.
Filtered(q, e) == /\ q.gpus # {} => Row(e).gpu \in q.gpus
                  /\ q.cats \cap Category # {} => Row(e).cat \in q.cats

\* Mutated form of Bucket: the nearest multiple of the width.
BucketNearest(w, ts) == ((ts + w \div 2) \div w) * w

Bucket(w, ts) == (ts \div w) * w

\* What the views leave in tiles_activity.  ClickHouse fills the table of a TO
\* view by the names of the SELECT's columns; a column without one gets its
\* default.  The first view of 0003 names all its columns and the second the
\* bucket and its width only, so its rows have an empty count; the others, in
\* 0003 and again in 0006, name neither, and what they write is found at width
\* 0 and at none of Widths.
Named  == {Widths[1], Widths[2]}
Tile(w, e)  == w \in Named /\ read[w][e] > 0
Count(w, S) == IF w = Widths[1] THEN SumFunctionOnSet(read[w], S) ELSE 0

\* serve_activity: per bucket, GPU and category the rows counted, for buckets
\* that start in the range, whether or not the width has a view.
ServeActivity(q) ==
    LET w    == choose_tile(q.end - q.start, q.pixels)
        hit  == {e \in Event : /\ Tile(w, e) /\ Filtered(q, e)
                               /\ Bucket(w, e.ts) >= q.start /\ Bucket(w, e.ts) < q.end}
        Key(e) == <<Bucket(w, e.ts), Row(e).gpu, Row(e).cat>>
    IN  [k \in {Key(e) : e \in hit} |-> Count(w, {e \in hit : Key(e) = k})]

\* serve_raw: the first RawLimit rows by time.  Which of the rows of one time
\* the limit cuts is up to ClickHouse.
ServeRaw(q) ==
    LET hit == {e \in Event : /\ events[e] > 0 /\ Filtered(q, e) /\ Activity(e)
                              /\ e.ts >= q.start /\ e.ts < q.end}
        At(t)     == SumFunctionOnSet(events, {e \in hit : e.ts = t})
        Before(t) == SumFunctionOnSet(events, {e \in hit : e.ts < t})
    IN  [t \in {e.ts : e \in {d \in hit : Before(d.ts) < RawLimit}} |->
            Min({At(t), RawLimit - Before(t)})]

\* serve_metric: the buckets of tiles_metric, which are none, since no view
\* and no statement of the server writes them once 0006 has run.
ServeMetric(q) == <<>>

\* The handler; an empty range is a bad request and has no answer.
Answer(q) == CASE q.end <= q.start   -> <<>>
               [] q.end > q.start /\ Kind(q) = "raw"    -> ServeRaw(q)
               [] q.end > q.start /\ Kind(q) = "metric" -> ServeMetric(q)
               [] OTHER -> ServeActivity(q)

AnswerWidth(q) == IF Kind(q) = "raw" THEN 1 ELSE choose_tile(q.end - q.start, q.pixels)

-----------------------------------------------------------------------------
(* Properties.                                                             *)

\* Once apply() has run to its end, every row inserted into events, by the
\* sink, an upload or the CLI, before, during or after any later and possibly
\* interrupted migration, is read by each kept view, and no view reads a row
\* more often than it is stored.  What a view writes is another matter: see
\* Named, and AnyZoomShows.
ViewsRead ==
    \A e \in Event : Activity(e) =>
        /\ \A w \in Kept : due[e] <= read[w][e]
        /\ \A w \in Width : read[w][e] <= events[e]

\* A raw answer counts the rows of the range, or as many as its limit; an
\* activity answer, whatever was inserted while its width had a view, counts
\* rows that are stored, of the range and of the bucket cut by its end, and
\* none twice.
AnswersStored ==
    \A q \in Query : q.start < q.end /\ Kind(q) # "metric" =>
        LET w == AnswerWidth(q)
            counted == SumFunction(Answer(q))
            Rows(to) ==
                SumFunctionOnSet(events, {e \in Event : /\ Activity(e) /\ Filtered(q, e)
                                                        /\ e.ts >= q.start /\ e.ts < to})
        IN  IF Kind(q) = "raw" THEN counted = Min({RawLimit, Rows(q.end)})
                               ELSE counted <= Rows(q.end + w - 1)

\* An import that ran alone inserted the rows of its own report: the shared
\* trace.sqlite of earlier imports never leaks into it.
ImportsOwnRows ==
    \A u \in Upload \ overlapped : imp[u] = "done" => took[u] = u

\* Violated.  migrations/0003 and 0006 say of the timeline that it answers at
\* any zoom, from the kept tiles or, where 0006 sheds the view, from `events`:
\* a stored row that activity requests of both kinds have in the middle of
\* their range shows in the answer to one of them at least.  It shows in none:
\* a shed width has no view, and a kept one a view that names no column.
AnyZoomShows ==
    \A e \in Event :
        LET zooms == {q \in Query : /\ Kind(q) = "activity" /\ Filtered(q, e)
                                    /\ q.start + AnswerWidth(q) <= e.ts
                                    /\ e.ts + AnswerWidth(q) < q.end}
            widths == {AnswerWidth(q) : q \in zooms}
        IN  /\ due[e] > 0 /\ Activity(e)
            /\ widths \cap Kept # {} /\ widths \ Kept # {}
            => \E q \in zooms : DOMAIN Answer(q) # {}
=============================================================================
