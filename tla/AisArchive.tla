------------------------------ MODULE AisArchive ------------------------------
(***************************************************************************)
(* The AIS archive: importAisCsv, which replaces a slice of ais_positions  *)
(* by the rows of a file (ais/import.ts); what the read path makes of the  *)
(* archive, with its cache (ais/tracks.ts, ais/trackCache.ts), and the     *)
(* coverage statement and dark periods drawn from it (ais/service.ts).     *)
(*                                                                         *)
(* Imports run in worker processes, in a command line of their own and, for *)
(* the demo, inside the API; readers are requests to an API process.  Each *)
(* process has its own cache.  A place is a point on a line: the import's  *)
(* filter cuts a box out of longitudes and latitudes, its deletion and     *)
(* every query a geodesic polygon with the same corners, which misses a    *)
(* rim of that box and reaches over the other.                             *)
(***************************************************************************)
EXTENDS Integers, FiniteSets, SequencesExt, FiniteSetsExt

CONSTANTS
  Apis, Importers,     \* API processes; the others an import may run in
  Imports, Readers,    \* imports, and track requests, that may be under way at once
  File,                \* the lines of the archive file; "unreadable" is one that does not parse
  Slices,              \* windows <<from, to>> that are imported or asked for
  Box, Polygon,        \* places inside the box, and inside the polygon of its corners
  BatchSize,           \* rows per insertMany
  MaxGap, MaxSpeed, MinPoints, LowSampling,   \* TRACK_RECONSTRUCTION
  FewVesselsHeld,      \* below which coverage warns of few vessels
  Zone, Release, Steps,\* the origin zone <<from, to>>, the release window, gapCrossesZone's steps
  Ttl, MaxEntries,     \* of the cache
  MaxMinutes, MaxImports, MaxReads, MaxDeaths,
  MaxAisEvents         \* bounds: clock, imports, requests, lost processes, all of these

ASSUME AisAssumption ==
  /\ {BatchSize, MinPoints} \subseteq Nat \ {0}
  /\ {MaxEntries, MaxImports, MaxReads, MaxDeaths, MaxAisEvents} \subseteq Nat
  /\ \A s \in Slices : s \in Int \X Int /\ s[1] <= s[2]
  /\ File \in Seq([mmsi : STRING, t : Int, x : Int])

VARIABLES
  archive,   \* ais_positions: how many copies it holds of each fix
  trackCache,\* per API process: by slice, the tracks and when they were stored
  import,    \* per import slot: the import it is busy with
  read,      \* per reader: the request it is busy with
  minute,    \* the clock
  history,   \* of the archive: writes to it, what each process last cleared its cache at,
             \* and the slices whose last import ran to its end undisturbed
  left       \* what remains of the bounds

aisVars == <<archive, trackCache, import, read, minute, history, left>>

-----------------------------------------------------------------------------
(* The import *)

Fixes == {File[k] : k \in {j \in DOMAIN File : File[j].mmsi # "unreadable"}}
InWindow(f, s) == s[1] <= f.t /\ f.t <= s[2]

\* The filters of the row loop and its `seen` set, which is of this run only.
RowsTaken == [s \in Slices |->
  {k \in DOMAIN File :
     /\ File[k] \in Fixes
     /\ InWindow(File[k], s)
     /\ File[k].x \in Box
     /\ \A j \in 1 .. k - 1 : File[j] # File[k]}]

\* deleteMany of the window and the polygon.
Held(s)   == {f \in Fixes : InWindow(f, s) /\ f.x \in Polygon}
ClearNothing(s) == archive
Clear(s)  == [f \in Fixes |-> IF f \in Held(s) THEN 0 ELSE archive[f]]

\* insertMany of some lines of the file.
Insert(ks) == [f \in Fixes |-> archive[f] + Cardinality({k \in ks : File[k] = f})]

Overlap(s, z) == s[1] <= z[2] /\ z[1] <= s[2]
NoImport == [pc |-> "idle", slice |-> <<0, 0>>, next |-> 0, proc |-> "none", alone |-> TRUE]
NoRead   == [pc |-> "idle", slice |-> <<0, 0>>, proc |-> "none", rows |-> [f \in Fixes |-> 0],
             began |-> 0, raced |-> FALSE]
Spend(b) ==
  /\ left[b] > 0
  /\ left["all"] > 0
  /\ left' = [left EXCEPT ![b] = @ - 1, !["all"] = @ - 1]
Busy(s)  == {i \in Imports : import[i].pc = "rows" /\ Overlap(import[i].slice, s)}

AisInit ==
  /\ archive = [f \in Fixes |-> 0]
  /\ trackCache = [p \in Apis |-> << >>]
  /\ import = [i \in Imports |-> NoImport]
  /\ read = [r \in Readers |-> NoRead]
  /\ minute = 1
  /\ history = [writes |-> 0, cleared |-> [p \in Apis |-> 0], whole |-> {}]
  /\ left = [imports |-> MaxImports, reads |-> MaxReads, deaths |-> MaxDeaths, all |-> MaxAisEvents]

\* importAisCsv up to its loop: the window and the box are cleared first.
StartImport(i, p, s) ==
  /\ import[i].pc = "idle"
  /\ Spend("imports")
  /\ archive' = Clear(s)
  /\ import' = [j \in Imports |->
       IF j = i THEN [pc |-> "rows", slice |-> s, next |-> 0, proc |-> p, alone |-> Busy(s) = {}]
       ELSE IF j \in Busy(s) THEN [import[j] EXCEPT !.alone = FALSE]
       ELSE import[j]]
  /\ history' = [history EXCEPT !.writes = @ + 1, !.whole = {z \in @ : ~Overlap(z, s)}]
  /\ UNCHANGED <<trackCache, read, minute>>

\* flush: the rows accepted since the last one, when there are BatchSize of them.
Unread(m)    == {k \in RowsTaken[m.slice] : k > m.next}
NextBatch(m) == {k \in Unread(m) : Cardinality({j \in Unread(m) : j <= k}) <= BatchSize}
Flush(i) ==
  LET m == import[i]
      batch == NextBatch(m)
  IN
  /\ m.pc = "rows"
  /\ batch # {}
  /\ archive' = Insert(batch)
  /\ import' = [import EXCEPT ![i].next = Max(batch)]
  /\ history' = [history EXCEPT !.writes = @ + 1]
  /\ UNCHANGED <<trackCache, read, minute, left>>

\* The end of the file: clearTrackCache, of the process the import runs in.
KeepCache(p)  == trackCache
ClearCache(p) == [q \in Apis |-> IF q = p THEN << >> ELSE trackCache[q]]
FinishImport(i) ==
  LET m == import[i] IN
  /\ m.pc = "rows"
  /\ NextBatch(m) = {}
  /\ trackCache' = ClearCache(m.proc)
  /\ read' = [r \in Readers |-> IF read[r].proc = m.proc THEN [read[r] EXCEPT !.raced = TRUE]
                                                         ELSE read[r]]
  /\ history' = [history EXCEPT
       !.cleared = [p \in Apis |-> IF p = m.proc THEN history.writes ELSE @[p]],
       !.whole = IF m.alone THEN @ \cup {m.slice} ELSE @]
  /\ import' = [import EXCEPT ![i] = NoImport]
  /\ UNCHANGED <<archive, minute, left>>

\* The importing process dies, perhaps with part of a batch inserted; a queue's retry
\* is another import of the slice.  An API process takes its cache and requests along.
ImporterDies(i) ==
  LET m == import[i] IN
  /\ m.pc = "rows"
  /\ Spend("deaths")
  /\ \E part \in SUBSET NextBatch(m) : archive' = Insert(part)
  /\ import' = [import EXCEPT ![i] = NoImport]
  /\ trackCache' = [q \in Apis |-> IF q = m.proc THEN << >> ELSE trackCache[q]]
  /\ read' = [r \in Readers |-> IF read[r].proc = m.proc THEN NoRead ELSE read[r]]
  /\ history' = [history EXCEPT !.writes = @ + 1]
  /\ UNCHANGED minute

-----------------------------------------------------------------------------
(* What the read path makes of it *)

\* The query: the rows of window and polygon, each as often as it is stored.
Rows(s) == [f \in Fixes |-> IF f \in Held(s) THEN archive[f] ELSE 0]

\* The rows of one vessel by time (rows of one instant in the order of their places).
Earlier(f, g) == f.t < g.t \/ (f.t = g.t /\ f.x < g.x)
Raw(rows, v) ==
  LET fs == SetToSortSeq({f \in Fixes : f.mmsi = v /\ rows[f] > 0}, Earlier)
  IN FlattenSeq([n \in DOMAIN fs |-> [c \in 1 .. rows[fs[n]] |-> fs[n]]])

Apart(a, b) == IF a < b THEN b - a ELSE a - b

\* The outlier gate: a fix is left out when it is too far from the last one kept.
Impossible(prev, f) == f.t > prev.t /\ Apart(prev.x, f.x) > MaxSpeed * (f.t - prev.t)
GateByRaw(raw) ==
  LET bad == {n \in 2 .. Len(raw) : Impossible(raw[n - 1], raw[n])}
      good == SetToSortSeq(DOMAIN raw \ bad, <)
  IN [kept |-> [n \in DOMAIN good |-> raw[good[n]]], removed |-> Cardinality(bad)]
Gate(raw) ==
  FoldLeft(LAMBDA acc, f : IF acc.kept # << >> /\ Impossible(Last(acc.kept), f)
                             THEN [acc EXCEPT !.removed = @ + 1]
                             ELSE [acc EXCEPT !.kept = Append(@, f)],
           [kept |-> << >>, removed |-> 0], raw)

Intervals(kept) == [n \in 1 .. Len(kept) - 1 |-> kept[n + 1].t - kept[n].t]
Median(seq) == IF seq = << >> THEN 0 ELSE SortSeq(seq, <)[(Len(seq) \div 2) + 1]
Gaps(kept) ==
  {<<kept[n], kept[n + 1]>> :
     n \in {m \in 1 .. Len(kept) - 1 : kept[m + 1].t - kept[m].t > MaxGap}}

\* reconstructTracks, by vessel.
Track(rows, v) ==
  LET raw == Raw(rows, v)
      gate == Gate(raw)
  IN [mmsi |-> v, raw |-> Len(raw), fixes |-> gate.kept, removed |-> gate.removed,
      gaps |-> Gaps(gate.kept), interval |-> Median(Intervals(gate.kept))]
Vessels == {f.mmsi : f \in Fixes}
Tracks(rows) ==
  {tr \in {Track(rows, v) : v \in Vessels} : tr.raw >= MinPoints /\ Len(tr.fixes) >= MinPoints}

\* coverage and assess: the figures on what is held, and what they are said to mean.
CoverageOf(rows, s) ==
  LET held == {f \in Fixes : rows[f] > 0}
      times == {f.t : f \in held}
      raws == SetToSeq({Raw(rows, v) : v \in Vessels})
      intervals == FlattenSeq([n \in DOMAIN raws |-> Intervals(raws[n])])
      span == IF held = {} THEN 0 ELSE Max(times) - Min(times)
      vessels == {f.mmsi : f \in held}
      says(text, if) == IF if THEN {text} ELSE {}
  IN [records |-> MapThenSumSet(LAMBDA f : rows[f], held), vessels |-> vessels,
      interval |-> Median(intervals),
      says |-> says("nothing held", held = {})
         \cup says("sparse", held # {} /\ Median(intervals) > LowSampling)
         \cup says("partly unobserved", held # {} /\ 2 * span < s[2] - s[1])
         \cup says("few vessels", held # {} /\ Cardinality(vessels) < FewVesselsHeld)]

\* darkPeriods and gapCrossesZone: the gaps that meet the release window; whether one
\* overlaps the origin zone is asked of Steps + 1 points of the straight line across it.
Crosses(a, b, zone) ==
  \E n \in 0 .. Steps :
    /\ zone[1] * Steps <= a * (Steps - n) + b * n
    /\ a * (Steps - n) + b * n <= zone[2] * Steps
DarkPeriods(tracks) ==
  LET dark(tr) == {g \in tr.gaps : g[2].t >= Release[1] /\ g[1].t <= Release[2]}
  IN UNION {{[mmsi |-> tr.mmsi, gap |-> g, overlapsOriginZone |-> Crosses(g[1].x, g[2].x, Zone)] :
               g \in dark(tr)} : tr \in tracks}

\* GET /:id/ais/tracks through cachedTracks: an entry that is young enough is answered,
\* otherwise the archive is read, and what comes of it stored some time later.
StillFresh(p, s) == s \in DOMAIN trackCache[p] /\ minute - trackCache[p][s].at < Ttl
AskTracks(r, p, s) ==
  /\ read[r].pc = "idle"
  /\ Spend("reads")
  /\ read' = IF StillFresh(p, s) THEN read
             ELSE [read EXCEPT ![r] = [pc |-> "query", slice |-> s, proc |-> p, rows |-> Rows(s),
                                       began |-> history.writes, raced |-> FALSE]]
  /\ UNCHANGED <<archive, trackCache, import, minute, history>>

\* cache.set, and the eviction of the oldest entry when there are more than MaxEntries.
Evicted(cache) ==
  IF Cardinality(DOMAIN cache) <= MaxEntries THEN {cache}
  ELSE {Restrict(cache, DOMAIN cache \ {s}) :
          s \in {z \in DOMAIN cache : \A y \in DOMAIN cache : cache[z].at <= cache[y].at}}
StoreTracks(r) ==
  LET q == read[r]
      entry == [at |-> minute, tracks |-> Tracks(q.rows), began |-> q.began, raced |-> q.raced]
      cache == [s \in DOMAIN trackCache[q.proc] \cup {q.slice} |->
                  IF s = q.slice THEN entry ELSE trackCache[q.proc][s]]
  IN
  /\ q.pc = "query"
  /\ \E c \in Evicted(cache) : trackCache' = [trackCache EXCEPT ![q.proc] = c]
  /\ read' = [read EXCEPT ![r] = NoRead]
  /\ UNCHANGED <<archive, import, minute, history, left>>

AMinute ==
  /\ minute < MaxMinutes
  /\ minute' = minute + 1
  /\ UNCHANGED <<archive, trackCache, import, read, history, left>>

AisNext ==
  \/ AMinute
  \/ \E i \in Imports : \/ \E p \in Importers \cup Apis, s \in Slices : StartImport(i, p, s)
                        \/ Flush(i) \/ FinishImport(i) \/ ImporterDies(i)
  \/ \E r \in Readers : \/ \E p \in Apis, s \in Slices : AskTracks(r, p, s)
                        \/ StoreTracks(r)

AisSpec == AisInit /\ [][AisNext]_aisVars

-----------------------------------------------------------------------------
(* Properties *)

AisTypeOK ==
  /\ archive \in [Fixes -> Nat]
  /\ \A p \in Apis :
       /\ DOMAIN trackCache[p] \subseteq Slices
       /\ Cardinality(DOMAIN trackCache[p]) <= MaxEntries
       /\ \A s \in DOMAIN trackCache[p] : trackCache[p][s].at \in 1 .. minute
  /\ \A i \in Imports : import[i].pc \in {"idle", "rows"} /\ import[i].next \in 0 .. Len(File)
  /\ \A r \in Readers : read[r].pc \in {"idle", "query"} /\ read[r].rows \in [Fixes -> Nat]
  /\ history.whole \subseteq Slices

\* import.ts, "make re-import idempotent": after an import that ran to its end with no
\* other one of an overlapping window next to it, each of its fixes that both the box and
\* the polygon hold is stored once - whatever imports overlapped, died or were repeated
\* before.
Expected(s) == {f \in Fixes : InWindow(f, s) /\ f.x \in Box \cap Polygon}
SliceStoredOnce == \A s \in history.whole : \A f \in Expected(s) : archive[f] = 1

\* And the coverage statement of ais/service.ts, which counts rows, counts each once.
SliceCountedOnce ==
  \A s \in history.whole :
    {f \in Held(s) : archive[f] > 0} = Expected(s) =>
      CoverageOf(Rows(s), s).records = Cardinality(Expected(s))

\* trackCache.ts, "dropped when new AIS lands": no answer an API process may still give
\* from its cache was computed from the archive as it was before an import in that process
\* cleared the cache, unless the query was under way at that moment.
CacheSeesOwnImports ==
  \A p \in Apis : \A s \in DOMAIN trackCache[p] :
    trackCache[p][s].began >= history.cleared[p] \/ trackCache[p][s].raced

\* An answer about the sea is of all the rows that were imported of it, and of no others.
ArchiveIsExact == SliceStoredOnce /\ CacheSeesOwnImports

\* tracks.ts, "a fix implying an impossible speed is a bad position report": whatever
\* copies the archive holds, no two fixes of a track imply such a speed unless it has two
\* of one instant, and neither do the two ends of a dark period.
TracksAreFeasible ==
  \A p \in Apis : \A s \in DOMAIN trackCache[p] :
    \A tr \in trackCache[p][s].tracks :
      /\ tr.raw = Len(tr.fixes) + tr.removed
      /\ \/ \E m, n \in DOMAIN tr.fixes : tr.fixes[m].t = tr.fixes[n].t /\ tr.fixes[m].x # tr.fixes[n].x
         \/ \A m, n \in DOMAIN tr.fixes : m < n => ~Impossible(tr.fixes[m], tr.fixes[n])
      /\ \A d \in DarkPeriods({tr}) : ~Impossible(d.gap[1], d.gap[2])

=============================================================================
