------------------------------ MODULE Catalogue ------------------------------
(***************************************************************************)
(* Searching the satellite catalogues, and what is started from an answer. *)
(* Three providers are asked at once, each in its own way; what they hold  *)
(* in common is listed once, in the form the platform can read if any has  *)
(* it.  A listing is kept by the browser until it is asked for again.  A   *)
(* case is casesOpened from a card of it by two calls, of which the second may  *)
(* be refused; the verified scenario and the back-fill search for          *)
(* themselves, look first whether their case has a scene, and queue what   *)
(* they chose under a key that makes a second request the first.           *)
(***************************************************************************)
EXTENDS Integers, Sequences, SequencesExt, FiniteSets

CONSTANTS
  Holdings,      \* what the providers may hold: functions of a provider, to a sequence
  Area,          \* the area of interest, along one axis
  Searches,      \* the searches asked for
  BrowserSearch, \* the one of the satellite browser
  DemoSearch,    \* the one of the verified scenario
  Runners,       \* runs of the verified scenario and of the back-fill
  FaultsMet,     \* the ways in which a provider fails
  PageLimit,     \* the records a provider returns to one search
  MaxOpened,     \* cases a behaviour opens
  MaxSearched    \* searches of a behaviour

VARIABLES
  holdings,   \* what each provider holds
  configured, \* whether the first of them has credentials
  listings,   \* the browser's answer to each search
  casesOpened,     \* the cases, in the order they were casesOpened: who casesOpened each
  ingestJobs,    \* the ingest jobs: of which case and product, and how far
  pictures,   \* the scenes of each case
  runners,    \* where each run is
  searched    \* searches so far

catalogueVars == <<holdings, configured, listings, casesOpened, ingestJobs, pictures, runners, searched>>

-----------------------------------------------------------------------------
(* What a provider answers.                                                 *)

Rtc    == "sentinel-1-rtc"
Chain  == <<"CDSE", "PLANETARY_COMPUTER", "ASF">>
Providers == Range(Chain)
Faults == {"CIRCUIT_OPEN", "QUOTA_EXHAUSTED", "TIMEOUT", "ERROR"}
ASSUME FaultsMet \subseteq Faults

\* The collections of a provider a search is sent to: the first looks at the first platform
\* named, the third at none.
CdseCollection(names) ==
  IF names = << >> THEN "SENTINEL-1"
  ELSE CASE names[1] = "SENTINEL-2" -> "SENTINEL-2"
         [] names[1] = "LANDSAT"    -> "LANDSAT-8"
         [] OTHER                   -> "SENTINEL-1"

StacCollections(names) ==
  LET of(n) == CASE n = "SENTINEL-1" -> {"sentinel-1-grd", Rtc}
                 [] n = "SENTINEL-2" -> {"sentinel-2-l2a"}
                 [] n = "LANDSAT"    -> {"landsat-c2-l2"}
                 [] OTHER            -> {}
  IN IF names = << >> THEN {"sentinel-1-grd"} ELSE UNION {of(n) : n \in Range(names)}

\* The share of the area of interest in the bounding box of a footprint, if that is one polygon.
OverlapOf(span) ==
  LET west == IF span[1] > Area[1] THEN span[1] ELSE Area[1]
      east == IF span[2] < Area[2] THEN span[2] ELSE Area[2]
  IN IF ~span[3] \/ east <= west THEN 0 ELSE (100 * (east - west)) \div (Area[2] - Area[1])

\* Each provider's record becomes an item of one shape; only one serves corrected products.
ItemOf(p, r, collection, corrected) ==
  [provider |-> p, pass |-> r.pass, collection |-> collection, at |-> r.at, orbit |-> r.orbit,
   pols |-> r.pols, overlap |-> OverlapOf(r.span), preprocessed |-> corrected]
CdseItem(r) == ItemOf("CDSE", r, r.collection, FALSE)
StacItem(r) == ItemOf("PLANETARY_COMPUTER", r, r.collection, r.collection = Rtc)
AsfItem(r)  == ItemOf("ASF", r, "SENTINEL-1", FALSE)

\* A page of what matches; what has no time of acquisition is then left out.
Page(p, Match(_), Item(_)) ==
  LET found == SelectSeq(holdings[p], Match)
      page  == SubSeq(found, 1, IF Len(found) < PageLimit THEN Len(found) ELSE PageLimit)
      timed == SelectSeq(page, LAMBDA r : r.timed)
  IN [i \in DOMAIN timed |-> Item(timed[i])]

\* The first provider excludes the ends of the window; the direction of flight is sent to the
\* second alone, which is not asked at all for a platform it does not know; the third looks
\* for one platform whatever was named.
CdseHits(search) ==
  Page("CDSE", LAMBDA r : /\ r.collection = CdseCollection(search.platforms)
                          /\ search.from < r.at /\ r.at < search.to, CdseItem)
StacHits(search) ==
  Page("PLANETARY_COMPUTER", LAMBDA r : /\ r.collection \in StacCollections(search.platforms)
                                        /\ search.from <= r.at /\ r.at <= search.to
                                        /\ search.orbit \in {"ANY", r.orbit}, StacItem)
AsfHits(search) ==
  Page("ASF", LAMBDA r : /\ r.collection = "SENTINEL-1"
                         /\ search.from <= r.at /\ r.at <= search.to, AsfItem)

Hits(p, search) ==
  CASE p = "CDSE" -> CdseHits(search)
    [] p = "PLANETARY_COMPUTER" -> StacHits(search)
    [] p = "ASF" -> AsfHits(search)

-----------------------------------------------------------------------------
(* What the chain makes of it.                                              *)

Status(p, search, outcome) ==
  CASE p = "CDSE" /\ ~configured -> "NOT_CONFIGURED"
    [] outcome # "answers"       -> outcome
    [] Hits(p, search) = << >>   -> "NO_RESULTS"
    [] OTHER                     -> "OK"

AnsweredWithScenes(status) == status = "OK"
HasAnswered(status) == status \in {"OK", "NO_RESULTS"}

\* One record of each pass: a terrain-corrected one first, and then the first in the chain.
PreferredByRank(list, i, j) == i < j
PreferredTo(list, i, j) ==
  \/ list[i].preprocessed /\ ~list[j].preprocessed
  \/ list[i].preprocessed = list[j].preprocessed /\ i < j

Deduped(list) ==
  {list[i] : i \in {k \in DOMAIN list :
    \A j \in DOMAIN list \ {k} : list[j].pass = list[k].pass => PreferredTo(list, k, j)}}

CanBeRead(item) == item.collection = Rtc /\ item.preprocessed

\* The polarisation is looked at last, in what was kept of each pass.
OfPolarisation(search, items) == {i \in items : search.pol = "ANY" \/ search.pol \in i.pols}

NoListing == [kind |-> "none", items |-> {}, status |-> [p \in Providers |-> "none"]]

SearchCatalogue(search, outcome) ==
  LET status == [p \in Providers |-> Status(p, search, outcome[p])]
      list   == FlattenSeq([n \in 1 .. Len(Chain) |->
                  IF status[Chain[n]] = "OK" THEN Hits(Chain[n], search) ELSE << >>])
      items  == OfPolarisation(search, Deduped(list))
  IN IF \E p \in Providers : HasAnswered(status[p])
       THEN [kind |-> "answer", items |-> items, status |-> status]
       ELSE [kind |-> "error", items |-> {}, status |-> status]

ProviderOutcomes == [Providers -> {"answers"} \cup FaultsMet]

-----------------------------------------------------------------------------
(* What is said of an answer.                                               *)

\* The panel tells a search that found nothing from one that reached nobody.
PanelSays(listing) ==
  CASE listing.kind = "none"  -> "waits"
    [] listing.kind = "error" -> "unreachable"
    [] listing.items = {}     -> "nothing held"
    [] OTHER                  -> "listed"

\* The picker of a case also tells what can be read from what cannot.
PickerSays(listing) ==
  IF listing.kind # "answer" \/ \E i \in listing.items : i.collection = Rtc THEN PanelSays(listing)
  ELSE IF listing.items = {} THEN "nothing held" ELSE "nothing to read"

-----------------------------------------------------------------------------
CatalogueInit ==
  /\ holdings \in Holdings /\ configured \in BOOLEAN
  /\ listings = [s \in Searches |-> NoListing]
  /\ casesOpened = << >> /\ ingestJobs = {} /\ pictures = [c \in 1 .. MaxOpened |-> {}]
  /\ runners = [r \in Runners |-> [at |-> "idle", by |-> "none", case |-> 0, item |-> {}]]
  /\ searched = 0

\* A listing is asked for, for the first time or again: the answer replaces the one before.
SearchListed(search) ==
  /\ searched < MaxSearched
  /\ \E o \in ProviderOutcomes : listings' = [listings EXCEPT ![search] = SearchCatalogue(search, o)]
  /\ searched' = searched + 1
  /\ UNCHANGED <<holdings, configured, casesOpened, ingestJobs, pictures, runners>>

\* The call that queues an ingest: a collection that cannot be read is refused, a job of the
\* same key that has not ended is the one, and one that has ended is run again.
AdmittedAny(item) == item.pass = item.pass
CollectionRead(item) == item.collection = Rtc

\* A product goes by its own name: the forms of one pass are products of their own.
ProductOf(item) == <<item.pass, item.collection>>
Queued(case, item) ==
  {j \in ingestJobs : j.case # case \/ j.item # ProductOf(item)}
    \cup {[case |-> case, item |-> ProductOf(item), state |-> "queued"]}

\* A card of the browser: a case is casesOpened, and then the ingest is posted, and may be lost.
ProcessScene(item) ==
  /\ item \in listings[BrowserSearch].items /\ Len(casesOpened) < MaxOpened
  /\ casesOpened' = Append(casesOpened, "browser")
  /\ \E lost \in BOOLEAN :
       ingestJobs' = IF CollectionRead(item) /\ ~lost THEN Queued(Len(casesOpened) + 1, item) ELSE ingestJobs
  /\ UNCHANGED <<holdings, configured, listings, pictures, runners, searched>>

\* A worker looks the product up where it can be read from, and keeps what it has read.
Ingest(job) ==
  /\ job \in ingestJobs /\ job.state = "queued"
  /\ \E up \in BOOLEAN :
       LET read == up /\ \E r \in Range(holdings["PLANETARY_COMPUTER"]) :
                             r.collection = Rtc /\ ProductOf(r) = job.item
       IN /\ ingestJobs' = (ingestJobs \ {job}) \cup {[job EXCEPT !.state = IF read THEN "done" ELSE "failed"]}
          /\ pictures' = IF read THEN [pictures EXCEPT ![job.case] = @ \cup {job.item}] ELSE pictures
  /\ UNCHANGED <<holdings, configured, listings, casesOpened, runners, searched>>

-----------------------------------------------------------------------------
(* The verified scenario, and the back-fill of the cases that have nothing.  *)

Goto(r, at, by, case, item) ==
  runners' = [runners EXCEPT ![r] = [at |-> at, by |-> by, case |-> case, item |-> item]]

\* The scenario's case is looked for by its reference; the back-fill takes any case.
Choose(r) ==
  /\ runners[r].at = "idle"
  /\ \/ \E c \in DOMAIN casesOpened : casesOpened[c] = "demo" /\ Goto(r, "look", "scenario", c, {})
     \/ /\ \A c \in DOMAIN casesOpened : casesOpened[c] # "demo"
        /\ Goto(r, "open", "scenario", 0, {})
     \/ \E c \in DOMAIN casesOpened : Goto(r, "look", "fill", c, {})
  /\ UNCHANGED <<holdings, configured, listings, casesOpened, ingestJobs, pictures, searched>>

OpenDemo(r) ==
  /\ runners[r].at = "open" /\ Len(casesOpened) < MaxOpened
  /\ casesOpened' = Append(casesOpened, "demo")
  /\ Goto(r, "look", "scenario", Len(casesOpened) + 1, {})
  /\ UNCHANGED <<holdings, configured, listings, ingestJobs, pictures, searched>>

\* A case that has a scene is left as it is.
LookForScene(r) ==
  /\ runners[r].at = "look"
  /\ Goto(r, IF pictures[runners[r].case] = {} THEN "search" ELSE "done", runners[r].by, runners[r].case, {})
  /\ UNCHANGED <<holdings, configured, listings, casesOpened, ingestJobs, pictures, searched>>

\* Of what can be read, the scenario takes the earliest, the back-fill what covers most.
ToRead(items) == {i \in items : CanBeRead(i)}
WantedOfAll(by, items) ==
  {i \in items : \A j \in items : IF by = "scenario" THEN i.at <= j.at ELSE i.overlap >= j.overlap}
Wanted(by, items) ==
  {i \in ToRead(items) : \A j \in ToRead(items) :
     IF by = "scenario" THEN i.at <= j.at ELSE i.overlap >= j.overlap}
SearchForRun(r) ==
  /\ runners[r].at = "search" /\ searched < MaxSearched
  /\ \E o \in ProviderOutcomes :
       LET wanted == Wanted(runners[r].by, SearchCatalogue(DemoSearch, o).items)
       IN \/ wanted = {} /\ Goto(r, "done", runners[r].by, runners[r].case, {})
          \/ \E i \in wanted : Goto(r, "queue", runners[r].by, runners[r].case, {i})
  /\ searched' = searched + 1
  /\ UNCHANGED <<holdings, configured, listings, casesOpened, ingestJobs, pictures>>

QueueForRun(r) ==
  /\ runners[r].at = "queue"
  /\ \E i \in runners[r].item : ingestJobs' = Queued(runners[r].case, i)
  /\ Goto(r, "done", runners[r].by, runners[r].case, runners[r].item)
  /\ UNCHANGED <<holdings, configured, listings, casesOpened, pictures, searched>>

CatalogueNext ==
  \/ \E s \in Searches : SearchListed(s)
  \/ \E i \in listings[BrowserSearch].items : ProcessScene(i)
  \/ \E j \in ingestJobs : Ingest(j)
  \/ \E r \in Runners : Choose(r) \/ OpenDemo(r) \/ LookForScene(r) \/ SearchForRun(r) \/ QueueForRun(r)

CatalogueSpec == CatalogueInit /\ [][CatalogueNext]_catalogueVars

-----------------------------------------------------------------------------
CatalogueTypeOK ==
  /\ listings \in [Searches -> [kind : {"none", "answer", "error"},
                                items : SUBSET UNION {Range(Hits(p, s)) : p \in Providers, s \in Searches},
                                status : [Providers -> Faults \cup {"none", "OK", "NO_RESULTS", "NOT_CONFIGURED"}]]]
  /\ casesOpened \in Seq({"browser", "demo"}) /\ Len(casesOpened) <= MaxOpened
  /\ \A j \in ingestJobs : j.case \in DOMAIN casesOpened /\ j.state \in {"queued", "done", "failed"}

\* What a provider that answered returned is hidden neither by the failure of another nor by
\* the emptiness of one: each of its passes is listed, once, in the form that can be read if
\* any provider returned that form; and a search fails only when none has answered.
ListingIsHonest ==
  \A s \in Searches :
    LET shown == listings[s]
        told  == {p \in Providers : shown.status[p] \in {"OK", "NO_RESULTS"}}
        all   == UNION {Range(Hits(p, s)) : p \in told}
    IN /\ shown.kind = "error" => told = {}
       /\ shown.kind = "answer" =>
            /\ told # {} /\ shown.items \subseteq all
            /\ \A i, j \in shown.items : i.pass = j.pass => i = j
            /\ \A r \in all :
                 LET same == {x \in all : x.pass = r.pass}
                 IN /\ (\A x \in same : s.pol = "ANY" \/ s.pol \in x.pols) => same \cap shown.items # {}
                    /\ CanBeRead(r) => \A i \in shown.items \cap same : CanBeRead(i)

\* Whatever is queued can be looked up where the worker reads: no run starts a job that can
\* only end as an outage of a service that was asked for another provider's name.
QueuedIsReadable ==
  \A j \in ingestJobs : \E r \in Range(holdings["PLANETARY_COMPUTER"]) :
    r.collection = Rtc /\ ProductOf(r) = j.item

\* Run as often and as concurrently as one likes, the scenario chooses one product for a
\* case, whichever of the providers answered each time; and so does the back-fill.
ChoiceIsRepeatable ==
  \A r, q \in Runners :
    LET a == runners[r]
        b == runners[q]
    IN (a.item # {} /\ b.item # {} /\ a.case = b.case /\ a.by = b.by) => a.item = b.item

\* No panel blames the coverage for what an outage did, as far as nobody was reached; and the
\* picker offers a choice exactly where there is something to choose.
SaysWhatHappened ==
  \A s \in Searches :
    LET told == {p \in Providers : listings[s].status[p] \in {"OK", "NO_RESULTS"}}
    IN /\ PanelSays(listings[s]) = "nothing held" =>
            \E p \in told : Hits(p, s) = << >> \/ s.pol # "ANY"
       /\ PickerSays(listings[s]) = "listed" <=> \E p \in told : \E i \in Range(Hits(p, s)) :
            CanBeRead(i) /\ (s.pol = "ANY" \/ s.pol \in i.pols)

CatalogueIsHonest == ListingIsHonest /\ QueuedIsReadable /\ ChoiceIsRepeatable /\ SaysWhatHappened

-----------------------------------------------------------------------------
(* What the code does not keep.                                             *)

\* That what can be read is listed where it is held: a search that names no platform is
\* not sent to the collection that holds it.
ReadableIsListed ==
  \A s \in Searches : \A r \in Range(holdings["PLANETARY_COMPUTER"]) :
    (/\ HasAnswered(listings[s].status["PLANETARY_COMPUTER"])
     /\ r.collection = Rtc /\ s.from <= r.at /\ r.at <= s.to /\ s.orbit = "ANY" /\ s.pol = "ANY")
      => \E i \in listings[s].items : CanBeRead(i)

\* That "they hold nothing" is said of all of them.
NothingMeansNothing ==
  \A s \in Searches : PanelSays(listings[s]) = "nothing held" =>
    \A p \in Providers : Hits(p, s) = << >>

\* That the direction asked for is the direction listed.
OrbitIsRespected ==
  \A s \in Searches : \A i \in listings[s].items : s.orbit \in {"ANY", i.orbit}

\* That there is one case of the scenario.
OneDemoCase == Cardinality({c \in DOMAIN casesOpened : casesOpened[c] = "demo"}) <= 1

=============================================================================
