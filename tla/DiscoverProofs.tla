----------------------------- MODULE DiscoverProofs -----------------------------
(***************************************************************************)
(* What holds of Discover for all regions, products, people, sweepers,     *)
(* callers and bounds: its types, and that the record of passes misses     *)
(* nothing between the marks the sweeps leave, that scenes are adopted     *)
(* with all their detections, and that listings are permitted.             *)
(***************************************************************************)
EXTENDS Discover, TLAPS, FiniteSetTheorems

-----------------------------------------------------------------------------
(* The inductive invariant *)

CaseDoc  == [kind : {"CASE", "SWEEP_CONTAINER"}, owner : People \cup {NoOne},
             members : SUBSET People, deleted : BOOLEAN]
SceneDoc == [product : Products, inv : Nat]
DetDoc   == [scene : Nat, inv : Nat, at : Regions]
Tick     == [pc : {"idle", "next", "claim", "search", "record", "mark"}, todo : SUBSET Regions,
             region : Regions \cup {NoOne}, manual : BOOLEAN, container : Nat \cup {NoOne},
             to : Nat, items : SUBSET Products]
Ingest   == [inv : Nat, product : Products, scene : Nat, made : Nat]
Adoption == [pc : {"idle", "scene", "dets"}, by : People \cup {NoOne}, scene : Nat,
             target : Nat \cup {NoOne}]
History  == [over : SUBSET (Regions \X Products),
             late : SUBSET Products, mixed : SUBSET Nat, since : [Regions -> Nat]]

Types ==
  /\ now \in Nat
  /\ DOMAIN listed \subseteq Products /\ IsFiniteSet(DOMAIN listed)
  /\ \A p \in DOMAIN listed : listed[p] \in Nat
  /\ regionDoc \in [Regions -> [container : Nat \cup {NoOne}, last : Nat, passes : SUBSET Products]]
  /\ invs \in Seq(CaseDoc) /\ scenes \in Seq(SceneDoc) /\ dets \in Seq(DetDoc)
  /\ tick \in [Sweepers -> Tick]
  /\ ingests \subseteq Ingest
  /\ adopt \in [Callers -> Adoption]
  /\ seen \in History

IsCase(i)      == i \in DOMAIN invs /\ invs[i].kind = "CASE"
IsContainer(i) == i \in DOMAIN invs /\ invs[i].kind = "SWEEP_CONTAINER"

\* A region has a container of its own.
RegionInv ==
  /\ \A r \in Swept : IsContainer(regionDoc[r].container)
  /\ \A r, q \in Swept : regionDoc[r].container = regionDoc[q].container => r = q
  /\ \A r \in Regions : regionDoc[r].last <= now

\* A tick works on the container of its region, or on one that nobody else has seen.
Fits(s, t) ==
  /\ t.pc \in {"claim", "search", "record", "mark"} => t.region \in Regions
  /\ t.pc = "claim" =>
       /\ IsContainer(t.container) /\ t.container \notin Containers
       /\ \A o \in Sweepers : o # s /\ tick[o].pc = "claim" => tick[o].container # t.container
  /\ t.pc \in {"search", "record", "mark"} =>
       t.region \in Swept /\ t.container = regionDoc[t.region].container
  /\ t.to <= now
  /\ t.items \subseteq DOMAIN listed /\ Cardinality(t.items) <= SearchLimit
  /\ t.pc = "mark" => t.items = {}
TickInv == \A s \in Sweepers : Fits(s, tick[s])

\* What documents name is there, and adoptions move scenes into cases.
IdsInv ==
  /\ \A r \in Regions : regionDoc[r].passes \subseteq DOMAIN listed
  /\ \A i \in DOMAIN scenes : scenes[i].inv \in DOMAIN invs
  /\ \A d \in DOMAIN dets : dets[d].scene \in DOMAIN scenes /\ dets[d].inv \in DOMAIN invs
  /\ \A j \in ingests : j.inv \in DOMAIN invs /\ j.scene \in DOMAIN scenes \cup {0}
  /\ \A c \in Callers : adopt[c].pc # "idle" =>
       /\ adopt[c].scene \in DOMAIN scenes /\ adopt[c].by \in People
       /\ IsCase(adopt[c].target) \/ (adopt[c].pc = "scene" /\ adopt[c].target = NoOne)

\* What was acquired before the mark, or before the end of the window of a tick that has
\* searched, is on record, or past retention, or had no room, or is about to be recorded.
Covers(r, before, items) ==
  \A p \in DOMAIN listed :
    p \notin seen.late /\ listed[p] >= seen.since[r] /\ listed[p] < before
      => \/ p \in regionDoc[r].passes \cup items
         \/ <<r, p>> \in seen.over
         \/ TooOld(p)
CoverInv ==
  /\ \A r \in Regions : Covers(r, regionDoc[r].last, {})
  /\ \A s \in Sweepers : tick[s].pc \in {"record", "mark"} =>
       Covers(tick[s].region, tick[s].to, tick[s].items)

\* An adoption that has moved its scene is the only one of it, unless that was noted.
Alone(c) ==
  adopt[c].pc = "dets" /\ adopt[c].scene \notin seen.mixed =>
    /\ scenes[adopt[c].scene].inv = adopt[c].target
    /\ \A k \in Callers : k # c /\ adopt[k].pc # "idle" => adopt[k].scene # adopt[c].scene
MoveInv == SiblingsMoveTogether /\ \A c \in Callers : Alone(c)

DiscoverInv == Types /\ RegionInv /\ TickInv /\ IdsInv /\ CoverInv /\ MoveInv

-----------------------------------------------------------------------------
(* Documents and their numbers *)

LEMMA ElementOf ==
  ASSUME NEW S, NEW docs \in Seq(S), NEW k \in DOMAIN docs
  PROVE  docs[k] \in S /\ k \in Nat /\ k >= 1 /\ k <= Len(docs)
  OBVIOUS

LEMMA Appended ==
  ASSUME NEW S, NEW docs \in Seq(S), NEW x \in S
  PROVE  /\ Append(docs, x) \in Seq(S)
         /\ DOMAIN Append(docs, x) = DOMAIN docs \cup {NewId(docs)}
         /\ NewId(docs) \in Nat /\ NewId(docs) # 0 /\ NewId(docs) \notin DOMAIN docs
         /\ Append(docs, x)[NewId(docs)] = x
         /\ \A k \in DOMAIN docs : Append(docs, x)[k] = docs[k]
  BY DEF NewId

LEMMA Updated ==
  ASSUME NEW S, NEW docs \in Seq(S), NEW k \in DOMAIN docs, NEW x \in S
  PROVE  /\ [docs EXCEPT ![k] = x] \in Seq(S)
         /\ DOMAIN [docs EXCEPT ![k] = x] = DOMAIN docs
         /\ [docs EXCEPT ![k] = x][k] = x
         /\ \A n \in DOMAIN docs : n # k => [docs EXCEPT ![k] = x][n] = docs[n]
  OBVIOUS

LEMMA IsASeq ==
  ASSUME NEW S, NEW n \in Nat, NEW f \in [1 .. n -> S]
  PROVE  f \in Seq(S)
  OBVIOUS

LEMMA CaseNumbers ==
  ASSUME Types
  PROVE  /\ \A i \in DOMAIN invs : i \in Nat /\ i # NoOne
         /\ \A i : IsCase(i) => i \in Nat /\ i # NoOne /\ i \in RealCases
         /\ \A i : IsContainer(i) => i \in Nat /\ i # NoOne /\ ~IsCase(i)
         /\ \A i \in RealCases : IsCase(i)
         /\ NoOne \notin Nat
<1>1. \A i \in DOMAIN invs : invs[i] \in CaseDoc /\ i \in Nat
  BY ElementOf DEF Types
<1>2. \A i \in DOMAIN invs : invs[i].kind \in {"CASE", "SWEEP_CONTAINER"}
  BY <1>1 DEF CaseDoc
<1>3. NoOne \notin Nat
  BY DiscoverAssumption
<1>4. QED
  BY <1>1, <1>2, <1>3 DEF IsCase, IsContainer, RealCases

\* Cases and containers stay what they are.
Kept == /\ invs' \in Seq(CaseDoc) /\ DOMAIN invs \subseteq DOMAIN invs'
        /\ \A i : (IsCase(i) => IsCase(i)') /\ (IsContainer(i) => IsContainer(i)')

LEMMA KeptUnchanged ==
  ASSUME Types, invs' = invs
  PROVE  Kept
  BY DEF Types, Kept, IsCase, IsContainer

LEMMA KeptAppend ==
  ASSUME Types, NEW x \in CaseDoc, invs' = Append(invs, x), NEW n, n = NewId(invs)
  PROVE  /\ Kept /\ n \notin DOMAIN invs /\ n \in Nat
         /\ x.kind = "CASE" => IsCase(n)'
         /\ x.kind = "SWEEP_CONTAINER" => IsContainer(n)'
<1>1. PICK docs \in Seq(CaseDoc) : docs = invs
  BY DEF Types
<1>2. PICK more : more = Append(docs, x)
  OBVIOUS
<1>3. /\ more \in Seq(CaseDoc) /\ DOMAIN more = DOMAIN docs \cup {n}
      /\ n \in Nat /\ n \notin DOMAIN docs
      /\ more[n] = x
      /\ \A k \in DOMAIN docs : more[k] = docs[k]
  BY <1>1, <1>2, Appended
<1>4. invs' = more
  BY <1>1, <1>2
<1>5. Kept
  BY <1>1, <1>3, <1>4 DEF Kept, IsCase, IsContainer
<1>6. n \in DOMAIN invs' /\ invs'[n] = x
  BY <1>3, <1>4
<1>7. QED
  BY <1>1, <1>3, <1>5, <1>6 DEF IsCase, IsContainer

LEMMA KeptUpdate ==
  ASSUME Types, NEW i \in DOMAIN invs, NEW x \in CaseDoc, x.kind = invs[i].kind,
         invs' = [invs EXCEPT ![i] = x]
  PROVE  Kept
<1>1. PICK docs \in Seq(CaseDoc) : docs = invs
  BY DEF Types
<1>2. PICK f : f = [docs EXCEPT ![i] = x]
  OBVIOUS
<1>3. /\ f \in Seq(CaseDoc) /\ DOMAIN f = DOMAIN docs /\ f[i] = x
      /\ \A n \in DOMAIN docs : n # i => f[n] = docs[n]
  BY <1>1, <1>2, Updated
<1>4. invs' = f
  BY <1>1, <1>2
<1>5. QED
  BY <1>1, <1>3, <1>4 DEF Kept, IsCase, IsContainer

LEMMA ContainerIds ==
  ASSUME Types, RegionInv
  PROVE  /\ \A i \in Containers : IsContainer(i) /\ i \in DOMAIN invs /\ i \in Nat /\ ~IsCase(i)
         /\ \A r \in Swept : r \in Regions /\ regionDoc[r].container \in Containers
  BY CaseNumbers DEF RegionInv, Containers, Swept, IsContainer

LEMMA ContainerIdsNext ==
  ASSUME Types', RegionInv'
  PROVE  \A i \in Containers' : ~IsCase(i)'
<1>1. \A i \in Containers' : IsContainer(i)'
  BY DEF RegionInv, Containers, IsContainer
<1>2. \A i : IsContainer(i)' => ~IsCase(i)'
  BY DEF IsContainer, IsCase
<1>3. QED
  BY <1>1, <1>2

-----------------------------------------------------------------------------
(* What a step that leaves the variables of an invariant alone preserves *)

LEMMA RegionsRest ==
  ASSUME DiscoverInv, Kept, now' \in Nat, now' >= now, regionDoc' = regionDoc
  PROVE  RegionInv' /\ Swept' = Swept /\ Containers' = Containers
<1>1. Swept' = Swept /\ Containers' = Containers
  BY DEF Swept, Containers
<1>2. \A r \in Swept : IsContainer(regionDoc[r].container)'
  BY DEF DiscoverInv, RegionInv, Kept
<1>3. \A r \in Regions : regionDoc[r].last <= now'
  BY DEF DiscoverInv, RegionInv, Types
<1>4. QED
  BY <1>1, <1>2, <1>3 DEF DiscoverInv, RegionInv

LEMMA TicksRest ==
  ASSUME DiscoverInv, Kept, now' \in Nat, now' >= now, DOMAIN listed \subseteq DOMAIN listed',
         UNCHANGED <<regionDoc, tick>>
  PROVE  TickInv'
<1>1. Swept' = Swept /\ Containers' = Containers
  BY RegionsRest
<1>2. ASSUME NEW s \in Sweepers PROVE Fits(s, tick[s])'
  <2>1. Fits(s, tick[s])
    BY DEF DiscoverInv, TickInv
  <2>2. tick[s].to <= now'
    <3>1. tick[s] \in Tick /\ now \in Nat
      BY DEF DiscoverInv, Types
    <3>2. tick[s].to \in Nat
      BY <3>1 DEF Tick
    <3>3. QED
      BY <2>1, <3>1, <3>2 DEF Fits
  <2>3. QED
    BY <1>1, <2>1, <2>2 DEF Fits, Kept
<1>3. QED
  BY <1>2 DEF TickInv

LEMMA IdsRest ==
  ASSUME DiscoverInv, Kept, DOMAIN listed \subseteq DOMAIN listed',
         UNCHANGED <<regionDoc, scenes, dets, ingests, adopt>>
  PROVE  IdsInv'
  BY DEF DiscoverInv, IdsInv, Kept

\* What is covered stays so while time passes and more is recorded, had no room, is late or
\* of before a gap.
Wider == /\ listed' = listed /\ now' \in Nat /\ now' >= now
         /\ \A r \in Regions : \A p \in regionDoc[r].passes :
              p \in regionDoc'[r].passes \/ listed[p] + Retention < now'
         /\ seen.over \subseteq seen'.over /\ seen.late \subseteq seen'.late
         /\ seen'.since \in [Regions -> Nat] /\ \A r \in Regions : seen'.since[r] >= seen.since[r]

LEMMA CoversWider ==
  ASSUME Types, Wider, NEW r \in Regions, NEW before, NEW items, Covers(r, before, items)
  PROVE  Covers(r, before, items)'
<1>1. ASSUME NEW p \in DOMAIN listed, p \notin seen'.late,
             listed[p] >= seen'.since[r], listed[p] < before
      PROVE  \/ p \in regionDoc'[r].passes \cup items
             \/ <<r, p>> \in seen'.over
             \/ listed[p] + Retention < now'
  <2>1. /\ listed[p] \in Nat /\ seen.since[r] \in Nat /\ seen'.since[r] \in Nat
        /\ now \in Nat /\ Retention \in Nat
    BY DiscoverAssumption DEF Types, History, Wider
  <2>2. listed[p] >= seen.since[r]
    BY <1>1, <2>1 DEF Wider
  <2>3. p \in regionDoc[r].passes \cup items \/ <<r, p>> \in seen.over \/ TooOld(p)
    BY <1>1, <2>2 DEF Covers, Wider
  <2>4. TooOld(p) => listed[p] + Retention < now'
    BY <2>1 DEF TooOld, Wider
  <2>5. QED
    BY <2>3, <2>4 DEF Wider
<1>2. QED
  BY <1>1 DEF Covers, Wider, TooOld

LEMMA CoverRest ==
  ASSUME DiscoverInv, Wider, UNCHANGED <<regionDoc, tick>>
  PROVE  CoverInv'
<1>1. ASSUME NEW r \in Regions PROVE Covers(r, regionDoc[r].last, {})'
  BY CoversWider DEF DiscoverInv, CoverInv
<1>2. ASSUME NEW s \in Sweepers, tick[s].pc \in {"record", "mark"}
      PROVE  Covers(tick[s].region, tick[s].to, tick[s].items)'
  <2>1. tick[s].region \in Regions
    BY <1>2 DEF DiscoverInv, TickInv, Fits
  <2>2. QED
    BY <1>2, <2>1, CoversWider DEF DiscoverInv, CoverInv
<1>3. QED
  BY <1>1, <1>2 DEF CoverInv

LEMMA MovesRest ==
  ASSUME DiscoverInv, seen.mixed \subseteq seen'.mixed, UNCHANGED <<scenes, dets, adopt>>
  PROVE  MoveInv'
  BY DEF DiscoverInv, MoveInv, Alone, SiblingsMoveTogether

LEMMA SeenStays ==
  ASSUME Types, UNCHANGED <<listed, seen>>, now' \in Nat, now' >= now,
         \A r \in Regions : regionDoc'[r].passes = regionDoc[r].passes
  PROVE  Wider /\ seen.mixed \subseteq seen'.mixed
<1>1. seen.since \in [Regions -> Nat]
  BY DEF Types, History
<1>2. QED
  BY <1>1 DEF Wider

LEMMA NothingSeen ==
  ASSUME DiscoverInv, UNCHANGED <<now, listed, seen, regionDoc>>
  PROVE  Wider /\ seen.mixed \subseteq seen'.mixed
<1>1. now' \in Nat /\ now' >= now
  BY DEF DiscoverInv, Types
<1>2. QED
  BY <1>1, SeenStays DEF DiscoverInv

-----------------------------------------------------------------------------
(* The sweep *)

LEMMA LimitsTyped == SearchLimit \in Nat /\ FirstLookback \in Nat /\ ManualLookback \in Nat
                     /\ DetsPerScene \in Nat /\ Retention \in Nat
  BY DiscoverAssumption

LEMMA NoItems == Cardinality({}) <= SearchLimit
<1>1. Cardinality({}) = 0
  BY FS_EmptySet
<1>2. QED
  BY <1>1, LimitsTyped

LEMMA NoTickFits ==
  ASSUME NEW rs \in SUBSET Regions, NEW m \in BOOLEAN, NEW u, NEW pc \in {"idle", "next"},
         u = [NoTick EXCEPT !.pc = pc, !.todo = rs, !.manual = m]
  PROVE  /\ u \in Tick /\ u.pc = pc /\ u.to = 0 /\ u.items = {}
  BY DEF NoTick, Tick

\* A tick that changes while regions rest.
LEMMA OneTick ==
  ASSUME DiscoverInv, Kept, NEW s \in Sweepers, NEW u \in Tick, tick' = [tick EXCEPT ![s] = u],
         UNCHANGED <<now, listed, regionDoc>>, Fits(s, u)'
  PROVE  TickInv' /\ tick' \in [Sweepers -> Tick]
<1>1. Swept' = Swept /\ Containers' = Containers
  BY DEF Swept, Containers
<1>2. tick \in [Sweepers -> Tick]
  BY DEF DiscoverInv, Types
<1>3. tick' \in [Sweepers -> Tick] /\ tick'[s] = u /\ \A o \in Sweepers : o # s => tick'[o] = tick[o]
  BY <1>2
<1>4. ASSUME NEW o \in Sweepers, o # s PROVE Fits(o, tick[o])'
  <2>1. PICK t : t = tick[o]
    OBVIOUS
  <2>2. Fits(o, t)
    BY <2>1 DEF DiscoverInv, TickInv
  <2>3. t.pc = "claim" => IsContainer(t.container)'
    BY <2>2 DEF Fits, Kept
  <2>4. ASSUME t.pc = "claim", NEW q \in Sweepers, q # o, tick'[q].pc = "claim"
        PROVE  tick'[q].container # t.container
    <3>1. CASE q = s
      BY <1>3, <1>4, <2>1, <2>4, <3>1 DEF Fits
    <3>2. CASE q # s
      BY <1>3, <2>2, <2>4, <3>2 DEF Fits
    <3>3. QED
      BY <3>1, <3>2
  <2>5. Fits(o, t)'
    BY <1>1, <2>2, <2>3, <2>4 DEF Fits
  <2>6. QED
    BY <1>3, <1>4, <2>1, <2>5 DEF Fits
<1>5. ASSUME NEW o \in Sweepers PROVE Fits(o, tick[o])'
  <2>1. CASE o = s
    BY <1>3, <2>1 DEF Fits
  <2>2. CASE o # s
    BY <1>4, <2>2
  <2>3. QED
    BY <2>1, <2>2
<1>6. QED
  BY <1>3, <1>5 DEF TickInv

LEMMA CoverTick ==
  ASSUME DiscoverInv, Wider, NEW s \in Sweepers, NEW u \in Tick, tick' = [tick EXCEPT ![s] = u],
         regionDoc' = regionDoc, u.pc \in {"record", "mark"} => Covers(u.region, u.to, u.items)'
  PROVE  CoverInv'
<1>1. tick'[s] = u /\ \A o \in Sweepers : o # s => tick'[o] = tick[o]
  BY DEF DiscoverInv, Types
<1>2. ASSUME NEW r \in Regions PROVE Covers(r, regionDoc[r].last, {})'
  BY CoversWider DEF DiscoverInv, CoverInv
<1>3. ASSUME NEW o \in Sweepers, tick'[o].pc \in {"record", "mark"}
      PROVE  Covers(tick[o].region, tick[o].to, tick[o].items)'
  <2>1. CASE o = s
    BY <1>1, <1>3, <2>1 DEF Covers
  <2>2. CASE o # s
    <3>1. PICK t : t = tick[o]
      OBVIOUS
    <3>2. t.pc \in {"record", "mark"} /\ t.region \in Regions /\ Covers(t.region, t.to, t.items)
      BY <1>1, <1>3, <2>2, <3>1 DEF DiscoverInv, TickInv, Fits, CoverInv
    <3>3. Covers(t.region, t.to, t.items)'
      BY <3>2, CoversWider DEF DiscoverInv
    <3>4. QED
      BY <1>1, <2>2, <3>1, <3>3 DEF Covers
  <2>3. QED
    BY <2>1, <2>2
<1>4. QED
  BY <1>2, <1>3 DEF CoverInv

LEMMA NextRegionTyped ==
  ASSUME NEW t \in Tick, NEW u, u = NextRegion(t)
  PROVE  /\ u \in Tick /\ u.pc \in {"idle", "next"}
         /\ u.to = t.to /\ u.items = t.items
  BY DEF NextRegion, Tick

\* A tick that turns to its next region, or ends.
LEMMA TurnsStep ==
  ASSUME DiscoverInv, NEW s \in Sweepers, tick' = [tick EXCEPT ![s] = NextRegion(tick[s])],
         UNCHANGED <<now, listed, regionDoc, invs, scenes, dets, ingests, adopt, seen>>
  PROVE  DiscoverInv'
<1>1. PICK t \in Tick : t = tick[s]
  BY DEF DiscoverInv, Types
<1>2. PICK u : u = NextRegion(t)
  OBVIOUS
<1>3. u \in Tick /\ u.pc \in {"idle", "next"} /\ u.to = t.to /\ u.items = t.items
  BY <1>2, NextRegionTyped
<1>4. tick' = [tick EXCEPT ![s] = u]
  BY <1>1, <1>2
<1>5. Kept /\ now' \in Nat /\ now' >= now
  BY KeptUnchanged DEF DiscoverInv, Types
<1>6. Fits(s, u)'
  <2>1. Fits(s, t)
    BY <1>1 DEF DiscoverInv, TickInv
  <2>2. QED
    BY <1>3, <2>1 DEF Fits
<1>7. TickInv' /\ tick' \in [Sweepers -> Tick]
  BY <1>3, <1>4, <1>5, <1>6, OneTick
<1>8. Wider
  BY NothingSeen
<1>9. CoverInv'
  BY <1>3, <1>4, <1>8, CoverTick
<1>10. RegionInv' /\ IdsInv' /\ MoveInv'
  BY <1>5, RegionsRest, IdsRest, MovesRest
<1>11. Types'
  BY <1>7 DEF DiscoverInv, Types
<1>12. QED
  BY <1>7, <1>9, <1>10, <1>11 DEF DiscoverInv

LEMMA StartStep ==
  ASSUME DiscoverInv, NEW s \in Sweepers, NEW rs \in SUBSET Regions, NEW manual \in BOOLEAN,
         StartTick(s, rs, manual)
  PROVE  DiscoverInv'
<1>1. PICK u : u = [NoTick EXCEPT !.pc = "next", !.todo = rs, !.manual = manual]
  OBVIOUS
<1>2. u \in Tick /\ u.pc = "next" /\ u.to = 0 /\ u.items = {}
  BY <1>1, NoTickFits
<1>3. tick' = [tick EXCEPT ![s] = u]
      /\ UNCHANGED <<now, listed, regionDoc, invs, scenes, dets, ingests, adopt, seen>>
  BY <1>1 DEF StartTick, caseVars
<1>4. Kept /\ now' \in Nat /\ now' >= now /\ now >= 0
  BY <1>3, KeptUnchanged DEF DiscoverInv, Types
<1>5. Fits(s, u)'
  BY <1>2, <1>3, <1>4, NoItems DEF Fits
<1>6. TickInv' /\ tick' \in [Sweepers -> Tick]
  BY <1>2, <1>3, <1>4, <1>5, OneTick
<1>7. Wider
  BY <1>3, NothingSeen
<1>8. CoverInv'
  BY <1>2, <1>3, <1>7, CoverTick
<1>9. RegionInv' /\ IdsInv' /\ MoveInv'
  BY <1>3, <1>4, RegionsRest, IdsRest, MovesRest
<1>10. Types'
  BY <1>3, <1>6 DEF DiscoverInv, Types
<1>11. QED
  BY <1>6, <1>8, <1>9, <1>10 DEF DiscoverInv

LEMMA FindStep ==
  ASSUME DiscoverInv, NEW s \in Sweepers, NEW r \in Regions, FindContainer(s, r)
  PROVE  DiscoverInv'
<1>1. PICK o \in Tick : o = tick[s]
  BY DEF DiscoverInv, Types
<1>2. PICK t : t = [o EXCEPT !.todo = @ \ {r}, !.region = r]
  OBVIOUS
<1>3. t \in Tick /\ t.region = r /\ t.to = o.to /\ t.items = o.items
  BY <1>2 DEF Tick
<1>4. Fits(s, o)
  BY <1>1 DEF DiscoverInv, TickInv
<1>5. UNCHANGED <<now, listed, regionDoc, scenes, dets, ingests, adopt, seen>>
  BY DEF FindContainer
<1>6. PICK n : n = NewId(invs)
  OBVIOUS
<1>7. PICK x : x = [kind |-> "SWEEP_CONTAINER", owner |-> NoOne, members |-> {}, deleted |-> FALSE]
  OBVIOUS
<1>8. x \in CaseDoc /\ x.kind = "SWEEP_CONTAINER"
  BY <1>7 DEF CaseDoc
<1>9. PICK u : u = IF r \in Swept THEN [t EXCEPT !.pc = "search", !.container = regionDoc[r].container]
                                  ELSE [t EXCEPT !.pc = "claim", !.container = n]
  OBVIOUS
<1>10. tick' = [tick EXCEPT ![s] = u]
       /\ invs' = IF r \in Swept THEN invs ELSE Append(invs, x)
  <2>1. t = [tick[s] EXCEPT !.todo = @ \ {r}, !.region = r]
    BY <1>1, <1>2
  <2>2. CASE r \in Swept
    BY <1>9, <2>1, <2>2 DEF FindContainer
  <2>3. CASE r \notin Swept
    BY <1>6, <1>7, <1>9, <2>1, <2>3 DEF FindContainer
  <2>4. QED
    BY <2>2, <2>3
<1>11. Kept /\ (r \notin Swept => n \in Nat /\ n \notin DOMAIN invs /\ IsContainer(n)')
  <2>1. CASE r \in Swept
    BY <1>10, <2>1, KeptUnchanged DEF DiscoverInv
  <2>2. CASE r \notin Swept
    BY <1>6, <1>8, <1>10, <2>2, KeptAppend DEF DiscoverInv
  <2>3. QED
    BY <2>1, <2>2
<1>12. now' \in Nat /\ now' >= now
  BY <1>5 DEF DiscoverInv, Types
<1>13. Swept' = Swept /\ Containers' = Containers
  BY <1>5, <1>11, <1>12, RegionsRest
<1>14. regionDoc[r].container \in Nat \cup {NoOne}
  BY DEF DiscoverInv, Types
<1>15. /\ u \in Tick /\ u.region = r /\ u.to = o.to /\ u.items = o.items
       /\ r \in Swept => u.pc = "search" /\ u.container = regionDoc[r].container
       /\ r \notin Swept => u.pc = "claim" /\ u.container = n
  BY <1>3, <1>9, <1>11, <1>14 DEF Tick
<1>16. Fits(s, u)'
  <2>1. u.to <= now' /\ u.items \subseteq DOMAIN listed' /\ Cardinality(u.items) <= SearchLimit
    BY <1>4, <1>5, <1>15 DEF Fits
  <2>2. CASE r \in Swept
    BY <1>5, <1>13, <1>15, <2>1, <2>2 DEF Fits
  <2>3. CASE r \notin Swept
    <3>1. n \notin Containers
      BY <1>11, <2>3, ContainerIds DEF DiscoverInv
    <3>2. ASSUME NEW q \in Sweepers, q # s, tick'[q].pc = "claim" PROVE tick'[q].container # n
      <4>1. tick'[q] = tick[q]
        BY <1>10, <3>2 DEF DiscoverInv, Types
      <4>2. IsContainer(tick[q].container)
        BY <3>2, <4>1 DEF DiscoverInv, TickInv, Fits
      <4>3. QED
        BY <1>11, <2>3, <4>1, <4>2 DEF IsContainer
    <3>3. IsContainer(n)'
      BY <1>11, <2>3
    <3>4. QED
      BY <1>13, <1>15, <2>1, <2>3, <3>1, <3>2, <3>3 DEF Fits, IsContainer
  <2>4. QED
    BY <2>2, <2>3
<1>17. TickInv' /\ tick' \in [Sweepers -> Tick]
  BY <1>5, <1>10, <1>11, <1>15, <1>16, OneTick
<1>18. Wider
  BY <1>5, NothingSeen
<1>19. CoverInv'
  <2>1. u.pc \notin {"record", "mark"}
    BY <1>15
  <2>2. QED
    BY <1>5, <1>10, <1>15, <1>18, <2>1, CoverTick
<1>20. RegionInv' /\ IdsInv' /\ MoveInv'
  BY <1>5, <1>11, <1>12, RegionsRest, IdsRest, MovesRest
<1>21. Types'
  BY <1>5, <1>11, <1>17 DEF DiscoverInv, Types, Kept
<1>22. QED
  BY <1>17, <1>19, <1>20, <1>21 DEF DiscoverInv

\* The unique index gives a region the container of the first tick that claims it: another
\* one is not used again.
LEMMA ClaimStep ==
  ASSUME DiscoverInv, NEW s \in Sweepers, ClaimRegion(s)
  PROVE  DiscoverInv'
<1>1. PICK t \in Tick : t = tick[s]
  BY DEF DiscoverInv, Types
<1>2. Fits(s, t) /\ t.pc = "claim"
  BY <1>1 DEF DiscoverInv, TickInv, ClaimRegion
<1>3. PICK r : r = t.region
  OBVIOUS
<1>4. PICK n : n = t.container
  OBVIOUS
<1>5. r \in Regions /\ IsContainer(n) /\ n \notin Containers
  BY <1>2, <1>3, <1>4 DEF Fits
<1>6. UNCHANGED <<now, listed, invs, scenes, dets, ingests, adopt, seen>>
  BY DEF ClaimRegion, caseVars
<1>7. CASE r \in Swept
  BY <1>1, <1>3, <1>6, <1>7, TurnsStep DEF ClaimRegion
<1>8. CASE r \notin Swept
  <2>1. PICK u : u = [t EXCEPT !.pc = "search"]
    OBVIOUS
  <2>2. u \in Tick /\ u.pc = "search" /\ u.region = r /\ u.container = n /\ u.to = t.to /\ u.items = t.items
    BY <1>3, <1>4, <2>1 DEF Tick
  <2>3. tick' = [tick EXCEPT ![s] = u]
    BY <1>1, <1>3, <1>8, <2>1 DEF ClaimRegion
  <2>4. PICK d : d = [regionDoc[r] EXCEPT !.container = n]
    OBVIOUS
  <2>5. regionDoc' = [regionDoc EXCEPT ![r] = d]
    BY <1>1, <1>3, <1>4, <1>8, <2>4 DEF ClaimRegion
  <2>6. n \in Nat /\ n # NoOne
    BY <1>5, CaseNumbers DEF DiscoverInv
  <2>7. regionDoc[r] \in [container : Nat \cup {NoOne}, last : Nat, passes : SUBSET Products]
    BY <1>5 DEF DiscoverInv, Types
  <2>8. d \in [container : Nat \cup {NoOne}, last : Nat, passes : SUBSET Products] /\ d.container = n /\ d.last = regionDoc[r].last
        /\ d.passes = regionDoc[r].passes
    BY <2>4, <2>6, <2>7
  <2>9. /\ regionDoc' \in [Regions -> [container : Nat \cup {NoOne}, last : Nat, passes : SUBSET Products]]
        /\ regionDoc'[r] = d /\ \A q \in Regions : q # r => regionDoc'[q] = regionDoc[q]
    BY <1>5, <2>5, <2>8 DEF DiscoverInv, Types
  <2>10. Swept' = Swept \cup {r}
    BY <1>5, <2>6, <2>8, <2>9 DEF Swept
  <2>11. Containers' = Containers \cup {n}
    <3>1. \A q \in Swept : regionDoc'[q] = regionDoc[q]
      BY <1>8, <2>9 DEF Swept
    <3>2. regionDoc'[r].container = n
      BY <2>8, <2>9
    <3>3. QED
      BY <2>10, <3>1, <3>2 DEF Containers
  <2>12. \A q \in Swept : q # r /\ regionDoc'[q] = regionDoc[q] /\ regionDoc[q].container \in Containers
    BY <1>8, <2>9 DEF Swept, Containers
  <2>13. tick' \in [Sweepers -> Tick] /\ tick'[s] = u /\ \A o \in Sweepers : o # s => tick'[o] = tick[o]
    BY <2>2, <2>3 DEF DiscoverInv, Types
  <2>14. Types'
    BY <1>6, <2>9, <2>13 DEF DiscoverInv, Types
  <2>15. RegionInv'
    <3>1. \A q \in Swept' : IsContainer(regionDoc'[q].container)
      BY <1>5, <2>8, <2>9, <2>10, <2>12 DEF DiscoverInv, RegionInv
    <3>2. \A q, p \in Swept' : regionDoc'[q].container = regionDoc'[p].container => q = p
      BY <1>5, <2>8, <2>9, <2>10, <2>12 DEF DiscoverInv, RegionInv
    <3>3. \A q \in Regions : regionDoc'[q].last <= now
      BY <2>8, <2>9 DEF DiscoverInv, RegionInv
    <3>4. QED
      BY <1>6, <3>1, <3>2, <3>3 DEF RegionInv, IsContainer
  <2>16. TickInv'
    <3>1. ASSUME NEW o \in Sweepers, o # s PROVE Fits(o, tick[o])'
      <4>1. PICK v : v = tick[o]
        OBVIOUS
      <4>2. Fits(o, v) /\ tick'[o] = v
        BY <2>13, <3>1, <4>1 DEF DiscoverInv, TickInv
      <4>3. v.pc = "claim" => v.container # n
        BY <1>1, <1>2, <1>4, <3>1, <4>1 DEF Fits
      <4>4. v.pc \in {"search", "record", "mark"} => v.region \in Swept' /\ v.container = regionDoc'[v.region].container
        BY <2>10, <2>12, <4>2 DEF Fits
      <4>5. \A q \in Sweepers : q # o /\ v.pc = "claim" /\ tick'[q].pc = "claim" => tick'[q].container # v.container
        BY <2>2, <2>13, <4>2 DEF Fits
      <4>6. QED
        BY <1>6, <2>11, <4>2, <4>3, <4>4, <4>5 DEF Fits, IsContainer
    <3>2. Fits(s, u)'
      BY <1>2, <1>5, <1>6, <2>2, <2>8, <2>9, <2>10 DEF Fits
    <3>3. Fits(s, tick[s])'
      BY <2>13, <3>2 DEF Fits
    <3>4. QED
      BY <3>1, <3>3 DEF TickInv
  <2>17. IdsInv'
    <3>1. \A q \in Regions : regionDoc'[q].passes = regionDoc[q].passes
      BY <2>8, <2>9
    <3>2. QED
      BY <1>6, <3>1 DEF DiscoverInv, IdsInv, IsCase
  <2>19. CoverInv'
    <3>1. Wider
      <4>1. now' \in Nat /\ now' >= now
        BY <1>6 DEF DiscoverInv, Types
      <4>2. \A q \in Regions : regionDoc'[q].passes = regionDoc[q].passes
        BY <2>8, <2>9
      <4>3. QED
        BY <1>6, <4>1, <4>2, SeenStays DEF DiscoverInv
    <3>2. ASSUME NEW q \in Regions PROVE Covers(q, regionDoc[q].last, {})'
      <4>1. PICK l : l = regionDoc[q].last
        OBVIOUS
      <4>2. regionDoc'[q].last = l
        BY <2>8, <2>9, <4>1
      <4>3. Covers(q, l, {})
        BY <4>1 DEF DiscoverInv, CoverInv
      <4>4. Covers(q, l, {})'
        BY <3>1, <4>3, CoversWider DEF DiscoverInv
      <4>5. QED
        BY <4>2, <4>4 DEF Covers
    <3>3. ASSUME NEW o \in Sweepers, tick'[o].pc \in {"record", "mark"}
          PROVE  Covers(tick[o].region, tick[o].to, tick[o].items)'
      <4>1. PICK v : v = tick[o]
        OBVIOUS
      <4>2. o # s /\ tick'[o] = v /\ v.pc \in {"record", "mark"}
        BY <2>2, <2>13, <3>3, <4>1
      <4>3. Covers(v.region, v.to, v.items) /\ v.region \in Regions
        BY <4>1, <4>2 DEF DiscoverInv, CoverInv, TickInv, Fits
      <4>4. Covers(v.region, v.to, v.items)'
        BY <3>1, <4>3, CoversWider DEF DiscoverInv
      <4>5. QED
        BY <4>2, <4>4 DEF Covers
    <3>4. QED
      BY <3>2, <3>3 DEF CoverInv
  <2>20. MoveInv'
    BY <1>6, MovesRest
  <2>21. QED
    BY <2>14, <2>15, <2>16, <2>17, <2>19, <2>20 DEF DiscoverInv
<1>9. QED
  BY <1>7, <1>8

\* A search returns passes that are listed, and no more than there is room for.
LEMMA ReturnedTyped ==
  ASSUME Types, NEW from \in Nat, NEW q \in Returned(Window(from))
  PROVE  /\ q \subseteq Window(from)
         /\ q \subseteq DOMAIN listed /\ Cardinality(q) <= SearchLimit
<1>1. PICK ps : ps = Window(from)
  OBVIOUS
<1>2. ps \subseteq DOMAIN listed
  BY <1>1 DEF Window
<1>3. IsFiniteSet(ps)
  BY <1>2, FS_Subset DEF Types
<1>4. Cardinality(ps) \in Nat
  BY <1>3, FS_CardinalityType
<1>5. q \subseteq ps /\ Cardinality(q) = IF Cardinality(ps) < SearchLimit THEN Cardinality(ps) ELSE SearchLimit
  BY <1>1 DEF Returned
<1>6. Cardinality(q) <= SearchLimit
  BY <1>4, <1>5, LimitsTyped
<1>7. QED
  BY <1>1, <1>2, <1>5, <1>6

\* A window begins at an instant, and not after now.
LEMMA FromTyped ==
  ASSUME DiscoverInv, NEW t \in Tick, t.region \in Regions
  PROVE  From(t) \in Nat /\ From(t) <= now
<1>1. regionDoc[t.region].last \in Nat /\ regionDoc[t.region].last <= now /\ now \in Nat
  BY DEF DiscoverInv, Types, RegionInv
<1>2. \A n \in Nat : Back(n) \in Nat /\ Back(n) <= now
  BY <1>1 DEF Back
<1>3. QED
  BY <1>1, <1>2, LimitsTyped DEF From

\* What is in the window of a tick is returned, unless there is no room for it, and what is
\* of before the window is covered by the mark, unless there is a gap between the two.
LEMMA WindowCovered ==
  ASSUME DiscoverInv, NEW t \in Tick, t.region \in Swept, NEW q,
         NEW p \in DOMAIN listed, p \notin seen.late, listed[p] < now,
         listed[p] >= seen.since[t.region], Leaps(t) => listed[p] >= From(t)
  PROVE  \/ p \in regionDoc[t.region].passes \cup q
         \/ <<t.region, p>> \in seen.over
         \/ p \in Window(From(t)) \ q
         \/ TooOld(p)
<1>1. PICK r \in Regions : r = t.region
  BY DEF Swept
<1>2. PICK from \in Nat : from = From(t)
  BY FromTyped, <1>1
<1>3. listed[p] \in Nat /\ seen.since[r] \in Nat /\ regionDoc[r].last \in Nat /\ now \in Nat
  BY <1>1 DEF DiscoverInv, Types, History
<1>4. CASE listed[p] >= from
  BY <1>2, <1>3, <1>4 DEF Window
<1>5. CASE ~(listed[p] >= from)
  <2>1. ~Leaps(t)
    BY <1>2, <1>5
  <2>2. from <= regionDoc[r].last \/ from <= seen.since[r]
    BY <1>1, <1>2, <1>3, <2>1 DEF Leaps
  <2>3. listed[p] < regionDoc[r].last
    BY <1>1, <1>3, <1>5, <2>2
  <2>4. Covers(r, regionDoc[r].last, {})
    BY DEF DiscoverInv, CoverInv
  <2>5. QED
    BY <1>1, <2>3, <2>4 DEF Covers
<1>6. QED
  BY <1>4, <1>5

LEMMA SearchStep ==
  ASSUME DiscoverInv, NEW s \in Sweepers, Search(s)
  PROVE  DiscoverInv'
<1>1. PICK t \in Tick : t = tick[s]
  BY DEF DiscoverInv, Types
<1>2. Fits(s, t) /\ t.pc = "search"
  BY <1>1 DEF DiscoverInv, TickInv, Search
<1>3. PICK r \in Regions : r = t.region
  BY <1>2 DEF Fits
<1>4. UNCHANGED <<now, listed, regionDoc, invs, scenes, dets, ingests, adopt>>
  BY DEF Search, caseVars
<1>5. CASE tick' = [tick EXCEPT ![s] = NextRegion(t)] /\ UNCHANGED seen
  BY <1>1, <1>4, <1>5, TurnsStep
<1>6. ASSUME NEW q \in Returned(Window(From(t))),
             tick' = [tick EXCEPT ![s] = [t EXCEPT !.pc = "record", !.to = now, !.items = q]],
             seen' = [seen EXCEPT !.over = @ \cup {<<t.region, p>> : p \in Window(From(t)) \ q},
                                  !.since = IF Leaps(t) THEN [@ EXCEPT ![t.region] = From(t)] ELSE @]
      PROVE  DiscoverInv'
  <2>1. PICK from \in Nat : from = From(t) /\ from <= now
    BY <1>3, FromTyped
  <2>2. PICK ps : ps = Window(from)
    OBVIOUS
  <2>3. q \subseteq ps /\ q \subseteq DOMAIN listed /\ q \subseteq Products
        /\ Cardinality(q) <= SearchLimit
    BY <1>6, <2>1, <2>2, ReturnedTyped DEF DiscoverInv, Types
  <2>4. ps \subseteq Products
    BY <2>2 DEF Window, DiscoverInv, Types
  <2>5. PICK u : u = [t EXCEPT !.pc = "record", !.to = now, !.items = q]
    OBVIOUS
  <2>6. u \in Tick /\ u.pc = "record" /\ u.region = r /\ u.container = t.container
        /\ u.to = now /\ u.items = q
    BY <1>3, <2>3, <2>5 DEF Tick, DiscoverInv, Types
  <2>7. tick' = [tick EXCEPT ![s] = u]
    BY <1>6, <2>5
  <2>8. PICK h \in History : h = seen
    BY DEF DiscoverInv, Types
  <2>9. PICK since : since = IF Leaps(t) THEN [h.since EXCEPT ![r] = from] ELSE h.since
    OBVIOUS
  <2>10. PICK over : over = h.over \cup {<<r, p>> : p \in ps \ q}
    OBVIOUS
  <2>11. seen' = [h EXCEPT !.over = over, !.since = since]
    BY <1>3, <1>6, <2>1, <2>2, <2>8, <2>9, <2>10
  <2>12. over \subseteq Regions \X Products
    BY <2>4, <2>8, <2>10 DEF History
  <2>13. since \in [Regions -> Nat] /\ since[r] = IF Leaps(t) THEN from ELSE h.since[r]
    BY <2>1, <2>8, <2>9 DEF History
  <2>14. \A o \in Regions : since[o] >= h.since[o]
    <3>1. h.since \in [Regions -> Nat]
      BY <2>8 DEF History
    <3>2. Leaps(t) => from > h.since[r]
      BY <1>3, <2>1, <2>8 DEF Leaps
    <3>3. QED
      BY <2>1, <2>9, <3>1, <3>2
  <2>15. seen' \in History /\ seen'.over = over /\ seen'.late = h.late
         /\ seen'.mixed = h.mixed /\ seen'.since = since
    BY <2>8, <2>11, <2>12, <2>13 DEF History
  <2>16. Wider
    BY <1>4, <2>8, <2>10, <2>13, <2>14, <2>15 DEF Wider, DiscoverInv, Types
  <2>17. Covers(r, now, q)'
    <3>1. ASSUME NEW p \in DOMAIN listed, p \notin h.late, listed[p] >= since[r], listed[p] < now
          PROVE  p \in regionDoc[r].passes \cup q \/ <<r, p>> \in over \/ TooOld(p)
      <4>1. listed[p] \in Nat /\ h.since[r] \in Nat
        BY <2>8 DEF DiscoverInv, Types, History
      <4>2. listed[p] >= h.since[r] /\ (Leaps(t) => listed[p] >= from)
        BY <2>13, <2>14, <3>1, <4>1
      <4>3. \/ p \in regionDoc[r].passes \cup q
            \/ <<r, p>> \in h.over
            \/ p \in ps \ q
            \/ TooOld(p)
        BY <1>2, <1>3, <2>1, <2>2, <2>8, <3>1, <4>2, WindowCovered DEF Fits
      <4>4. QED
        BY <2>10, <4>3
    <3>2. QED
      BY <1>4, <2>15, <3>1 DEF Covers, TooOld
  <2>18. Kept /\ now' \in Nat /\ now' >= now
    BY <1>4, KeptUnchanged DEF DiscoverInv, Types
  <2>19. Fits(s, u)'
    <3>1. Swept' = Swept /\ Containers' = Containers
      BY <1>4 DEF Swept, Containers
    <3>2. QED
      BY <1>2, <1>3, <1>4, <2>3, <2>6, <2>18, <3>1 DEF Fits
  <2>20. TickInv' /\ tick' \in [Sweepers -> Tick]
    BY <1>4, <2>6, <2>7, <2>18, <2>19, OneTick
  <2>21. CoverInv'
    <3>1. Covers(u.region, u.to, u.items)'
      BY <1>4, <2>6, <2>17 DEF Covers
    <3>2. QED
      BY <1>4, <2>6, <2>7, <2>16, <3>1, CoverTick
  <2>22. RegionInv' /\ IdsInv' /\ MoveInv'
    BY <1>4, <2>8, <2>15, <2>16, <2>18, RegionsRest, IdsRest, MovesRest
  <2>23. Types'
    BY <1>4, <2>15, <2>20 DEF DiscoverInv, Types
  <2>24. QED
    BY <2>20, <2>21, <2>22, <2>23 DEF DiscoverInv
<1>7. CASE tick' # [tick EXCEPT ![s] = NextRegion(t)] \/ seen' # seen
  <2>1. NextRegion(t) = NextRegion(tick[s]) /\ Window(From(t)) = Window(From(tick[s]))
        /\ From(t) = From(tick[s]) /\ Leaps(t) = Leaps(tick[s]) /\ t.region = tick[s].region
    BY <1>1
  <2>2. PICK q \in Returned(Window(From(tick[s]))) :
          /\ tick' = [tick EXCEPT ![s] = [tick[s] EXCEPT !.pc = "record", !.to = now, !.items = q]]
          /\ seen' = [seen EXCEPT !.over = @ \cup {<<tick[s].region, p>> :
                                                  p \in Window(From(tick[s])) \ q},
                                  !.since = IF Leaps(tick[s])
                                              THEN [@ EXCEPT ![tick[s].region] = From(tick[s])] ELSE @]
    BY <1>7, <2>1 DEF Search
  <2>3. {<<tick[s].region, p>> : p \in Window(From(tick[s])) \ q}
          = {<<t.region, p>> : p \in Window(From(t)) \ q}
    BY <2>1
  <2>4. QED
    BY <1>1, <1>6, <2>1, <2>2, <2>3
<1>8. QED
  BY <1>5, <1>7

\* What the search returned is on record, but for what is past retention; or some of it.
LEMMA RecordStep ==
  ASSUME DiscoverInv, NEW s \in Sweepers, RecordOverpasses(s)
  PROVE  DiscoverInv'
<1>1. PICK t \in Tick : t = tick[s]
  BY DEF DiscoverInv, Types
<1>2. Fits(s, t) /\ t.pc = "record"
  BY <1>1 DEF DiscoverInv, TickInv, RecordOverpasses
<1>3. PICK r \in Regions : r = t.region
  BY <1>2 DEF Fits
<1>4. UNCHANGED <<now, listed, invs, scenes, dets, ingests, adopt, seen>>
  BY DEF RecordOverpasses, caseVars
<1>5. PICK held : held = regionDoc[r].passes
  OBVIOUS
<1>6. t.items \subseteq DOMAIN listed /\ held \subseteq DOMAIN listed /\ DOMAIN listed \subseteq Products
  BY <1>2, <1>5 DEF Fits, DiscoverInv, IdsInv, Types
<1> DEFINE Recorded(passes, u) ==
        /\ regionDoc' = [regionDoc EXCEPT ![r].passes = passes]
        /\ tick' = [tick EXCEPT ![s] = u]
        /\ passes \subseteq held \cup t.items
        /\ \A p \in held : p \in passes \/ TooOld(p)
        /\ \/ u = NextRegion(t)
           \/ /\ u = [t EXCEPT !.pc = "mark", !.items = {}]
              /\ \A p \in t.items : p \in passes \/ TooOld(p)
<1>7. PICK passes, u : Recorded(passes, u)
  <2>1. ASSUME regionDoc' = [regionDoc EXCEPT ![tick[s].region].passes =
                               {p \in @ \cup tick[s].items : ~TooOld(p)}],
               tick' = [tick EXCEPT ![s] = [tick[s] EXCEPT !.pc = "mark", !.items = {}]]
        PROVE  \E passes, u : Recorded(passes, u)
    <3>1. PICK passes : passes = {p \in held \cup t.items : ~TooOld(p)}
      OBVIOUS
    <3>2. regionDoc' = [regionDoc EXCEPT ![r].passes = passes]
      BY <1>1, <1>3, <1>5, <2>1, <3>1 DEF DiscoverInv, Types
    <3>3. passes \subseteq held \cup t.items /\ \A p \in held \cup t.items : p \in passes \/ TooOld(p)
      BY <3>1
    <3>4. PICK u : u = [t EXCEPT !.pc = "mark", !.items = {}]
      OBVIOUS
    <3>5. Recorded(passes, u)
      BY <1>1, <2>1, <3>2, <3>3, <3>4
    <3>6. QED
      BY <3>5
  <2>2. ASSUME NEW some \in SUBSET tick[s].items,
               regionDoc' = [regionDoc EXCEPT ![tick[s].region].passes = @ \cup some],
               tick' = [tick EXCEPT ![s] = NextRegion(tick[s])]
        PROVE  \E passes, u : Recorded(passes, u)
    <3>1. PICK passes : passes = held \cup some
      OBVIOUS
    <3>2. regionDoc' = [regionDoc EXCEPT ![r].passes = passes]
      BY <1>1, <1>3, <1>5, <2>2, <3>1 DEF DiscoverInv, Types
    <3>3. PICK u : u = NextRegion(t)
      OBVIOUS
    <3>4. Recorded(passes, u)
      BY <1>1, <2>2, <3>1, <3>2, <3>3
    <3>5. QED
      BY <3>4
  <2>3. QED
    <3> HIDE DEF Recorded
    <3>1. QED
      BY <2>1, <2>2 DEF RecordOverpasses
<1>8. passes \subseteq DOMAIN listed
  BY <1>6, <1>7
<1>9. /\ u \in Tick /\ u.to = t.to /\ u.items \in {t.items, {}}
      /\ u.pc \in {"idle", "next"} \/ (u.pc = "mark" /\ u.region = r /\ u.container = t.container /\ u.items = {})
  <2>1. CASE u = NextRegion(t)
    BY <2>1, NextRegionTyped
  <2>2. CASE u = [t EXCEPT !.pc = "mark", !.items = {}]
    BY <1>3, <2>2 DEF Tick
  <2>3. QED
    BY <1>7, <2>1, <2>2
<1>10. PICK d : d = [regionDoc[r] EXCEPT !.passes = passes]
  OBVIOUS
<1>11. d \in [container : Nat \cup {NoOne}, last : Nat, passes : SUBSET Products]
       /\ d.container = regionDoc[r].container /\ d.last = regionDoc[r].last /\ d.passes = passes
  <2>1. regionDoc[r] \in [container : Nat \cup {NoOne}, last : Nat, passes : SUBSET Products]
    BY DEF DiscoverInv, Types
  <2>2. QED
    BY <1>6, <1>8, <1>10, <2>1
<1>12. /\ regionDoc' \in [Regions -> [container : Nat \cup {NoOne}, last : Nat, passes : SUBSET Products]]
       /\ regionDoc'[r] = d /\ \A q \in Regions : q # r => regionDoc'[q] = regionDoc[q]
  BY <1>7, <1>10, <1>11 DEF DiscoverInv, Types
<1>13. \A q \in Regions : regionDoc'[q].container = regionDoc[q].container
                          /\ regionDoc'[q].last = regionDoc[q].last
  BY <1>11, <1>12
<1>14. Swept' = Swept /\ Swept \subseteq Regions
  BY <1>13 DEF Swept
<1>15. Containers' = Containers
  BY <1>13, <1>14 DEF Containers, Swept
<1>16. tick' \in [Sweepers -> Tick] /\ tick'[s] = u /\ \A o \in Sweepers : o # s => tick'[o] = tick[o]
  BY <1>7, <1>9 DEF DiscoverInv, Types
<1>17. Types'
  BY <1>4, <1>12, <1>16 DEF DiscoverInv, Types
<1>18. RegionInv'
  BY <1>4, <1>13, <1>14 DEF DiscoverInv, RegionInv, IsContainer
<1>19. TickInv'
  <2>1. ASSUME NEW o \in Sweepers, NEW v, v = tick'[o], Fits(o, v) PROVE Fits(o, v)'
    <3>1. \A q \in Sweepers : tick'[q].pc = "claim" => tick'[q] = tick[q]
      BY <1>9, <1>16
    <3>2. QED
      BY <1>4, <1>13, <1>14, <1>15, <2>1, <3>1 DEF Fits, IsContainer
  <2>2. Fits(s, u)
    BY <1>2, <1>3, <1>9, NoItems DEF Fits
  <2>3. ASSUME NEW o \in Sweepers PROVE Fits(o, tick[o])'
    <3>1. PICK v : v = tick'[o]
      OBVIOUS
    <3>2. Fits(o, v)
      BY <1>16, <2>2, <3>1 DEF DiscoverInv, TickInv
    <3>3. Fits(o, v)'
      BY <2>1, <3>1, <3>2
    <3>4. QED
      BY <3>1, <3>3 DEF Fits
  <2>4. QED
    BY <2>3 DEF TickInv
<1>20. IdsInv'
  <2>1. \A q \in Regions : regionDoc'[q].passes \subseteq DOMAIN listed
    BY <1>8, <1>11, <1>12 DEF DiscoverInv, IdsInv
  <2>2. QED
    BY <1>4, <2>1 DEF DiscoverInv, IdsInv, IsCase
<1>21. Wider
  <2>1. \A q \in Regions : \A p \in regionDoc[q].passes :
          p \in regionDoc'[q].passes \/ listed[p] + Retention < now
    BY <1>5, <1>7, <1>11, <1>12 DEF TooOld
  <2>2. seen.since \in [Regions -> Nat] /\ now \in Nat
    BY DEF DiscoverInv, Types, History
  <2>3. QED
    BY <1>4, <2>1, <2>2 DEF Wider
<1>22. CoverInv'
  <2>1. ASSUME NEW q \in Regions PROVE Covers(q, regionDoc[q].last, {})'
    <3>1. PICK l : l = regionDoc[q].last
      OBVIOUS
    <3>2. Covers(q, l, {}) /\ regionDoc'[q].last = l
      BY <1>13, <3>1 DEF DiscoverInv, CoverInv
    <3>3. Covers(q, l, {})'
      BY <1>21, <3>2, CoversWider DEF DiscoverInv
    <3>4. QED
      BY <3>2, <3>3 DEF Covers
  <2>2. ASSUME NEW o \in Sweepers, tick'[o].pc \in {"record", "mark"}
        PROVE  Covers(tick[o].region, tick[o].to, tick[o].items)'
    <3>1. CASE o # s
      <4>1. PICK v : v = tick[o]
        OBVIOUS
      <4>2. tick'[o] = v /\ v.pc \in {"record", "mark"}
        BY <1>16, <2>2, <3>1, <4>1
      <4>3. Covers(v.region, v.to, v.items) /\ v.region \in Regions
        BY <4>1, <4>2 DEF DiscoverInv, CoverInv, TickInv, Fits
      <4>4. Covers(v.region, v.to, v.items)'
        BY <1>21, <4>3, CoversWider DEF DiscoverInv
      <4>5. QED
        BY <4>2, <4>4 DEF Covers
    <3>2. CASE o = s
      <4>1. u.pc = "mark" /\ u.region = r /\ u.items = {} /\ u.to = t.to
            /\ \A p \in t.items : p \in passes \/ TooOld(p)
        BY <1>7, <1>9, <1>16, <2>2, <3>2, NextRegionTyped
      <4>2. Covers(r, t.to, t.items)
        BY <1>1, <1>2, <1>3 DEF DiscoverInv, CoverInv
      <4>3. \A p \in regionDoc[r].passes \cup t.items : p \in passes \/ TooOld(p)
        BY <1>5, <1>7, <4>1
      <4>4. Covers(r, t.to, {})'
        BY <1>4, <1>11, <1>12, <4>2, <4>3 DEF Covers, TooOld
      <4>5. QED
        BY <1>16, <3>2, <4>1, <4>4 DEF Covers
    <3>3. QED
      BY <3>1, <3>2
  <2>3. QED
    BY <2>1, <2>2 DEF CoverInv
<1>23. MoveInv'
  BY <1>4, MovesRest
<1>24. QED
  BY <1>17, <1>18, <1>19, <1>20, <1>22, <1>23 DEF DiscoverInv

\* The mark is the end of the window that was searched, all of which is on record.
LEMMA MarkStep ==
  ASSUME DiscoverInv, NEW s \in Sweepers, MarkSwept(s)
  PROVE  DiscoverInv'
<1>1. PICK t \in Tick : t = tick[s]
  BY DEF DiscoverInv, Types
<1>2. Fits(s, t) /\ t.pc = "mark" /\ t.items = {}
  BY <1>1 DEF DiscoverInv, TickInv, MarkSwept, Fits
<1>3. PICK r \in Regions : r = t.region
  BY <1>2 DEF Fits
<1>4. UNCHANGED <<now, listed, invs, scenes, dets, ingests, adopt, seen>>
  BY DEF MarkSwept, caseVars
<1>5. PICK u : u = NextRegion(t)
  OBVIOUS
<1>6. u \in Tick /\ u.pc \in {"idle", "next"} /\ u.to = t.to /\ u.items = t.items
  BY <1>5, NextRegionTyped
<1>7. tick' = [tick EXCEPT ![s] = u]
  BY <1>1, <1>5 DEF MarkSwept
<1>8. tick' \in [Sweepers -> Tick] /\ tick'[s] = u /\ \A o \in Sweepers : o # s => tick'[o] = tick[o]
  BY <1>6, <1>7 DEF DiscoverInv, Types
<1>9. PICK d : d = [regionDoc[r] EXCEPT !.last = t.to]
  OBVIOUS
<1>10. regionDoc' = [regionDoc EXCEPT ![r] = d]
  BY <1>1, <1>3, <1>9 DEF MarkSwept
<1>11. d \in [container : Nat \cup {NoOne}, last : Nat, passes : SUBSET Products] /\ d.container = regionDoc[r].container
       /\ d.last = t.to /\ d.passes = regionDoc[r].passes
  <2>1. regionDoc[r] \in [container : Nat \cup {NoOne}, last : Nat, passes : SUBSET Products] /\ t.to \in Nat
    BY DEF DiscoverInv, Types, Tick
  <2>2. QED
    BY <1>9, <2>1
<1>12. /\ regionDoc' \in [Regions -> [container : Nat \cup {NoOne}, last : Nat, passes : SUBSET Products]]
       /\ regionDoc'[r] = d /\ \A q \in Regions : q # r => regionDoc'[q] = regionDoc[q]
  BY <1>10, <1>11 DEF DiscoverInv, Types
<1>13. /\ \A q \in Regions : regionDoc'[q].container = regionDoc[q].container
                             /\ regionDoc'[q].passes = regionDoc[q].passes
       /\ \A q \in Regions : regionDoc'[q].last = IF q = r THEN t.to ELSE regionDoc[q].last
  BY <1>11, <1>12
<1>14. Swept' = Swept
  BY <1>13 DEF Swept
<1>15. Containers' = Containers
  BY <1>13, <1>14 DEF Containers, Swept
<1>16. Swept \subseteq Regions
  BY DEF Swept
<1>17. Types'
  BY <1>4, <1>8, <1>12 DEF DiscoverInv, Types
<1>18. RegionInv'
  <2>1. \A q \in Regions : regionDoc'[q].last <= now
    BY <1>2, <1>13 DEF Fits, DiscoverInv, RegionInv
  <2>2. QED
    BY <1>4, <1>13, <1>14, <1>16, <2>1 DEF DiscoverInv, RegionInv, IsContainer
<1>19. TickInv'
  <2>1. ASSUME NEW o \in Sweepers, NEW v, v = tick'[o], Fits(o, v) PROVE Fits(o, v)'
    <3>1. \A q \in Sweepers : tick'[q].pc = "claim" => tick'[q] = tick[q]
      BY <1>6, <1>8
    <3>2. QED
      BY <1>4, <1>13, <1>14, <1>15, <1>16, <2>1, <3>1 DEF Fits, IsContainer
  <2>2. Fits(s, u)
    BY <1>2, <1>6 DEF Fits
  <2>3. ASSUME NEW o \in Sweepers PROVE Fits(o, tick[o])'
    <3>1. PICK v : v = tick'[o]
      OBVIOUS
    <3>2. Fits(o, v)
      BY <1>8, <2>2, <3>1 DEF DiscoverInv, TickInv
    <3>3. Fits(o, v)'
      BY <2>1, <3>1, <3>2
    <3>4. QED
      BY <3>1, <3>3 DEF Fits
  <2>4. QED
    BY <2>3 DEF TickInv
<1>20. IdsInv'
  BY <1>4, <1>13 DEF DiscoverInv, IdsInv, IsCase
<1>21. Wider
  <2>1. now' \in Nat /\ now' >= now
    BY <1>4 DEF DiscoverInv, Types
  <2>2. QED
    BY <1>4, <1>13, <2>1, SeenStays DEF DiscoverInv
<1>22. CoverInv'
  <2>1. Wider
    BY <1>21
  <2>2. ASSUME NEW q \in Regions PROVE Covers(q, regionDoc[q].last, {})'
    <3>1. PICK l : l = regionDoc'[q].last
      OBVIOUS
    <3>2. Covers(q, l, {})
      BY <1>1, <1>2, <1>3, <1>13, <3>1 DEF DiscoverInv, CoverInv
    <3>3. Covers(q, l, {})'
      BY <2>1, <3>2, CoversWider DEF DiscoverInv
    <3>4. QED
      BY <3>1, <3>3 DEF Covers
  <2>3. ASSUME NEW o \in Sweepers, tick'[o].pc \in {"record", "mark"}
        PROVE  Covers(tick[o].region, tick[o].to, tick[o].items)'
    <3>1. PICK v : v = tick[o]
      OBVIOUS
    <3>2. o # s /\ tick'[o] = v /\ v.pc \in {"record", "mark"}
      BY <1>6, <1>8, <2>3, <3>1
    <3>3. Covers(v.region, v.to, v.items) /\ v.region \in Regions
      BY <3>1, <3>2 DEF DiscoverInv, CoverInv, TickInv, Fits
    <3>4. Covers(v.region, v.to, v.items)'
      BY <2>1, <3>3, CoversWider DEF DiscoverInv
    <3>5. QED
      BY <3>2, <3>4 DEF Covers
  <2>4. QED
    BY <2>2, <2>3 DEF CoverInv
<1>23. MoveInv'
  BY <1>4, MovesRest
<1>24. QED
  BY <1>17, <1>18, <1>19, <1>20, <1>22, <1>23 DEF DiscoverInv

-----------------------------------------------------------------------------
(* The clock and the catalogue *)

LEMMA PassStep ==
  ASSUME DiscoverInv, Pass
  PROVE  DiscoverInv'
<1>1. UNCHANGED <<listed, regionDoc, invs, scenes, dets, tick, ingests, adopt, seen>>
      /\ now' = now + 1
  BY DEF Pass, caseVars
<1>2. Kept /\ now' \in Nat /\ now' >= now
  BY <1>1, KeptUnchanged DEF DiscoverInv, Types
<1>3. Wider
  BY <1>1, <1>2, SeenStays DEF DiscoverInv
<1>4. RegionInv' /\ TickInv' /\ IdsInv' /\ CoverInv' /\ MoveInv'
  BY <1>1, <1>2, <1>3, RegionsRest, TicksRest, IdsRest, CoverRest, MovesRest
<1>5. Types'
  BY <1>1, <1>2 DEF DiscoverInv, Types
<1>6. QED
  BY <1>4, <1>5 DEF DiscoverInv

\* What is listed now was acquired now, and no mark is past that; or it is late.
LEMMA PublishStep ==
  ASSUME DiscoverInv, NEW p \in Products, NEW at \in 1 .. now, Publish(p, at)
  PROVE  DiscoverInv'
<1>1. UNCHANGED <<now, regionDoc, invs, scenes, dets, tick, ingests, adopt>>
  BY DEF Publish, caseVars
<1>2. now \in Nat /\ at \in Nat /\ at <= now
  BY DEF DiscoverInv, Types
<1>3. PICK f : f = [o \in DOMAIN listed \cup {p} |-> IF o = p THEN at ELSE listed[o]]
  OBVIOUS
<1>4. listed' = f /\ p \notin DOMAIN listed
  BY <1>3 DEF Publish
<1>5. DOMAIN f = DOMAIN listed \cup {p} /\ f[p] = at /\ \A o \in DOMAIN listed : f[o] = listed[o]
  BY <1>3, <1>4
<1>6. IsFiniteSet(DOMAIN f)
  BY <1>5, FS_AddElement DEF DiscoverInv, Types
<1>7. PICK h \in History : h = seen
  BY DEF DiscoverInv, Types
<1>8. PICK late : late = IF at < now THEN h.late \cup {p} ELSE h.late
  OBVIOUS
<1>9. seen' = [h EXCEPT !.late = late]
  BY <1>7, <1>8 DEF Publish
<1>10. seen' \in History /\ seen'.over = h.over /\ seen'.late = late
       /\ seen'.mixed = h.mixed /\ seen'.since = h.since
  BY <1>7, <1>8, <1>9 DEF History
<1>11. Types'
  BY <1>1, <1>2, <1>4, <1>5, <1>6, <1>10 DEF DiscoverInv, Types
<1>12. ASSUME NEW r \in Regions, NEW before \in Nat, before <= now, NEW items, Covers(r, before, items)
       PROVE  Covers(r, before, items)'
  <2>1. ASSUME NEW o \in DOMAIN f, o \notin late, f[o] >= h.since[r], f[o] < before
        PROVE  o \in regionDoc[r].passes \cup items \/ <<r, o>> \in h.over \/ f[o] + Retention < now
    <3>1. CASE o = p
      BY <1>2, <1>5, <1>8, <1>12, <2>1, <3>1
    <3>2. CASE o # p
      BY <1>5, <1>7, <1>8, <1>12, <2>1, <3>2 DEF Covers, TooOld
    <3>3. QED
      BY <3>1, <3>2
  <2>2. QED
    BY <1>1, <1>4, <1>10, <2>1 DEF Covers, TooOld
<1>13. CoverInv'
  <2>1. ASSUME NEW r \in Regions PROVE Covers(r, regionDoc[r].last, {})'
    <3>1. PICK l : l = regionDoc[r].last
      OBVIOUS
    <3>2. l \in Nat /\ l <= now /\ Covers(r, l, {})
      BY <3>1 DEF DiscoverInv, Types, RegionInv, CoverInv
    <3>3. Covers(r, l, {})'
      BY <1>12, <3>2
    <3>4. QED
      BY <1>1, <3>1, <3>3 DEF Covers
  <2>2. ASSUME NEW s \in Sweepers, tick'[s].pc \in {"record", "mark"}
        PROVE  Covers(tick[s].region, tick[s].to, tick[s].items)'
    <3>1. PICK t \in Tick : t = tick[s]
      BY DEF DiscoverInv, Types
    <3>2. t.region \in Regions /\ t.to <= now /\ t.to \in Nat /\ Covers(t.region, t.to, t.items)
      BY <1>1, <2>2, <3>1 DEF DiscoverInv, TickInv, Fits, CoverInv, Tick
    <3>3. Covers(t.region, t.to, t.items)'
      BY <1>12, <3>2
    <3>4. QED
      BY <1>1, <3>1, <3>3 DEF Covers
  <2>3. QED
    BY <2>1, <2>2 DEF CoverInv
<1>14. Kept /\ now' \in Nat /\ now' >= now
  BY <1>1, KeptUnchanged DEF DiscoverInv, Types
<1>15. RegionInv' /\ TickInv' /\ IdsInv' /\ MoveInv'
  BY <1>1, <1>4, <1>5, <1>7, <1>10, <1>14, RegionsRest, TicksRest, IdsRest, MovesRest
<1>16. QED
  BY <1>11, <1>13, <1>15 DEF DiscoverInv

-----------------------------------------------------------------------------
(* The ingest of a scene *)

\* A step that leaves the sweep and the cases alone.
LEMMA SweepRests ==
  ASSUME DiscoverInv, Wider, Kept, UNCHANGED <<now, regionDoc, tick>>
  PROVE  RegionInv' /\ TickInv' /\ CoverInv' /\ Swept' = Swept /\ Containers' = Containers
<1>1. now' \in Nat /\ now' >= now /\ DOMAIN listed \subseteq DOMAIN listed'
  BY DEF DiscoverInv, Types, Wider
<1>2. QED
  BY <1>1, RegionsRest, TicksRest, CoverRest

LEMMA IngestSceneStep ==
  ASSUME DiscoverInv, NEW j \in ingests, IngestScene(j)
  PROVE  DiscoverInv'
<1>1. j \in Ingest /\ j.inv \in DOMAIN invs /\ j.scene = 0
  BY DEF DiscoverInv, Types, IdsInv, IngestScene
<1>2. UNCHANGED <<now, listed, regionDoc, invs, dets, tick, adopt, seen>>
  BY DEF IngestScene
<1>3. PICK docs \in Seq(SceneDoc) : docs = scenes
  BY DEF DiscoverInv, Types
<1>4. PICK x : x = [product |-> j.product, inv |-> j.inv]
  OBVIOUS
<1>5. x \in SceneDoc /\ x.product = j.product /\ x.inv = j.inv
  BY <1>1, <1>4 DEF SceneDoc, Ingest
<1>6. PICK i : /\ scenes' = docs \/ (scenes' = Append(docs, x) /\ i = NewId(docs))
               /\ i \in DOMAIN scenes'
               /\ ingests' = (ingests \ {j}) \cup {[j EXCEPT !.scene = i]}
  <2>1. CASE SceneOf(j) # {}
    <3>1. PICK i : i = CHOOSE n \in SceneOf(j) : TRUE
      OBVIOUS
    <3>2. i \in SceneOf(j)
      BY <2>1, <3>1
    <3>3. scenes' = docs /\ ingests' = (ingests \ {j}) \cup {[j EXCEPT !.scene = i]}
      BY <1>3, <2>1, <3>1 DEF IngestScene
    <3>4. QED
      BY <1>3, <3>2, <3>3 DEF SceneOf
  <2>2. CASE SceneOf(j) = {}
    <3>1. PICK i : i = NewId(docs)
      OBVIOUS
    <3>2. scenes' = Append(docs, x) /\ ingests' = (ingests \ {j}) \cup {[j EXCEPT !.scene = i]}
      BY <1>3, <1>4, <2>2, <3>1 DEF IngestScene
    <3>3. i \in DOMAIN Append(docs, x)
      BY <1>5, <3>1, Appended
    <3>4. QED
      BY <3>1, <3>2, <3>3
  <2>3. QED
    BY <2>1, <2>2
<1>7. /\ scenes' \in Seq(SceneDoc) /\ DOMAIN docs \subseteq DOMAIN scenes'
      /\ \A k \in DOMAIN docs : scenes'[k] = docs[k]
      /\ \A k \in DOMAIN scenes' : k \in DOMAIN docs \/ scenes'[k] = x
  <2>1. PICK more : more = Append(docs, x)
    OBVIOUS
  <2>2. /\ more \in Seq(SceneDoc) /\ DOMAIN more = DOMAIN docs \cup {NewId(docs)}
        /\ more[NewId(docs)] = x /\ \A k \in DOMAIN docs : more[k] = docs[k]
    BY <1>5, <2>1, Appended
  <2>3. QED
    BY <1>6, <2>1, <2>2
<1>8. i \in Nat
  BY <1>6, <1>7, ElementOf
<1>9. PICK n : n = [j EXCEPT !.scene = i]
  OBVIOUS
<1>10. n \in Ingest /\ n.inv = j.inv /\ n.product = j.product /\ n.scene = i
       /\ ingests' = (ingests \ {j}) \cup {n}
  BY <1>1, <1>6, <1>8, <1>9 DEF Ingest
<1>11. Types'
  BY <1>2, <1>7, <1>10 DEF DiscoverInv, Types
<1>12. Wider /\ Kept
  BY <1>2, NothingSeen, KeptUnchanged DEF DiscoverInv
<1>13. RegionInv' /\ TickInv' /\ CoverInv' /\ Swept' = Swept /\ Containers' = Containers
  BY <1>2, <1>12, SweepRests
<1>14. IdsInv'
  <2>1. \A k \in DOMAIN scenes' : scenes'[k].inv \in DOMAIN invs
    BY <1>1, <1>3, <1>5, <1>7 DEF DiscoverInv, IdsInv
  <2>2. \A m \in ingests' : m.inv \in DOMAIN invs /\ m.scene \in DOMAIN scenes' \cup {0}
    BY <1>1, <1>3, <1>6, <1>7, <1>10 DEF DiscoverInv, IdsInv
  <2>3. \A d \in DOMAIN dets : dets[d].scene \in DOMAIN scenes' /\ dets[d].inv \in DOMAIN invs
    BY <1>3, <1>7 DEF DiscoverInv, IdsInv
  <2>4. \A c \in Callers : adopt[c].pc # "idle" =>
          /\ adopt[c].scene \in DOMAIN scenes' /\ adopt[c].by \in People
          /\ IsCase(adopt[c].target) \/ (adopt[c].pc = "scene" /\ adopt[c].target = NoOne)
    BY <1>3, <1>7 DEF DiscoverInv, IdsInv
  <2>5. QED
    BY <1>2, <2>1, <2>2, <2>3, <2>4 DEF DiscoverInv, IdsInv, IsCase
<1>16. MoveInv'
  <2>1. ASSUME NEW d \in DOMAIN dets, dets[d].scene \notin seen.mixed,
               \A c \in Callers : adopt[c].pc = "dets" => adopt[c].scene # dets[d].scene
        PROVE  dets[d].inv = scenes'[dets[d].scene].inv
    BY <1>3, <1>7, <2>1 DEF DiscoverInv, MoveInv, SiblingsMoveTogether, IdsInv
  <2>2. ASSUME NEW c \in Callers, adopt[c].pc = "dets", adopt[c].scene \notin seen.mixed
        PROVE  /\ scenes'[adopt[c].scene].inv = adopt[c].target
               /\ \A k \in Callers : k # c /\ adopt[k].pc # "idle" => adopt[k].scene # adopt[c].scene
    BY <1>3, <1>7, <2>2 DEF DiscoverInv, MoveInv, Alone, IdsInv
  <2>3. QED
    BY <1>2, <2>1, <2>2 DEF MoveInv, SiblingsMoveTogether, Alone
<1>17. QED
  BY <1>11, <1>13, <1>14, <1>16 DEF DiscoverInv

LEMMA IngestDetectionStep ==
  ASSUME DiscoverInv, NEW j \in ingests, NEW r \in Regions, IngestDetection(j, r)
  PROVE  DiscoverInv'
<1>1. j \in Ingest /\ j.inv \in DOMAIN invs /\ j.scene \in DOMAIN scenes
  BY DEF DiscoverInv, Types, IdsInv, IngestDetection
<1>2. UNCHANGED <<now, listed, regionDoc, invs, scenes, tick, adopt>>
  BY DEF IngestDetection
<1>3. PICK docs \in Seq(DetDoc) : docs = dets
  BY DEF DiscoverInv, Types
<1>4. PICK x : x = [scene |-> j.scene, inv |-> j.inv, at |-> r]
  OBVIOUS
<1>5. x \in DetDoc /\ x.scene = j.scene /\ x.inv = j.inv
  BY <1>1, <1>4 DEF DetDoc, Ingest
<1>6. PICK more : more = Append(docs, x)
  OBVIOUS
<1>7. /\ more \in Seq(DetDoc)
      /\ \A d \in DOMAIN more : (d \in DOMAIN docs /\ more[d] = docs[d]) \/ more[d] = x
  BY <1>5, <1>6, Appended
<1>8. dets' = more
  BY <1>3, <1>4, <1>6 DEF IngestDetection
<1>9. PICK n : n = [j EXCEPT !.made = @ + 1]
  OBVIOUS
<1>10. n \in Ingest /\ n.inv = j.inv /\ n.product = j.product /\ n.scene = j.scene
       /\ ingests' = (ingests \ {j}) \cup {n}
  BY <1>1, <1>9 DEF Ingest, IngestDetection
<1>11. PICK h \in History : h = seen
  BY DEF DiscoverInv, Types
<1>12. PICK mixed : mixed = IF scenes[j.scene].inv # j.inv THEN h.mixed \cup {j.scene} ELSE h.mixed
  OBVIOUS
<1>13. seen' = [h EXCEPT !.mixed = mixed]
  BY <1>11, <1>12 DEF IngestDetection
<1>14. seen' \in History /\ seen'.over = h.over /\ seen'.late = h.late
       /\ seen'.mixed = mixed /\ seen'.since = h.since
  BY <1>1, <1>11, <1>12, <1>13 DEF History, Ingest
<1>15. Types'
  BY <1>2, <1>7, <1>8, <1>10, <1>14 DEF DiscoverInv, Types
<1>16. Wider /\ Kept
  <2>1. h.since \in [Regions -> Nat] /\ \A q \in Regions : h.since[q] >= h.since[q]
    BY <1>11 DEF History
  <2>2. QED
    BY <1>2, <1>11, <1>14, <2>1, KeptUnchanged DEF Wider, DiscoverInv, Types
<1>17. RegionInv' /\ TickInv' /\ CoverInv' /\ Swept' = Swept /\ Containers' = Containers
  BY <1>2, <1>16, SweepRests
<1>18. IdsInv'
  <2>1. x.inv \in DOMAIN invs
    BY <1>1, <1>5
  <2>2. \A d \in DOMAIN more : more[d].scene \in DOMAIN scenes /\ more[d].inv \in DOMAIN invs
    BY <1>1, <1>3, <1>5, <1>7, <2>1 DEF DiscoverInv, IdsInv
  <2>3. \A m \in ingests' : m.inv \in DOMAIN invs /\ m.scene \in DOMAIN scenes \cup {0}
    BY <1>1, <1>10 DEF DiscoverInv, IdsInv
  <2>4. QED
    BY <1>2, <1>8, <1>17, <2>2, <2>3 DEF DiscoverInv, IdsInv, IsCase
<1>20. MoveInv'
  <2>1. h.mixed \subseteq mixed
    BY <1>12
  <2>2. ASSUME NEW d \in DOMAIN more, more[d].scene \notin mixed,
               \A c \in Callers : adopt[c].pc = "dets" => adopt[c].scene # more[d].scene
        PROVE  more[d].inv = scenes[more[d].scene].inv
    <3>1. CASE more[d] = x
      BY <1>5, <1>12, <2>2, <3>1
    <3>2. CASE d \in DOMAIN docs /\ more[d] = docs[d]
      BY <1>3, <1>11, <2>1, <2>2, <3>2 DEF DiscoverInv, MoveInv, SiblingsMoveTogether
    <3>3. QED
      BY <1>7, <3>1, <3>2
  <2>3. \A c \in Callers : Alone(c)'
    BY <1>2, <1>11, <1>14, <2>1 DEF DiscoverInv, MoveInv, Alone
  <2>4. QED
    BY <1>2, <1>8, <1>14, <2>2, <2>3 DEF MoveInv, SiblingsMoveTogether
<1>21. QED
  BY <1>15, <1>17, <1>18, <1>20 DEF DiscoverInv

\* An ingest is asked for an investigation there is, whatever its kind.
LEMMA AskIngestStep ==
  ASSUME DiscoverInv, NEW u \in People, NEW i \in DOMAIN invs, NEW p \in Products, AskIngest(u, i, p)
  PROVE  DiscoverInv'
<1>1. UNCHANGED <<now, listed, regionDoc, invs, scenes, dets, tick, adopt, seen>>
  BY DEF AskIngest, caseVars
<1>2. PICK n : n = [inv |-> i, product |-> p, scene |-> 0, made |-> 0]
  OBVIOUS
<1>3. i \in Nat
  BY ElementOf DEF DiscoverInv, Types
<1>4. n \in Ingest /\ n.inv = i /\ n.scene = 0
  BY <1>2, <1>3 DEF Ingest
<1>5. ingests' \subseteq ingests \cup {n}
  BY <1>2 DEF AskIngest
<1>6. Wider /\ Kept
  BY <1>1, NothingSeen, KeptUnchanged DEF DiscoverInv
<1>7. RegionInv' /\ TickInv' /\ CoverInv'
  BY <1>1, <1>6, SweepRests
<1>8. IdsInv'
  BY <1>1, <1>4, <1>5 DEF DiscoverInv, IdsInv, IsCase
<1>9. MoveInv'
  BY <1>1, MovesRest
<1>10. Types'
  BY <1>1, <1>4, <1>5 DEF DiscoverInv, Types
<1>11. QED
  BY <1>7, <1>8, <1>9, <1>10 DEF DiscoverInv

LEMMA IngestDoneStep ==
  ASSUME DiscoverInv, NEW j \in ingests, IngestDone(j)
  PROVE  DiscoverInv'
<1>1. UNCHANGED <<now, listed, regionDoc, invs, scenes, dets, tick, adopt, seen>>
      /\ ingests' = ingests \ {j}
  BY DEF IngestDone, caseVars
<1>2. Wider /\ Kept
  BY <1>1, NothingSeen, KeptUnchanged DEF DiscoverInv
<1>3. RegionInv' /\ TickInv' /\ CoverInv' /\ Swept' = Swept /\ Containers' = Containers
  BY <1>1, <1>2, SweepRests
<1>4. IdsInv' /\ MoveInv'
  BY <1>1, <1>2, <1>3, MovesRest DEF DiscoverInv, IdsInv, IsCase
<1>5. Types'
  BY <1>1 DEF DiscoverInv, Types
<1>6. QED
  BY <1>3, <1>4, <1>5 DEF DiscoverInv

-----------------------------------------------------------------------------
(* Investigations *)

LEMMA CaseChanges ==
  ASSUME DiscoverInv, Kept,
         UNCHANGED <<now, listed, regionDoc, scenes, dets, tick, ingests, adopt, seen>>
  PROVE  DiscoverInv'
<1>1. Wider
  BY NothingSeen
<1>2. RegionInv' /\ TickInv' /\ CoverInv'
  BY <1>1, SweepRests
<1>3. IdsInv' /\ MoveInv'
  BY IdsRest, MovesRest
<1>4. Types'
  BY DEF DiscoverInv, Types, Kept
<1>5. QED
  BY <1>2, <1>3, <1>4 DEF DiscoverInv

LEMMA DeleteStep ==
  ASSUME DiscoverInv, NEW u \in People, NEW i \in DOMAIN invs, DeleteCase(u, i)
  PROVE  DiscoverInv'
<1>1. PICK d \in CaseDoc : d = invs[i]
  BY ElementOf DEF DiscoverInv, Types
<1>2. PICK x : x = [d EXCEPT !.deleted = TRUE]
  OBVIOUS
<1>3. x \in CaseDoc /\ x.kind = d.kind
  BY <1>1, <1>2 DEF CaseDoc
<1>4. invs' = [invs EXCEPT ![i] = x]
  BY <1>1, <1>2 DEF DeleteCase
<1>5. Kept
  BY <1>1, <1>3, <1>4, KeptUpdate DEF DiscoverInv
<1>6. UNCHANGED <<now, listed, regionDoc, scenes, dets, tick, ingests, adopt, seen>>
  BY DEF DeleteCase
<1>7. QED
  BY <1>5, <1>6, CaseChanges

LEMMA AddPersonStep ==
  ASSUME DiscoverInv, NEW u \in People, NEW i \in DOMAIN invs, NEW v \in People, AddPerson(u, i, v)
  PROVE  DiscoverInv'
<1>1. PICK d \in CaseDoc : d = invs[i]
  BY ElementOf DEF DiscoverInv, Types
<1>2. PICK x : x = [d EXCEPT !.members = @ \cup {v}]
  OBVIOUS
<1>3. x \in CaseDoc /\ x.kind = d.kind
  BY <1>1, <1>2 DEF CaseDoc
<1>4. invs' = [invs EXCEPT ![i] = x]
  BY <1>1, <1>2 DEF AddPerson
<1>5. Kept
  BY <1>1, <1>3, <1>4, KeptUpdate DEF DiscoverInv
<1>6. UNCHANGED <<now, listed, regionDoc, scenes, dets, tick, ingests, adopt, seen>>
  BY DEF AddPerson
<1>7. QED
  BY <1>5, <1>6, CaseChanges

-----------------------------------------------------------------------------
(* Adoption *)

LEMMA OneAdoption ==
  ASSUME DiscoverInv, NEW c \in Callers, NEW a \in Adoption, adopt' = [adopt EXCEPT ![c] = a]
  PROVE  /\ adopt' \in [Callers -> Adoption] /\ adopt'[c] = a
         /\ \A k \in Callers : k # c => adopt'[k] = adopt[k]
  BY DEF DiscoverInv, Types

LEMMA NoAdoptTyped == NoAdopt \in Adoption /\ NoAdopt.pc = "idle"
  BY DEF NoAdopt, Adoption

\* Nobody adopts a scene that was moved: it is not of a container any more.
LEMMA StartAdoptStep ==
  ASSUME DiscoverInv, NEW c \in Callers, NEW u \in People, NEW d \in DOMAIN dets,
         NEW target \in RealCases \cup {NoOne}, StartAdopt(c, u, d, target)
  PROVE  DiscoverInv'
<1>1. PICK i : i = dets[d].scene
  OBVIOUS
<1>2. i \in DOMAIN scenes /\ i \in Nat /\ scenes[i].inv \in Containers
  BY <1>1, ElementOf DEF DiscoverInv, IdsInv, StartAdopt, Adoptable, Types
<1>3. UNCHANGED <<now, listed, regionDoc, invs, scenes, dets, tick, ingests, seen>>
  BY DEF StartAdopt, caseVars
<1>4. target = NoOne \/ IsCase(target)
  BY CaseNumbers DEF DiscoverInv
<1>5. target \in Nat \cup {NoOne}
  BY <1>4, CaseNumbers DEF DiscoverInv
<1>6. PICK a : a = [pc |-> "scene", by |-> u, scene |-> i, target |-> target]
  OBVIOUS
<1>7. a \in Adoption /\ a.pc = "scene" /\ a.by = u /\ a.scene = i /\ a.target = target
  BY <1>2, <1>5, <1>6 DEF Adoption
<1>8. adopt' = [adopt EXCEPT ![c] = a] /\ adopt[c].pc = "idle"
  BY <1>1, <1>6 DEF StartAdopt
<1>9. /\ adopt' \in [Callers -> Adoption] /\ adopt'[c] = a
      /\ \A k \in Callers : k # c => adopt'[k] = adopt[k]
  BY <1>7, <1>8, OneAdoption
<1>10. Wider /\ Kept
  BY <1>3, NothingSeen, KeptUnchanged DEF DiscoverInv
<1>11. RegionInv' /\ TickInv' /\ CoverInv' /\ Swept' = Swept /\ Containers' = Containers
  BY <1>3, <1>10, SweepRests
<1>12. IdsInv'
  <2>1. ASSUME NEW k \in Callers, adopt'[k].pc # "idle"
        PROVE  /\ adopt'[k].scene \in DOMAIN scenes /\ adopt'[k].by \in People
               /\ IsCase(adopt'[k].target) \/ (adopt'[k].pc = "scene" /\ adopt'[k].target = NoOne)
    <3>1. CASE k = c
      BY <1>2, <1>4, <1>7, <1>9, <3>1
    <3>2. CASE k # c
      BY <1>9, <2>1, <3>2 DEF DiscoverInv, IdsInv
    <3>3. QED
      BY <3>1, <3>2
  <2>2. QED
    BY <1>3, <1>11, <2>1 DEF DiscoverInv, IdsInv, IsCase
<1>14. MoveInv'
  <2>1. SiblingsMoveTogether'
    BY <1>3, <1>7, <1>8, <1>9 DEF DiscoverInv, MoveInv, SiblingsMoveTogether
  <2>2. ASSUME NEW k \in Callers, adopt'[k].pc = "dets", adopt'[k].scene \notin seen.mixed
        PROVE  /\ scenes[adopt'[k].scene].inv = adopt'[k].target
               /\ \A o \in Callers : o # k /\ adopt'[o].pc # "idle" => adopt'[o].scene # adopt'[k].scene
    <3>1. k # c /\ adopt'[k] = adopt[k]
      BY <1>7, <1>9, <2>2
    <3>2. /\ scenes[adopt[k].scene].inv = adopt[k].target
          /\ \A o \in Callers : o # k /\ adopt[o].pc # "idle" => adopt[o].scene # adopt[k].scene
      BY <2>2, <3>1 DEF DiscoverInv, MoveInv, Alone
    <3>3. IsCase(adopt[k].target)
      BY <2>2, <3>1 DEF DiscoverInv, IdsInv
    <3>4. adopt[k].scene # i
      BY <1>2, <3>2, <3>3, ContainerIds DEF DiscoverInv
    <3>5. QED
      BY <1>7, <1>9, <3>1, <3>2, <3>4
  <2>3. QED
    BY <1>3, <2>1, <2>2 DEF MoveInv, Alone
<1>15. Types'
  BY <1>3, <1>9 DEF DiscoverInv, Types
<1>16. QED
  BY <1>11, <1>12, <1>14, <1>15 DEF DiscoverInv

\* An adoption that ends, whether its scene's detections were moved or it broke off.
LEMMA AdoptionEnds ==
  ASSUME DiscoverInv, NEW c \in Callers, adopt' = [adopt EXCEPT ![c] = NoAdopt]
  PROVE  /\ adopt' \in [Callers -> Adoption] /\ adopt'[c].pc = "idle"
         /\ \A k \in Callers : adopt'[k].pc # "idle" => k # c /\ adopt'[k] = adopt[k]
  BY NoAdoptTyped, OneAdoption

\* The scene moves into the case that was named, or into a new one.
LEMMA MoveSceneStep ==
  ASSUME DiscoverInv, NEW c \in Callers, MoveScene(c)
  PROVE  DiscoverInv'
<1>1. PICK a \in Adoption : a = adopt[c]
  BY DEF DiscoverInv, Types
<1>2. a.pc = "scene"
  BY <1>1 DEF MoveScene
<1>3. PICK i : i = a.scene
  OBVIOUS
<1>4. i \in DOMAIN scenes /\ i \in Nat /\ a.by \in People /\ (IsCase(a.target) \/ a.target = NoOne)
  BY <1>1, <1>2, <1>3, ElementOf DEF DiscoverInv, IdsInv, Types
<1>5. PICK n : n = NewId(invs)
  OBVIOUS
<1>6. PICK target : target = IF a.target = NoOne THEN n ELSE a.target
  OBVIOUS
<1>7. PICK x : x = [kind |-> "CASE", owner |-> a.by, members |-> {a.by}, deleted |-> FALSE]
  OBVIOUS
<1>8. x \in CaseDoc /\ x.kind = "CASE"
  BY <1>4, <1>7 DEF CaseDoc
<1>9. invs' = IF a.target # NoOne THEN invs ELSE Append(invs, x)
  BY <1>1, <1>7 DEF MoveScene
<1>10. Kept /\ IsCase(target)'
  <2>1. CASE a.target # NoOne
    <3>1. IsCase(target) /\ invs' = invs
      BY <1>4, <1>6, <1>9, <2>1
    <3>2. QED
      BY <3>1, KeptUnchanged DEF DiscoverInv, IsCase
  <2>2. CASE a.target = NoOne
    <3>1. invs' = Append(invs, x) /\ target = n
      BY <1>6, <1>9, <2>2
    <3>2. Kept /\ IsCase(n)'
      BY <1>5, <1>8, <3>1, KeptAppend DEF DiscoverInv
    <3>3. QED
      BY <3>1, <3>2 DEF IsCase
  <2>3. QED
    BY <2>1, <2>2
<1>11. target \in Nat /\ target # NoOne
  <2>1. target \in DOMAIN invs' /\ invs' \in Seq(CaseDoc)
    BY <1>10 DEF IsCase, Kept
  <2>2. target \in Nat
    BY <2>1, ElementOf
  <2>3. QED
    BY <2>2, DiscoverAssumption
<1>12. UNCHANGED <<now, listed, regionDoc, dets, tick, ingests>>
  BY DEF MoveScene
<1>13. CASE UNCHANGED <<scenes, seen>> /\ adopt' = [adopt EXCEPT ![c] = NoAdopt]
  <2>1. /\ adopt' \in [Callers -> Adoption] /\ adopt'[c].pc = "idle"
        /\ \A k \in Callers : adopt'[k].pc # "idle" => k # c /\ adopt'[k] = adopt[k]
    BY <1>13, AdoptionEnds
  <2>2. Wider
    BY <1>12, <1>13, NothingSeen
  <2>3. RegionInv' /\ TickInv' /\ CoverInv' /\ Swept' = Swept /\ Containers' = Containers
    BY <1>10, <1>12, <2>2, SweepRests
  <2>4. IdsInv'
    BY <1>10, <1>12, <1>13, <2>1, <2>3 DEF DiscoverInv, IdsInv, Kept
  <2>6. MoveInv'
    <3>1. \A k \in Callers : k # c \/ adopt[k].pc # "dets"
      BY <1>1, <1>2
    <3>2. ASSUME NEW k \in Callers, adopt[k].pc = "dets" PROVE adopt'[k] = adopt[k]
      BY <1>13, <3>1, <3>2 DEF DiscoverInv, Types
    <3>3. SiblingsMoveTogether'
      BY <1>12, <1>13, <3>2 DEF DiscoverInv, MoveInv, SiblingsMoveTogether
    <3>4. \A k \in Callers : Alone(k)'
      BY <1>13, <2>1 DEF DiscoverInv, MoveInv, Alone
    <3>5. QED
      BY <3>3, <3>4 DEF MoveInv
  <2>7. Types'
    BY <1>10, <1>12, <1>13, <2>1 DEF DiscoverInv, Types, Kept
  <2>8. QED
    BY <2>3, <2>4, <2>6, <2>7 DEF DiscoverInv
<1>14. PICK others : others = {k \in Callers \ {c} : adopt[k].pc # "idle" /\ adopt[k].scene = i}
  OBVIOUS
<1>15. CASE /\ adopt' = [adopt EXCEPT ![c] = [a EXCEPT !.pc = "dets", !.target = target]]
            /\ scenes' = [scenes EXCEPT ![i].inv = target]
            /\ seen' = [seen EXCEPT !.mixed = IF others = {} THEN @ ELSE @ \cup {i}]
  <2>1. PICK b : b = [a EXCEPT !.pc = "dets", !.target = target]
    OBVIOUS
  <2>2. b \in Adoption /\ b.pc = "dets" /\ b.scene = i /\ b.by = a.by /\ b.target = target
    BY <1>3, <1>11, <2>1 DEF Adoption
  <2>3. /\ adopt' \in [Callers -> Adoption] /\ adopt'[c] = b
        /\ \A k \in Callers : k # c => adopt'[k] = adopt[k]
    BY <1>15, <2>1, <2>2, OneAdoption
  <2>4. PICK docs \in Seq(SceneDoc) : docs = scenes
    BY DEF DiscoverInv, Types
  <2>5. docs[i] \in SceneDoc
    BY <1>4, <2>4, ElementOf
  <2>6. PICK y : y = [docs[i] EXCEPT !.inv = target]
    OBVIOUS
  <2>7. y \in SceneDoc /\ y.inv = target
    BY <1>11, <2>5, <2>6 DEF SceneDoc
  <2>8. scenes' = [docs EXCEPT ![i] = y]
    BY <1>15, <2>4, <2>6
  <2>9. /\ scenes' \in Seq(SceneDoc) /\ DOMAIN scenes' = DOMAIN docs /\ scenes'[i] = y
        /\ \A k \in DOMAIN docs : k # i => scenes'[k] = docs[k]
    BY <1>4, <2>4, <2>7, <2>8, Updated
  <2>10. PICK h \in History : h = seen
    BY DEF DiscoverInv, Types
  <2>11. PICK mixed : mixed = IF others = {} THEN h.mixed ELSE h.mixed \cup {i}
    OBVIOUS
  <2>12. seen' = [h EXCEPT !.mixed = mixed]
    BY <1>15, <2>10, <2>11
  <2>13. seen' \in History /\ seen'.over = h.over /\ seen'.late = h.late
         /\ seen'.mixed = mixed /\ seen'.since = h.since
    BY <1>4, <2>10, <2>11, <2>12 DEF History
  <2>14. Wider
    <3>1. h.since \in [Regions -> Nat] /\ \A q \in Regions : h.since[q] >= h.since[q]
      BY <2>10 DEF History
    <3>2. QED
      BY <1>12, <2>10, <2>13, <3>1 DEF Wider, DiscoverInv, Types
  <2>15. RegionInv' /\ TickInv' /\ CoverInv' /\ Swept' = Swept /\ Containers' = Containers
    BY <1>10, <1>12, <2>14, SweepRests
  <2>16. Types'
    BY <1>10, <1>12, <2>3, <2>9, <2>13 DEF DiscoverInv, Types, Kept
  <2>17. IdsInv'
    <3>1. ASSUME NEW k \in DOMAIN scenes' PROVE scenes'[k].inv \in DOMAIN invs'
      <4>1. CASE k = i
        BY <1>10, <2>7, <2>9, <4>1 DEF IsCase
      <4>2. CASE k # i
        BY <1>10, <2>4, <2>9, <4>2 DEF DiscoverInv, IdsInv, Kept
      <4>3. QED
        BY <4>1, <4>2
    <3>2. ASSUME NEW k \in Callers, adopt'[k].pc # "idle"
          PROVE  /\ adopt'[k].scene \in DOMAIN scenes /\ adopt'[k].by \in People
                 /\ IsCase(adopt[k].target)' \/ (adopt'[k].pc = "scene" /\ adopt'[k].target = NoOne)
      <4>1. CASE k = c
        BY <1>4, <1>10, <2>2, <2>3, <4>1 DEF IsCase
      <4>2. CASE k # c
        <5>1. PICK e : e = adopt[k]
          OBVIOUS
        <5>2. /\ e.scene \in DOMAIN scenes /\ e.by \in People
              /\ IsCase(e.target) \/ (e.pc = "scene" /\ e.target = NoOne)
          BY <2>3, <3>2, <4>2, <5>1 DEF DiscoverInv, IdsInv
        <5>3. IsCase(e.target) => IsCase(e.target)'
          BY <1>10 DEF Kept
        <5>4. QED
          BY <2>3, <4>2, <5>1, <5>2, <5>3 DEF IsCase
      <4>3. QED
        BY <4>1, <4>2
    <3>3. \A d \in DOMAIN dets : dets[d].scene \in DOMAIN scenes /\ dets[d].inv \in DOMAIN invs'
      BY <1>10 DEF DiscoverInv, IdsInv, Kept
    <3>4. \A j \in ingests : j.inv \in DOMAIN invs' /\ j.scene \in DOMAIN scenes \cup {0}
      BY <1>10 DEF DiscoverInv, IdsInv, Kept
    <3>5. \A r \in Regions : regionDoc[r].passes \subseteq DOMAIN listed
      BY DEF DiscoverInv, IdsInv
    <3>6. QED
      BY <1>12, <2>4, <2>9, <3>5, <3>1, <3>2, <3>3, <3>4 DEF IdsInv
  <2>19. MoveInv'
    <3>1. h.mixed \subseteq mixed
      BY <2>11
    <3>2. ASSUME NEW d \in DOMAIN dets, dets[d].scene \notin mixed,
                 \A k \in Callers : adopt'[k].pc = "dets" => adopt'[k].scene # dets[d].scene
          PROVE  dets[d].inv = scenes'[dets[d].scene].inv
      <4>1. dets[d].scene # i
        BY <2>2, <2>3, <3>2
      <4>2. \A k \in Callers : adopt[k].pc = "dets" => adopt[k].scene # dets[d].scene
        BY <1>1, <1>2, <2>3, <3>2
      <4>3. dets[d].inv = scenes[dets[d].scene].inv /\ dets[d].scene \in DOMAIN scenes
        BY <2>10, <3>1, <3>2, <4>2 DEF DiscoverInv, MoveInv, SiblingsMoveTogether, IdsInv
      <4>4. QED
        BY <2>4, <2>9, <4>1, <4>3
    <3>3. ASSUME NEW k \in Callers, adopt'[k].pc = "dets", adopt'[k].scene \notin mixed
          PROVE  /\ scenes'[adopt'[k].scene].inv = adopt'[k].target
                 /\ \A o \in Callers : o # k /\ adopt'[o].pc # "idle" => adopt'[o].scene # adopt'[k].scene
      <4>1. CASE k = c
        <5>1. others = {}
          BY <2>2, <2>3, <2>11, <3>3, <4>1
        <5>2. \A o \in Callers : o # c /\ adopt'[o].pc # "idle" => adopt'[o].scene # i
          BY <1>14, <2>3, <5>1
        <5>3. QED
          BY <2>2, <2>3, <2>7, <2>9, <4>1, <5>2
      <4>2. CASE k # c
        <5>1. adopt'[k] = adopt[k] /\ adopt[k].pc = "dets" /\ adopt[k].scene \notin h.mixed
          BY <2>3, <3>1, <3>3, <4>2
        <5>2. /\ scenes[adopt[k].scene].inv = adopt[k].target
              /\ \A o \in Callers : o # k /\ adopt[o].pc # "idle" => adopt[o].scene # adopt[k].scene
          BY <2>10, <5>1 DEF DiscoverInv, MoveInv, Alone
        <5>3. adopt[k].scene # i /\ adopt[k].scene \in DOMAIN scenes
          BY <1>1, <1>2, <1>3, <4>2, <5>1, <5>2 DEF DiscoverInv, IdsInv
        <5>4. QED
          BY <2>2, <2>3, <2>4, <2>9, <5>1, <5>2, <5>3
      <4>3. QED
        BY <4>1, <4>2
    <3>4. QED
      BY <1>12, <2>13, <3>2, <3>3 DEF MoveInv, SiblingsMoveTogether, Alone
  <2>20. QED
    BY <2>15, <2>16, <2>17, <2>19 DEF DiscoverInv
<1>16. QED
  BY <1>1, <1>3, <1>5, <1>6, <1>13, <1>14, <1>15 DEF MoveScene

LEMMA MoveDetectionsStep ==
  ASSUME DiscoverInv, NEW c \in Callers, MoveDetections(c)
  PROVE  DiscoverInv'
<1>1. PICK a \in Adoption : a = adopt[c]
  BY DEF DiscoverInv, Types
<1>2. a.pc = "dets" /\ IsCase(a.target)
  BY <1>1 DEF MoveDetections, DiscoverInv, IdsInv
<1>3. a.target \in Nat /\ a.target \in DOMAIN invs
  BY <1>2, CaseNumbers DEF DiscoverInv, IsCase
<1>4. UNCHANGED <<now, listed, regionDoc, invs, scenes, tick, ingests, seen>>
      /\ adopt' = [adopt EXCEPT ![c] = NoAdopt]
  BY DEF MoveDetections
<1>5. PICK docs \in Seq(DetDoc) : docs = dets
  BY DEF DiscoverInv, Types
<1>6. PICK f : f = [k \in DOMAIN docs |-> IF docs[k].scene = a.scene THEN [docs[k] EXCEPT !.inv = a.target]
                                                                   ELSE docs[k]]
  OBVIOUS
<1>7. dets' = f
  BY <1>1, <1>5, <1>6 DEF MoveDetections
<1>8. \A k \in DOMAIN docs :
        /\ f[k] \in DetDoc /\ f[k].scene = docs[k].scene
        /\ docs[k].scene = a.scene => f[k].inv = a.target
        /\ docs[k].scene # a.scene => f[k] = docs[k]
  <2>1. ASSUME NEW k \in DOMAIN docs
        PROVE  /\ f[k] \in DetDoc /\ f[k].scene = docs[k].scene
               /\ docs[k].scene = a.scene => f[k].inv = a.target
               /\ docs[k].scene # a.scene => f[k] = docs[k]
    <3>1. PICK x \in DetDoc : x = docs[k]
      BY ElementOf
    <3>2. f[k] = IF x.scene = a.scene THEN [x EXCEPT !.inv = a.target] ELSE x
      BY <1>6, <3>1
    <3>3. QED
      BY <1>3, <3>1, <3>2 DEF DetDoc
  <2>2. QED
    BY <2>1
<1>9. f \in Seq(DetDoc) /\ DOMAIN f = DOMAIN docs
  <2>1. Len(docs) \in Nat /\ DOMAIN docs = 1 .. Len(docs)
    OBVIOUS
  <2>2. f \in [1 .. Len(docs) -> DetDoc]
    BY <1>6, <1>8, <2>1
  <2>3. f \in Seq(DetDoc)
    BY <2>1, <2>2, IsASeq
  <2>4. QED
    BY <1>6, <2>3
<1>10. /\ adopt' \in [Callers -> Adoption] /\ adopt'[c].pc = "idle"
       /\ \A k \in Callers : adopt'[k].pc # "idle" => k # c /\ adopt'[k] = adopt[k]
  BY <1>4, AdoptionEnds
<1>11. Wider /\ Kept
  BY <1>4, NothingSeen, KeptUnchanged DEF DiscoverInv
<1>12. RegionInv' /\ TickInv' /\ CoverInv' /\ Swept' = Swept /\ Containers' = Containers
  BY <1>4, <1>11, SweepRests
<1>13. IdsInv'
  <2>1. ASSUME NEW d \in DOMAIN f PROVE f[d].scene \in DOMAIN scenes /\ f[d].inv \in DOMAIN invs
    BY <1>3, <1>5, <1>8, <1>9 DEF DiscoverInv, IdsInv
  <2>2. QED
    BY <1>4, <1>7, <1>10, <1>12, <2>1 DEF DiscoverInv, IdsInv, IsCase
<1>15. MoveInv'
  <2>1. ASSUME NEW d \in DOMAIN f, f[d].scene \notin seen.mixed,
               \A k \in Callers : adopt'[k].pc = "dets" => adopt'[k].scene # f[d].scene
        PROVE  f[d].inv = scenes[f[d].scene].inv
    <3>1. CASE docs[d].scene = a.scene
      <4>1. scenes[a.scene].inv = a.target
        BY <1>1, <1>2, <1>8, <1>9, <2>1, <3>1 DEF DiscoverInv, MoveInv, Alone
      <4>2. QED
        BY <1>8, <1>9, <3>1, <4>1
    <3>2. CASE docs[d].scene # a.scene
      <4>1. ASSUME NEW k \in Callers, adopt[k].pc = "dets" PROVE adopt[k].scene # docs[d].scene
        <5>1. CASE k = c
          BY <1>1, <3>2, <5>1
        <5>2. CASE k # c
          BY <1>4, <1>8, <1>9, <2>1, <4>1, <5>2 DEF DiscoverInv, Types
        <5>3. QED
          BY <5>1, <5>2
      <4>2. QED
        BY <1>5, <1>8, <1>9, <2>1, <3>2, <4>1 DEF DiscoverInv, MoveInv, SiblingsMoveTogether
    <3>3. QED
      BY <3>1, <3>2
  <2>2. \A k \in Callers : Alone(k)'
    BY <1>4, <1>10 DEF DiscoverInv, MoveInv, Alone
  <2>3. QED
    BY <1>4, <1>7, <2>1, <2>2 DEF MoveInv, SiblingsMoveTogether
<1>16. Types'
  BY <1>4, <1>7, <1>9, <1>10 DEF DiscoverInv, Types
<1>17. QED
  BY <1>12, <1>13, <1>15, <1>16 DEF DiscoverInv

LEMMA BreaksStep ==
  ASSUME DiscoverInv, NEW c \in Callers, AdoptBreaks(c)
  PROVE  DiscoverInv'
<1>1. PICK a \in Adoption : a = adopt[c]
  BY DEF DiscoverInv, Types
<1>2. UNCHANGED <<now, listed, regionDoc, invs, scenes, dets, tick, ingests>>
      /\ adopt' = [adopt EXCEPT ![c] = NoAdopt]
  BY DEF AdoptBreaks, caseVars
<1>3. PICK h \in History : h = seen
  BY DEF DiscoverInv, Types
<1>4. PICK mixed : mixed = h.mixed \cup {a.scene}
  OBVIOUS
<1>5. seen' = [h EXCEPT !.mixed = mixed]
  BY <1>1, <1>3, <1>4 DEF AdoptBreaks
<1>6. seen' \in History /\ seen'.over = h.over /\ seen'.late = h.late
      /\ seen'.mixed = mixed /\ seen'.since = h.since
  BY <1>3, <1>4, <1>5 DEF History, Adoption
<1>7. /\ adopt' \in [Callers -> Adoption] /\ adopt'[c].pc = "idle"
      /\ \A k \in Callers : adopt'[k].pc # "idle" => k # c /\ adopt'[k] = adopt[k]
  BY <1>2, AdoptionEnds
<1>8. Wider /\ Kept
  <2>1. h.since \in [Regions -> Nat] /\ \A q \in Regions : h.since[q] >= h.since[q]
    BY <1>3 DEF History
  <2>2. QED
    BY <1>2, <1>3, <1>6, <2>1, KeptUnchanged DEF Wider, DiscoverInv, Types
<1>9. RegionInv' /\ TickInv' /\ CoverInv' /\ Swept' = Swept /\ Containers' = Containers
  BY <1>2, <1>8, SweepRests
<1>10. IdsInv'
  BY <1>2, <1>7, <1>9 DEF DiscoverInv, IdsInv, IsCase
<1>12. MoveInv'
  <2>1. ASSUME NEW d \in DOMAIN dets, dets[d].scene \notin mixed,
               \A k \in Callers : adopt'[k].pc = "dets" => adopt'[k].scene # dets[d].scene
        PROVE  dets[d].inv = scenes[dets[d].scene].inv
    <3>1. ASSUME NEW k \in Callers, adopt[k].pc = "dets" PROVE adopt[k].scene # dets[d].scene
      <4>1. CASE k = c
        BY <1>1, <1>4, <2>1, <4>1
      <4>2. CASE k # c
        BY <1>2, <2>1, <3>1, <4>2 DEF DiscoverInv, Types
      <4>3. QED
        BY <4>1, <4>2
    <3>2. QED
      BY <1>3, <1>4, <2>1, <3>1 DEF DiscoverInv, MoveInv, SiblingsMoveTogether
  <2>2. \A k \in Callers : Alone(k)'
    BY <1>2, <1>3, <1>4, <1>6, <1>7 DEF DiscoverInv, MoveInv, Alone
  <2>3. QED
    BY <1>2, <1>6, <2>1, <2>2 DEF MoveInv, SiblingsMoveTogether
<1>13. Types'
  BY <1>2, <1>6, <1>7 DEF DiscoverInv, Types
<1>14. QED
  BY <1>9, <1>10, <1>12, <1>13 DEF DiscoverInv

-----------------------------------------------------------------------------
(* The specification *)

LEMMA FirstInv == DiscoverInit => DiscoverInv
<1> SUFFICES ASSUME DiscoverInit PROVE DiscoverInv
  OBVIOUS
<1>1. now = 1 /\ listed = << >> /\ DOMAIN listed = {} /\ invs = << >> /\ scenes = << >> /\ dets = << >>
      /\ DOMAIN scenes = {} /\ DOMAIN dets = {} /\ ingests = {}
  BY DEF DiscoverInit
<1>2. PICK d : d = [container |-> NoOne, last |-> 0, passes |-> {}]
  OBVIOUS
<1>3. d \in [container : Nat \cup {NoOne}, last : Nat, passes : SUBSET Products] /\ d.container = NoOne /\ d.last = 0
      /\ d.passes = {}
  BY <1>2
<1>4. regionDoc \in [Regions -> [container : Nat \cup {NoOne}, last : Nat, passes : SUBSET Products]]
      /\ \A r \in Regions : regionDoc[r] = d
  BY <1>2, <1>3 DEF DiscoverInit
<1>5. Swept = {} /\ Containers = {}
  BY <1>3, <1>4 DEF Swept, Containers
<1>6. NoTick \in Tick /\ NoTick.pc = "idle" /\ NoTick.to = 0 /\ NoTick.items = {}
  BY DEF NoTick, Tick
<1>7. tick \in [Sweepers -> Tick] /\ \A s \in Sweepers : tick[s] = NoTick
  BY <1>6 DEF DiscoverInit
<1>8. adopt \in [Callers -> Adoption] /\ \A c \in Callers : adopt[c].pc = "idle"
  BY NoAdoptTyped DEF DiscoverInit
<1>9. PICK since : since = [r \in Regions |-> 0]
  OBVIOUS
<1>10. since \in [Regions -> Nat]
  BY <1>9
<1>11. seen = [over |-> {}, late |-> {}, mixed |-> {}, since |-> since]
  BY <1>9 DEF DiscoverInit
<1>12. seen \in History
  BY <1>10, <1>11 DEF History
<1>13. Types
  BY <1>1, <1>4, <1>7, <1>8, <1>12, FS_EmptySet DEF Types
<1>14. RegionInv
  BY <1>1, <1>3, <1>4, <1>5 DEF RegionInv
<1>15. TickInv
  <2>1. SUFFICES ASSUME NEW s \in Sweepers PROVE Fits(s, tick[s])
    BY DEF TickInv
  <2>2. PICK t : t = tick[s]
    OBVIOUS
  <2>3. t.pc = "idle" /\ t.to = 0 /\ t.items = {}
    BY <1>6, <1>7, <2>2
  <2>4. t.to <= now
    BY <1>1, <2>3
  <2>5. t.items \subseteq DOMAIN listed /\ Cardinality(t.items) <= SearchLimit
    BY <2>3, NoItems
  <2>6. Fits(s, t)
    BY <2>3, <2>4, <2>5 DEF Fits
  <2>7. QED
    BY <2>2, <2>6
<1>16. IdsInv /\ MoveInv
  BY <1>1, <1>3, <1>4, <1>8 DEF IdsInv, MoveInv, Alone, SiblingsMoveTogether
<1>17. CoverInv
  BY <1>1, <1>6, <1>7 DEF CoverInv, Covers
<1>18. QED
  BY <1>13, <1>14, <1>15, <1>16, <1>17 DEF DiscoverInv

LEMMA StutterStep ==
  ASSUME DiscoverInv, UNCHANGED discoverVars
  PROVE  DiscoverInv'
<1>1. UNCHANGED <<now, listed, regionDoc, invs, scenes, dets, tick, ingests, adopt, seen>>
  BY DEF discoverVars, caseVars
<1>2. Kept
  BY <1>1, KeptUnchanged DEF DiscoverInv
<1>3. QED
  BY <1>1, <1>2, CaseChanges

LEMMA NextStep ==
  ASSUME DiscoverInv, [DiscoverNext]_discoverVars
  PROVE  DiscoverInv'
<1>1. CASE Pass
  BY <1>1, PassStep
<1>2. ASSUME NEW p \in Products, NEW at \in 1 .. now, Publish(p, at) PROVE DiscoverInv'
  BY <1>2, PublishStep
<1>3. ASSUME NEW s \in Sweepers, NEW manual \in BOOLEAN,
             NEW rs \in {{r} : r \in Regions} \cup {Regions}, StartTick(s, rs, manual)
      PROVE  DiscoverInv'
  <2>1. rs \in SUBSET Regions
    OBVIOUS
  <2>2. QED
    BY <1>3, <2>1, StartStep
<1>4. ASSUME NEW s \in Sweepers, SweepStep(s) PROVE DiscoverInv'
  <2>1. ASSUME NEW r \in Regions, FindContainer(s, r) PROVE DiscoverInv'
    BY <2>1, FindStep
  <2>2. CASE ClaimRegion(s)
    BY <2>2, ClaimStep
  <2>3. CASE Search(s)
    BY <2>3, SearchStep
  <2>4. CASE MarkSwept(s)
    BY <2>4, MarkStep
  <2>5. CASE RecordOverpasses(s)
    BY <2>5, RecordStep
  <2>6. QED
    BY <1>4, <2>1, <2>2, <2>3, <2>4, <2>5 DEF SweepStep
<1>5. ASSUME NEW j \in ingests, IngestStep(j) PROVE DiscoverInv'
  BY <1>5, IngestSceneStep, IngestDoneStep, IngestDetectionStep DEF IngestStep
<1>6. ASSUME NEW u \in People, NEW i \in DOMAIN invs, DeleteCase(u, i) PROVE DiscoverInv'
  BY <1>6, DeleteStep
<1>7. ASSUME NEW u \in People, NEW i \in DOMAIN invs, NEW v \in People, AddPerson(u, i, v)
      PROVE  DiscoverInv'
  BY <1>7, AddPersonStep
<1>8. ASSUME NEW c \in Callers, NEW u \in People, NEW d \in DOMAIN dets,
             NEW target \in RealCases \cup {NoOne}, StartAdopt(c, u, d, target)
      PROVE  DiscoverInv'
  BY <1>8, StartAdoptStep
<1>9. ASSUME NEW c \in Callers, MoveScene(c) \/ MoveDetections(c) \/ AdoptBreaks(c) PROVE DiscoverInv'
  BY <1>9, MoveSceneStep, MoveDetectionsStep, BreaksStep
<1>10. CASE UNCHANGED discoverVars
  BY <1>10, StutterStep
<1>11. ASSUME NEW u \in People, NEW i \in DOMAIN invs, NEW p \in Products, AskIngest(u, i, p)
       PROVE  DiscoverInv'
  BY <1>11, AskIngestStep
<1>12. QED
  BY <1>1, <1>2, <1>3, <1>4, <1>5, <1>6, <1>7, <1>8, <1>9, <1>10, <1>11 DEF DiscoverNext

LEMMA DiscoverHolds == DiscoverSpec => []DiscoverInv
<1>1. DiscoverInv /\ [DiscoverNext]_discoverVars => DiscoverInv'
  BY NextStep
<1>2. QED
  BY <1>1, FirstInv, PTL DEF DiscoverSpec

-----------------------------------------------------------------------------
(* What Discover promises *)

\* sweep/service.ts: documents refer to documents there are, and no search returns more than
\* the provider's limit.
THEOREM DiscoverTypeCorrect == DiscoverSpec => []DiscoverTypeOK
<1>1. ASSUME DiscoverInv PROVE DiscoverTypeOK
  <2>1. Types /\ RegionInv /\ TickInv /\ IdsInv
    BY <1>1 DEF DiscoverInv
  <2>2. regionDoc \in [Regions -> [container : DOMAIN invs \cup {NoOne}, last : Nat,
                              passes : SUBSET DOMAIN listed]]
    <3>1. ASSUME NEW r \in Regions
          PROVE  regionDoc[r] \in [container : DOMAIN invs \cup {NoOne}, last : Nat,
                              passes : SUBSET DOMAIN listed]
      <4>1. PICK d \in [container : Nat \cup {NoOne}, last : Nat, passes : SUBSET Products] : d = regionDoc[r]
        BY <2>1 DEF Types
      <4>2. d.container = NoOne \/ d.container \in DOMAIN invs
        BY <2>1, <4>1 DEF RegionInv, Swept, IsContainer
      <4>3. d.passes \subseteq DOMAIN listed
        BY <2>1, <4>1 DEF IdsInv
      <4>4. QED
        BY <4>1, <4>2, <4>3
    <3>2. QED
      BY <2>1, <3>1 DEF Types
  <2>3. \A i \in DOMAIN invs : invs[i] \in CaseDoc
    BY <2>1, ElementOf DEF Types
  <2>4. \A i \in DOMAIN scenes : scenes[i] \in [product : Products, inv : DOMAIN invs]
    <3>1. ASSUME NEW i \in DOMAIN scenes PROVE scenes[i] \in [product : Products, inv : DOMAIN invs]
      <4>1. PICK x \in SceneDoc : x = scenes[i]
        BY <2>1, ElementOf DEF Types
      <4>2. x.inv \in DOMAIN invs
        BY <2>1, <4>1 DEF IdsInv
      <4>3. QED
        BY <4>1, <4>2 DEF SceneDoc
    <3>2. QED
      BY <3>1
  <2>5. \A d \in DOMAIN dets : dets[d] \in [scene : DOMAIN scenes, inv : DOMAIN invs, at : Regions]
    <3>1. ASSUME NEW d \in DOMAIN dets
          PROVE  dets[d] \in [scene : DOMAIN scenes, inv : DOMAIN invs, at : Regions]
      <4>1. PICK x \in DetDoc : x = dets[d]
        BY <2>1, ElementOf DEF Types
      <4>2. x.scene \in DOMAIN scenes /\ x.inv \in DOMAIN invs
        BY <2>1, <4>1 DEF IdsInv
      <4>3. QED
        BY <4>1, <4>2 DEF DetDoc
    <3>2. QED
      BY <3>1
  <2>6. ASSUME NEW s \in Sweepers
        PROVE  /\ tick[s].pc \in {"idle", "next", "claim", "search", "record", "mark"}
               /\ tick[s].items \subseteq DOMAIN listed
               /\ Cardinality(tick[s].items) <= SearchLimit
    BY <2>1 DEF Types, Tick, TickInv, Fits
  <2>7. \A j \in ingests : j.inv \in DOMAIN invs /\ j.scene \in DOMAIN scenes \cup {0}
    BY <2>1 DEF IdsInv
  <2>8. \A c \in Callers : adopt[c].pc # "idle" => adopt[c].scene \in DOMAIN scenes
    BY <2>1 DEF IdsInv
  <2>9. now \in Nat /\ DOMAIN listed \subseteq Products /\ \A p \in DOMAIN listed : listed[p] \in Nat
    BY <2>1 DEF Types
  <2>10. QED
    BY <2>2, <2>3, <2>4, <2>5, <2>6, <2>7, <2>8, <2>9 DEF DiscoverTypeOK, CaseDoc
<1>2. QED
  BY <1>1, DiscoverHolds, PTL

\* discover/service.ts, listDetections: what is listed is of a container or of a case its
\* reader may open and that is not deleted.
LEMMA Permitted == DiscoverInv => ListingIsPermitted
<1> SUFFICES ASSUME DiscoverInv, NEW u \in People, NEW rs \in {{r} : r \in Regions} \cup {Regions},
                    NEW x \in Listing(u, rs)
             PROVE  LET inv == scenes[dets[x.det].scene].inv
                    IN /\ inv \in Containers \/ (MayOpen(u, inv) /\ ~invs[inv].deleted)
                       /\ ~x.adopted => Adoptable(dets[x.det].scene)
  BY DEF ListingIsPermitted
<1>1. PICK own : own = {regionDoc[r].container : r \in rs \cap Swept}
  OBVIOUS
<1>2. own \subseteq Containers
  BY <1>1 DEF Containers
<1>3. PICK d \in DOMAIN dets : /\ scenes[dets[d].scene].inv \in Visible(u, own)
                               /\ x = [det |-> d, adopted |-> scenes[dets[d].scene].inv \notin own]
  BY <1>1 DEF Listing
<1>4. PICK inv : inv = scenes[dets[d].scene].inv
  OBVIOUS
<1>5. x.det = d /\ x.adopted = (inv \notin own) /\ inv \in Visible(u, own)
  BY <1>3, <1>4
<1>6. inv \in Containers \/ (MayOpen(u, inv) /\ ~invs[inv].deleted)
  BY <1>2, <1>5 DEF Visible, MayOpen
<1>7. ~x.adopted => inv \in Containers
  BY <1>2, <1>5
<1>8. QED
  BY <1>4, <1>5, <1>6, <1>7 DEF Adoptable

\* sweep/service.ts, discover/service.ts: however ticks, ingests, adoptions and deletions
\* overlap or break off, nothing listed in time between the marks of a region is missing from
\* its record, a scene is adopted with all its detections, and a listing agrees with what is
\* permitted.
THEOREM DiscoverCorrect == DiscoverSpec => []DiscoverIsHonest
<1>1. DiscoverInv => MarkCoversRecord
  <2> SUFFICES ASSUME DiscoverInv, NEW r \in Swept, NEW p \in DOMAIN listed,
                      p \notin seen.late, listed[p] >= seen.since[r], listed[p] < regionDoc[r].last
               PROVE  p \in regionDoc[r].passes \/ <<r, p>> \in seen.over \/ TooOld(p)
    BY DEF MarkCoversRecord
  <2>1. Covers(r, regionDoc[r].last, {})
    BY DEF DiscoverInv, CoverInv, Swept
  <2>2. QED
    BY <2>1 DEF Covers
<1>2. DiscoverInv => DiscoverIsHonest
  BY <1>1, Permitted DEF DiscoverIsHonest, DiscoverInv, MoveInv
<1>3. QED
  BY <1>2, DiscoverHolds, PTL

================================================================================
