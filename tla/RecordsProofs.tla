--------------------------- MODULE RecordsProofs ----------------------------
(***************************************************************************)
(* What holds for all files, workers, readers, figures and bounds of the   *)
(* records the platform keeps of the sea and of its own findings: the AIS  *)
(* archive holds what its import counted and what its cache answers is of  *)
(* it, a report that is served is the current one, the brief says what the *)
(* dossier says, and the score of a detector is of places it has not seen. *)
(***************************************************************************)
EXTENDS AisArchive, Reports, ReportText, Evaluation, TLAPS, FiniteSetTheorems, SequenceTheorems, WellFoundedInduction

-----------------------------------------------------------------------------
(* First and last of some numbers *)

\* A set of numbers that is not empty has a first one, which is what Min chooses.
LEMMA FirstOf ==
  ASSUME NEW S \in SUBSET Nat, S # {}
  PROVE  /\ Min(S) \in S
         /\ \A l \in S : Min(S) <= l
<1>1. PICK m \in S : \A l \in S : ~ (<<l, m>> \in OpToRel(<, Nat))
  BY WFMin, NatLessThanWellFounded
<1>2. \A l \in S : ~ (l < m)
  BY <1>1 DEF OpToRel
<1>3. \A l \in S : m =< l
  BY <1>2
<1> QED
  BY <1>3 DEF Min

\* And one that is bounded a last one, which is what Max chooses.
LEMMA LastOf ==
  ASSUME NEW n \in Nat, NEW S \in SUBSET (0 .. n), S # {}
  PROVE  /\ Max(S) \in S
         /\ \A l \in S : l <= Max(S)
<1> DEFINE D == {d \in Nat : n - d \in S}
<1>1. D # {}
  <2>1. PICK k \in S : TRUE
    OBVIOUS
  <2>2. n - k \in Nat /\ n - (n - k) = k
    BY <2>1
  <2> QED
    BY <2>1, <2>2
<1>2. PICK d \in D : \A e \in D : d <= e
  <2> HIDE DEF D
  <2>1. D \in SUBSET Nat
    BY DEF D
  <2> QED
    BY <1>1, <2>1, FirstOf
<1>3. \A l \in S : l <= n - d
  <2> TAKE l \in S
  <2>1. n - l \in D /\ l \in Nat
    BY DEF D
  <2>2. d <= n - l /\ d \in Nat
    BY <1>2, <2>1
  <2> QED
    BY <2>1, <2>2
<1>4. n - d \in S /\ \A y \in S : n - d >= y
  BY <1>2, <1>3
<1>5. Max(S) \in S /\ \A y \in S : Max(S) >= y
  BY <1>4 DEF Max
<1> QED
  BY <1>5

-----------------------------------------------------------------------------
(* The archive: its inductive invariant *)

Lines == 1 .. Len(File)

AisTypes ==
  /\ archive \in [Fixes -> Nat]
  /\ import \in [Imports -> [pc : {"idle", "rows"}, slice : Int \X Int, next : 0 .. Len(File),
                             proc : Importers \cup Apis \cup {"none"}, alone : BOOLEAN]]
  /\ read \in [Readers -> [pc : {"idle", "query"}, slice : Int \X Int, proc : Apis \cup {"none"},
                           rows : [Fixes -> Nat], began : Nat, raced : BOOLEAN]]
  /\ \A i \in Imports : import[i].pc = "rows" => import[i].slice \in Slices
  /\ \A r \in Readers : read[r].pc = "query" => read[r].slice \in Slices /\ read[r].proc \in Apis
  /\ minute \in Nat \ {0}
  /\ history \in [writes : Nat, cleared : [Apis -> Nat], whole : SUBSET Slices]

\* The cache of a process holds at most MaxEntries answers, each of a slice.
CacheTypes ==
  /\ trackCache = [p \in Apis |-> trackCache[p]]
  /\ \A p \in Apis :
       /\ DOMAIN trackCache[p] \subseteq Slices
       /\ IsFiniteSet(DOMAIN trackCache[p])
       /\ Cardinality(DOMAIN trackCache[p]) <= MaxEntries
       /\ \A s \in DOMAIN trackCache[p] :
            trackCache[p][s].at \in 1 .. minute /\ trackCache[p][s].began \in Nat

\* An import that nobody overlaps has stored each of the fixes it has come to once, and
\* what it cleared of the others is still cleared.
Come(m, f) == \E k \in RowsTaken[m.slice] : k <= m.next /\ File[k] = f
AloneInv ==
  \A i \in Imports : import[i].pc = "rows" /\ import[i].alone =>
    /\ \A j \in Imports \ {i} : import[j].pc = "rows" => ~Overlap(import[j].slice, import[i].slice)
    /\ \A f \in Expected(import[i].slice) : archive[f] = IF Come(import[i], f) THEN 1 ELSE 0

\* A slice that is whole is stored once, and no import is at work on it.
WholeInv ==
  \A s \in history.whole :
    /\ \A i \in Imports : import[i].pc = "rows" => ~Overlap(import[i].slice, s)
    /\ \A f \in Expected(s) : archive[f] = 1

\* What was read before the cache was cleared is known to have raced.
ReadInv ==
  /\ \A p \in Apis : history.cleared[p] <= history.writes
  /\ \A r \in Readers : read[r].pc = "query" =>
       read[r].began >= history.cleared[read[r].proc] \/ read[r].raced
  /\ CacheSeesOwnImports

ArchiveInv == AisTypes /\ CacheTypes /\ AloneInv /\ WholeInv /\ ReadInv

-----------------------------------------------------------------------------
(* Lines, windows and batches *)

LEMMA LineTypes ==
  /\ Len(File) \in Nat /\ DOMAIN File = Lines
  /\ \A k \in Lines : File[k] \in [mmsi : STRING, t : Int, x : Int]
  /\ \A f \in Fixes : f.t \in Int /\ f.x \in Int
  /\ \A f \in Fixes : \E k \in Lines : File[k] = f
  /\ \A s \in Slices : s[1] \in Int /\ s[2] \in Int
  /\ BatchSize \in Nat \ {0} /\ MaxEntries \in Nat
<1>1. File \in Seq([mmsi : STRING, t : Int, x : Int])
  BY AisAssumption
<1>2. Len(File) \in Nat /\ DOMAIN File = Lines
  BY <1>1 DEF Lines
<1>3. \A k \in Lines : File[k] \in [mmsi : STRING, t : Int, x : Int]
  BY <1>1, ElementOfSeq DEF Lines
<1>4. \A f \in Fixes : \E k \in Lines : File[k] = f
  BY <1>2 DEF Fixes
<1>5. \A f \in Fixes : f.t \in Int /\ f.x \in Int
  BY <1>3, <1>4
<1>6. \A s \in Slices : s[1] \in Int /\ s[2] \in Int
  BY AisAssumption
<1> QED
  BY <1>2, <1>3, <1>4, <1>5, <1>6, AisAssumption

LEMMA LineNumbers ==
  /\ Len(File) \in Nat /\ DOMAIN File = Lines /\ IsFiniteSet(Lines)
  /\ \A k \in Lines : k \in Nat /\ k >= 1 /\ k <= Len(File)
  /\ \A k \in Nat : k >= 1 /\ k <= Len(File) => k \in Lines
  /\ BatchSize \in Nat \ {0}
<1>1. Len(File) \in Nat /\ DOMAIN File = Lines /\ BatchSize \in Nat \ {0}
  BY LineTypes
<1>2. IsFiniteSet(Lines)
  BY <1>1, FS_Interval DEF Lines
<1> QED
  BY <1>1, <1>2 DEF Lines

\* Windows that share a fix overlap.
LEMMA SharedOverlap ==
  ASSUME NEW s \in Slices, NEW z \in Slices, NEW f \in Fixes, InWindow(f, s), InWindow(f, z)
  PROVE  Overlap(s, z) /\ Overlap(z, s)
  BY LineTypes DEF InWindow, Overlap

LEMMA RowsAreLines ==
  ASSUME NEW s \in Slices
  PROVE  /\ RowsTaken[s] \subseteq Lines
         /\ \A k \in RowsTaken[s] : File[k] \in Fixes /\ InWindow(File[k], s) /\ File[k].x \in Box
         /\ \A j, k \in RowsTaken[s] : File[j] = File[k] => j = k
<1>1. RowsTaken[s] = {k \in DOMAIN File :
        /\ File[k] \in Fixes
        /\ InWindow(File[k], s)
        /\ File[k].x \in Box
        /\ \A j \in 1 .. k - 1 : File[j] # File[k]}
  BY DEF RowsTaken
<1>2. RowsTaken[s] \subseteq Lines
  BY <1>1, LineTypes
<1>3. \A j, k \in RowsTaken[s] : j < k => File[j] # File[k]
  <2> TAKE j, k \in RowsTaken[s]
  <2> HAVE j < k
  <2>1. j \in 1 .. k - 1
    BY <1>2 DEF Lines
  <2> QED
    BY <1>1, <2>1
<1>4. \A j, k \in RowsTaken[s] : File[j] = File[k] => j = k
  BY <1>2, <1>3 DEF Lines
<1> QED
  BY <1>1, <1>2, <1>4

\* What the slice is expected to hold is taken from the first line that says it.
LEMMA RowsAreAll ==
  ASSUME NEW s \in Slices, NEW f \in Expected(s)
  PROVE  \E k \in RowsTaken[s] : File[k] = f
<1> DEFINE S == {k \in Lines : File[k] = f}
<1>1. f \in Fixes /\ InWindow(f, s) /\ f.x \in Box
  BY DEF Expected
<1>2. S # {} /\ S \in SUBSET Nat
  <2>1. S # {}
    BY <1>1, LineTypes
  <2> QED
    BY <2>1, LineNumbers
<1>3. PICK k \in S : \A l \in S : k <= l
  <2> HIDE DEF S
  <2> QED
    BY <1>2, FirstOf
<1>4. \A j \in 1 .. k - 1 : File[j] # File[k]
  <2> TAKE j \in 1 .. k - 1
  <2>1. j \in Lines /\ ~(k <= j)
    BY <1>3, LineNumbers
  <2> QED
    BY <1>3, <2>1
<1>5. k \in RowsTaken[s]
  BY <1>1, <1>3, <1>4, LineTypes DEF RowsTaken
<1> QED
  BY <1>3, <1>5

\* Inserting lines stores each of their fixes once more.
LEMMA Inserted ==
  ASSUME NEW s \in Slices, NEW ks \in SUBSET RowsTaken[s], archive \in [Fixes -> Nat]
  PROVE  /\ Insert(ks) \in [Fixes -> Nat]
         /\ \A f \in Fixes :
              Insert(ks)[f] = archive[f] + IF \E k \in ks : File[k] = f THEN 1 ELSE 0
<1>1. \A f \in Fixes :
        Cardinality({k \in ks : File[k] = f}) = IF \E k \in ks : File[k] = f THEN 1 ELSE 0
  <2> TAKE f \in Fixes
  <2>1. CASE \E k \in ks : File[k] = f
    <3>1. PICK k \in ks : File[k] = f
      BY <2>1
    <3>2. {j \in ks : File[j] = f} = {k}
      BY <3>1, RowsAreLines
    <3> QED
      BY <2>1, <3>2, FS_Singleton
  <2>2. CASE ~ \E k \in ks : File[k] = f
    <3>1. {j \in ks : File[j] = f} = {}
      BY <2>2
    <3> QED
      BY <2>2, <3>1, FS_EmptySet
  <2> QED
    BY <2>1, <2>2
<1>2. \A f \in Fixes : Insert(ks)[f] = archive[f] + Cardinality({k \in ks : File[k] = f})
  BY DEF Insert
<1>3. \A f \in Fixes :
        Insert(ks)[f] = archive[f] + IF \E k \in ks : File[k] = f THEN 1 ELSE 0
  BY <1>1, <1>2
<1>4. \A f \in Fixes : Insert(ks)[f] \in Nat
  BY <1>3
<1>5. Insert(ks) = [f \in Fixes |-> Insert(ks)[f]]
  BY DEF Insert
<1> QED
  BY <1>3, <1>4, <1>5

\* They are fixes of the window, so another one does not notice.
LEMMA InsertedElsewhere ==
  ASSUME NEW s \in Slices, NEW ks \in SUBSET RowsTaken[s], archive \in [Fixes -> Nat],
         NEW z \in Slices, ~Overlap(s, z)
  PROVE  \A f \in Expected(z) : Insert(ks)[f] = archive[f]
<1> TAKE f \in Expected(z)
<1>1. f \in Fixes /\ InWindow(f, z)
  BY DEF Expected
<1>2. ~ \E k \in ks : File[k] = f
  BY <1>1, RowsAreLines, SharedOverlap
<1> QED
  BY <1>1, <1>2, Inserted

\* The next batch is what is unread up to its last line, and empty only at the end.
LEMMA BatchIsNext ==
  ASSUME NEW m, m.slice \in Slices, m.next \in 0 .. Len(File)
  PROVE  /\ NextBatch(m) \subseteq Unread(m)
         /\ Unread(m) \subseteq RowsTaken[m.slice]
         /\ NextBatch(m) # {} =>
              /\ Max(NextBatch(m)) \in NextBatch(m)
              /\ \A k \in Unread(m) : k <= Max(NextBatch(m)) <=> k \in NextBatch(m)
         /\ NextBatch(m) = {} => Unread(m) = {}
<1> DEFINE U == Unread(m)
           upto(k) == {j \in U : j <= k}
<1>1. NextBatch(m) = {k \in U : Cardinality(upto(k)) <= BatchSize}
  BY DEF NextBatch
<1>2. U \subseteq RowsTaken[m.slice] /\ U \subseteq Lines
  BY RowsAreLines DEF Unread
<1> HIDE DEF U
<1>3. IsFiniteSet(U)
  BY <1>2, LineNumbers, FS_Subset
<1>4. ASSUME NEW j \in U, NEW k \in U, j <= k, k \in NextBatch(m) PROVE j \in NextBatch(m)
  <2>1. upto(j) \in SUBSET upto(k)
    <3> SUFFICES ASSUME NEW l \in U, l <= j PROVE l <= k
      OBVIOUS
    <3>1. l \in Nat /\ j \in Nat /\ k \in Nat
      BY <1>2, LineNumbers
    <3> QED
      BY <1>4, <3>1
  <2>2. IsFiniteSet(upto(k)) /\ IsFiniteSet(upto(j))
    BY <1>3, FS_Subset
  <2>3. Cardinality(upto(j)) <= Cardinality(upto(k))
    BY <2>1, <2>2, FS_Subset
  <2>4. Cardinality(upto(j)) \in Nat /\ Cardinality(upto(k)) \in Nat
    BY <2>2, FS_CardinalityType
  <2> QED
    BY <1>1, <1>4, <2>3, <2>4, LineNumbers
<1>5. NextBatch(m) \subseteq U
  BY <1>1
<1>6. ASSUME NextBatch(m) # {}
      PROVE  /\ Max(NextBatch(m)) \in NextBatch(m)
             /\ \A k \in U : k <= Max(NextBatch(m)) <=> k \in NextBatch(m)
  <2>1. NextBatch(m) \in SUBSET (0 .. Len(File))
    BY <1>2, <1>5, LineNumbers
  <2>2. Max(NextBatch(m)) \in NextBatch(m) /\ \A l \in NextBatch(m) : l <= Max(NextBatch(m))
    BY <1>6, <2>1, LineNumbers, LastOf
  <2> QED
    BY <1>4, <1>5, <2>2
<1>7. ASSUME U # {} PROVE NextBatch(m) # {}
  <2>1. U \in SUBSET Nat
    BY <1>2, LineNumbers
  <2>2. PICK k \in U : \A l \in U : k <= l
    BY <1>7, <2>1, FirstOf
  <2>3. \A l \in U : l <= k <=> l = k
    BY <2>1, <2>2
  <2>5. upto(k) = {k}
    BY <2>2, <2>3
  <2>4. Cardinality(upto(k)) = 1
    BY <2>5, FS_Singleton
  <2> QED
    BY <1>1, <2>2, <2>4, LineNumbers
<1> QED
  BY <1>2, <1>5, <1>6, <1>7 DEF U

-----------------------------------------------------------------------------
(* Types *)

ImportType == [pc : {"idle", "rows"}, slice : Int \X Int, next : 0 .. Len(File),
               proc : Importers \cup Apis \cup {"none"}, alone : BOOLEAN]
ReadType   == [pc : {"idle", "query"}, slice : Int \X Int, proc : Apis \cup {"none"},
               rows : [Fixes -> Nat], began : Nat, raced : BOOLEAN]

LEMMA RestTypes == NoImport \in ImportType /\ NoRead \in ReadType
  BY LineNumbers DEF NoImport, NoRead, ImportType, ReadType

LEMMA InitArchive == AisInit => ArchiveInv
<1> SUFFICES ASSUME AisInit PROVE ArchiveInv
  OBVIOUS
<1>1. AisTypes
  <2>1. import \in [Imports -> ImportType] /\ read \in [Readers -> ReadType]
    BY RestTypes DEF AisInit
  <2>2. archive \in [Fixes -> Nat] /\ minute \in Nat \ {0}
    BY DEF AisInit
  <2>3. history \in [writes : Nat, cleared : [Apis -> Nat], whole : SUBSET Slices]
    BY DEF AisInit
  <2>4. /\ \A i \in Imports : import[i].pc # "rows"
        /\ \A r \in Readers : read[r].pc # "query"
    BY DEF AisInit, NoImport, NoRead
  <2> QED
    BY <2>1, <2>2, <2>3, <2>4 DEF AisTypes, ImportType, ReadType
<1>2. /\ \A i \in Imports : import[i].pc # "rows"
      /\ \A r \in Readers : read[r].pc # "query"
  BY DEF AisInit, NoImport, NoRead
<1>3. \A p \in Apis : DOMAIN trackCache[p] = {}
  BY DEF AisInit
<1>4. CacheTypes
  <2>1. trackCache = [p \in Apis |-> trackCache[p]]
    BY DEF AisInit
  <2>2. IsFiniteSet({}) /\ Cardinality({}) <= MaxEntries
    BY LineTypes, FS_EmptySet
  <2> QED
    BY <1>3, <2>1, <2>2 DEF CacheTypes
<1>5. AloneInv /\ WholeInv
  BY <1>2 DEF AloneInv, WholeInv, AisInit
<1>6. ReadInv
  BY <1>2, <1>3 DEF ReadInv, CacheSeesOwnImports, AisInit
<1> QED
  BY <1>1, <1>4, <1>5, <1>6 DEF ArchiveInv

\* What an import has left to insert is of its slice.
LEMMA BatchOf ==
  ASSUME AisTypes, NEW i \in Imports, import[i].pc = "rows"
  PROVE  /\ import[i].slice \in Slices /\ import[i].next \in 0 .. Len(File)
         /\ NextBatch(import[i]) \in SUBSET RowsTaken[import[i].slice]
         /\ RowsTaken[import[i].slice] \subseteq Lines
<1>1. import[i].slice \in Slices /\ import[i].next \in 0 .. Len(File)
  BY DEF AisTypes
<1> QED
  BY <1>1, BatchIsNext, RowsAreLines

LEMMA AisTypesStep ==
  ASSUME AisTypes, [AisNext]_aisVars
  PROVE  AisTypes'
<1>0. /\ archive \in [Fixes -> Nat]
      /\ import \in [Imports -> ImportType]
      /\ read \in [Readers -> ReadType]
      /\ \A i \in Imports : import[i].pc = "rows" => import[i].slice \in Slices
      /\ \A r \in Readers : read[r].pc = "query" => read[r].slice \in Slices /\ read[r].proc \in Apis
      /\ minute \in Nat \ {0}
      /\ history \in [writes : Nat, cleared : [Apis -> Nat], whole : SUBSET Slices]
  BY DEF AisTypes, ImportType, ReadType
<1>00. AisTypes' <=>
      /\ archive' \in [Fixes -> Nat]
      /\ import' \in [Imports -> ImportType]
      /\ read' \in [Readers -> ReadType]
      /\ \A i \in Imports : import'[i].pc = "rows" => import'[i].slice \in Slices
      /\ \A r \in Readers : read'[r].pc = "query" => read'[r].slice \in Slices /\ read'[r].proc \in Apis
      /\ minute' \in Nat \ {0}
      /\ history' \in [writes : Nat, cleared : [Apis -> Nat], whole : SUBSET Slices]
  BY DEF AisTypes, ImportType, ReadType
<1>000. NoImport.pc # "rows" /\ NoRead.pc # "query"
  BY DEF NoImport, NoRead
<1>1. ASSUME NEW i \in Imports, NEW p \in Importers \cup Apis, NEW s \in Slices, StartImport(i, p, s)
      PROVE  AisTypes'
  <2>1. archive' \in [Fixes -> Nat]
    BY <1>0, <1>1 DEF StartImport, Clear
  <2>2. /\ import' \in [Imports -> ImportType]
        /\ \A j \in Imports : import'[j].pc = "rows" => import'[j].slice \in Slices
    <3> DEFINE new == [pc |-> "rows", slice |-> s, next |-> 0, proc |-> p, alone |-> Busy(s) = {}]
    <3>1. new \in ImportType /\ new.slice \in Slices
      BY AisAssumption, LineNumbers DEF ImportType
    <3>2. \A j \in Imports : [import[j] EXCEPT !.alone = FALSE] \in ImportType
                             /\ [import[j] EXCEPT !.alone = FALSE].pc = import[j].pc
                             /\ [import[j] EXCEPT !.alone = FALSE].slice = import[j].slice
      BY <1>0 DEF ImportType
    <3>3. \A j \in Imports : import'[j] \in {new, [import[j] EXCEPT !.alone = FALSE], import[j]}
      BY <1>1 DEF StartImport
    <3>4. import' = [j \in Imports |-> import'[j]]
      BY <1>1 DEF StartImport
    <3> HIDE DEF new
    <3>5. \A j \in Imports : import'[j] \in ImportType
      BY <1>0, <3>1, <3>2, <3>3
    <3>6. \A j \in Imports : import'[j].pc = "rows" => import'[j].slice \in Slices
      <4> SUFFICES ASSUME NEW j \in Imports, import'[j].pc = "rows" PROVE import'[j].slice \in Slices
        OBVIOUS
      <4>1. CASE import'[j] = new
        BY <3>1, <4>1
      <4>2. CASE import'[j] = [import[j] EXCEPT !.alone = FALSE]
        BY <1>0, <3>2, <4>2
      <4>3. CASE import'[j] = import[j]
        BY <1>0, <4>3
      <4> QED
        BY <3>3, <4>1, <4>2, <4>3
    <3> QED
      BY <3>4, <3>5, <3>6
  <2>3. history' \in [writes : Nat, cleared : [Apis -> Nat], whole : SUBSET Slices]
    <3>1. {z \in history.whole : ~Overlap(z, s)} \in SUBSET Slices /\ history.writes + 1 \in Nat
      BY <1>0
    <3>2. history' = [history EXCEPT !.writes = history.writes + 1, !.whole = {z \in history.whole : ~Overlap(z, s)}]
      BY <1>1 DEF StartImport
    <3> QED
      BY <1>0, <3>1, <3>2
  <2> QED
    BY <1>0, <1>00, <1>1, <2>1, <2>2, <2>3 DEF StartImport
<1>2. ASSUME NEW i \in Imports, Flush(i)
      PROVE  AisTypes'
  <2>1. import[i].pc = "rows" /\ NextBatch(import[i]) # {}
    BY <1>2 DEF Flush
  <2>2. /\ NextBatch(import[i]) \in SUBSET RowsTaken[import[i].slice]
        /\ import[i].slice \in Slices
        /\ Max(NextBatch(import[i])) \in 0 .. Len(File)
    <3>1. Max(NextBatch(import[i])) \in Lines
      BY <2>1, BatchOf, BatchIsNext
    <3>2. Max(NextBatch(import[i])) \in 0 .. Len(File)
      BY <3>1, LineNumbers
    <3> QED
      BY <2>1, <3>2, BatchOf
  <2>3. archive' \in [Fixes -> Nat]
    BY <1>0, <1>2, <2>2, Inserted DEF Flush
  <2>4. import' = [import EXCEPT ![i].next = Max(NextBatch(import[i]))]
    BY <1>2 DEF Flush
  <2>5. /\ import' \in [Imports -> ImportType]
        /\ \A j \in Imports : import'[j].pc = import[j].pc /\ import'[j].slice = import[j].slice
    <3> DEFINE n == Max(NextBatch(import[i]))
    <3>1. n \in 0 .. Len(File) /\ import' = [import EXCEPT ![i].next = n]
      BY <2>2, <2>4
    <3> HIDE DEF n
    <3>2. \A j \in Imports : import'[j] \in ImportType /\ import'[j].pc = import[j].pc /\ import'[j].slice = import[j].slice
      BY <1>0, <3>1 DEF ImportType
    <3> QED
      BY <1>0, <3>1, <3>2
  <2>6. history' \in [writes : Nat, cleared : [Apis -> Nat], whole : SUBSET Slices]
    BY <1>0, <1>2 DEF Flush
  <2> QED
    BY <1>0, <1>00, <1>2, <2>3, <2>5, <2>6 DEF Flush
<1>3. ASSUME NEW r \in Readers, NEW p \in Apis, NEW s \in Slices, AskTracks(r, p, s)
      PROVE  AisTypes'
  <2>1. [pc |-> "query", slice |-> s, proc |-> p, rows |-> Rows(s), began |-> history.writes, raced |-> FALSE] \in ReadType
    <3>1. Rows(s) \in [Fixes -> Nat]
      BY <1>0 DEF Rows
    <3>2. s \in Int \X Int /\ history.writes \in Nat
      BY <1>0, AisAssumption
    <3> QED
      BY <3>1, <3>2 DEF ReadType
  <2>2. /\ read' \in [Readers -> ReadType]
        /\ \A q \in Readers : read'[q].pc = "query" => read'[q].slice \in Slices /\ read'[q].proc \in Apis
    BY <1>0, <1>3, <2>1 DEF AskTracks
  <2> QED
    BY <1>0, <1>00, <1>3, <2>2 DEF AskTracks
<1>4. ASSUME NEW r \in Readers, StoreTracks(r)
      PROVE  AisTypes'
  BY <1>0, <1>00, <1>000, <1>4, RestTypes DEF StoreTracks
<1>5. ASSUME AMinute
      PROVE  AisTypes'
  BY <1>0, <1>00, <1>5 DEF AMinute
<1>6. ASSUME NEW i \in Imports, FinishImport(i)
      PROVE  AisTypes'
  <2>1. /\ import' \in [Imports -> ImportType]
        /\ \A j \in Imports : import'[j].pc = "rows" => import'[j].slice \in Slices
    BY <1>0, <1>000, <1>6, RestTypes DEF FinishImport
  <2>2. /\ read' \in [Readers -> ReadType]
        /\ \A r \in Readers : read'[r].pc = read[r].pc /\ read'[r].slice = read[r].slice /\ read'[r].proc = read[r].proc
    <3>1. \A r \in Readers : LET q == [read[r] EXCEPT !.raced = TRUE] IN
            q \in ReadType /\ q.pc = read[r].pc /\ q.slice = read[r].slice /\ q.proc = read[r].proc
      BY <1>0 DEF ReadType
    <3>2. /\ read' = [r \in Readers |-> read'[r]]
          /\ \A r \in Readers : read'[r] = [read[r] EXCEPT !.raced = TRUE] \/ read'[r] = read[r]
      BY <1>6 DEF FinishImport
    <3>3. \A r \in Readers : /\ read'[r] \in ReadType /\ read'[r].pc = read[r].pc
                             /\ read'[r].slice = read[r].slice /\ read'[r].proc = read[r].proc
      BY <1>0, <3>1, <3>2
    <3> QED
      BY <3>2, <3>3
  <2>3. history' \in [writes : Nat, cleared : [Apis -> Nat], whole : SUBSET Slices]
    <3>1. import[i].slice \in Slices
      BY <1>0, <1>6 DEF FinishImport
    <3> QED
      BY <1>0, <1>6, <3>1 DEF FinishImport
  <2> QED
    BY <1>0, <1>00, <1>6, <2>1, <2>2, <2>3 DEF FinishImport
<1>7. ASSUME NEW i \in Imports, ImporterDies(i)
      PROVE  AisTypes'
  <2>1. import[i].pc = "rows"
    BY <1>7 DEF ImporterDies
  <2>2. PICK part \in SUBSET NextBatch(import[i]) : archive' = Insert(part)
    BY <1>7 DEF ImporterDies
  <2>3. archive' \in [Fixes -> Nat]
    BY <1>0, <2>1, <2>2, BatchOf, Inserted
  <2>4. /\ import' \in [Imports -> ImportType]
        /\ \A j \in Imports : import'[j].pc = "rows" => import'[j].slice \in Slices
    BY <1>0, <1>000, <1>7, RestTypes DEF ImporterDies
  <2>5. /\ read' \in [Readers -> ReadType]
        /\ \A r \in Readers : read'[r].pc = "query" => read'[r].slice \in Slices /\ read'[r].proc \in Apis
    BY <1>0, <1>000, <1>7, RestTypes DEF ImporterDies
  <2>6. history' \in [writes : Nat, cleared : [Apis -> Nat], whole : SUBSET Slices]
    <3>1. history' = [history EXCEPT !.writes = history.writes + 1] /\ history.writes + 1 \in Nat
      BY <1>0, <1>7 DEF ImporterDies
    <3> QED
      BY <1>0, <3>1
  <2> QED
    BY <1>0, <1>00, <1>7, <2>3, <2>4, <2>5, <2>6 DEF ImporterDies
<1>8. CASE UNCHANGED aisVars
  BY <1>8 DEF aisVars, AisTypes
<1> QED
  BY <1>1, <1>2, <1>3, <1>4, <1>5, <1>6, <1>7, <1>8 DEF AisNext

-----------------------------------------------------------------------------
(* The cache *)

\* One more entry, and the oldest away if that is one too many.
LEMMA EvictedFits ==
  ASSUME NEW cache, IsFiniteSet(DOMAIN cache), Cardinality(DOMAIN cache) <= MaxEntries + 1,
         NEW c \in Evicted(cache)
  PROVE  /\ DOMAIN c \subseteq DOMAIN cache
         /\ IsFiniteSet(DOMAIN c) /\ Cardinality(DOMAIN c) <= MaxEntries
         /\ \A s \in DOMAIN c : c[s] = cache[s]
<1>0. Cardinality(DOMAIN cache) \in Nat /\ MaxEntries \in Nat
  BY FS_CardinalityType, LineTypes
<1>1. CASE Cardinality(DOMAIN cache) <= MaxEntries
  BY <1>1 DEF Evicted
<1>2. CASE ~(Cardinality(DOMAIN cache) <= MaxEntries)
  <2>1. PICK s \in DOMAIN cache : c = Restrict(cache, DOMAIN cache \ {s})
    BY <1>2 DEF Evicted
  <2>2. DOMAIN c = DOMAIN cache \ {s} /\ \A z \in DOMAIN c : c[z] = cache[z]
    BY <2>1 DEF Restrict
  <2>3. IsFiniteSet(DOMAIN cache \ {s}) /\ Cardinality(DOMAIN cache \ {s}) = Cardinality(DOMAIN cache) - 1
    BY FS_RemoveElement
  <2> QED
    BY <1>0, <2>2, <2>3
<1> QED
  BY <1>1, <1>2

LEMMA CacheStep ==
  ASSUME AisTypes, CacheTypes, ReadInv, [AisNext]_aisVars
  PROVE  CacheTypes' /\ CacheSeesOwnImports'
<1>0. /\ history \in [writes : Nat, cleared : [Apis -> Nat], whole : SUBSET Slices]
      /\ \A p \in Apis : history.cleared[p] \in Nat
      /\ minute \in Nat \ {0} /\ MaxEntries \in Nat
      /\ CacheSeesOwnImports
  BY LineTypes DEF AisTypes, ReadInv
<1>00. IsFiniteSet({}) /\ Cardinality({}) <= MaxEntries
  BY <1>0, FS_EmptySet
\* Where a process loses its cache, or keeps it.
<1>1. ASSUME NEW proc, trackCache' = [p \in Apis |-> IF p = proc THEN << >> ELSE trackCache[p]],
             minute' = minute, \A p \in Apis \ {proc} : history'.cleared[p] = history.cleared[p]
      PROVE  CacheTypes' /\ CacheSeesOwnImports'
  <2>1. \A p \in Apis : IF p = proc THEN DOMAIN trackCache'[p] = {} ELSE trackCache'[p] = trackCache[p]
    BY <1>1
  <2>2. trackCache' = [p \in Apis |-> trackCache'[p]]
    BY <1>1
  <2>3. CacheTypes'
    BY <1>00, <1>1, <2>1, <2>2 DEF CacheTypes
  <2>4. CacheSeesOwnImports'
    BY <1>0, <1>1, <2>1 DEF CacheSeesOwnImports
  <2> QED
    BY <2>3, <2>4
<1>2. ASSUME UNCHANGED trackCache, minute' \in Nat, minute' >= minute, \A p \in Apis : history'.cleared[p] = history.cleared[p]
      PROVE  CacheTypes' /\ CacheSeesOwnImports'
  <2>1. 1 .. minute \subseteq 1 .. minute'
    BY <1>0, <1>2
  <2> QED
    BY <1>0, <1>2, <2>1 DEF CacheTypes, CacheSeesOwnImports
<1>3. ASSUME NEW i \in Imports, NEW p \in Importers \cup Apis, NEW s \in Slices, StartImport(i, p, s)
      PROVE  CacheTypes' /\ CacheSeesOwnImports'
  BY <1>0, <1>2, <1>3 DEF StartImport
<1>4. ASSUME NEW i \in Imports, Flush(i)
      PROVE  CacheTypes' /\ CacheSeesOwnImports'
  BY <1>0, <1>2, <1>4 DEF Flush
<1>5. ASSUME NEW r \in Readers, NEW p \in Apis, NEW s \in Slices, AskTracks(r, p, s)
      PROVE  CacheTypes' /\ CacheSeesOwnImports'
  BY <1>0, <1>2, <1>5 DEF AskTracks
<1>6. ASSUME AMinute
      PROVE  CacheTypes' /\ CacheSeesOwnImports'
  BY <1>0, <1>2, <1>6 DEF AMinute
<1>7. ASSUME NEW i \in Imports, FinishImport(i)
      PROVE  CacheTypes' /\ CacheSeesOwnImports'
  <2>1. trackCache' = [q \in Apis |-> IF q = import[i].proc THEN << >> ELSE trackCache[q]] /\ minute' = minute
    BY <1>7 DEF FinishImport, ClearCache
  <2>2. history'.cleared = [p \in Apis |-> IF p = import[i].proc THEN history.writes ELSE history.cleared[p]]
    BY <1>0, <1>7 DEF FinishImport
  <2>3. \A p \in Apis \ {import[i].proc} : history'.cleared[p] = history.cleared[p]
    BY <2>2
  <2> QED
    BY <1>1, <2>1, <2>3
<1>8. ASSUME NEW i \in Imports, ImporterDies(i)
      PROVE  CacheTypes' /\ CacheSeesOwnImports'
  BY <1>0, <1>1, <1>8 DEF ImporterDies
<1>9. ASSUME NEW r \in Readers, StoreTracks(r)
      PROVE  CacheTypes' /\ CacheSeesOwnImports'
  <2> DEFINE q == read[r]
             entry == [at |-> minute, tracks |-> Tracks(q.rows), began |-> q.began, raced |-> q.raced]
             cache == [s \in DOMAIN trackCache[q.proc] \cup {q.slice} |->
                         IF s = q.slice THEN entry ELSE trackCache[q.proc][s]]
  <2>1. q.proc \in Apis /\ q.slice \in Slices /\ q.began \in Nat /\ q.pc = "query"
    BY <1>9 DEF AisTypes, StoreTracks
  <2>2. q.began >= history.cleared[q.proc] \/ q.raced
    BY <2>1 DEF ReadInv
  <2>3. entry.at = minute /\ entry.began = q.began /\ entry.raced = q.raced
    OBVIOUS
  <2>4. PICK c \in Evicted(cache) : trackCache' = [trackCache EXCEPT ![q.proc] = c]
    BY <1>9 DEF StoreTracks
  <2> HIDE DEF entry
  <2>5. /\ DOMAIN cache = DOMAIN trackCache[q.proc] \cup {q.slice}
        /\ \A s \in DOMAIN cache : cache[s] = IF s = q.slice THEN entry ELSE trackCache[q.proc][s]
    OBVIOUS
  <2> HIDE DEF cache
  <2>6. IsFiniteSet(DOMAIN cache) /\ Cardinality(DOMAIN cache) <= MaxEntries + 1
    <3> DEFINE D == DOMAIN trackCache[q.proc]
    <3>1. IsFiniteSet(D) /\ Cardinality(D) <= MaxEntries
      BY <2>1 DEF CacheTypes
    <3> HIDE DEF D
    <3>2. IsFiniteSet(D \cup {q.slice}) /\ Cardinality(D \cup {q.slice}) \in {Cardinality(D), Cardinality(D) + 1}
      BY <3>1, FS_AddElement
    <3>3. Cardinality(D) \in Nat
      BY <3>1, FS_CardinalityType
    <3>4. Cardinality(D \cup {q.slice}) <= MaxEntries + 1
      BY <1>0, <3>1, <3>2, <3>3
    <3> QED
      BY <2>5, <3>2, <3>4 DEF D
  <2>7. /\ DOMAIN c \subseteq DOMAIN cache
        /\ IsFiniteSet(DOMAIN c) /\ Cardinality(DOMAIN c) <= MaxEntries
        /\ \A s \in DOMAIN c : c[s] = cache[s]
    BY <2>4, <2>6, EvictedFits
  <2>8. \A s \in DOMAIN c :
          /\ s \in Slices
          /\ c[s].at \in 1 .. minute /\ c[s].began \in Nat
          /\ c[s].began >= history.cleared[q.proc] \/ c[s].raced
    <3> SUFFICES ASSUME NEW s \in DOMAIN c
                 PROVE  /\ s \in Slices
                        /\ c[s].at \in 1 .. minute /\ c[s].began \in Nat
                        /\ c[s].began >= history.cleared[q.proc] \/ c[s].raced
      OBVIOUS
    <3>1. CASE s = q.slice
      <4>1. c[s] = entry
        BY <2>5, <2>7, <3>1
      <4> QED
        BY <1>0, <2>1, <2>2, <2>3, <3>1, <4>1
    <3>2. CASE s # q.slice
      <4>1. s \in DOMAIN trackCache[q.proc] /\ c[s] = trackCache[q.proc][s]
        BY <2>5, <2>7, <3>2
      <4> QED
        BY <1>0, <2>1, <4>1 DEF CacheTypes, CacheSeesOwnImports
    <3> QED
      BY <3>1, <3>2
  <2>9. UNCHANGED <<minute, history>>
    BY <1>9 DEF StoreTracks
  <2>10. /\ trackCache' = [p \in Apis |-> trackCache'[p]]
         /\ \A p \in Apis : IF p = q.proc THEN trackCache'[p] = c ELSE trackCache'[p] = trackCache[p]
    BY <2>1, <2>4 DEF CacheTypes
  <2>11. CacheTypes'
    BY <2>7, <2>8, <2>9, <2>10 DEF CacheTypes
  <2>12. CacheSeesOwnImports'
    BY <1>0, <2>8, <2>9, <2>10 DEF CacheSeesOwnImports
  <2> QED
    BY <2>11, <2>12
<1>10. CASE UNCHANGED aisVars
  BY <1>0, <1>2, <1>10 DEF aisVars
<1> QED
  BY <1>3, <1>4, <1>5, <1>6, <1>7, <1>8, <1>9, <1>10 DEF AisNext

LEMMA ReadStep ==
  ASSUME AisTypes, CacheTypes, ReadInv, [AisNext]_aisVars
  PROVE  ReadInv'
<1>0. /\ history \in [writes : Nat, cleared : [Apis -> Nat], whole : SUBSET Slices]
      /\ \A p \in Apis : history.cleared[p] \in Nat
      /\ read \in [Readers -> ReadType]
      /\ \A r \in Readers : read[r].began \in Nat /\ (read[r].pc = "query" => read[r].proc \in Apis)
  BY DEF AisTypes, ReadType
<1>00. CacheSeesOwnImports'
  BY CacheStep
<1>000. NoRead.pc # "query"
  BY DEF NoRead
\* The clearings stay as they were, and so does a query that goes on.
<1>1. ASSUME \A p \in Apis : history'.cleared[p] = history.cleared[p],
             history'.writes \in Nat, history'.writes >= history.writes,
             \A r \in Readers : read'[r].pc = "query" =>
               \/ read'[r] = read[r]
               \/ read'[r].proc \in Apis /\ read'[r].began = history.writes
      PROVE  ReadInv'
  <2>1. \A p \in Apis : history'.cleared[p] <= history'.writes
    BY <1>0, <1>1 DEF ReadInv
  <2>2. \A r \in Readers : read'[r].pc = "query" =>
          read'[r].began >= history'.cleared[read'[r].proc] \/ read'[r].raced
    <3> SUFFICES ASSUME NEW r \in Readers, read'[r].pc = "query"
                 PROVE  read'[r].began >= history'.cleared[read'[r].proc] \/ read'[r].raced
      OBVIOUS
    <3>1. CASE read'[r] = read[r]
      BY <1>0, <1>1, <3>1 DEF ReadInv
    <3>2. CASE read'[r].proc \in Apis /\ read'[r].began = history.writes
      <4>1. history.cleared[read'[r].proc] <= history.writes
        BY <3>2 DEF ReadInv
      <4> QED
        BY <1>0, <1>1, <3>2, <4>1
    <3> QED
      BY <1>1, <3>1, <3>2
  <2> QED
    BY <1>00, <2>1, <2>2 DEF ReadInv
<1>2. ASSUME NEW i \in Imports, NEW p \in Importers \cup Apis, NEW s \in Slices, StartImport(i, p, s)
      PROVE  ReadInv'
  BY <1>0, <1>1, <1>2 DEF StartImport
<1>3. ASSUME NEW i \in Imports, Flush(i)
      PROVE  ReadInv'
  BY <1>0, <1>1, <1>3 DEF Flush
<1>4. ASSUME NEW r \in Readers, NEW p \in Apis, NEW s \in Slices, AskTracks(r, p, s)
      PROVE  ReadInv'
  BY <1>0, <1>1, <1>4 DEF AskTracks
<1>5. ASSUME NEW r \in Readers, StoreTracks(r)
      PROVE  ReadInv'
  BY <1>0, <1>000, <1>1, <1>5 DEF StoreTracks
<1>6. ASSUME AMinute
      PROVE  ReadInv'
  BY <1>0, <1>1, <1>6 DEF AMinute
<1>7. ASSUME NEW i \in Imports, ImporterDies(i)
      PROVE  ReadInv'
  BY <1>0, <1>000, <1>1, <1>7 DEF ImporterDies
<1>8. ASSUME NEW i \in Imports, FinishImport(i)
      PROVE  ReadInv'
  <2> DEFINE proc == import[i].proc
  <2>1. /\ history'.writes = history.writes
        /\ history'.cleared = [p \in Apis |-> IF p = proc THEN history.writes ELSE history.cleared[p]]
    BY <1>0, <1>8 DEF FinishImport
  <2>2. \A r \in Readers : read'[r] = IF read[r].proc = proc THEN [read[r] EXCEPT !.raced = TRUE] ELSE read[r]
    BY <1>8 DEF FinishImport
  <2> HIDE DEF proc
  <2>3. \A p \in Apis : history'.cleared[p] <= history'.writes
    BY <1>0, <2>1 DEF ReadInv
  <2>4. \A r \in Readers : read'[r].pc = "query" =>
          read'[r].began >= history'.cleared[read'[r].proc] \/ read'[r].raced
    <3> SUFFICES ASSUME NEW r \in Readers, read'[r].pc = "query"
                 PROVE  read'[r].began >= history'.cleared[read'[r].proc] \/ read'[r].raced
      OBVIOUS
    <3>1. CASE read[r].proc = proc
      <4>1. read[r] \in ReadType
        BY <1>0
      <4>2. read'[r].raced = TRUE
        BY <2>2, <3>1, <4>1 DEF ReadType
      <4> QED
        BY <4>2
    <3>2. CASE read[r].proc # proc
      <4>1. read'[r] = read[r] /\ read[r].proc \in Apis
        BY <1>0, <2>2, <3>2
      <4>2. history'.cleared[read[r].proc] = history.cleared[read[r].proc]
        BY <2>1, <3>2, <4>1
      <4> QED
        BY <4>1, <4>2 DEF ReadInv
    <3> QED
      BY <3>1, <3>2
  <2> QED
    BY <1>00, <2>3, <2>4 DEF ReadInv
<1>9. CASE UNCHANGED aisVars
  BY <1>0, <1>1, <1>9 DEF aisVars
<1> QED
  BY <1>2, <1>3, <1>4, <1>5, <1>6, <1>7, <1>8, <1>9 DEF AisNext

-----------------------------------------------------------------------------
(* What is stored *)

LEMMA Cleared ==
  ASSUME NEW s \in Slices, NEW z \in Slices
  PROVE  /\ \A f \in Expected(s) : Clear(s)[f] = 0
         /\ ~Overlap(s, z) => \A f \in Expected(z) : Clear(s)[f] = archive[f]
<1>1. \A f \in Expected(s) : f \in Fixes /\ f \in Held(s)
  BY DEF Expected, Held
<1>2. ~Overlap(s, z) => \A f \in Expected(z) : f \in Fixes /\ f \notin Held(s)
  BY SharedOverlap DEF Expected, Held
<1> QED
  BY <1>1, <1>2 DEF Clear

LEMMA OverlapBothWays == \A s, z : Overlap(s, z) <=> Overlap(z, s)
  BY DEF Overlap

\* A batch is stored once each, and the line it ends at says how far the import has come.
LEMMA FlushStep ==
  ASSUME AisTypes, NEW i \in Imports, Flush(i)
  PROVE  /\ \A z \in Slices : ~Overlap(import[i].slice, z) => \A f \in Expected(z) : archive'[f] = archive[f]
         /\ \A f \in Expected(import[i].slice) :
              (archive[f] = IF Come(import[i], f) THEN 1 ELSE 0)
                => (archive'[f] = IF Come(import'[i], f) THEN 1 ELSE 0)
         /\ \A j \in Imports : import'[j].slice = import[j].slice /\ import'[j].pc = import[j].pc
                                /\ import'[j].alone = import[j].alone
         /\ \A j \in Imports \ {i} : import'[j] = import[j]
<1> DEFINE m == import[i]
           b == NextBatch(m)
           n == Max(b)
<1>1. m.pc = "rows" /\ b # {} /\ archive' = Insert(b) /\ import' = [import EXCEPT ![i].next = n]
  BY DEF Flush
<1>2. m.slice \in Slices /\ m.next \in 0 .. Len(File) /\ b \in SUBSET RowsTaken[m.slice]
  BY <1>1, BatchOf
<1>3. n \in b /\ \A k \in Unread(m) : k <= n <=> k \in b
  BY <1>1, <1>2, BatchIsNext
<1>4. import \in [Imports -> ImportType] /\ archive \in [Fixes -> Nat]
  BY DEF AisTypes, ImportType
<1>5. \A k \in b : k \in Unread(m)
  BY <1>2, BatchIsNext
<1>6. \A k \in RowsTaken[m.slice] : k \in Unread(m) <=> k > m.next
  BY DEF Unread
<1>7. \A k \in RowsTaken[m.slice] : k \in Nat
  BY <1>2, RowsAreLines, LineNumbers
<1>8. m.next \in Nat /\ n \in Nat
  BY <1>2, <1>3, <1>7, LineNumbers
<1>9. /\ import'[i].next = n
      /\ \A j \in Imports : import'[j].slice = import[j].slice /\ import'[j].pc = import[j].pc
                                /\ import'[j].alone = import[j].alone
      /\ \A j \in Imports \ {i} : import'[j] = import[j]
  <2> HIDE DEF n
  <2> QED
    BY <1>1, <1>4 DEF ImportType
<1>10. \A f \in Expected(m.slice) : Come(import'[i], f) <=> Come(m, f) \/ \E k \in b : File[k] = f
  <2> HIDE DEF n, m
  <2>1. import'[i].slice = m.slice /\ import'[i].next = n
    BY <1>9 DEF m
  <2>2. n > m.next
    BY <1>2, <1>3, <1>5, <1>6, <1>7, <1>8
  <2>3. \A k \in RowsTaken[m.slice] : k <= n <=> k <= m.next \/ k \in b
    <3> TAKE k \in RowsTaken[m.slice]
    <3> HIDE DEF b
    <3>1. k \in Nat /\ (k \in Unread(m) <=> k > m.next) /\ (k \in b => k \in Unread(m))
      BY <1>5, <1>6, <1>7
    <3> QED
      BY <1>3, <1>8, <2>2, <3>1
  <2> HIDE DEF b
  <2>4. b \subseteq RowsTaken[m.slice]
    BY <1>2
  <2> QED
    BY <2>1, <2>3, <2>4 DEF Come
<1>11. \A f \in Expected(m.slice) : ~ (Come(m, f) /\ \E k \in b : File[k] = f)
  <2> SUFFICES ASSUME NEW f \in Expected(m.slice), NEW k \in b, File[k] = f, Come(m, f) PROVE FALSE
    OBVIOUS
  <2>1. PICK l \in RowsTaken[m.slice] : l <= m.next /\ File[l] = f
    BY DEF Come
  <2>2. l = k
    BY <1>2, <2>1, RowsAreLines
  <2> QED
    BY <1>5, <1>6, <1>7, <1>8, <2>1, <2>2
<1>12. \A f \in Fixes : archive'[f] = archive[f] + IF \E k \in b : File[k] = f THEN 1 ELSE 0
  BY <1>1, <1>2, <1>4, Inserted
<1>13. \A f \in Expected(m.slice) :
              (archive[f] = IF Come(m, f) THEN 1 ELSE 0)
                => (archive'[f] = IF Come(import'[i], f) THEN 1 ELSE 0)
  <2> HIDE DEF b, m
  <2> TAKE f \in Expected(m.slice)
  <2>1. f \in Fixes
    BY DEF Expected
  <2> QED
    BY <1>10, <1>11, <1>12, <2>1
<1>14. \A z \in Slices : ~Overlap(m.slice, z) => \A f \in Expected(z) : archive'[f] = archive[f]
  BY <1>1, <1>2, <1>4, InsertedElsewhere
<1> QED
  BY <1>9, <1>13, <1>14

\* An import that ran to its end has come to all that is expected.
LEMMA ComeToAll ==
  ASSUME AisTypes, NEW i \in Imports, import[i].pc = "rows", NextBatch(import[i]) = {},
         NEW f \in Expected(import[i].slice)
  PROVE  Come(import[i], f)
<1>1. import[i].slice \in Slices /\ import[i].next \in 0 .. Len(File)
  BY BatchOf
<1>2. PICK k \in RowsTaken[import[i].slice] : File[k] = f
  BY <1>1, RowsAreAll
<1>3. k \notin Unread(import[i])
  BY <1>1, BatchIsNext
<1>4. ~(k > import[i].next)
  BY <1>3 DEF Unread
<1>5. k \in Nat /\ import[i].next \in Nat
  BY <1>1, RowsAreLines, LineNumbers
<1> QED
  BY <1>2, <1>4, <1>5 DEF Come

LEMMA Unalone ==
  ASSUME NEW m \in ImportType
  PROVE  /\ [m EXCEPT !.alone = FALSE].pc = m.pc /\ [m EXCEPT !.alone = FALSE].slice = m.slice
         /\ ~[m EXCEPT !.alone = FALSE].alone
  BY DEF ImportType

LEMMA StoredStep ==
  ASSUME AisTypes, AloneInv, WholeInv, [AisNext]_aisVars
  PROVE  AloneInv' /\ WholeInv'
<1>0. /\ import \in [Imports -> ImportType] /\ archive \in [Fixes -> Nat]
      /\ \A j \in Imports : import[j].pc = "rows" => import[j].slice \in Slices
      /\ history \in [writes : Nat, cleared : [Apis -> Nat], whole : SUBSET Slices]
      /\ NoImport.pc = "idle"
  BY DEF AisTypes, ImportType, NoImport
<1>9. /\ (\A j \in Imports : import'[j].pc = "rows" /\ import'[j].alone =>
            /\ \A k \in Imports \ {j} : import'[k].pc = "rows" => ~Overlap(import'[k].slice, import'[j].slice)
            /\ \A f \in Expected(import'[j].slice) : archive'[f] = IF Come(import'[j], f) THEN 1 ELSE 0)
         => AloneInv'
      /\ (\A z \in history'.whole :
            /\ \A j \in Imports : import'[j].pc = "rows" => ~Overlap(import'[j].slice, z)
            /\ \A f \in Expected(z) : archive'[f] = 1)
         => WholeInv'
  <2>1. \A j \in Imports, f \in Fixes : Come(import[j], f)' <=> Come(import'[j], f)
    BY DEF Come
  <2> QED
    BY <2>1 DEF AloneInv, WholeInv, Expected
<1>1. ASSUME NEW i \in Imports, NEW p \in Importers \cup Apis, NEW s \in Slices, StartImport(i, p, s)
      PROVE  AloneInv' /\ WholeInv'
  <2>1. /\ import'[i] = [pc |-> "rows", slice |-> s, next |-> 0, proc |-> p, alone |-> Busy(s) = {}]
        /\ archive' = Clear(s)
        /\ history'.whole = {z \in history.whole : ~Overlap(z, s)}
        /\ \A j \in Imports \ {i} : import'[j] = IF j \in Busy(s) THEN [import[j] EXCEPT !.alone = FALSE] ELSE import[j]
    BY <1>0, <1>1 DEF StartImport
  <2>2. \A j \in Imports \ {i} : /\ import'[j].pc = import[j].pc /\ import'[j].slice = import[j].slice
                                 /\ import'[j].alone => j \notin Busy(s) /\ import'[j] = import[j]
    <3> TAKE j \in Imports \ {i}
    <3>1. CASE j \in Busy(s)
      <4>1. import'[j] = [import[j] EXCEPT !.alone = FALSE] /\ import[j] \in ImportType
        BY <1>0, <2>1, <3>1
      <4> QED
        BY <4>1, Unalone
    <3>2. CASE j \notin Busy(s)
      BY <2>1, <3>2
    <3> QED
      BY <3>1, <3>2
  <2>3. \A j \in Imports : j \notin Busy(s) /\ import[j].pc = "rows" => ~Overlap(import[j].slice, s) /\ ~Overlap(s, import[j].slice)
    BY OverlapBothWays DEF Busy
  <2>4. ASSUME NEW j \in Imports, import'[j].pc = "rows", import'[j].alone
        PROVE  /\ \A k \in Imports \ {j} : import'[k].pc = "rows" => ~Overlap(import'[k].slice, import'[j].slice)
               /\ \A f \in Expected(import'[j].slice) : archive'[f] = IF Come(import'[j], f) THEN 1 ELSE 0
    <3>1. CASE j = i
      <4>1. Busy(s) = {} /\ import'[j].slice = s /\ import'[j].next = 0
        <5>1. import'[j].alone = (Busy(s) = {}) /\ import'[j].slice = s /\ import'[j].next = 0
          BY <2>1, <3>1
        <5> QED
          BY <2>4, <5>1
      <4>2. \A k \in Imports \ {j} : import'[k].pc = "rows" => ~Overlap(import'[k].slice, s)
        BY <2>2, <2>3, <3>1, <4>1
      <4>3. \A f \in Expected(s) : archive'[f] = 0
        BY <2>1, Cleared
      <4>4. \A f \in Expected(s) : ~Come(import'[j], f)
        BY <4>1, RowsAreLines, LineNumbers DEF Come
      <4> QED
        BY <4>1, <4>2, <4>3, <4>4
    <3>2. CASE j # i
      <4>1. j \notin Busy(s) /\ import'[j] = import[j]
        BY <2>2, <2>4, <3>2
      <4>2. ~Overlap(s, import[j].slice) /\ import[j].slice \in Slices
        BY <1>0, <2>3, <2>4, <4>1
      <4>3. \A f \in Expected(import[j].slice) : archive'[f] = archive[f]
        BY <2>1, <4>2, Cleared
      <4>4. \A k \in Imports \ {j} : import'[k].pc = "rows" => ~Overlap(import'[k].slice, import[j].slice)
        <5> SUFFICES ASSUME NEW k \in Imports \ {j}, import'[k].pc = "rows"
                     PROVE  ~Overlap(import'[k].slice, import[j].slice)
          OBVIOUS
        <5>1. CASE k = i
          BY <2>1, <4>2, <5>1
        <5>2. CASE k # i
          BY <2>2, <2>4, <4>1, <5>2 DEF AloneInv
        <5> QED
          BY <5>1, <5>2
      <4> QED
        BY <2>4, <4>1, <4>3, <4>4 DEF AloneInv
    <3> QED
      BY <3>1, <3>2
  <2>6. ASSUME NEW z \in history'.whole
        PROVE  /\ \A j \in Imports : import'[j].pc = "rows" => ~Overlap(import'[j].slice, z)
               /\ \A f \in Expected(z) : archive'[f] = 1
    <3>1. z \in history.whole /\ z \in Slices /\ ~Overlap(z, s) /\ ~Overlap(s, z)
      BY <1>0, <2>1, OverlapBothWays
    <3>2. \A j \in Imports : import'[j].pc = "rows" => ~Overlap(import'[j].slice, z)
      <4> SUFFICES ASSUME NEW j \in Imports, import'[j].pc = "rows" PROVE ~Overlap(import'[j].slice, z)
        OBVIOUS
      <4>1. CASE j = i
        BY <2>1, <3>1, <4>1
      <4>2. CASE j # i
        BY <2>2, <3>1, <4>2 DEF WholeInv
      <4> QED
        BY <4>1, <4>2
    <3>3. \A f \in Expected(z) : archive'[f] = 1
      BY <2>1, <3>1, Cleared DEF WholeInv
    <3> QED
      BY <3>2, <3>3
  <2> QED
    BY <1>9, <2>4, <2>6
<1>2. ASSUME NEW i \in Imports, Flush(i)
      PROVE  AloneInv' /\ WholeInv'
  <2>1. /\ \A z \in Slices : ~Overlap(import[i].slice, z) => \A f \in Expected(z) : archive'[f] = archive[f]
        /\ \A f \in Expected(import[i].slice) :
              (archive[f] = IF Come(import[i], f) THEN 1 ELSE 0)
                => (archive'[f] = IF Come(import'[i], f) THEN 1 ELSE 0)
        /\ \A j \in Imports : import'[j].slice = import[j].slice /\ import'[j].pc = import[j].pc
                                /\ import'[j].alone = import[j].alone
        /\ \A j \in Imports \ {i} : import'[j] = import[j]
    BY <1>2, FlushStep
  <2>2. import[i].pc = "rows" /\ history'.whole = history.whole
    BY <1>0, <1>2 DEF Flush
  <2>3. ASSUME NEW j \in Imports, import'[j].pc = "rows", import'[j].alone
        PROVE  /\ \A k \in Imports \ {j} : import'[k].pc = "rows" => ~Overlap(import'[k].slice, import'[j].slice)
               /\ \A f \in Expected(import'[j].slice) : archive'[f] = IF Come(import'[j], f) THEN 1 ELSE 0
    <3>1. import[j].pc = "rows" /\ import[j].alone /\ import[j].slice \in Slices
      BY <1>0, <2>1, <2>3
    <3>2. /\ \A k \in Imports \ {j} : import[k].pc = "rows" => ~Overlap(import[k].slice, import[j].slice)
          /\ \A f \in Expected(import[j].slice) : archive[f] = IF Come(import[j], f) THEN 1 ELSE 0
      BY <3>1 DEF AloneInv
    <3>3. CASE j = i
      BY <2>1, <3>2, <3>3
    <3>4. CASE j # i
      <4>1. ~Overlap(import[i].slice, import[j].slice)
        BY <2>2, <3>2, <3>4
      <4> QED
        BY <2>1, <3>1, <3>2, <3>4, <4>1
    <3> QED
      BY <3>3, <3>4
  <2>4. ASSUME NEW z \in history'.whole
        PROVE  /\ \A j \in Imports : import'[j].pc = "rows" => ~Overlap(import'[j].slice, z)
               /\ \A f \in Expected(z) : archive'[f] = 1
    <3>1. z \in history.whole /\ z \in Slices
      BY <1>0, <2>2
    <3>2. ~Overlap(import[i].slice, z)
      BY <2>2, <3>1 DEF WholeInv
    <3> QED
      BY <2>1, <3>1, <3>2 DEF WholeInv
  <2> QED
    BY <1>9, <2>3, <2>4
<1>3. ASSUME NEW i \in Imports, FinishImport(i)
      PROVE  AloneInv' /\ WholeInv'
  <2>1. /\ import[i].pc = "rows" /\ NextBatch(import[i]) = {} /\ archive' = archive
        /\ import' = [import EXCEPT ![i] = NoImport]
        /\ history'.whole = IF import[i].alone THEN history.whole \cup {import[i].slice} ELSE history.whole
    BY <1>0, <1>3 DEF FinishImport
  <2>2. import'[i].pc = "idle" /\ \A j \in Imports \ {i} : import'[j] = import[j]
    BY <1>0, <2>1
  <2>3. ASSUME NEW j \in Imports, import'[j].pc = "rows", import'[j].alone
        PROVE  /\ \A k \in Imports \ {j} : import'[k].pc = "rows" => ~Overlap(import'[k].slice, import'[j].slice)
               /\ \A f \in Expected(import'[j].slice) : archive'[f] = IF Come(import'[j], f) THEN 1 ELSE 0
    BY <2>1, <2>2, <2>3 DEF AloneInv
  <2>4. ASSUME NEW z \in history'.whole
        PROVE  /\ \A j \in Imports : import'[j].pc = "rows" => ~Overlap(import'[j].slice, z)
               /\ \A f \in Expected(z) : archive'[f] = 1
    <3>1. CASE z \in history.whole
      BY <2>1, <2>2, <3>1 DEF WholeInv
    <3>2. CASE z \notin history.whole
      <4>1. import[i].alone /\ z = import[i].slice
        <5>1. CASE import[i].alone
          BY <2>1, <2>4, <3>2, <5>1
        <5>2. CASE ~import[i].alone
          BY <2>1, <2>4, <3>2, <5>2
        <5> QED
          BY <5>1, <5>2
      <4>2. \A f \in Expected(z) : Come(import[i], f)
        BY <2>1, <4>1, ComeToAll
      <4> QED
        BY <2>1, <2>2, <4>1, <4>2 DEF AloneInv
    <3> QED
      BY <3>1, <3>2
  <2> QED
    BY <1>9, <2>3, <2>4
<1>4. ASSUME NEW i \in Imports, ImporterDies(i)
      PROVE  AloneInv' /\ WholeInv'
  <2>1. PICK part \in SUBSET NextBatch(import[i]) : archive' = Insert(part)
    BY <1>4 DEF ImporterDies
  <2>2. /\ import[i].pc = "rows" /\ import' = [import EXCEPT ![i] = NoImport]
        /\ history'.whole = history.whole
    BY <1>0, <1>4 DEF ImporterDies
  <2>3. import'[i].pc = "idle" /\ \A j \in Imports \ {i} : import'[j] = import[j]
    BY <1>0, <2>2
  <2>4. import[i].slice \in Slices /\ part \in SUBSET RowsTaken[import[i].slice]
    BY <2>2, BatchOf
  <2>5. \A z \in Slices : ~Overlap(import[i].slice, z) => \A f \in Expected(z) : archive'[f] = archive[f]
    BY <1>0, <2>1, <2>4, InsertedElsewhere
  <2>6. ASSUME NEW j \in Imports, import'[j].pc = "rows", import'[j].alone
        PROVE  /\ \A k \in Imports \ {j} : import'[k].pc = "rows" => ~Overlap(import'[k].slice, import'[j].slice)
               /\ \A f \in Expected(import'[j].slice) : archive'[f] = IF Come(import'[j], f) THEN 1 ELSE 0
    <3>1. j # i /\ import'[j] = import[j] /\ import[j].slice \in Slices
      BY <1>0, <2>3, <2>6
    <3>2. ~Overlap(import[i].slice, import[j].slice)
      BY <2>2, <2>6, <3>1 DEF AloneInv
    <3> QED
      BY <2>3, <2>5, <2>6, <3>1, <3>2 DEF AloneInv
  <2>7. ASSUME NEW z \in history'.whole
        PROVE  /\ \A j \in Imports : import'[j].pc = "rows" => ~Overlap(import'[j].slice, z)
               /\ \A f \in Expected(z) : archive'[f] = 1
    <3>1. z \in history.whole /\ z \in Slices /\ ~Overlap(import[i].slice, z)
      BY <1>0, <2>2 DEF WholeInv
    <3> QED
      BY <2>3, <2>5, <3>1 DEF WholeInv
  <2> QED
    BY <1>9, <2>6, <2>7
<1>5. ASSUME \/ AMinute
             \/ \E r \in Readers : \/ \E p \in Apis, s \in Slices : AskTracks(r, p, s)
                                   \/ StoreTracks(r)
             \/ UNCHANGED aisVars
      PROVE  AloneInv' /\ WholeInv'
  <2>1. archive' = archive /\ import' = import /\ history' = history
    BY <1>5 DEF AMinute, AskTracks, StoreTracks, aisVars
  <2> QED
    BY <1>9, <2>1 DEF AloneInv, WholeInv
<1> QED
  BY <1>1, <1>2, <1>3, <1>4, <1>5 DEF AisNext

-----------------------------------------------------------------------------
(* The theorems *)

LEMMA ArchiveStep == ArchiveInv /\ [AisNext]_aisVars => ArchiveInv'
<1> SUFFICES ASSUME ArchiveInv, [AisNext]_aisVars PROVE ArchiveInv'
  OBVIOUS
<1>1. AisTypes' BY AisTypesStep DEF ArchiveInv
<1>2. CacheTypes' BY CacheStep DEF ArchiveInv
<1>3. AloneInv' /\ WholeInv' BY StoredStep DEF ArchiveInv
<1>4. ReadInv' BY ReadStep DEF ArchiveInv
<1> QED
  BY <1>1, <1>2, <1>3, <1>4 DEF ArchiveInv

LEMMA ArchiveInductive == AisSpec => []ArchiveInv
  BY InitArchive, ArchiveStep, PTL DEF AisSpec

\* The archive, the caches, the imports and the requests stay what their types say.
THEOREM AisTypeCorrect == AisSpec => []AisTypeOK
<1>1. ArchiveInv => AisTypeOK
  BY LineNumbers DEF ArchiveInv, AisTypes, CacheTypes, AisTypeOK
<1> QED
  BY <1>1, ArchiveInductive, PTL

\* Whatever imports overlapped, died or were repeated, an import that ran to its end
\* undisturbed stored each fix of its slice once; and no cache still holds what was
\* computed before an import in its process cleared it, unless the query raced it.
THEOREM ArchiveCorrect == AisSpec => []ArchiveIsExact
<1>1. ArchiveInv => ArchiveIsExact
  BY DEF ArchiveInv, WholeInv, ReadInv, ArchiveIsExact, SliceStoredOnce
<1> QED
  BY <1>1, ArchiveInductive, PTL

-----------------------------------------------------------------------------
(* Reports: their inductive invariant *)

OutType   == [manifest : Nat, dossier : Nat, brief : Nat]
PrintType == [pc : PrintPc, sections : SUBSET ReportSections, stage : Stages, page : Nat,
              zombie : BOOLEAN, out : OutType]
FileType  == [kind : Stages, content : Nat, whole : BOOLEAN]
JobType   == [state : {"none", "queued", "active", "completed", "failed"}, tries : Nat]

ReportsTypes ==
  /\ case \in [version : Nat, deleted : BOOLEAN]
  /\ validated \subseteq SectionSets
  /\ reportJob \in [SectionSets -> JobType]
  /\ printer \in [Printers -> PrintType]
  /\ files \in Seq(FileType)
  /\ result \in [SectionSets -> OutType]
  /\ asked \in [SectionSets -> Nat]
  /\ together \in BOOLEAN

\* A slot that still holds its job is the only one of that job, which is active.
SlotsInv ==
  /\ \A s \in Printers : printer[s].pc # "idle" =>
       /\ printer[s].sections \in SectionSets
       /\ ~printer[s].zombie => reportJob[printer[s].sections].state = "active"
  /\ \A s, t \in Printers :
       s # t /\ printer[s].pc # "idle" /\ printer[t].pc # "idle" /\ ~printer[s].zombie /\ ~printer[t].zombie
         => printer[s].sections # printer[t].sections

\* Nothing is newer than the case.
VersionsInv ==
  /\ \A q \in SectionSets : asked[q] <= case.version
  /\ \A i \in DOMAIN files : files[i].content <= case.version
  /\ \A s \in Printers : printer[s].pc \in {"print", "write"} => printer[s].page <= case.version

\* What a slot has printed is not older than the request it works for.
PrintedInv ==
  \A s \in Printers : printer[s].pc # "idle" =>
    /\ printer[s].pc \in {"print", "write"} /\ ~printer[s].zombie => asked[printer[s].sections] <= printer[s].page
    /\ printer[s].pc = "write" => printer[s].out[printer[s].stage] # 0
    /\ \A k \in Stages : printer[s].out[k] # 0 =>
         /\ printer[s].out[k] \in DOMAIN files
         /\ files[printer[s].out[k]].kind = k
         /\ ~printer[s].zombie => asked[printer[s].sections] <= files[printer[s].out[k]].content

\* As long as no two renders overlap, the files of a kind are in the order of what they say.
OrderInv ==
  ~together =>
    /\ \A s, t \in Printers :
         s # t /\ printer[s].pc \in {"print", "write"} /\ printer[t].pc \in {"print", "write"}
           => printer[s].stage # printer[t].stage
    /\ \A s \in Printers, i \in DOMAIN files :
         printer[s].pc = "print" /\ files[i].kind = printer[s].stage => files[i].content <= printer[s].page
    /\ \A i, j \in DOMAIN files : i <= j /\ files[i].kind = files[j].kind => files[i].content <= files[j].content

\* A completed job's files are not older than its request.
ResultInv ==
  \A q \in SectionSets, k \in Stages :
    reportJob[q].state = "completed" /\ result[q][k] # 0 =>
      /\ result[q][k] \in DOMAIN files
      /\ files[result[q][k]].kind = k
      /\ asked[q] <= files[result[q][k]].content

ReportsInv == ReportsTypes /\ SlotsInv /\ VersionsInv /\ PrintedInv /\ OrderInv /\ ResultInv

-----------------------------------------------------------------------------
(* Records and sequences of files *)

LEMMA NoPrintType ==
  /\ NoPrint \in PrintType /\ NoResult \in OutType /\ NoJob \in JobType
  /\ NoPrint.pc = "idle"
  /\ \A q \in SectionSets :
       LET r == [NoPrint EXCEPT !.pc = "assemble", !.sections = q] IN
       /\ r \in PrintType /\ r.pc = "assemble" /\ r.sections = q /\ ~r.zombie
       /\ \A k \in Stages : r.out[k] = 0
<1>1. NoPrint \in PrintType /\ NoResult \in OutType /\ NoJob \in JobType /\ NoPrint.pc = "idle"
  BY DEF NoPrint, NoResult, NoJob, PrintType, OutType, JobType, Stages, PrintPc
<1>2. NoPrint.out = NoResult /\ \A k \in Stages : NoResult[k] = 0
  BY DEF NoPrint, NoResult, Stages
<1>3. ASSUME NEW q \in SectionSets
      PROVE  LET r == [NoPrint EXCEPT !.pc = "assemble", !.sections = q] IN
             r \in PrintType /\ r.pc = "assemble" /\ r.sections = q /\ ~r.zombie /\ r.out = NoPrint.out
  <2>1. q \in SUBSET ReportSections
    BY DEF SectionSets
  <2> QED
    BY <1>1, <2>1 DEF NoPrint, PrintType, PrintPc
<1> QED
  BY <1>1, <1>2, <1>3

LEMMA NextStageIs ==
  ASSUME NEW p \in PrintType
  PROVE  /\ NextStage(p) \in PrintType
         /\ NextStage(p).pc \in {"open", "finish"}
         /\ NextStage(p).sections = p.sections /\ NextStage(p).zombie = p.zombie
         /\ NextStage(p).out = p.out
  BY DEF NextStage, PrintType, PrintPc, Stages

Unlocked(p)   == [p EXCEPT !.zombie = TRUE]
Gathered(p, v) == [p EXCEPT !.pc = "open", !.out.manifest = v]
Opened(p, v)  == [p EXCEPT !.pc = "print", !.page = v]
Written(p, n) == [p EXCEPT !.pc = "write", !.out[p.stage] = n]

LEMMA OutSet ==
  ASSUME NEW p \in PrintType, NEW n \in Nat, NEW r, r = Written(p, n)
  PROVE  /\ r \in PrintType
         /\ r.pc = "write" /\ r.sections = p.sections /\ r.zombie = p.zombie /\ r.stage = p.stage
         /\ r.page = p.page
         /\ r.out[p.stage] = n
         /\ \A k \in Stages \ {p.stage} : r.out[k] = p.out[k]
<1>1. CASE p.stage = "dossier"
  BY <1>1 DEF PrintType, PrintPc, Stages, OutType, Written
<1>2. CASE p.stage = "brief"
  BY <1>2 DEF PrintType, PrintPc, Stages, OutType, Written
<1> QED
  BY <1>1, <1>2 DEF PrintType, Stages

LEMMA PageSet ==
  ASSUME NEW p \in PrintType, NEW v \in Nat, NEW r, r = Opened(p, v)
  PROVE  /\ r \in PrintType /\ r.pc = "print" /\ r.sections = p.sections /\ r.zombie = p.zombie
         /\ r.page = v /\ r.stage = p.stage /\ r.out = p.out
  BY DEF PrintType, PrintPc, Stages, Opened

LEMMA DataSet ==
  ASSUME NEW p \in PrintType, NEW v \in Nat, NEW r, r = Gathered(p, v)
  PROVE  /\ r \in PrintType /\ r.pc = "open" /\ r.sections = p.sections /\ r.zombie = p.zombie
         /\ \A k \in Stages : r.out[k] = p.out[k]
  BY DEF PrintType, PrintPc, Stages, OutType, Gathered

LEMMA ZombieSet ==
  ASSUME NEW p \in PrintType, NEW r, r = Unlocked(p)
  PROVE  /\ r \in PrintType /\ r.pc = p.pc /\ r.sections = p.sections /\ r.zombie
         /\ r.page = p.page /\ r.stage = p.stage /\ r.out = p.out
  BY DEF PrintType, PrintPc, Stages, Unlocked

LEMMA FilesAppend ==
  ASSUME NEW fs \in Seq(FileType), NEW f \in FileType
  PROVE  /\ Append(fs, f) \in Seq(FileType) /\ Len(fs) \in Nat
         /\ DOMAIN fs = 1 .. Len(fs) /\ DOMAIN Append(fs, f) = 1 .. Len(fs) + 1
         /\ \A i \in DOMAIN fs : Append(fs, f)[i] = fs[i] /\ fs[i] \in FileType
         /\ Append(fs, f)[Len(fs) + 1] = f
<1>1. Len(fs) \in Nat /\ DOMAIN fs = 1 .. Len(fs)
  OBVIOUS
<1> QED
  BY <1>1, ElementOfSeq

LEMMA FilesFill ==
  ASSUME NEW fs \in Seq(FileType), NEW n \in DOMAIN fs
  PROVE  LET gs == [fs EXCEPT ![n].whole = TRUE] IN
         /\ gs \in Seq(FileType) /\ DOMAIN gs = DOMAIN fs
         /\ \A i \in DOMAIN fs : gs[i].kind = fs[i].kind /\ gs[i].content = fs[i].content
<1>1. Len(fs) \in Nat /\ DOMAIN fs = 1 .. Len(fs) /\ fs \in [1 .. Len(fs) -> FileType]
  BY ElementOfSeq
<1> DEFINE gs == [fs EXCEPT ![n].whole = TRUE]
<1>2. gs \in [1 .. Len(fs) -> FileType]
  BY <1>1 DEF FileType
<1>3. gs \in Seq(FileType)
  BY <1>1, <1>2
<1>4. \A i \in DOMAIN fs : gs[i].kind = fs[i].kind /\ gs[i].content = fs[i].content
  BY <1>1 DEF FileType
<1> QED
  BY <1>1, <1>2, <1>3, <1>4

LEMMA FileOf ==
  ASSUME ReportsTypes
  PROVE  \A i \in DOMAIN files : i \in Nat /\ files[i] \in FileType /\ files[i].content \in Nat
<1>1. files \in Seq(FileType) /\ Len(files) \in Nat /\ DOMAIN files = 1 .. Len(files)
  BY DEF ReportsTypes
<1>2. \A i \in DOMAIN files : files[i] \in FileType
  BY <1>1, ElementOfSeq
<1>3. \A f \in FileType : f.content \in Nat
  BY DEF FileType
<1>4. \A i \in DOMAIN files : i \in Nat
  BY <1>1
<1> QED
  BY <1>2, <1>3, <1>4

LEMMA GiveBackIs ==
  ASSUME ReportsTypes, NEW q \in SectionSets, GiveBack(q)
  PROVE  /\ reportJob' \in [SectionSets -> JobType]
         /\ reportJob'[q].state \in {"queued", "failed"}
         /\ \A z \in SectionSets \ {q} : reportJob'[z] = reportJob[z]
  BY DEF ReportsTypes, GiveBack, JobType

-----------------------------------------------------------------------------
(* The steps *)

\* A slot goes on, is lost or is done, without beginning a render.
LEMMA SlotMoves ==
  ASSUME ReportsInv, NEW s \in Printers, NEW r \in PrintType,
         printer' = [printer EXCEPT ![s] = r],
         r.pc # "idle" =>
           /\ printer[s].pc # "idle" /\ r.sections = printer[s].sections
           /\ printer[s].zombie => r.zombie
           /\ \A k \in Stages : r.out[k] = printer[s].out[k]
           /\ r.pc \in {"print", "write"} =>
                r.pc = printer[s].pc /\ r.page = printer[s].page /\ r.stage = printer[s].stage,
         \A q \in SectionSets :
            \/ reportJob'[q] = reportJob[q]
            \/ /\ q = printer[s].sections /\ ~printer[s].zombie /\ printer[s].pc # "idle"
               /\ (r.pc = "idle" \/ r.zombie),
         DOMAIN files' = DOMAIN files,
         \A i \in DOMAIN files : files'[i].kind = files[i].kind /\ files'[i].content = files[i].content,
         case'.version = case.version, asked' = asked, together' = together
  PROVE  SlotsInv' /\ VersionsInv' /\ PrintedInv' /\ OrderInv'
<1>1. printer'[s] = r /\ \A t \in Printers \ {s} : printer'[t] = printer[t]
  BY DEF ReportsInv, ReportsTypes
<1>2. SlotsInv'
  <2>1. ASSUME NEW t \in Printers, printer'[t].pc # "idle"
        PROVE  /\ printer'[t].sections \in SectionSets
               /\ ~printer'[t].zombie => reportJob'[printer'[t].sections].state = "active"
    <3>1. CASE t = s
      BY <1>1, <2>1, <3>1 DEF ReportsInv, SlotsInv
    <3>2. CASE t # s
      BY <1>1, <2>1, <3>2 DEF ReportsInv, SlotsInv
    <3> QED
      BY <3>1, <3>2
  <2>2. ASSUME NEW t \in Printers, NEW u \in Printers, t # u, printer'[t].pc # "idle", printer'[u].pc # "idle",
               ~printer'[t].zombie, ~printer'[u].zombie
        PROVE  printer'[t].sections # printer'[u].sections
    BY <1>1, <2>2 DEF ReportsInv, SlotsInv
  <2> QED
    BY <2>1, <2>2 DEF SlotsInv
<1>3. VersionsInv'
  <2>1. \A t \in Printers : printer'[t].pc \in {"print", "write"} => printer'[t].page <= case.version
    BY <1>1 DEF ReportsInv, VersionsInv
  <2>2. \A i \in DOMAIN files' : files'[i].content <= case.version
    BY DEF ReportsInv, VersionsInv
  <2> QED
    BY <2>1, <2>2 DEF ReportsInv, VersionsInv
<1>4. PrintedInv'
  <2>1. ASSUME NEW t \in Printers, printer'[t].pc # "idle"
        PROVE  /\ printer'[t].pc \in {"print", "write"} /\ ~printer'[t].zombie => asked'[printer'[t].sections] <= printer'[t].page
               /\ printer'[t].pc = "write" => printer'[t].out[printer'[t].stage] # 0
               /\ \A k \in Stages : printer'[t].out[k] # 0 =>
                    /\ printer'[t].out[k] \in DOMAIN files'
                    /\ files'[printer'[t].out[k]].kind = k
                    /\ ~printer'[t].zombie => asked'[printer'[t].sections] <= files'[printer'[t].out[k]].content
    <3>1. CASE t = s
      <4>1. r.stage \in Stages
        BY DEF PrintType
      <4> QED
        BY <1>1, <2>1, <3>1, <4>1 DEF ReportsInv, PrintedInv
    <3>2. CASE t # s
      BY <1>1, <2>1, <3>2 DEF ReportsInv, PrintedInv
    <3> QED
      BY <3>1, <3>2
  <2> QED
    BY <2>1 DEF PrintedInv
<1>5. OrderInv'
  <2> SUFFICES ASSUME ~together PROVE OrderInv'
    BY DEF OrderInv
  <2>1. \A t \in Printers : printer'[t].pc \in {"print", "write"} =>
          printer'[t].pc = printer[t].pc /\ printer'[t].page = printer[t].page /\ printer'[t].stage = printer[t].stage
    BY <1>1
  <2>2. \A t, u \in Printers :
          t # u /\ printer'[t].pc \in {"print", "write"} /\ printer'[u].pc \in {"print", "write"}
            => printer'[t].stage # printer'[u].stage
    BY <2>1 DEF ReportsInv, OrderInv
  <2>3. \A t \in Printers, i \in DOMAIN files' :
          printer'[t].pc = "print" /\ files'[i].kind = printer'[t].stage => files'[i].content <= printer'[t].page
    BY <2>1 DEF ReportsInv, OrderInv
  <2>4. \A i, j \in DOMAIN files' : i <= j /\ files'[i].kind = files'[j].kind => files'[i].content <= files'[j].content
    BY DEF ReportsInv, OrderInv
  <2> QED
    BY <2>2, <2>3, <2>4 DEF OrderInv
<1> QED
  BY <1>2, <1>3, <1>4, <1>5

LEMMA ResultStays ==
  ASSUME ReportsInv, result' = result, asked' = asked, DOMAIN files' = DOMAIN files,
         \A i \in DOMAIN files : files'[i].kind = files[i].kind /\ files'[i].content = files[i].content,
         \A q \in SectionSets : reportJob'[q] = reportJob[q] \/ reportJob'[q].state # "completed"
  PROVE  ResultInv'
<1>1. ASSUME NEW q \in SectionSets, NEW k \in Stages, reportJob'[q].state = "completed", result[q][k] # 0
      PROVE  /\ result[q][k] \in DOMAIN files /\ files'[result[q][k]].kind = k
             /\ asked[q] <= files'[result[q][k]].content
  BY <1>1 DEF ReportsInv, ResultInv
<1> QED
  BY <1>1 DEF ResultInv

\* A render begins: it reads the case as it is now.
LEMMA PageOpens ==
  ASSUME ReportsInv, NEW s \in Printers, printer[s].pc = "open", ~case.deleted, OpenPage(s)
  PROVE  ReportsInv'
<1>0. case.version \in Nat /\ printer[s] \in PrintType
  BY DEF ReportsInv, ReportsTypes
<1>1. PICK r \in PrintType :
        /\ printer' = [printer EXCEPT ![s] = r]
        /\ r.pc = "print" /\ r.sections = printer[s].sections /\ r.zombie = printer[s].zombie
        /\ r.page = case.version /\ r.stage = printer[s].stage /\ r.out = printer[s].out
  <2> DEFINE x == Opened(printer[s], case.version)
  <2>1. /\ x \in PrintType /\ x.pc = "print" /\ x.sections = printer[s].sections /\ x.zombie = printer[s].zombie
        /\ x.page = case.version /\ x.stage = printer[s].stage /\ x.out = printer[s].out
    <3>1. \A p \in PrintType, v \in Nat : LET r == Opened(p, v) IN
            /\ r \in PrintType /\ r.pc = "print" /\ r.sections = p.sections /\ r.zombie = p.zombie
            /\ r.page = v /\ r.stage = p.stage /\ r.out = p.out
      BY PageSet
    <3> QED
      BY <1>0, <3>1
  <2>2. printer' = [printer EXCEPT ![s] = x]
    BY DEF OpenPage, Opened
  <2> HIDE DEF x
  <2> QED
    BY <2>1, <2>2
<1>2. printer'[s] = r /\ \A t \in Printers \ {s} : printer'[t] = printer[t]
  BY <1>1 DEF ReportsInv, ReportsTypes
<1>3. /\ together' = (together \/ Rendering(printer[s].stage) \ {s} # {})
      /\ UNCHANGED <<case, validated, reportJob, files, result, asked, spent>>
  BY DEF OpenPage
<1>4. ReportsTypes'
  BY <1>1, <1>3 DEF ReportsInv, ReportsTypes
<1>5. SlotsInv'
  <2>1. \A t \in Printers : printer'[t].pc # "idle" =>
          printer[t].pc # "idle" /\ printer'[t].sections = printer[t].sections /\ printer'[t].zombie = printer[t].zombie
    BY <1>1, <1>2
  <2> QED
    BY <1>3, <2>1 DEF ReportsInv, SlotsInv
<1>6. VersionsInv'
  BY <1>0, <1>1, <1>2, <1>3 DEF ReportsInv, VersionsInv
<1>7. PrintedInv'
  <2>1. ASSUME NEW t \in Printers, printer'[t].pc # "idle"
        PROVE  /\ printer'[t].pc \in {"print", "write"} /\ ~printer'[t].zombie => asked[printer'[t].sections] <= printer'[t].page
               /\ printer'[t].pc = "write" => printer'[t].out[printer'[t].stage] # 0
               /\ \A k \in Stages : printer'[t].out[k] # 0 =>
                    /\ printer'[t].out[k] \in DOMAIN files
                    /\ files[printer'[t].out[k]].kind = k
                    /\ ~printer'[t].zombie => asked[printer'[t].sections] <= files[printer'[t].out[k]].content
    <3>1. CASE t = s
      <4>1. printer[s].sections \in SectionSets
        BY DEF ReportsInv, SlotsInv
      <4>2. asked[printer[s].sections] <= case.version
        BY <4>1 DEF ReportsInv, VersionsInv
      <4> QED
        BY <1>1, <1>2, <3>1, <4>2 DEF ReportsInv, PrintedInv
    <3>2. CASE t # s
      BY <1>2, <2>1, <3>2 DEF ReportsInv, PrintedInv
    <3> QED
      BY <3>1, <3>2
  <2> QED
    BY <1>3, <2>1 DEF PrintedInv
<1>8. OrderInv'
  <2> SUFFICES ASSUME ~together, Rendering(printer[s].stage) \ {s} = {} PROVE OrderInv'
    BY <1>3 DEF OrderInv
  <2>1. \A t \in Printers \ {s} : printer[t].pc \in {"print", "write"} => printer[t].stage # printer[s].stage
    BY DEF Rendering
  <2>2. \A t, u \in Printers :
          t # u /\ printer'[t].pc \in {"print", "write"} /\ printer'[u].pc \in {"print", "write"}
            => printer'[t].stage # printer'[u].stage
    BY <1>1, <1>2, <2>1 DEF ReportsInv, OrderInv
  <2>3. ASSUME NEW t \in Printers, NEW i \in DOMAIN files, printer'[t].pc = "print", files[i].kind = printer'[t].stage
        PROVE  files[i].content <= printer'[t].page
    <3>1. CASE t = s
      BY <1>1, <1>2, <3>1 DEF ReportsInv, VersionsInv
    <3>2. CASE t # s
      BY <1>2, <2>3, <3>2 DEF ReportsInv, OrderInv
    <3> QED
      BY <3>1, <3>2
  <2>4. \A i, j \in DOMAIN files : i <= j /\ files[i].kind = files[j].kind => files[i].content <= files[j].content
    BY DEF ReportsInv, OrderInv
  <2> QED
    BY <1>3, <2>2, <2>3, <2>4 DEF OrderInv
<1>9. ResultInv'
  BY <1>3, ResultStays DEF ReportsInv
<1> QED
  BY <1>4, <1>5, <1>6, <1>7, <1>8, <1>9 DEF ReportsInv

\* A file is the newest of its kind, and says what its page read.
LEMMA FileAppears ==
  ASSUME ReportsInv, NEW s \in Printers, CreateFile(s)
  PROVE  ReportsInv'
<1> DEFINE n == Len(files) + 1
           f == [kind |-> printer[s].stage, content |-> printer[s].page, whole |-> FALSE]
<1>0. printer[s] \in PrintType /\ printer[s].pc = "print" /\ files \in Seq(FileType) /\ n \in Nat \ {0}
  BY DEF ReportsInv, ReportsTypes, CreateFile
<1>1. PICK r \in PrintType :
        /\ printer' = [printer EXCEPT ![s] = r]
        /\ r.pc = "write" /\ r.sections = printer[s].sections /\ r.zombie = printer[s].zombie
        /\ r.page = printer[s].page /\ r.stage = printer[s].stage /\ r.out[r.stage] = n
        /\ \A k \in Stages \ {r.stage} : r.out[k] = printer[s].out[k]
  <2> DEFINE x == Written(printer[s], n)
  <2>1. /\ x \in PrintType
        /\ x.pc = "write" /\ x.sections = printer[s].sections /\ x.zombie = printer[s].zombie
        /\ x.page = printer[s].page /\ x.stage = printer[s].stage /\ x.out[x.stage] = n
        /\ \A k \in Stages \ {x.stage} : x.out[k] = printer[s].out[k]
    <3>1. n \in Nat /\ x = Written(printer[s], n)
      BY <1>0
    <3> HIDE DEF n, x
    <3>2. /\ x \in PrintType
          /\ x.pc = "write" /\ x.sections = printer[s].sections /\ x.zombie = printer[s].zombie
          /\ x.stage = printer[s].stage /\ x.page = printer[s].page
          /\ x.out[printer[s].stage] = n
          /\ \A k \in Stages \ {printer[s].stage} : x.out[k] = printer[s].out[k]
      BY <1>0, <3>1, OutSet
    <3> QED
      BY <3>2
  <2>2. printer' = [printer EXCEPT ![s] = x]
    BY DEF CreateFile, Written
  <2> HIDE DEF x, n
  <2> QED
    BY <2>1, <2>2
<1>2. printer'[s] = r /\ \A t \in Printers \ {s} : printer'[t] = printer[t]
  BY <1>1 DEF ReportsInv, ReportsTypes
<1>3. f \in FileType /\ r.stage \in Stages /\ f.kind = r.stage /\ f.content = r.page /\ f.content \in Nat
  BY <1>0, <1>1 DEF FileType, PrintType
<1>4. files' = Append(files, f) /\ UNCHANGED <<case, validated, reportJob, result, asked, together, spent>>
  BY DEF CreateFile
<1> HIDE DEF f
<1>5. /\ files' \in Seq(FileType) /\ DOMAIN files = 1 .. Len(files) /\ DOMAIN files' = 1 .. n
      /\ \A i \in DOMAIN files : files'[i] = files[i] /\ files[i] \in FileType
      /\ files'[n] = f
  BY <1>0, <1>3, <1>4, FilesAppend
<1>6. \A i \in DOMAIN files' : i \in DOMAIN files \/ i = n
  BY <1>5
<1>7. \A i \in DOMAIN files : i \in DOMAIN files' /\ i \in Nat /\ i < n
  BY <1>5
<1> HIDE DEF n
<1>8. ReportsTypes'
  BY <1>1, <1>4, <1>5 DEF ReportsInv, ReportsTypes
<1>9. SlotsInv'
  <2>1. \A t \in Printers : printer'[t].pc # "idle" =>
          printer[t].pc # "idle" /\ printer'[t].sections = printer[t].sections /\ printer'[t].zombie = printer[t].zombie
    BY <1>0, <1>1, <1>2
  <2> QED
    BY <1>4, <2>1 DEF ReportsInv, SlotsInv
<1>10. VersionsInv'
  <2>1. r.page <= case.version
    BY <1>0, <1>1 DEF ReportsInv, VersionsInv
  <2>2. \A i \in DOMAIN files' : files'[i].content <= case.version
    BY <1>3, <1>5, <1>6, <2>1 DEF ReportsInv, VersionsInv
  <2>3. \A t \in Printers : printer'[t].pc \in {"print", "write"} => printer'[t].page <= case.version
    BY <1>2, <2>1 DEF ReportsInv, VersionsInv
  <2> QED
    BY <1>4, <2>2, <2>3 DEF ReportsInv, VersionsInv
<1>11. PrintedInv'
  <2>1. ASSUME NEW t \in Printers, printer'[t].pc # "idle"
        PROVE  /\ printer'[t].pc \in {"print", "write"} /\ ~printer'[t].zombie => asked[printer'[t].sections] <= printer'[t].page
               /\ printer'[t].pc = "write" => printer'[t].out[printer'[t].stage] # 0
               /\ \A k \in Stages : printer'[t].out[k] # 0 =>
                    /\ printer'[t].out[k] \in DOMAIN files'
                    /\ files'[printer'[t].out[k]].kind = k
                    /\ ~printer'[t].zombie => asked[printer'[t].sections] <= files'[printer'[t].out[k]].content
    <3>1. CASE t = s
      <4>1. ~r.zombie => asked[r.sections] <= r.page
        BY <1>0, <1>1 DEF ReportsInv, PrintedInv
      <4>2. r.pc = "write" => r.out[r.stage] # 0
        BY <1>0, <1>1
      <4>3. ASSUME NEW k \in Stages, r.out[k] # 0
            PROVE  /\ r.out[k] \in DOMAIN files' /\ files'[r.out[k]].kind = k
                   /\ ~r.zombie => asked[r.sections] <= files'[r.out[k]].content
        <5>1. CASE k = r.stage
          <6>1. r.out[k] = n /\ n \in DOMAIN files'
            BY <1>0, <1>1, <1>5, <5>1
          <6> QED
            BY <1>3, <1>5, <4>1, <5>1, <6>1
        <5>2. CASE k # r.stage
          <6>1. r.out[k] = printer[s].out[k]
            BY <1>1, <5>2
          <6> QED
            BY <1>0, <1>1, <1>5, <1>7, <4>3, <6>1 DEF ReportsInv, PrintedInv
        <5> QED
          BY <5>1, <5>2
      <4> QED
        BY <1>2, <3>1, <4>1, <4>2, <4>3
    <3>2. CASE t # s
      BY <1>2, <1>5, <1>7, <2>1, <3>2 DEF ReportsInv, PrintedInv
    <3> QED
      BY <3>1, <3>2
  <2> QED
    BY <1>4, <2>1 DEF PrintedInv
<1>12. OrderInv'
  <2> SUFFICES ASSUME ~together PROVE OrderInv'
    BY <1>4 DEF OrderInv
  <2>1. \A t \in Printers \ {s} : printer[t].pc \in {"print", "write"} => printer[t].stage # r.stage
    BY <1>0, <1>1 DEF ReportsInv, OrderInv
  <2>2. \A t, u \in Printers :
          t # u /\ printer'[t].pc \in {"print", "write"} /\ printer'[u].pc \in {"print", "write"}
            => printer'[t].stage # printer'[u].stage
    BY <1>0, <1>1, <1>2 DEF ReportsInv, OrderInv
  <2>3. ASSUME NEW t \in Printers, NEW i \in DOMAIN files', printer'[t].pc = "print", files'[i].kind = printer'[t].stage
        PROVE  files'[i].content <= printer'[t].page
    <3>1. t # s /\ printer'[t] = printer[t]
      BY <1>1, <1>2, <2>3
    <3>2. i # n
      BY <1>3, <1>5, <2>1, <2>3, <3>1
    <3> QED
      BY <1>5, <1>6, <2>3, <3>1, <3>2 DEF ReportsInv, OrderInv
  <2>4. ASSUME NEW i \in DOMAIN files', NEW j \in DOMAIN files', i <= j, files'[i].kind = files'[j].kind
        PROVE  files'[i].content <= files'[j].content
    <3>1. CASE i \in DOMAIN files /\ j \in DOMAIN files
      BY <1>5, <2>4, <3>1 DEF ReportsInv, OrderInv
    <3>2. CASE i \in DOMAIN files /\ j = n
      <4>1. files[i].kind = printer[s].stage
        BY <1>1, <1>3, <1>5, <2>4, <3>2
      <4> QED
        BY <1>0, <1>1, <1>3, <1>5, <3>2, <4>1 DEF ReportsInv, OrderInv
    <3>3. CASE i = n
      <4>1. j = n
        BY <1>0, <1>6, <1>7, <2>4, <3>3
      <4> QED
        BY <1>3, <1>5, <3>3, <4>1
    <3> QED
      BY <1>6, <3>1, <3>2, <3>3
  <2> QED
    BY <2>2, <2>3, <2>4 DEF OrderInv
<1>13. ResultInv'
  <2>1. ASSUME NEW q \in SectionSets, NEW k \in Stages, reportJob[q].state = "completed", result[q][k] # 0
        PROVE  /\ result[q][k] \in DOMAIN files' /\ files'[result[q][k]].kind = k
               /\ asked[q] <= files'[result[q][k]].content
    BY <1>5, <1>7, <2>1 DEF ReportsInv, ResultInv
  <2> QED
    BY <1>4, <2>1 DEF ResultInv
<1> QED
  BY <1>8, <1>9, <1>10, <1>11, <1>12, <1>13 DEF ReportsInv

\* The case, the requests and the queue.
LEMMA RequestSteps ==
  ASSUME ReportsInv,
         CaseChanges \/ \E q \in SUBSET ReportSections : RequestReport(q)
  PROVE  ReportsInv'
<1>1. UNCHANGED <<reportJob, printer, files, result, asked, together>>
  BY DEF CaseChanges, RequestReport
<1>2. case' \in [version : Nat, deleted : BOOLEAN] /\ case.version \in Nat /\ case.version <= case'.version
  <2>1. case \in [version : Nat, deleted : BOOLEAN]
    BY DEF ReportsInv, ReportsTypes
  <2>2. \/ case' = case
        \/ case' = [case EXCEPT !.version = @ + 1]
        \/ case' = [case EXCEPT !.version = @ + 1, !.deleted = TRUE]
    BY DEF CaseChanges, RequestReport
  <2>3. case.version \in Nat
    BY <2>1
  <2>4. ASSUME case' = [case EXCEPT !.version = @ + 1] \/ case' = [case EXCEPT !.version = @ + 1, !.deleted = TRUE]
        PROVE  case' \in [version : Nat, deleted : BOOLEAN] /\ case'.version = case.version + 1
    <3>1. PICK c \in [version : Nat, deleted : BOOLEAN] : c = case
      BY <2>1
    <3>2. c.version \in Nat /\ c.version + 1 \in Nat
      BY <3>1
    <3>3. CASE case' = [case EXCEPT !.version = @ + 1]
      <4>1. case' = [c EXCEPT !.version = c.version + 1]
        BY <3>1, <3>3
      <4> QED
        BY <3>1, <3>2, <4>1
    <3>4. CASE case' = [case EXCEPT !.version = @ + 1, !.deleted = TRUE]
      <4>1. case' = [c EXCEPT !.version = c.version + 1, !.deleted = TRUE]
        BY <3>1, <3>4
      <4> QED
        BY <3>1, <3>2, <4>1
    <3> QED
      BY <2>4, <3>3, <3>4
  <2> QED
    BY <2>1, <2>2, <2>3, <2>4
<1>3. validated' \subseteq SectionSets
  BY ReportsAssumption DEF ReportsInv, ReportsTypes, CaseChanges, RequestReport, SectionSets, Enforced
<1>4. ReportsTypes'
  BY <1>1, <1>2, <1>3 DEF ReportsInv, ReportsTypes
<1>5. SlotsInv' /\ PrintedInv' /\ OrderInv' /\ ResultInv'
  BY <1>1 DEF ReportsInv, SlotsInv, PrintedInv, OrderInv, ResultInv
<1>6. VersionsInv'
  <2>1. \A q \in SectionSets : asked[q] \in Nat
    BY DEF ReportsInv, ReportsTypes
  <2>2. \A i \in DOMAIN files : files[i].content \in Nat
    BY FileOf DEF ReportsInv
  <2>3. \A s \in Printers : printer[s].page \in Nat
    BY DEF ReportsInv, ReportsTypes, PrintType
  <2> QED
    BY <1>1, <1>2, <2>1, <2>2, <2>3 DEF ReportsInv, VersionsInv
<1> QED
  BY <1>4, <1>5, <1>6 DEF ReportsInv

LEMMA QueueSteps ==
  ASSUME ReportsInv, NEW q \in SectionSets, QueueReport(q)
  PROVE  ReportsInv'
<1>1. UNCHANGED <<case, printer, files, result, together, spent>> /\ validated' \subseteq SectionSets
  BY DEF QueueReport, ReportsInv, ReportsTypes
<1>2. CASE reportJob[q].state \in {"queued", "active"}
  <2>1. UNCHANGED <<reportJob, asked>>
    BY <1>2 DEF QueueReport
  <2> QED
    BY <1>1, <2>1 DEF ReportsInv, ReportsTypes, SlotsInv, VersionsInv, PrintedInv, OrderInv, ResultInv
<1>3. CASE reportJob[q].state \notin {"queued", "active"}
  <2>1. /\ reportJob' = [reportJob EXCEPT ![q] = [state |-> "queued", tries |-> 0]]
        /\ asked' = [asked EXCEPT ![q] = case.version]
    BY <1>3 DEF QueueReport
  <2>2. /\ reportJob' \in [SectionSets -> JobType] /\ asked' \in [SectionSets -> Nat]
        /\ reportJob'[q].state = "queued" /\ asked'[q] = case.version /\ case.version \in Nat
        /\ \A z \in SectionSets \ {q} : reportJob'[z] = reportJob[z] /\ asked'[z] = asked[z]
    BY <2>1 DEF ReportsInv, ReportsTypes, JobType
  <2>3. \A s \in Printers : printer[s].pc # "idle" /\ ~printer[s].zombie =>
          printer[s].sections \in SectionSets \ {q}
    BY <1>3 DEF ReportsInv, SlotsInv
  <2>4. ReportsTypes'
    BY <1>1, <2>2 DEF ReportsInv, ReportsTypes
  <2>5. SlotsInv'
    BY <1>1, <2>2, <2>3 DEF ReportsInv, SlotsInv
  <2>6. VersionsInv'
    <3>1. \A z \in SectionSets : asked'[z] <= case.version
      BY <2>2 DEF ReportsInv, VersionsInv
    <3> QED
      BY <1>1, <3>1 DEF ReportsInv, VersionsInv
  <2>7. PrintedInv'
    BY <1>1, <2>2, <2>3 DEF ReportsInv, PrintedInv
  <2>8. OrderInv'
    BY <1>1 DEF ReportsInv, OrderInv
  <2>9. ResultInv'
    <3>1. \A z \in SectionSets : reportJob'[z].state = "completed" => z # q
      BY <2>2
    <3> QED
      BY <1>1, <2>2, <3>1 DEF ReportsInv, ResultInv
  <2> QED
    BY <2>4, <2>5, <2>6, <2>7, <2>8, <2>9 DEF ReportsInv
<1> QED
  BY <1>2, <1>3

LEMMA PickSteps ==
  ASSUME ReportsInv, NEW s \in Printers, NEW q \in SectionSets, PickReport(s, q)
  PROVE  ReportsInv'
<1>1. PICK r \in PrintType :
        /\ printer' = [printer EXCEPT ![s] = r]
        /\ r.pc = "assemble" /\ r.sections = q /\ ~r.zombie /\ \A k \in Stages : r.out[k] = 0
  <2> DEFINE x == [NoPrint EXCEPT !.pc = "assemble", !.sections = q]
  <2>1. x \in PrintType /\ x.pc = "assemble" /\ x.sections = q /\ ~x.zombie /\ \A k \in Stages : x.out[k] = 0
    BY NoPrintType
  <2>2. printer' = [printer EXCEPT ![s] = x]
    BY DEF PickReport
  <2> HIDE DEF x
  <2> QED
    BY <2>1, <2>2
<1>2. printer'[s] = r /\ \A t \in Printers \ {s} : printer'[t] = printer[t]
  BY <1>1 DEF ReportsInv, ReportsTypes
<1>3. /\ UNCHANGED <<case, validated, files, result, asked, together, spent>>
      /\ reportJob[q].state = "queued" /\ printer[s].pc = "idle"
      /\ reportJob' = [reportJob EXCEPT ![q].state = "active"]
  BY DEF PickReport
<1>4. /\ reportJob' \in [SectionSets -> JobType] /\ reportJob'[q].state = "active"
      /\ \A z \in SectionSets \ {q} : reportJob'[z] = reportJob[z]
  BY <1>3 DEF ReportsInv, ReportsTypes, JobType
<1>5. \A t \in Printers : printer[t].pc # "idle" /\ ~printer[t].zombie => printer[t].sections \in SectionSets \ {q}
  BY <1>3 DEF ReportsInv, SlotsInv
<1>6. ReportsTypes'
  BY <1>1, <1>3, <1>4 DEF ReportsInv, ReportsTypes
<1>7. SlotsInv'
  <2>1. ASSUME NEW t \in Printers, printer'[t].pc # "idle"
        PROVE  /\ printer'[t].sections \in SectionSets
               /\ ~printer'[t].zombie => reportJob'[printer'[t].sections].state = "active"
    <3>1. CASE t = s
      BY <1>1, <1>2, <1>4, <3>1
    <3>2. CASE t # s
      BY <1>2, <1>4, <1>5, <2>1, <3>2 DEF ReportsInv, SlotsInv
    <3> QED
      BY <3>1, <3>2
  <2>2. ASSUME NEW t \in Printers, NEW u \in Printers, t # u, printer'[t].pc # "idle", printer'[u].pc # "idle",
               ~printer'[t].zombie, ~printer'[u].zombie
        PROVE  printer'[t].sections # printer'[u].sections
    BY <1>1, <1>2, <1>5, <2>2 DEF ReportsInv, SlotsInv
  <2> QED
    BY <2>1, <2>2 DEF SlotsInv
<1>8. VersionsInv'
  BY <1>1, <1>2, <1>3 DEF ReportsInv, VersionsInv
<1>9. PrintedInv'
  <2>1. ASSUME NEW t \in Printers, printer'[t].pc # "idle"
        PROVE  /\ printer'[t].pc \in {"print", "write"} /\ ~printer'[t].zombie => asked[printer'[t].sections] <= printer'[t].page
               /\ printer'[t].pc = "write" => printer'[t].out[printer'[t].stage] # 0
               /\ \A k \in Stages : printer'[t].out[k] # 0 =>
                    /\ printer'[t].out[k] \in DOMAIN files
                    /\ files[printer'[t].out[k]].kind = k
                    /\ ~printer'[t].zombie => asked[printer'[t].sections] <= files[printer'[t].out[k]].content
    <3>1. CASE t = s
      BY <1>1, <1>2, <3>1
    <3>2. CASE t # s
      BY <1>2, <2>1, <3>2 DEF ReportsInv, PrintedInv
    <3> QED
      BY <3>1, <3>2
  <2> QED
    BY <1>3, <2>1 DEF PrintedInv
<1>10. OrderInv'
  <2>1. \A t \in Printers : printer'[t].pc \in {"print", "write"} => printer'[t] = printer[t]
    BY <1>1, <1>2
  <2> QED
    BY <1>3, <2>1 DEF ReportsInv, OrderInv
<1>11. ResultInv'
  <2>1. \A z \in SectionSets : reportJob'[z] = reportJob[z] \/ reportJob'[z].state # "completed"
    BY <1>4
  <2> QED
    BY <1>3, <2>1, ResultStays DEF ReportsInv
<1> QED
  BY <1>6, <1>7, <1>8, <1>9, <1>10, <1>11 DEF ReportsInv

\* The steps of a slot that begin no render and append no file.
LEMMA SlotSteps ==
  ASSUME ReportsInv, NEW s \in Printers,
         \/ Assemble(s)
         \/ OpenPage(s) /\ case.deleted
         \/ PrintFails(s) \/ FillFile(s) \/ FinishReport(s)
         \/ \E dead \in BOOLEAN : LoseWorker(s, dead)
  PROVE  ReportsInv'
<1>1. PICK p \in PrintType : p = printer[s]
  BY DEF ReportsInv, ReportsTypes
<1>2. /\ UNCHANGED <<case, asked, together>> /\ validated' = validated /\ p.pc # "idle"
      /\ p.sections \in SectionSets
  <2>1. p.pc # "idle" /\ UNCHANGED <<case, validated, asked, together>>
    BY <1>1 DEF Assemble, OpenPage, PrintFails, FillFile, FinishReport, LoseWorker
  <2> QED
    BY <1>1, <2>1 DEF ReportsInv, SlotsInv
\* The files say what they said.
<1>3. /\ files' \in Seq(FileType) /\ DOMAIN files' = DOMAIN files
      /\ \A i \in DOMAIN files : files'[i].kind = files[i].kind /\ files'[i].content = files[i].content
  <2>0. files \in Seq(FileType)
    BY DEF ReportsInv, ReportsTypes
  <2>1. CASE FillFile(s)
    <3>1. p.out[p.stage] \in DOMAIN files
      <4>1. p.pc = "write" /\ p.stage \in Stages
        BY <1>1, <2>1 DEF FillFile, PrintType
      <4> QED
        BY <1>1, <4>1 DEF ReportsInv, PrintedInv
    <3>2. files' = [files EXCEPT ![p.out[p.stage]].whole = TRUE]
      BY <1>1, <2>1 DEF FillFile
    <3> QED
      BY <2>0, <3>1, <3>2, FilesFill
  <2>2. CASE ~FillFile(s)
    <3>1. files' = files
      BY <2>2 DEF Assemble, OpenPage, PrintFails, FinishReport, LoseWorker
    <3> QED
      BY <2>0, <3>1
  <2> QED
    BY <2>1, <2>2
\* The queue gets its job back from a slot that had it.
<1>4. ASSUME GiveBack(p.sections), ~p.zombie
      PROVE  /\ reportJob' \in [SectionSets -> JobType]
             /\ \A q \in SectionSets : reportJob'[q] = reportJob[q] \/ (q = p.sections /\ ~p.zombie /\ reportJob'[q].state # "completed")
  <2>1. ReportsTypes
    BY DEF ReportsInv
  <2>2. /\ reportJob' \in [SectionSets -> JobType] /\ reportJob'[p.sections].state \in {"queued", "failed"}
        /\ \A z \in SectionSets \ {p.sections} : reportJob'[z] = reportJob[z]
    BY <1>2, <1>4, <2>1, GiveBackIs
  <2>3. ASSUME NEW q \in SectionSets
        PROVE  \/ reportJob'[q] = reportJob[q]
               \/ q = p.sections /\ ~p.zombie /\ reportJob'[q].state # "completed"
    <3>1. CASE q = p.sections
      BY <1>4, <2>2, <3>1
    <3>2. CASE q # p.sections
      BY <2>2, <3>2
    <3> QED
      BY <3>1, <3>2
  <2> QED
    BY <2>2, <2>3
<1>5. ASSUME NEW r \in PrintType,
             printer' = [printer EXCEPT ![s] = r],
             r.pc # "idle" =>
               /\ r.sections = p.sections /\ (p.zombie => r.zombie) /\ \A k \in Stages : r.out[k] = p.out[k]
               /\ r.pc \in {"print", "write"} => r.pc = p.pc /\ r.page = p.page /\ r.stage = p.stage,
             reportJob' \in [SectionSets -> JobType],
             \A q \in SectionSets : reportJob'[q] = reportJob[q] \/ (q = p.sections /\ ~p.zombie /\ (r.pc = "idle" \/ r.zombie))
      PROVE  /\ SlotsInv' /\ VersionsInv' /\ PrintedInv' /\ OrderInv'
             /\ result' \in [SectionSets -> OutType] => ReportsTypes'
  <2>1. SlotsInv' /\ VersionsInv' /\ PrintedInv' /\ OrderInv'
    BY <1>1, <1>2, <1>3, <1>5, SlotMoves
  <2>2. result' \in [SectionSets -> OutType] => ReportsTypes'
    BY <1>2, <1>3, <1>5 DEF ReportsInv, ReportsTypes
  <2> QED
    BY <2>1, <2>2
<1>6. ASSUME result' = result,
             \A q \in SectionSets : reportJob'[q] = reportJob[q] \/ reportJob'[q].state # "completed"
      PROVE  ResultInv' /\ result' \in [SectionSets -> OutType]
  BY <1>2, <1>3, <1>6, ResultStays DEF ReportsInv, ReportsTypes
<1>7. reportJob \in [SectionSets -> JobType]
  BY DEF ReportsInv, ReportsTypes
<1>12. ASSUME NEW r \in PrintType,
              printer' = [printer EXCEPT ![s] = r],
              r.pc # "idle" =>
                /\ r.sections = p.sections /\ (p.zombie => r.zombie) /\ \A k \in Stages : r.out[k] = p.out[k]
                /\ r.pc \notin {"print", "write"},
              reportJob' = reportJob, result' = result
       PROVE  ReportsInv'
  <2>1. reportJob' \in [SectionSets -> JobType] /\ \A q \in SectionSets : reportJob'[q] = reportJob[q]
    BY <1>7, <1>12
  <2>2. ResultInv' /\ result' \in [SectionSets -> OutType]
    BY <1>6, <1>12, <2>1
  <2>3. /\ SlotsInv' /\ VersionsInv' /\ PrintedInv' /\ OrderInv'
        /\ result' \in [SectionSets -> OutType] => ReportsTypes'
    <3>1. r.pc # "idle" =>
               /\ r.sections = p.sections /\ (p.zombie => r.zombie) /\ \A k \in Stages : r.out[k] = p.out[k]
               /\ r.pc \in {"print", "write"} => r.pc = p.pc /\ r.page = p.page /\ r.stage = p.stage
      BY <1>12
    <3>2. \A q \in SectionSets : reportJob'[q] = reportJob[q] \/ (q = p.sections /\ ~p.zombie /\ (r.pc = "idle" \/ r.zombie))
      BY <2>1
    <3> QED
      BY <1>5, <1>12, <2>1, <3>1, <3>2
  <2> QED
    BY <2>2, <2>3 DEF ReportsInv
<1>13. ASSUME NEW r \in PrintType,
              printer' = [printer EXCEPT ![s] = r],
              r.pc # "idle" =>
                /\ r.sections = p.sections /\ r.zombie /\ \A k \in Stages : r.out[k] = p.out[k]
                /\ r.pc \in {"print", "write"} => r.pc = p.pc /\ r.page = p.page /\ r.stage = p.stage,
              GiveBack(p.sections), ~p.zombie, result' = result
       PROVE  ReportsInv'
  <2>1. /\ reportJob' \in [SectionSets -> JobType]
        /\ \A q \in SectionSets : reportJob'[q] = reportJob[q] \/ (q = p.sections /\ ~p.zombie /\ reportJob'[q].state # "completed")
    BY <1>4, <1>13
  <2>2. ResultInv' /\ result' \in [SectionSets -> OutType]
    <3>1. \A q \in SectionSets : reportJob'[q] = reportJob[q] \/ reportJob'[q].state # "completed"
      BY <2>1
    <3> QED
      BY <1>6, <1>13, <3>1
  <2>3. /\ SlotsInv' /\ VersionsInv' /\ PrintedInv' /\ OrderInv'
        /\ result' \in [SectionSets -> OutType] => ReportsTypes'
    <3>1. r.pc = "idle" \/ r.zombie
      BY <1>13
    <3>2. \A q \in SectionSets : reportJob'[q] = reportJob[q] \/ (q = p.sections /\ ~p.zombie /\ (r.pc = "idle" \/ r.zombie))
      BY <2>1, <3>1
    <3> QED
      BY <1>5, <1>13, <2>1, <3>2
  <2> QED
    BY <2>2, <2>3 DEF ReportsInv
<1>8. CASE Assemble(s)
  <2>1. result' = result
    BY <1>8 DEF Assemble
  <2>2. CASE case.deleted
    <3>1. printer' = [printer EXCEPT ![s] = NoPrint]
      BY <1>8, <2>2 DEF Assemble
    <3>2. CASE p.zombie
      <4>1. reportJob' = reportJob
        BY <1>1, <1>8, <2>2, <3>2 DEF Assemble
      <4> QED
        BY <1>12, <2>1, <3>1, <4>1, NoPrintType
    <3>3. CASE ~p.zombie
      <4>1. GiveBack(p.sections)
        BY <1>1, <1>8, <2>2, <3>3 DEF Assemble
      <4> QED
        BY <1>13, <2>1, <3>1, <3>3, <4>1, NoPrintType
    <3> QED
      BY <3>2, <3>3
  <2>3. CASE ~case.deleted
    <3>1. printer' = [printer EXCEPT ![s] = Gathered(p, case.version)] /\ reportJob' = reportJob
      BY <1>1, <1>8, <2>3 DEF Assemble, Gathered
    <3>2. case.version \in Nat
      BY DEF ReportsInv, ReportsTypes
    <3>3. PICK r \in PrintType :
            /\ r = Gathered(p, case.version) /\ r.pc = "open" /\ r.sections = p.sections /\ r.zombie = p.zombie
            /\ \A k \in Stages : r.out[k] = p.out[k]
      BY <3>2, DataSet
    <3> QED
      BY <1>12, <2>1, <3>1, <3>3
  <2> QED
    BY <2>2, <2>3
<1>9. CASE (OpenPage(s) /\ case.deleted) \/ PrintFails(s) \/ FillFile(s)
  <2>1. result' = result /\ reportJob' = reportJob /\ printer' = [printer EXCEPT ![s] = NextStage(p)]
    BY <1>1, <1>9 DEF OpenPage, PrintFails, FillFile
  <2>2. PICK r \in PrintType :
          /\ r = NextStage(p) /\ r.pc \in {"open", "finish"} /\ r.sections = p.sections
          /\ r.zombie = p.zombie /\ r.out = p.out
    BY NextStageIs
  <2> QED
    BY <1>12, <2>1, <2>2
<1>10. CASE FinishReport(s)
  <2>1. printer' = [printer EXCEPT ![s] = NoPrint]
    BY <1>10 DEF FinishReport
  <2>2. CASE p.zombie
    <3>1. result' = result /\ reportJob' = reportJob
      BY <1>1, <1>10, <2>2 DEF FinishReport
    <3> QED
      BY <1>12, <2>1, <3>1, NoPrintType
  <2>3. CASE ~p.zombie
    <3>1. /\ reportJob' = [reportJob EXCEPT ![p.sections].state = "completed"]
          /\ result' = [result EXCEPT ![p.sections] = p.out]
      BY <1>1, <1>10, <2>3 DEF FinishReport
    <3>2. /\ reportJob' \in [SectionSets -> JobType] /\ result' \in [SectionSets -> OutType]
          /\ result'[p.sections] = p.out
          /\ \A q \in SectionSets \ {p.sections} : reportJob'[q] = reportJob[q] /\ result'[q] = result[q]
      BY <1>1, <1>2, <1>7, <3>1 DEF ReportsInv, ReportsTypes, PrintType, JobType
    <3>3. ASSUME NEW q \in SectionSets, NEW k \in Stages, reportJob'[q].state = "completed", result'[q][k] # 0
          PROVE  /\ result'[q][k] \in DOMAIN files /\ files[result'[q][k]].kind = k
                 /\ asked[q] <= files[result'[q][k]].content
      <4>1. CASE q = p.sections
        BY <1>1, <1>2, <2>3, <3>2, <3>3, <4>1 DEF ReportsInv, PrintedInv
      <4>2. CASE q # p.sections
        BY <3>2, <3>3, <4>2 DEF ReportsInv, ResultInv
      <4> QED
        BY <4>1, <4>2
    <3>4. ResultInv'
      BY <1>2, <1>3, <3>3 DEF ResultInv
    <3> QED
      BY <1>5, <2>1, <2>3, <3>2, <3>4, NoPrintType DEF ReportsInv
  <2> QED
    BY <2>2, <2>3
<1>11. ASSUME NEW dead \in BOOLEAN, LoseWorker(s, dead)
       PROVE  ReportsInv'
  <2>1. result' = result /\ GiveBack(p.sections) /\ ~p.zombie
    BY <1>1, <1>11 DEF LoseWorker
  <2>2. CASE dead
    <3>1. printer' = [printer EXCEPT ![s] = NoPrint]
      BY <1>11, <2>2 DEF LoseWorker
    <3> QED
      BY <1>13, <2>1, <3>1, NoPrintType
  <2>3. CASE ~dead
    <3>1. printer' = [printer EXCEPT ![s] = Unlocked(p)]
      BY <1>1, <1>11, <2>3 DEF LoseWorker, Unlocked
    <3>2. PICK r \in PrintType :
            /\ r = Unlocked(p) /\ r.pc = p.pc /\ r.sections = p.sections /\ r.zombie
            /\ r.page = p.page /\ r.stage = p.stage /\ r.out = p.out
      BY ZombieSet
    <3> QED
      BY <1>13, <2>1, <3>1, <3>2
  <2> QED
    BY <2>2, <2>3
<1> QED
  BY <1>8, <1>9, <1>10, <1>11

LEMMA InitReports == ReportsInit => ReportsInv
<1> SUFFICES ASSUME ReportsInit PROVE ReportsInv
  OBVIOUS
<1>1. case \in [version : Nat, deleted : BOOLEAN] /\ case.version = 1
  BY DEF ReportsInit
<1>2. files \in Seq(FileType) /\ DOMAIN files = {}
  BY DEF ReportsInit
<1>3. ReportsTypes
  BY <1>1, <1>2, NoPrintType DEF ReportsInit, ReportsTypes
<1>4. \A s \in Printers : printer[s].pc = "idle"
  BY NoPrintType DEF ReportsInit
<1>5. \A q \in SectionSets : asked[q] = 0 /\ reportJob[q].state = "none"
  BY DEF ReportsInit, NoJob
<1> QED
  BY <1>1, <1>2, <1>3, <1>4, <1>5
  DEF ReportsInv, SlotsInv, VersionsInv, PrintedInv, OrderInv, ResultInv

LEMMA ReportsStep == ReportsInv /\ [ReportsNext]_reportsVars => ReportsInv'
<1> SUFFICES ASSUME ReportsInv, [ReportsNext]_reportsVars PROVE ReportsInv'
  OBVIOUS
<1>1. CASE UNCHANGED reportsVars
  BY <1>1 DEF ReportsInv, ReportsTypes, SlotsInv, VersionsInv, PrintedInv, OrderInv, ResultInv, reportsVars
<1>2. ASSUME NEW q \in SUBSET ReportSections, QueueReport(q) PROVE ReportsInv'
  <2>1. q \in SectionSets
    BY <1>2 DEF QueueReport, ReportsInv, ReportsTypes
  <2> QED
    BY <1>2, <2>1, QueueSteps
<1>3. ASSUME NEW s \in Printers, PrinterStep(s) PROVE ReportsInv'
  <2>1. CASE \E q \in SectionSets : PickReport(s, q)
    BY <2>1, PickSteps
  <2>2. CASE CreateFile(s)
    BY <2>2, FileAppears
  <2>3. CASE OpenPage(s) /\ ~case.deleted
    <3>1. printer[s].pc = "open"
      BY <2>3 DEF OpenPage
    <3> QED
      BY <2>3, <3>1, PageOpens
  <2> QED
    BY <1>3, <2>1, <2>2, <2>3, SlotSteps DEF PrinterStep
<1> QED
  BY <1>1, <1>2, <1>3, RequestSteps DEF ReportsNext

LEMMA ReportsInductive == ReportsSpec => []ReportsInv
  BY InitReports, ReportsStep, PTL DEF ReportsSpec

\* What is served of a kind is its last file.
LEMMA ServedIsLast ==
  ASSUME ReportsInv, NEW kind, OfKind(kind) # {}
  PROVE  Served(kind) \in OfKind(kind) /\ \A j \in OfKind(kind) : j <= Served(kind)
<1>1. Len(files) \in Nat /\ DOMAIN files = 1 .. Len(files)
  BY DEF ReportsInv, ReportsTypes
<1>2. OfKind(kind) \subseteq 0 .. Len(files)
  BY <1>1 DEF OfKind
<1>3. \E i \in OfKind(kind) : \A j \in OfKind(kind) : j <= i
  BY <1>1, <1>2, LastOf
<1> QED
  BY <1>3 DEF Served

\* Once the last job that was queued for a set of sections has completed with a document,
\* one of its kind is served and says at least what the case held when it was asked for,
\* unless two renders of one document overlapped.
THEOREM ReportsServeCurrent == ReportsSpec => []ServedIsCurrent
<1>1. ReportsInv => ServedIsCurrent
  <2> SUFFICES ASSUME ReportsInv, NEW q \in SectionSets, NEW kind \in Stages, ~together,
                      reportJob[q].state = "completed", result[q][kind] # 0
               PROVE  /\ Served(kind) # 0
                      /\ files[Served(kind)].kind = kind
                      /\ files[Served(kind)].content >= asked[q]
    BY DEF ServedIsCurrent
  <2> DEFINE n == result[q][kind]
  <2>1. n \in OfKind(kind) /\ asked[q] <= files[n].content
    BY DEF ReportsInv, ResultInv, OfKind
  <2>2. Served(kind) \in OfKind(kind) /\ n <= Served(kind)
    BY <2>1, ServedIsLast
  <2>3. Served(kind) \in DOMAIN files /\ files[Served(kind)].kind = kind /\ n \in DOMAIN files /\ files[n].kind = kind
    BY <2>1, <2>2 DEF OfKind
  <2>4. files[n].content <= files[Served(kind)].content
    BY <2>2, <2>3 DEF ReportsInv, OrderInv
  <2>5. files[n].content \in Nat /\ files[Served(kind)].content \in Nat /\ asked[q] \in Nat
    BY <2>3, FileOf DEF ReportsInv, ReportsTypes
  <2>6. Served(kind) # 0
    BY <2>3 DEF ReportsInv, ReportsTypes
  <2> HIDE DEF n
  <2> QED
    BY <2>1, <2>3, <2>4, <2>5, <2>6
<1> QED
  BY <1>1, ReportsInductive, PTL

-----------------------------------------------------------------------------
(* What a report says: its inductive invariant, and its texts by their conditions *)

TextTypes ==
  /\ facts \in Facts
  /\ reading = [p \in DOMAIN reading |-> reading[p]]
  /\ DOMAIN reading \subseteq Parts
  /\ \A p \in DOMAIN reading : reading[p] \in ReadValues[p]
  /\ recomputes \in 0 .. MaxRecomputes

SlickMaps == UNION {[S -> BOOLEAN] : S \in SUBSET Slicks}

\* A result that is stored leaves the other parts as they were.
LEMMA FactsOf ==
  ASSUME NEW f \in Facts
  PROVE  /\ f.slicks \in SlickMaps /\ f.origins \in Seq(Estimates)
         /\ f.vessels \in [Slicks -> Seq(Doc)] /\ f.coverage \in Coverage
         /\ \A v \in SlickMaps : [f EXCEPT !.slicks = v] \in Facts
         /\ \A v \in Seq(Estimates) : [f EXCEPT !.origins = v] \in Facts
         /\ \A v \in Coverage : [f EXCEPT !.coverage = v] \in Facts
         /\ \A v \in [Slicks -> Seq(Doc)] : [f EXCEPT !.vessels = v] \in Facts
<1>1. PICK m \in SlickMaps, es \in Seq(Estimates), vs \in [Slicks -> Seq(Doc)], c \in Coverage :
        f = [slicks |-> m, origins |-> es, vessels |-> vs, coverage |-> c]
  BY DEF Facts, SlickMaps
<1>2. \A v \in [Slicks -> Seq(Doc)] : [f EXCEPT !.vessels = v] \in Facts
  BY <1>1 DEF Facts, SlickMaps
<1>3. /\ \A v \in SlickMaps : [f EXCEPT !.slicks = v] \in Facts
      /\ \A v \in Seq(Estimates) : [f EXCEPT !.origins = v] \in Facts
      /\ \A v \in Coverage : [f EXCEPT !.coverage = v] \in Facts
  BY <1>1 DEF Facts, SlickMaps
<1> QED
  BY <1>1, <1>2, <1>3

LEMMA RankedTyped ==
  ASSUME facts \in Facts, NEW s \in Slicks, NEW q \in Seq(Doc)
  PROVE  InRanking(s, q) \in Facts
<1>1. [facts.vessels EXCEPT ![s] = q] \in [Slicks -> Seq(Doc)]
  BY FactsOf
<1> QED
  BY <1>1, FactsOf DEF InRanking

LEMMA RankingsTyped == Rankings \subseteq Seq(Doc)
<1> SUFFICES ASSUME NEW r \in Rankings PROVE r \in Seq(Doc)
  OBVIOUS
<1>1. PICK n \in 0 .. MaxListed : \E t \in [1 .. n -> Tiers], v \in Separation : r = RankingOf(t, v)
  BY DEF Rankings, Separation
<1>2. PICK t \in [1 .. n -> Tiers], v \in Separation : r = RankingOf(t, v)
  BY <1>1
<1>3. n \in Nat
  BY ReportTextAssumption
<1>4. r = [k \in 1 .. n |-> [rank |-> k, tier |-> t[k], separation |-> IF k = 1 THEN v ELSE "none"]]
  BY <1>2 DEF RankingOf
<1>5. \A k \in 1 .. n : [rank |-> k, tier |-> t[k], separation |-> IF k = 1 THEN v ELSE "none"] \in Doc
  <2> SUFFICES ASSUME NEW k \in 1 .. n
               PROVE  [rank |-> k, tier |-> t[k], separation |-> IF k = 1 THEN v ELSE "none"] \in Doc
    OBVIOUS
  <2>1. t[k] \in Tier /\ k \in Nat \ {0} /\ (IF k = 1 THEN v ELSE "none") \in Separation
    BY <1>3, ReportTextAssumption DEF Separation
  <2> QED
    BY <2>1 DEF Doc
<1>6. r \in [1 .. n -> Doc]
  BY <1>4, <1>5
<1> QED
  BY <1>3, <1>6

LEMMA OthersTyped ==
  ASSUME NEW es \in Seq(Estimates), NEW s
  PROVE  OfOthers(es, s) \in Seq(Estimates)
<1>1. CASE \A n \in DOMAIN es : es[n].of # s
  BY <1>1 DEF OfOthers
<1>2. CASE \E n \in DOMAIN es : es[n].of = s
  <2>1. PICK k : k = CHOOSE n \in DOMAIN es : es[n].of = s
    OBVIOUS
  <2>2. k \in DOMAIN es
    BY <1>2, <2>1
  <2>3. k \in 1 .. Len(es) /\ Len(es) \in Nat
    BY <2>2, LenProperties
  <2>4. SubSeq(es, 1, k - 1) \in Seq(Estimates) /\ SubSeq(es, k + 1, Len(es)) \in Seq(Estimates)
    BY <2>3, SubSeqProperties
  <2>5. OfOthers(es, s) = SubSeq(es, 1, k - 1) \o SubSeq(es, k + 1, Len(es))
    BY <1>2, <2>1 DEF OfOthers
  <2> QED
    BY <2>4, <2>5, ConcatProperties
<1> QED
  BY <1>1, <1>2

\* A query finds what its part may hold; of the vessels a list that goes up in rank.
LEMMA FoundTyped ==
  ASSUME facts \in Facts, NEW p \in Parts, NEW v \in QueryGives(p)
  PROVE  v \in ReadValues[p]
<1> DEFINE vs == facts.vessels
           docs == Placed(vs)
           k == Cardinality(docs)
<1>1. ASSUME NEW l \in ByRank(vs) PROVE l \in Listings
  <2>1. l \in InAnyOrder(vs) /\ \A i, j \in DOMAIN l : i < j => l[i].rank <= l[j].rank
    BY DEF ByRank
  <2>2. k \in Nat
    <3>1. IsFiniteSet(1 .. MaxListed)
      BY FS_Interval, ReportTextAssumption
    <3>2. IsFiniteSet(Slicks \X (1 .. MaxListed))
      BY <3>1, FS_Product, ReportTextAssumption
    <3>3. IsFiniteSet(docs)
      BY <3>2, FS_Subset DEF Placed
    <3> QED
      BY <3>3, FS_CardinalityType
  <2>3. PICK f \in [1 .. k -> docs] : l = [i \in 1 .. k |-> vs[f[i][1]][f[i][2]]]
    BY <2>1 DEF InAnyOrder
  <2>4. ASSUME NEW i \in 1 .. k PROVE l[i] \in Doc
    <3>1. PICK x : x = f[i]
      OBVIOUS
    <3>2. x[1] \in Slicks /\ x[2] \in DOMAIN vs[x[1]]
      BY <3>1 DEF Placed
    <3>3. vs[x[1]] \in Seq(Doc)
      BY <3>2, FactsOf
    <3>4. vs[x[1]][x[2]] \in Doc
      BY <3>2, <3>3
    <3> QED
      BY <2>3, <3>1, <3>4
  <2>5. l \in [1 .. k -> Doc]
    BY <2>3, <2>4
  <2> HIDE DEF k, docs, vs
  <2>6. l \in Seq(Doc)
    BY <2>2, <2>5
  <2> QED
    BY <2>1, <2>6 DEF Listings
<1>2. NewestEstimate(facts.origins) \in {"none", "OK", "DEGRADED"}
  <2>1. PICK es \in Seq(Estimates) : es = facts.origins
    BY FactsOf
  <2>2. es # <<>> => es[Len(es)] \in Estimates
    BY LenProperties, EmptySeq
  <2>3. es # <<>> => es[Len(es)].status \in {"OK", "DEGRADED"}
    BY <2>2 DEF Estimates
  <2> QED
    BY <2>1, <2>3 DEF NewestEstimate
<1> HIDE DEF vs, docs, k
<1>3. CASE p = "slicks"
  BY <1>3, FactsOf DEF QueryGives, ReadValues, SlickMaps
<1>4. CASE p = "origin"
  BY <1>2, <1>4 DEF QueryGives, ReadValues
<1>5. CASE p = "vessels"
  BY <1>1, <1>5 DEF QueryGives, ReadValues, vs
<1>6. CASE p = "coverage"
  BY <1>6, FactsOf DEF QueryGives, ReadValues
<1> QED
  BY <1>3, <1>4, <1>5, <1>6 DEF Parts

LEMMA RearrangedTyped ==
  ASSUME NEW docs \in Seq(Doc), NEW order \in [DOMAIN docs -> DOMAIN docs], NEW n
  PROVE  Rearranged(docs, order, n) \in Seq(Doc)
<1>1. DOMAIN docs = 1 .. Len(docs) /\ Len(docs) \in Nat
  BY LenProperties
<1>2. ASSUME NEW v \in DOMAIN docs
      PROVE  [rank |-> order[v], tier |-> docs[v].tier, separation |-> "none"] \in Doc /\ docs[v] \in Doc
  <2>1. docs[v] \in Doc
    BY ElementOfSeq, <1>1
  <2>2. order[v] \in Nat \ {0} /\ "none" \in Separation
    BY <1>1 DEF Separation
  <2>3. docs[v].tier \in Tier
    BY <2>1 DEF Doc
  <2> QED
    BY <2>1, <2>2, <2>3 DEF Doc
<1>3. Rearranged(docs, order, n) \in [1 .. Len(docs) -> Doc]
  BY <1>1, <1>2 DEF Rearranged
<1> QED
  BY <1>1, <1>3

\* What a job stores is of the types.
LEMMA StoredTyped ==
  ASSUME TextTypes, NEW new \in Facts, Stored(new)
  PROVE  TextTypes'
<1>1. recomputes - 1 \in 0 .. MaxRecomputes
  BY ReportTextAssumption DEF Stored, TextTypes
<1> QED
  BY <1>1 DEF Stored, TextTypes

LEMMA TextFirst == ReportTextInit => TextTypes
<1> SUFFICES ASSUME ReportTextInit PROVE TextTypes
  OBVIOUS
<1>1. /\ facts.slicks \in SlickMaps /\ facts.vessels \in [Slicks -> Rankings] /\ facts.coverage \in Coverage
      /\ facts.origins \in {<<>>} \cup {<<e>> : e \in Estimates} \cup {<<e, f>> : e, f \in Estimates}
      /\ facts = [slicks |-> facts.slicks, origins |-> facts.origins, vessels |-> facts.vessels, coverage |-> facts.coverage]
  BY DEF ReportTextInit, SlickMaps
<1>2. facts.origins \in Seq(Estimates)
  <2>1. CASE facts.origins = <<>>
    BY <2>1
  <2>2. ASSUME NEW e \in Estimates, facts.origins = <<e>> PROVE facts.origins \in Seq(Estimates)
    BY <2>2
  <2>3. ASSUME NEW e \in Estimates, NEW f \in Estimates, facts.origins = <<e, f>>
        PROVE  facts.origins \in Seq(Estimates)
    BY <2>3
  <2> QED
    BY <1>1, <2>1, <2>2, <2>3
<1>3. facts.vessels \in [Slicks -> Seq(Doc)]
  BY <1>1, RankingsTyped
<1>4. facts \in Facts
  BY <1>1, <1>2, <1>3 DEF Facts, SlickMaps
<1>5. reading = <<>> /\ recomputes \in 0 .. MaxRecomputes
  BY ReportTextAssumption DEF ReportTextInit
<1> QED
  BY <1>4, <1>5 DEF TextTypes

LEMMA TextInductive == ReportTextSpec => []TextTypes
<1>1. TextTypes /\ [ReportTextNext]_reportTextVars => TextTypes'
  <2> SUFFICES ASSUME TextTypes, [ReportTextNext]_reportTextVars PROVE TextTypes'
    OBVIOUS
  <2>0. facts \in Facts
    BY DEF TextTypes
  <2>1. ASSUME NEW p \in Parts, ReadPart(p) PROVE TextTypes'
    <3>1. PICK v \in QueryGives(p) : reading' = Reads(p, v) /\ UNCHANGED <<facts, recomputes>>
      BY <2>1 DEF ReadPart
    <3>2. v \in ReadValues[p]
      BY <2>0, FoundTyped
    <3>3. /\ DOMAIN reading' = DOMAIN reading \cup {p}
          /\ \A q \in DOMAIN reading' : reading'[q] = IF q = p THEN v ELSE reading[q]
          /\ reading' = [q \in DOMAIN reading' |-> reading'[q]]
      BY <3>1 DEF Reads
    <3> QED
      BY <3>1, <3>2, <3>3 DEF TextTypes
  <2>2. CASE Detects
    <3>1. PICK m \in SlickMaps : Stored([facts EXCEPT !.slicks = m])
      BY <2>2 DEF Detects, SlickMaps
    <3>2. [facts EXCEPT !.slicks = m] \in Facts
      BY <2>0, FactsOf
    <3> QED
      BY <3>1, <3>2, StoredTyped
  <2>3. CASE CoverageChanges
    BY <2>0, <2>3, FactsOf, StoredTyped DEF CoverageChanges
  <2>4. ASSUME NEW s \in Slicks, Drifts(s) PROVE TextTypes'
    <3>1. PICK es \in Seq(Estimates) : Stored([facts EXCEPT !.origins = es])
      <4>1. PICK o : o = OfOthers(facts.origins, s)
        OBVIOUS
      <4>2. o \in Seq(Estimates) /\ \A e \in Estimates : Append(o, e) \in Seq(Estimates)
        BY <2>0, <4>1, FactsOf, OthersTyped, AppendProperties
      <4>3. Stored([facts EXCEPT !.origins = o])
            \/ \E e \in Estimates : Stored([facts EXCEPT !.origins = Append(o, e)])
        BY <2>4, <4>1 DEF Drifts
      <4> QED
        BY <4>2, <4>3
    <3> QED
      BY <2>0, <3>1, FactsOf, StoredTyped
  <2>5. ASSUME NEW s \in Slicks, Correlates(s) PROVE TextTypes'
    <3>1. PICK r \in Rankings : \E n \in 0 .. Len(r) : Stored(InRanking(s, SubSeq(r, 1, n)))
      BY <2>5 DEF Correlates
    <3>2. \A n \in 0 .. Len(r) : SubSeq(r, 1, n) \in Seq(Doc)
      BY RankingsTyped, SubSeqProperties, LenProperties
    <3> QED
      BY <2>0, <3>1, <3>2, RankedTyped, StoredTyped
  <2>6. ASSUME NEW s \in Slicks, Rearranges(s) PROVE TextTypes'
    <3>1. PICK docs \in Seq(Doc) : docs = facts.vessels[s]
      BY <2>0, FactsOf
    <3>2. PICK order \in [DOMAIN docs -> DOMAIN docs] : \E n \in DOMAIN docs :
            Stored(InRanking(s, Rearranged(docs, order, n)))
      BY <2>6, <3>1 DEF Rearranges
    <3> QED
      BY <2>0, <3>2, RankedTyped, RearrangedTyped, StoredTyped
  <2>7. CASE UNCHANGED reportTextVars
    BY <2>7 DEF TextTypes, reportTextVars
  <2> QED
    BY <2>1, <2>2, <2>3, <2>4, <2>5, <2>6, <2>7 DEF ReportTextNext
<1> QED
  BY <1>1, TextFirst, PTL DEF ReportTextSpec

\* The stored facts and what was read of them stay what their types say.
THEOREM ReportTextTypeCorrect == ReportTextSpec => []ReportTextTypeOK
<1>1. TextTypes => ReportTextTypeOK
  BY DEF TextTypes, ReportTextTypeOK
<1> QED
  BY <1>1, TextInductive, PTL

Verdict(d) == IF d.vessels = <<>> THEN "none" ELSE TopOf(d.vessels).separation

\* The dossier warns of the origin, the coverage, the look-alikes and the scoring on
\* these conditions, and of the separation of two vessels unless it is clear.
LEMMA WarnedWhen ==
  ASSUME NEW d
  PROVE  /\ "origin" \in Warned(d) <=> d.origin \in {"none", "DEGRADED"}
         /\ "coverage" \in Warned(d) <=> FewVessels(d)
         /\ "look-alike" \in Warned(d) <=> SomeRisky(d)
         /\ "calibration" \in Warned(d)
         /\ Verdict(d) \in {"inseparable", "thin"} => "separation" \in Warned(d)
         /\ Verdict(d) = "none" /\ Len(d.vessels) > 1 => "separation" \in Warned(d)
<1> DEFINE U == Uncertainty(d)
           rec(t, v) == [topic |-> t, severity |-> v]
           many == Len(d.vessels) > 1
           verdict == Verdict(d)
<1>1. \A x : x \in Warned(d) <=> \E u \in U : u.severity # "INFO" /\ u.topic = x
  BY DEF Warned
\* What is said, and only on its condition.
<1>2. /\ \A u \in OriginCaveat(d) : u.topic = "origin" /\ d.origin \in {"none", "DEGRADED"}
      /\ d.origin \in {"none", "DEGRADED"} => rec("origin", "LIMITATION") \in OriginCaveat(d)
  BY DEF OriginCaveat, Says
<1>3. /\ \A u \in CalibrationCaveat(d) : u.topic = "calibration"
      /\ rec("calibration", "LIMITATION") \in CalibrationCaveat(d)
  BY DEF CalibrationCaveat, Says
<1>4. /\ \A u \in CoverageCaveats(d) :
           u.topic \in {"coverage", "sampling"} /\ (u.topic = "coverage" /\ u.severity # "INFO" => FewVessels(d))
      /\ FewVessels(d) => rec("coverage", "LIMITATION") \in CoverageCaveats(d)
  BY DEF CoverageCaveats, Says
<1>5. /\ \A u \in DetectionCaveats(d) :
           u.topic \in {"look-alike", "detector"} /\ (u.topic = "look-alike" => SomeRisky(d))
      /\ SomeRisky(d) => rec("look-alike", "CAVEAT") \in DetectionCaveats(d)
  BY DEF DetectionCaveats, Says
<1>6. /\ \A u \in SeparationCaveat(d) : u.topic = "separation"
      /\ verdict = "inseparable" => rec("separation", "LIMITATION") \in SeparationCaveat(d)
      /\ verdict = "thin" \/ (verdict = "none" /\ many) => rec("separation", "CAVEAT") \in SeparationCaveat(d)
  BY DEF SeparationCaveat, Says, Verdict
<1>7. \A u \in ScoreCaveats(d) : u.topic = "sufficiency"
  BY DEF ScoreCaveats, Says
<1>8. U = OriginCaveat(d) \cup CalibrationCaveat(d) \cup CoverageCaveats(d)
            \cup DetectionCaveats(d) \cup SeparationCaveat(d) \cup ScoreCaveats(d)
  BY DEF Uncertainty
<1>9. \A t, v : rec(t, v).topic = t /\ rec(t, v).severity = v
  OBVIOUS
<1> HIDE DEF U, rec, many, verdict
<1>10. "origin" \in Warned(d) <=> d.origin \in {"none", "DEGRADED"}
  BY <1>1, <1>2, <1>3, <1>4, <1>5, <1>6, <1>7, <1>8, <1>9
<1>11. "coverage" \in Warned(d) <=> FewVessels(d)
  BY <1>1, <1>2, <1>3, <1>4, <1>5, <1>6, <1>7, <1>8, <1>9
<1>12. "look-alike" \in Warned(d) <=> SomeRisky(d)
  BY <1>1, <1>2, <1>3, <1>4, <1>5, <1>6, <1>7, <1>8, <1>9
<1>13. "calibration" \in Warned(d)
  BY <1>1, <1>3, <1>8, <1>9
<1>14. verdict \in {"inseparable", "thin"} => "separation" \in Warned(d)
  BY <1>1, <1>6, <1>8, <1>9
<1>15. verdict = "none" /\ many => "separation" \in Warned(d)
  BY <1>1, <1>6, <1>8, <1>9
<1> QED
  BY <1>10, <1>11, <1>12, <1>13, <1>14, <1>15 DEF many, verdict

\* The brief on its conditions.
LEMMA DontKnowWhen ==
  ASSUME NEW d
  PROVE  /\ "origin" \in DontKnow(d) <=> d.origin \in {"none", "DEGRADED", "UNAVAILABLE"}
         /\ "coverage" \in DontKnow(d) <=> FewVessels(d)
         /\ "look-alike" \in DontKnow(d) <=> SomeRisky(d)
  BY DEF DontKnow

\* In a list that goes up in rank the vessel that is looked for stands first.
LEMMA TopIsFirst ==
  ASSUME NEW l \in Listings, l # <<>>
  PROVE  /\ 1 \in DOMAIN l /\ l[1] \in Doc
         /\ TopOf(l) = l[1]
         /\ \A n \in DOMAIN l : l[1].rank <= l[n].rank
<1>1. l \in Seq(Doc) /\ \A i, j \in DOMAIN l : i < j => l[i].rank <= l[j].rank
  BY DEF Listings
<1>2. DOMAIN l = 1 .. Len(l) /\ Len(l) \in Nat /\ Len(l) > 0
  BY <1>1, EmptySeq, LenProperties
<1>3. 1 \in DOMAIN l /\ \A n \in DOMAIN l : n \in Nat /\ 1 <= n
  BY <1>2
<1>4. \A n \in DOMAIN l : l[n] \in Doc
  BY <1>1
<1>5. \A n \in DOMAIN l : l[n].rank \in Nat \ {0}
  BY <1>4 DEF Doc
<1>6. \A n \in DOMAIN l : l[1].rank <= l[n].rank
  <2> SUFFICES ASSUME NEW n \in DOMAIN l PROVE l[1].rank <= l[n].rank
    OBVIOUS
  <2>1. CASE n = 1
    BY <1>3, <1>5, <2>1
  <2>2. CASE n # 1
    BY <1>1, <1>3, <2>2
  <2> QED
    BY <2>1, <2>2
<1>7. PICK best : best = {n \in DOMAIN l : l[n].rank = 1}
  OBVIOUS
<1>8. TopOf(l) = l[IF best = {} THEN 1 ELSE CHOOSE n \in best : \A m \in best : n <= m]
  BY <1>7 DEF TopOf
<1>9. ASSUME best # {} PROVE (CHOOSE n \in best : \A m \in best : n <= m) = 1
  <2>1. PICK n \in best : TRUE
    BY <1>9
  <2>2. l[1].rank <= 1 /\ l[1].rank \in Nat \ {0}
    BY <1>3, <1>5, <1>6, <1>7, <2>1
  <2>3. 1 \in best /\ \A m \in best : m \in Nat /\ 1 <= m
    BY <1>3, <1>7, <2>2
  <2>4. \A n1 \in best : (\A m \in best : n1 <= m) => n1 = 1
    BY <2>3
  <2> QED
    BY <2>3, <2>4
<1> QED
  BY <1>3, <1>4, <1>6, <1>8, <1>9

\* The vessels the brief lists begin with that one.
LEMMA BriefLeads ==
  ASSUME NEW d, d.vessels \in Listings, d.vessels # <<>>
  PROVE  /\ PlainVessels(d)[1] = d.vessels[1]
         /\ Len(PlainVessels(d)) > 1 => Len(d.vessels) > 1
<1> DEFINE l == d.vessels
           k == IF Len(l) < 5 THEN Len(l) ELSE 5
<1>1. l \in Seq(Doc)
  BY DEF Listings
<1>2. Len(l) \in Nat /\ Len(l) > 0
  BY <1>1, EmptySeq, LenProperties
<1>3. k \in Nat /\ k <= Len(l) /\ k > 0
  BY <1>2
<1>4. PlainVessels(d) = SubSeq(l, 1, k)
  BY DEF PlainVessels
<1> HIDE DEF l, k
<1>5. Len(SubSeq(l, 1, k)) = k /\ SubSeq(l, 1, k)[1] = l[1]
  BY <1>1, <1>2, <1>3, SubSeqProperties
<1> QED
  BY <1>2, <1>3, <1>4, <1>5 DEF l

\* Whatever mixture of old and new results a request has read, of whatever slicks, the brief
\* warns of the newest estimate of an origin, of sparse AIS and of look-alikes exactly when
\* the dossier does, leads with the best ranked of all vessels, which the dossier lists
\* first, and has a caveat of the order where that vessel's verdict is not clear.
THEOREM BriefIsDossiers == ReportTextSpec => []BriefAgreesWithDossier
<1>1. TextTypes => BriefAgreesWithDossier
  <2> SUFFICES ASSUME TextTypes, Assembled PROVE BriefAgreesWithDossier
    BY DEF BriefAgreesWithDossier
  <2> DEFINE d == reading
             l == d.vessels
             listed == PlainVessels(d)
  <2>1. \A p \in Parts : d[p] \in ReadValues[p]
    BY DEF TextTypes, Assembled
  <2>2. d.origin \in {"none", "OK", "DEGRADED"}
    BY <2>1 DEF Parts, ReadValues
  <2>3. l \in Listings
    BY <2>1 DEF Parts, ReadValues
  <2> HIDE DEF d, l, listed
  <2>4. /\ "origin" \in DontKnow(d) <=> "origin" \in Warned(d)
        /\ "coverage" \in DontKnow(d) <=> "coverage" \in Warned(d)
        /\ "look-alike" \in DontKnow(d) <=> "look-alike" \in Warned(d)
        /\ "calibration" \in Warned(d)
    BY <2>2, WarnedWhen, DontKnowWhen
  <2>5. PossibleOrigin(d) = "traced" <=> "origin" \notin DontKnow(d)
    BY <2>2, DontKnowWhen DEF PossibleOrigin
  <2>6. Headline(d) \in Tier => Headline(d) = listed[1].tier
    <3>1. "nothing seen" \notin Tier /\ "no vessel" \notin Tier
      BY DEF Tier
    <3>2. Headline(d) \in Tier => l # <<>> /\ Headline(d) = TopOf(l).tier
      BY <3>1 DEF Headline, l
    <3>3. l # <<>> => listed[1] = l[1] /\ TopOf(l) = l[1]
      BY <2>3, BriefLeads, TopIsFirst DEF l, listed
    <3> QED
      BY <3>2, <3>3
  <2>7. ASSUME NEW n \in DOMAIN l PROVE listed[1].rank <= l[n].rank
    <3>1. l # <<>>
      OBVIOUS
    <3> QED
      BY <2>3, <3>1, BriefLeads, TopIsFirst DEF l, listed
  <2>8. Len(listed) > 1 /\ listed[1].separation # "clear" => "separation" \in Warned(d)
    <3>1. CASE l = <<>>
      <4>1. listed = SubSeq(<<>>, 1, 0)
        BY <3>1 DEF listed, l, PlainVessels
      <4>2. Len(listed) = 0
        BY <4>1
      <4> QED
        BY <4>2
    <3>2. CASE l # <<>>
      <4>1. listed[1] = l[1] /\ TopOf(l) = l[1] /\ l[1] \in Doc /\ (Len(listed) > 1 => Len(l) > 1)
        BY <2>3, <3>2, BriefLeads, TopIsFirst DEF l, listed
      <4>2. Verdict(d) = listed[1].separation /\ Verdict(d) \in {"none", "inseparable", "thin", "clear"}
        BY <3>2, <4>1 DEF Verdict, l, Doc, Separation
      <4> QED
        BY <4>1, <4>2, WarnedWhen DEF l
    <3> QED
      BY <3>1, <3>2
  <2> QED
    BY <2>4, <2>5, <2>6, <2>7, <2>8 DEF BriefAgreesWithDossier, d, l, listed
<1> QED
  BY <1>1, TextInductive, PTL

-----------------------------------------------------------------------------
(* The measure of a detector: its inductive invariant *)

OfSide(a, s) == a.items = SplitOf(a.of)[s]
OfSides(d)   == \A s \in SplitSides : d.items[s] = SplitOf(d.of)[s]
FitOnSides(m) == OfSide(m.on, "train") /\ OfSide(m.by, "val")

\* Whatever is stored of a side is that side of the split of the images it was split from.
SidesInv ==
  /\ OfSides(splitDoc) /\ OfSides(caching.doc)
  /\ \A s \in SplitSides : OfSide(cacheDir[s], s)
  /\ FitOnSides(fit) /\ FitOnSides(weights)
  /\ \A m \in measured : OfSide(m.over, m.side) /\ FitOnSides(m.model)

FirstBest(scores, at, best) ==
  /\ at \in DOMAIN scores /\ best = scores[at]
  /\ \A e \in DOMAIN scores : scores[e] <= best /\ (e < at => scores[e] < best)

\* A training under way has no epoch behind it, or the checkpoint is its best.
FitInv ==
  fit # NoFit =>
    /\ fit.run > 0
    /\ \/ fit.history = << >> /\ fit.best = -1
       \/ /\ FirstBest(fit.history, fit.at, fit.best)
          /\ weights.run = fit.run /\ weights.epoch = fit.at

EvaluationInv ==
  /\ EvaluationTypeOK /\ SidesInv /\ FitInv
  /\ sheet # NoSheet => weights.run > 0
  /\ SheetIsOfTheWeights

LEMMA SplitTypes == ASSUME NEW S \in SUBSET Tiles PROVE SplitOf(S) \in [SplitSides -> SUBSET Tiles]
BY DEF SplitOf

LEMMA NothingTypes ==
  /\ NoArrays \in Arrays /\ NoSplit \in Splits /\ NoCaching \in [doc : Splits, next : 0 .. 3]
  /\ \A s \in SplitSides : OfSide(NoArrays, s)
  /\ OfSides(NoSplit) /\ OfSides(NoCaching.doc)
BY DEF NoArrays, NoSplit, NoCaching, Arrays, Splits, OfSide, OfSides, SplitOf, SplitSides

LEMMA DocOf ==
  ASSUME NEW u \in Unpackings
  PROVE  SplitDoc(u) \in Splits /\ OfSides(SplitDoc(u))
<1>1. u.images \in SUBSET Tiles
  BY EvaluationAssumption
<1>2. SplitsOf[u.images] = SplitOf(u.images)
  BY DEF SplitsOf
<1> QED
  BY <1>1, <1>2, SplitTypes DEF SplitDoc, Splits, OfSides

LEMMA CacheSides ==
  ASSUME NEW doc \in Splits, OfSides(doc)
  PROVE  /\ CacheOf(doc) \in [SplitSides -> Arrays]
         /\ \A s \in SplitSides : OfSide(CacheOf(doc)[s], s)
BY DEF CacheOf, Splits, Arrays, OfSide, OfSides

LEMMA ConstantHistory ==
  ASSUME NEW v \in Ious
  PROVE  [e \in 1 .. Epochs |-> v] \in Seq(Ious)
<1>1. [e \in 1 .. Epochs |-> v] \in [1 .. Epochs -> Ious] /\ Epochs \in Nat
  BY EvaluationAssumption
<1> QED
  BY <1>1, SeqDef

\* An epoch that is the best so far is the first best, and one that is not leaves it so.
LEMMA BestGrows ==
  ASSUME NEW h \in Seq(Ious), NEW v \in Ious, NEW at, NEW best,
         FirstBest(h, at, best)
  PROVE  LET n == Len(h) + 1 IN
         /\ v > best => FirstBest(Append(h, v), n, v)
         /\ ~ (v > best) => FirstBest(Append(h, v), at, best)
<1> DEFINE g == Append(h, v)
<1>1. /\ g \in Seq(Ious) /\ Len(h) \in Nat /\ Len(g) = Len(h) + 1
      /\ \A i \in 1 .. Len(h) : g[i] = h[i]
      /\ g[Len(h) + 1] = v
      /\ DOMAIN h = 1 .. Len(h) /\ DOMAIN g = 1 .. Len(g)
  BY AppendProperties, LenProperties
<1>0. Ious \subseteq Int
  BY EvaluationAssumption
<1>2. \A i \in 1 .. Len(h) : h[i] \in Int
  BY <1>0, ElementOfSeq
<1>3. best \in Int /\ v \in Int /\ at \in 1 .. Len(h) /\ at \in Int
  BY <1>0, <1>1, <1>2 DEF FirstBest
<1>4. \A e \in DOMAIN g : e \in 1 .. Len(h) \/ e = Len(h) + 1
  BY <1>1
<1> HIDE DEF g
<1>5. ASSUME v > best PROVE FirstBest(g, Len(h) + 1, v)
  <2>1. ASSUME NEW e \in DOMAIN g PROVE g[e] <= v /\ (e < Len(h) + 1 => g[e] < v)
    <3>1. CASE e = Len(h) + 1
      BY <3>1, <1>1, <1>3
    <3>2. CASE e \in 1 .. Len(h)
      <4>1. g[e] = h[e] /\ h[e] <= best /\ h[e] \in Int
        BY <3>2, <1>1, <1>2 DEF FirstBest
      <4> QED
        BY <4>1, <1>3, <1>5
    <3> QED
      BY <3>1, <3>2, <1>4
  <2>2. Len(h) + 1 \in DOMAIN g /\ v = g[Len(h) + 1]
    BY <1>1
  <2> QED
    BY <2>1, <2>2 DEF FirstBest
<1>6. ASSUME ~ (v > best) PROVE FirstBest(g, at, best)
  <2>1. ASSUME NEW e \in DOMAIN g PROVE g[e] <= best /\ (e < at => g[e] < best)
    <3>1. CASE e = Len(h) + 1
      BY <3>1, <1>1, <1>3, <1>6
    <3>2. CASE e \in 1 .. Len(h)
      BY <3>2, <1>1 DEF FirstBest
    <3> QED
      BY <3>1, <3>2, <1>4
  <2>2. at \in DOMAIN g /\ best = g[at]
    BY <1>1, <1>3 DEF FirstBest
  <2> QED
    BY <2>1, <2>2 DEF FirstBest
<1> QED
  BY <1>5, <1>6 DEF g

\* The first epoch is the best so far.
LEMMA BestBegins ==
  ASSUME NEW v \in Ious
  PROVE  FirstBest(Append(<< >>, v), 1, v)
<1>1. Append(<< >>, v) = <<v>> /\ v \in Int
  BY EvaluationAssumption
<1>2. DOMAIN <<v>> = 1 .. 1 /\ <<v>>[1] = v
  OBVIOUS
<1> QED
  BY <1>1, <1>2 DEF FirstBest

-----------------------------------------------------------------------------
(* The measure: the initial states *)

LEMMA InitEvaluation == EvaluationInit => EvaluationInv
<1> SUFFICES ASSUME EvaluationInit PROVE EvaluationInv
  OBVIOUS
<1>0. /\ NoArrays \in Arrays /\ NoSplit \in Splits /\ NoCaching \in [doc : Splits, next : 0 .. 3]
      /\ OfSides(NoSplit) /\ OfSides(NoCaching.doc)
      /\ \A s \in SplitSides : OfSide(NoArrays, s)
  BY NothingTypes
<1>1. << >> \in Seq(Ious)
  OBVIOUS
<1>2. /\ NoFit \in [run : Nat, on : Arrays, by : Arrays, history : Seq(Ious), best : Int, at : Nat]
      /\ NoWeights \in [run : Nat, on : Arrays, by : Arrays, epoch : Nat]
      /\ NoSheet \in [run : Nat, epoch : Nat, best : Int, history : Seq(Ious)]
  BY <1>0, <1>1 DEF NoFit, NoWeights, NoSheet
<1>3. FitOnSides(NoFit) /\ FitOnSides(NoWeights)
  BY <1>0 DEF FitOnSides, NoFit, NoWeights, SplitSides
<1>4. MaxOrders \in [Orders -> Nat] /\ "fit" \in Orders
  BY EvaluationAssumption DEF Orders
<1>5. CASE Nothing
  <2>1. CacheOf(NoSplit) \in [SplitSides -> Arrays] /\ \A s \in SplitSides : OfSide(CacheOf(NoSplit)[s], s)
    BY <1>0, CacheSides
  <2>2. EvaluationTypeOK
    BY <1>5, <2>1, <1>0, <1>2, <1>4 DEF EvaluationTypeOK, EvaluationInit, Nothing
  <2>3. SidesInv
    BY <1>5, <2>1, <1>0, <1>3 DEF SidesInv, EvaluationInit, Nothing
  <2> QED
    BY <1>5, <2>2, <2>3 DEF EvaluationInv, FitInv, SheetIsOfTheWeights, EvaluationInit, Nothing
<1>6. ASSUME NEW iou \in Ious, Trained(iou) PROVE EvaluationInv
  <2>1. unpacked \in Unpackings /\ splitDoc = SplitDoc(unpacked) /\ cacheDir = CacheOf(splitDoc)
    BY <1>6 DEF Trained, EvaluationInit
  <2>2. splitDoc \in Splits /\ OfSides(splitDoc)
    BY <2>1, DocOf
  <2>3. cacheDir \in [SplitSides -> Arrays] /\ \A s \in SplitSides : OfSide(cacheDir[s], s)
    BY <2>1, <2>2, CacheSides
  <2>4. cacheDir.train \in Arrays /\ cacheDir.val \in Arrays /\ OfSide(cacheDir.train, "train") /\ OfSide(cacheDir.val, "val")
    BY <2>3 DEF SplitSides
  <2>5. weights = [run |-> MaxOrders["fit"] + 1, on |-> cacheDir.train, by |-> cacheDir.val, epoch |-> 1]
    BY <1>6 DEF Trained
  <2>6. /\ weights \in [run : Nat, on : Arrays, by : Arrays, epoch : Nat]
        /\ weights.run > 0 /\ weights.epoch = 1 /\ FitOnSides(weights)
    BY <2>4, <2>5, <1>4 DEF FitOnSides
  <2>7. sheet = [run |-> weights.run, epoch |-> 1, best |-> iou, history |-> [e \in 1 .. Epochs |-> iou]]
    BY <1>6 DEF Trained
  <2>8. sheet \in [run : Nat, epoch : Nat, best : Int, history : Seq(Ious)]
    BY <2>6, <2>7, ConstantHistory, EvaluationAssumption
  <2>9. EvaluationTypeOK
    BY <2>1, <2>2, <2>3, <2>6, <2>8, <1>0, <1>2, <1>4 DEF EvaluationTypeOK, EvaluationInit
  <2>10. SidesInv
    BY <2>2, <2>3, <2>6, <1>0, <1>3 DEF SidesInv, EvaluationInit
  <2>11. SheetIsOfTheWeights
    BY <2>6, <2>7, EvaluationAssumption DEF SheetIsOfTheWeights
  <2> QED
    BY <2>6, <2>9, <2>10, <2>11 DEF EvaluationInv, FitInv, EvaluationInit
<1> QED
  BY <1>5, <1>6 DEF EvaluationInit

-----------------------------------------------------------------------------
(* The measure: the steps *)

LEMMA OrdersType ==
  ASSUME EvaluationTypeOK, NEW b \in Orders \ {"all"}, Give(b)
  PROVE  orders' \in [Orders -> Nat]
<1>1. orders \in [Orders -> Nat] /\ "all" \in Orders
  BY DEF EvaluationTypeOK, Orders
<1>2. orders[b] - 1 \in Nat /\ orders["all"] - 1 \in Nat
  BY <1>1 DEF Give
<1> QED
  BY <1>1, <1>2 DEF Give

LEMMA SplitSteps ==
  ASSUME EvaluationInv
  PROVE  /\ \A u \in Unpackings : Unpack(u) => EvaluationInv'
         /\ MakeSplit => EvaluationInv'
         /\ PrepareCache => EvaluationInv'
         /\ KillCaching => EvaluationInv'
         /\ \A s \in SplitSides : WriteSide(s) => EvaluationInv'
<1> USE DEF EvaluationInv
<1>1. ASSUME NEW u \in Unpackings, Unpack(u) PROVE EvaluationInv'
  <2>1. EvaluationTypeOK'
    BY <1>1, OrdersType DEF Unpack, EvaluationTypeOK, Orders
  <2>2. SidesInv' /\ FitInv' /\ (sheet # NoSheet => weights.run > 0)' /\ SheetIsOfTheWeights'
    BY <1>1 DEF Unpack, SidesInv, FitInv, SheetIsOfTheWeights
  <2> QED
    BY <2>1, <2>2
<1>2. ASSUME MakeSplit PROVE EvaluationInv'
  <2>1. splitDoc' \in Splits /\ OfSides(splitDoc')
    BY <1>2, DocOf DEF MakeSplit, EvaluationTypeOK
  <2>2. EvaluationTypeOK'
    BY <1>2, <2>1, OrdersType DEF MakeSplit, EvaluationTypeOK, Orders
  <2>3. SidesInv' /\ FitInv' /\ (sheet # NoSheet => weights.run > 0)' /\ SheetIsOfTheWeights'
    BY <1>2, <2>1 DEF MakeSplit, SidesInv, FitInv, SheetIsOfTheWeights
  <2> QED
    BY <2>2, <2>3
<1>3. ASSUME PrepareCache PROVE EvaluationInv'
  <2>0. orders' \in [Orders -> Nat]
    BY <1>3, OrdersType DEF PrepareCache, Orders
  <2>1. EvaluationTypeOK'
    BY <1>3, <2>0 DEF PrepareCache, EvaluationTypeOK
  <2>2. SidesInv' /\ FitInv' /\ (sheet # NoSheet => weights.run > 0)' /\ SheetIsOfTheWeights'
    BY <1>3 DEF PrepareCache, SidesInv, FitInv, SheetIsOfTheWeights
  <2> QED
    BY <2>1, <2>2
<1>4. ASSUME KillCaching PROVE EvaluationInv'
  <2>1. EvaluationTypeOK'
    BY <1>4, OrdersType, NothingTypes DEF KillCaching, EvaluationTypeOK, Orders
  <2>2. SidesInv' /\ FitInv' /\ (sheet # NoSheet => weights.run > 0)' /\ SheetIsOfTheWeights'
    BY <1>4, NothingTypes DEF KillCaching, SidesInv, FitInv, SheetIsOfTheWeights
  <2> QED
    BY <2>1, <2>2
<1>5. ASSUME NEW s \in SplitSides, WriteSide(s) PROVE EvaluationInv'
  <2>1. caching \in [doc : Splits, next : 0 .. 3] /\ OfSides(caching.doc) /\ cacheDir \in [SplitSides -> Arrays]
    BY DEF EvaluationTypeOK, SidesInv
  <2>2. /\ [of |-> caching.doc.of, items |-> caching.doc.items[s]] \in Arrays
        /\ OfSide([of |-> caching.doc.of, items |-> caching.doc.items[s]], s)
    BY <2>1 DEF Splits, Arrays, OfSide, OfSides
  <2>3. cacheDir' \in [SplitSides -> Arrays] /\ \A t \in SplitSides : OfSide(cacheDir'[t], t)
    BY <1>5, <2>1, <2>2 DEF WriteSide, SidesInv
  <2>4. s # "test" => caching.next \in {1, 2}
    BY <1>5 DEF WriteSide, SideRank, SplitSides
  <2>5. caching' \in [doc : Splits, next : 0 .. 3] /\ OfSides(caching'.doc)
    BY <1>5, <2>1, <2>4, NothingTypes DEF WriteSide
  <2>6. EvaluationTypeOK'
    BY <1>5, <2>3, <2>5 DEF WriteSide, EvaluationTypeOK
  <2>7. SidesInv' /\ FitInv' /\ (sheet # NoSheet => weights.run > 0)' /\ SheetIsOfTheWeights'
    BY <1>5, <2>3, <2>5 DEF WriteSide, SidesInv, FitInv, SheetIsOfTheWeights
  <2> QED
    BY <2>6, <2>7
<1> QED
  BY <1>1, <1>2, <1>3, <1>4, <1>5

LEMMA FitSteps ==
  ASSUME EvaluationInv
  PROVE  /\ StartFit => EvaluationInv'
         /\ \A v \in Ious : Epoch(v) => EvaluationInv'
         /\ EndFit => EvaluationInv'
         /\ KillFit => EvaluationInv'
<1> USE DEF EvaluationInv
<1>0. /\ fit \in [run : Nat, on : Arrays, by : Arrays, history : Seq(Ious), best : Int, at : Nat]
      /\ weights \in [run : Nat, on : Arrays, by : Arrays, epoch : Nat]
      /\ FitOnSides(fit) /\ FitOnSides(weights)
  BY DEF EvaluationTypeOK, SidesInv
<1>00. NoFit \in [run : Nat, on : Arrays, by : Arrays, history : Seq(Ious), best : Int, at : Nat] /\ FitOnSides(NoFit)
  <2>1. << >> \in Seq(Ious)
    OBVIOUS
  <2> QED
    BY <2>1, NothingTypes DEF NoFit, FitOnSides, SplitSides
<1>1. ASSUME StartFit PROVE EvaluationInv'
  <2>1. orders.fit \in Nat /\ orders.fit > 0
    BY <1>1 DEF StartFit, Give, EvaluationTypeOK, Orders
  <2>2. cacheDir.train \in Arrays /\ cacheDir.val \in Arrays /\ OfSide(cacheDir.train, "train") /\ OfSide(cacheDir.val, "val")
    BY DEF EvaluationTypeOK, SidesInv, SplitSides
  <2>3. fit' = [run |-> orders.fit, on |-> cacheDir.train, by |-> cacheDir.val, history |-> << >>, best |-> -1, at |-> 0]
    BY <1>1 DEF StartFit, NoFit
  <2>4. /\ fit' \in [run : Nat, on : Arrays, by : Arrays, history : Seq(Ious), best : Int, at : Nat]
        /\ FitOnSides(fit') /\ fit'.run > 0 /\ fit'.history = << >> /\ fit'.best = -1
    BY <2>1, <2>2, <2>3, <1>00 DEF NoFit, FitOnSides
  <2>5. EvaluationTypeOK'
    BY <1>1, <2>4, OrdersType DEF StartFit, EvaluationTypeOK, Orders
  <2>6. SidesInv' /\ FitInv'
    BY <1>1, <2>4 DEF StartFit, SidesInv, FitInv
  <2>7. (sheet # NoSheet => weights.run > 0)' /\ SheetIsOfTheWeights'
    BY <1>1 DEF StartFit, SheetIsOfTheWeights, NoFit
  <2> QED
    BY <2>5, <2>6, <2>7
<1>2. ASSUME NEW v \in Ious, Epoch(v) PROVE EvaluationInv'
  <2> DEFINE n == Len(fit.history) + 1
  <2>1. fit # NoFit /\ fit.run > 0 /\ n \in Nat /\ v \in Int /\ v > -1
    BY <1>2, <1>0, LenProperties, EvaluationAssumption DEF Epoch, FitInv
  <2>2. /\ fit'.run = fit.run /\ fit'.on = fit.on /\ fit'.by = fit.by
        /\ fit'.history = Append(fit.history, v)
        /\ fit'.best = (IF v > fit.best THEN v ELSE fit.best)
        /\ fit'.at = (IF v > fit.best THEN n ELSE fit.at)
        /\ fit' \in [run : Nat, on : Arrays, by : Arrays, history : Seq(Ious), best : Int, at : Nat]
    BY <1>2, <1>0, <2>1, AppendProperties DEF Epoch
  <2>3. weights' = IF v > fit.best THEN [run |-> fit.run, on |-> fit.on, by |-> fit.by, epoch |-> n] ELSE weights
    BY <1>2 DEF Epoch
  <2>4. weights' \in [run : Nat, on : Arrays, by : Arrays, epoch : Nat] /\ FitOnSides(fit') /\ FitOnSides(weights')
    BY <1>0, <2>1, <2>2, <2>3 DEF FitOnSides
  <2>5. EvaluationTypeOK'
    BY <1>2, <2>2, <2>4 DEF Epoch, EvaluationTypeOK
  <2>6. SidesInv'
    BY <1>2, <2>4 DEF Epoch, SidesInv
  <2>7. /\ FirstBest(fit'.history, fit'.at, fit'.best)
        /\ weights'.run = fit'.run /\ weights'.epoch = fit'.at
    <3>1. CASE fit.history = << >> /\ fit.best = -1
      <4>1. v > fit.best /\ n = 1
        BY <3>1, <2>1
      <4> QED
        BY <3>1, <4>1, <2>2, <2>3, BestBegins
    <3>2. CASE FirstBest(fit.history, fit.at, fit.best) /\ weights.run = fit.run /\ weights.epoch = fit.at
      <4>1. /\ v > fit.best => FirstBest(fit'.history, n, v)
            /\ ~ (v > fit.best) => FirstBest(fit'.history, fit.at, fit.best)
        BY <3>2, <1>0, <2>2, BestGrows
      <4> QED
        BY <3>2, <4>1, <2>2, <2>3
    <3> QED
      BY <3>1, <3>2, <2>1 DEF FitInv
  <2>8. FitInv'
    BY <2>1, <2>2, <2>7 DEF FitInv
  <2>9. (sheet # NoSheet => weights.run > 0)' /\ SheetIsOfTheWeights'
    BY <2>1, <2>2, <2>7 DEF SheetIsOfTheWeights
  <2> QED
    BY <2>5, <2>6, <2>8, <2>9
<1>3. ASSUME EndFit PROVE EvaluationInv'
  <2>1. fit.run > 0 /\ FirstBest(fit.history, fit.at, fit.best) /\ weights.run = fit.run /\ weights.epoch = fit.at
    <3>1. fit # NoFit /\ fit.history # << >>
      BY <1>3, EvaluationAssumption DEF EndFit
    <3> QED
      BY <3>1 DEF FitInv
  <2>2. sheet' = [run |-> fit.run, epoch |-> fit.at, best |-> fit.best, history |-> fit.history]
    BY <1>3 DEF EndFit
  <2>3. sheet' \in [run : Nat, epoch : Nat, best : Int, history : Seq(Ious)]
    BY <1>0, <2>2
  <2>4. EvaluationTypeOK'
    BY <1>3, <2>3, <1>00 DEF EndFit, EvaluationTypeOK
  <2>5. SidesInv' /\ FitInv'
    BY <1>3, <1>00 DEF EndFit, SidesInv, FitInv
  <2>6. (sheet # NoSheet => weights.run > 0)' /\ SheetIsOfTheWeights'
    BY <1>3, <2>1, <2>2 DEF EndFit, SheetIsOfTheWeights, FirstBest
  <2> QED
    BY <2>4, <2>5, <2>6
<1>4. ASSUME KillFit PROVE EvaluationInv'
  <2>1. EvaluationTypeOK'
    BY <1>4, <1>0, <1>00, OrdersType DEF KillFit, EvaluationTypeOK, Orders
  <2>2. SidesInv' /\ FitInv'
    BY <1>4, <1>00 DEF KillFit, SidesInv, FitInv
  <2>3. (sheet # NoSheet => weights.run > 0)' /\ SheetIsOfTheWeights'
    BY <1>4 DEF KillFit, SheetIsOfTheWeights
  <2> QED
    BY <2>1, <2>2, <2>3
<1> QED
  BY <1>1, <1>2, <1>3, <1>4

LEMMA PaperSteps ==
  ASSUME EvaluationInv
  PROVE  /\ \A p : EvaluateUnet("test", p) => EvaluationInv'
         /\ \A metrics, reason, manifest : Register(metrics, reason, manifest) => EvaluationInv'
         /\ \A m : Promote(m) => EvaluationInv'
<1> USE DEF EvaluationInv
<1>1. ASSUME NEW p, EvaluateUnet("test", p) PROVE EvaluationInv'
  <2>1. PICK says : measured' = measured \cup {[model |-> weights, side |-> "test", over |-> cacheDir["test"], says |-> says]}
    BY <1>1 DEF EvaluateUnet
  <2>2. /\ cacheDir["test"] \in Arrays /\ OfSide(cacheDir["test"], "test")
        /\ weights \in [run : Nat, on : Arrays, by : Arrays, epoch : Nat] /\ FitOnSides(weights)
    BY DEF EvaluationTypeOK, SidesInv, SplitSides
  <2>0. orders' \in [Orders -> Nat]
    BY <1>1, OrdersType DEF EvaluateUnet, Orders
  <2>3. EvaluationTypeOK'
    BY <1>1, <2>0, <2>1, <2>2 DEF EvaluateUnet, EvaluationTypeOK, SplitSides
  <2>4. SidesInv'
    BY <1>1, <2>1, <2>2 DEF EvaluateUnet, SidesInv
  <2>5. FitInv' /\ (sheet # NoSheet => weights.run > 0)' /\ SheetIsOfTheWeights'
    BY <1>1 DEF EvaluateUnet, FitInv, SheetIsOfTheWeights
  <2> QED
    BY <2>3, <2>4, <2>5
<1>2. ASSUME NEW metrics, NEW reason, NEW manifest, Register(metrics, reason, manifest) PROVE EvaluationInv'
  <2>1. EvaluationTypeOK'
    BY <1>2, OrdersType DEF Register, EvaluationTypeOK, Orders
  <2>2. SidesInv' /\ FitInv' /\ (sheet # NoSheet => weights.run > 0)' /\ SheetIsOfTheWeights'
    BY <1>2 DEF Register, SidesInv, FitInv, SheetIsOfTheWeights
  <2> QED
    BY <2>1, <2>2
<1>3. ASSUME NEW m, Promote(m) PROVE EvaluationInv'
  <2>1. EvaluationTypeOK'
    BY <1>3, OrdersType DEF Promote, EvaluationTypeOK, Orders
  <2>2. SidesInv' /\ FitInv' /\ (sheet # NoSheet => weights.run > 0)' /\ SheetIsOfTheWeights'
    BY <1>3 DEF Promote, SidesInv, FitInv, SheetIsOfTheWeights
  <2> QED
    BY <2>1, <2>2
<1> QED
  BY <1>1, <1>2, <1>3

LEMMA EvaluationStep == EvaluationInv /\ [EvaluationNext]_evaluationVars => EvaluationInv'
<1>1. ASSUME EvaluationInv, EvaluationNext PROVE EvaluationInv'
  BY <1>1, SplitSteps, FitSteps, PaperSteps DEF EvaluationNext
<1>2. ASSUME EvaluationInv, UNCHANGED evaluationVars PROVE EvaluationInv'
  BY <1>2 DEF evaluationVars, EvaluationInv, EvaluationTypeOK, SidesInv, FitInv, SheetIsOfTheWeights
<1> QED
  BY <1>1, <1>2

LEMMA EvaluationInductive == EvaluationSpec => []EvaluationInv
BY InitEvaluation, EvaluationStep, PTL DEF EvaluationSpec

\* The variables keep their types, whatever is unpacked and in whatever order commands are given.
THEOREM EvaluationTypeCorrect == EvaluationSpec => []EvaluationTypeOK
<1>1. EvaluationInv => EvaluationTypeOK
  BY DEF EvaluationInv
<1> QED
  BY <1>1, EvaluationInductive, PTL

\* Two sides of one split share no cell.
LEMMA SidesApart ==
  ASSUME NEW S, NEW s \in SplitSides, NEW t \in SplitSides, s # t
  PROVE  CellsOf(SplitOf(S)[s]) \cap CellsOf(SplitOf(S)[t]) = {}
<1>1. \A i \in SplitOf(S)[s] : SideOfCell(S)[Part3[i].cell] = s
  BY DEF SplitOf
<1>2. \A i \in SplitOf(S)[t] : SideOfCell(S)[Part3[i].cell] = t
  BY DEF SplitOf
<1> QED
  BY <1>1, <1>2 DEF CellsOf

\* The score of a model on the test side is of no cell it was trained on or chosen by, for every
\* dataset and in whatever order its sides were split, cached, trained on and scored, and
\* wherever a command was killed, so long as they were split from the same images.
THEOREM HeldOut == EvaluationSpec => []TestIsHeldOut
<1>1. ASSUME EvaluationInv PROVE TestIsHeldOut
  <2> SUFFICES ASSUME NEW m \in measured, m.side = "test", \A side \in Sides(m.model) : side.of = m.over.of,
                      NEW side \in Sides(m.model)
               PROVE  CellsOf(m.over.items) \cap CellsOf(side.items) = {}
    BY DEF TestIsHeldOut
  <2>1. OfSide(m.over, "test") /\ OfSide(m.model.on, "train") /\ OfSide(m.model.by, "val")
    BY <1>1 DEF EvaluationInv, SidesInv, FitOnSides
  <2>2. m.over.items = SplitOf(m.over.of)["test"] /\ side.of = m.over.of
    BY <2>1 DEF OfSide
  <2>3. side.items = SplitOf(m.over.of)["train"] \/ side.items = SplitOf(m.over.of)["val"]
    BY <2>1, <2>2 DEF OfSide, Sides
  <2> QED
    BY <2>2, <2>3, SidesApart DEF SplitSides
<1> QED
  BY <1>1, EvaluationInductive, PTL

\* The file beside the checkpoint is of it and names its first best epoch, for every number of
\* epochs and every course of their scores, unless a later training replaced the checkpoint and
\* has not written, or was killed before it wrote, its own.
THEOREM SheetTold == EvaluationSpec => []SheetIsOfTheWeights
<1>1. EvaluationInv => SheetIsOfTheWeights
  BY DEF EvaluationInv
<1> QED
  BY <1>1, EvaluationInductive, PTL

=============================================================================
