------------------------------ MODULE IngestProofs -----------------------------
(* Theorems about Ingest, for any processes, markets, pages, captures and times. *)
EXTENDS Ingest, FoldLemmas

--------------------------------------------------------------------------------
(* Least and greatest indices *)

LEMMA LeastIndex ==
  ASSUME NEW T \in SUBSET Nat, T # {}
  PROVE  \E m \in T : \A k \in T : m <= k
  <1>1. PICK m \in T : \A k \in T : ~(k < m)
    BY LeastElement, Zenon
  <1> QED BY <1>1

LEMMA MinOfIndices ==
  ASSUME NEW T \in SUBSET Nat, T # {}
  PROVE  Min(T) \in T /\ \A k \in T : Min(T) <= k
  BY LeastIndex DEF Min

LEMMA MaxOfIndices ==
  ASSUME NEW n \in Nat, NEW T \in SUBSET 0..n, T # {}
  PROVE  Max(T) \in T /\ \A k \in T : k <= Max(T)
  <1> DEFINE Gaps == {n - k : k \in T}
  <1>1. Gaps \in SUBSET Nat
    OBVIOUS
  <1>2. Gaps # {}
    OBVIOUS
  <1>3. PICK g \in Gaps : \A h \in Gaps : g <= h
    <2> HIDE DEF Gaps
    <2> QED BY <1>1, <1>2, LeastIndex
  <1>4. PICK j \in T : g = n - j
    BY <1>3
  <1>5. ASSUME NEW k \in T PROVE j >= k
    <2>1. n - k \in Gaps
      OBVIOUS
    <2>2. n - j <= n - k
      BY <1>3, <1>4, <2>1
    <2> QED BY <2>2
  <1> QED BY <1>5 DEF Max

--------------------------------------------------------------------------------
(* Slices of a file *)

\* The rows of a sweep are between the first and the last of its slice.
LEMMA SliceBounds ==
  ASSUME NEW f, f.quotes \in Seq(QuoteRow), NEW s, RowsOf(f, s) # {}
  PROVE  LET a == Min(RowsOf(f, s))
             b == Max(RowsOf(f, s))
         IN /\ a \in RowsOf(f, s) /\ b \in RowsOf(f, s)
            /\ a \in 1..Len(f.quotes) /\ b \in 1..Len(f.quotes)
            /\ \A i \in RowsOf(f, s) : i \in a..b
            /\ Slice(f, s) = SubSeq(f.quotes, a, b)
            /\ Slice(f, s) \in Seq(QuoteRow)
            /\ Len(Slice(f, s)) = b - a + 1 /\ b - a + 1 > 0
            /\ \A k \in 1..b - a + 1 : /\ Slice(f, s)[k] = f.quotes[a + k - 1]
                                       /\ a + k - 1 \in DOMAIN f.quotes
  <1> DEFINE q == f.quotes
             own == RowsOf(f, s)
             a == Min(own)
             b == Max(own)
  <1>1. DOMAIN q = 1..Len(q) /\ Len(q) \in Nat /\ \A i \in DOMAIN q : q[i] \in QuoteRow
    OBVIOUS
  <1>2. own \subseteq 1..Len(q) /\ own \in SUBSET (0..Len(q)) /\ own \in SUBSET Nat
    BY <1>1 DEF RowsOf
  <1>3. /\ a \in own /\ \A k \in own : a <= k
        /\ b \in own /\ \A k \in own : k <= b
    BY <1>1, <1>2, MinOfIndices, MaxOfIndices
  <1>4. Slice(f, s) = SubSeq(q, a, b)
    BY DEF Slice
  <1> HIDE DEF q, a, b, own
  <1>5. a \in 1..Len(q) /\ b \in 1..Len(q) /\ a <= b /\ \A i \in own : i \in a..b
    BY <1>1, <1>2, <1>3
  <1>6. /\ SubSeq(q, a, b) \in Seq(QuoteRow)
        /\ Len(SubSeq(q, a, b)) = IF a <= b THEN b - a + 1 ELSE 0
        /\ \A k \in 1..b - a + 1 : SubSeq(q, a, b)[k] = q[a + k - 1]
    <2>1. a \in Int /\ b \in Int /\ \A i \in a..b : q[i] \in QuoteRow
      BY <1>1, <1>5
    <2> QED BY <2>1, SubSeqProperties
  <1>7. /\ Len(SubSeq(q, a, b)) = b - a + 1 /\ b - a + 1 > 0
        /\ \A k \in 1..b - a + 1 : a + k - 1 \in DOMAIN q
    BY <1>1, <1>5, <1>6
  <1> QED BY <1>3, <1>4, <1>5, <1>6, <1>7 DEF q, a, b, own

\* A slice has all the rows of its sweep, and none that is not in the file.
LEMMA SliceRows ==
  ASSUME NEW f, f.quotes \in Seq(QuoteRow), NEW s
  PROVE  /\ Slice(f, s) \in Seq(QuoteRow)
         /\ Slice(f, s) = <<>> <=> RowsOf(f, s) = {}
         /\ \A i \in RowsOf(f, s) : \E k \in DOMAIN Slice(f, s) : Slice(f, s)[k] = f.quotes[i]
         /\ \A k \in DOMAIN Slice(f, s) : \E i \in DOMAIN f.quotes : f.quotes[i] = Slice(f, s)[k]
  <1> DEFINE q == f.quotes
             own == RowsOf(f, s)
             sl == Slice(f, s)
  <1>1. CASE own = {}
    <2>1. sl = <<>>
      BY <1>1 DEF Slice
    <2> QED BY <1>1, <2>1
  <1>2. CASE own # {}
    <2>1. PICK a \in 1..Len(q), b \in 1..Len(q) :
            /\ a \in own /\ b \in own /\ \A i \in own : i \in a..b
            /\ sl \in Seq(QuoteRow) /\ Len(sl) = b - a + 1 /\ b - a + 1 > 0
            /\ \A k \in 1..b - a + 1 : sl[k] = q[a + k - 1] /\ a + k - 1 \in DOMAIN q
      BY <1>2, SliceBounds
    <2>2. DOMAIN q = 1..Len(q) /\ Len(q) \in Nat
      OBVIOUS
    <2> HIDE DEF q, sl, own
    <2>3. DOMAIN sl = 1..Len(sl) /\ sl # <<>>
      BY <2>1, <2>2
    <2>4. ASSUME NEW i \in own PROVE \E k \in DOMAIN sl : sl[k] = q[i]
      <3>1. i - a + 1 \in 1..Len(sl) /\ a + (i - a + 1) - 1 = i
        BY <2>1, <2>2
      <3> QED BY <2>1, <2>3, <3>1
    <2> QED BY <1>2, <2>1, <2>3, <2>4 DEF q, sl, own
  <1> QED BY <1>1, <1>2

\* The first and the last of an interval.
LEMMA EndsOfInterval ==
  ASSUME NEW n \in Nat, NEW k \in Nat \ {0}
  PROVE  Min(n + 1 .. n + k) = n + 1 /\ Max(n + 1 .. n + k) = n + k
  <1> DEFINE S == n + 1 .. n + k
  <1>1. S \in SUBSET Nat /\ S \in SUBSET (0..n + k) /\ n + k \in Nat
    OBVIOUS
  <1>2. n + 1 \in S /\ n + k \in S /\ \A i \in S : n + 1 <= i /\ i <= n + k
    OBVIOUS
  <1> HIDE DEF S
  <1>3. /\ Min(S) \in S /\ Max(S) \in S
        /\ \A i \in S : Min(S) <= i /\ i <= Max(S)
    BY <1>1, <1>2, MinOfIndices, MaxOfIndices
  <1>4. Min(S) \in Nat /\ Max(S) \in Nat
    BY <1>1, <1>3
  <1> QED BY <1>2, <1>3, <1>4 DEF S

\* What is put after a sequence can be cut off again.
LEMMA AddedPart ==
  ASSUME NEW S, NEW q \in Seq(S), NEW new \in Seq(S), new # <<>>
  PROVE  SubSeq(q \o new, Len(q) + 1, Len(q) + Len(new)) = new
  <1>1. Len(q) \in Nat /\ Len(new) \in Nat \ {0}
    OBVIOUS
  <1>2. /\ Len(q) + 1 \in Len(q) + 1 .. Len(q) + Len(new)
        /\ Len(q) + Len(new) \in Len(q) + 1 .. Len(q) + Len(new)
    BY <1>1
  <1>3. SubSeq(q \o new, Len(q) + 1, Len(q) + Len(new))
          = SubSeq(new, Len(q) + 1 - Len(q), Len(q) + Len(new) - Len(q))
    BY <1>2, SubSeqOfConcat2
  <1>4. Len(q) + 1 - Len(q) = 1 /\ Len(q) + Len(new) - Len(q) = Len(new)
    BY <1>1
  <1>5. SubSeq(new, 1, Len(new)) = new
    BY SubSeqFull
  <1> QED BY <1>3, <1>4, <1>5, Zenon

\* The rows that a transaction of sweep t adds at the end are its slice, and no
\* other slice changes.
Extended(f, g, new, t) ==
    g.quotes = f.quotes \o new /\ \A i \in DOMAIN new : new[i].sweep = t
LEMMA SliceOfMore ==
  ASSUME NEW f, NEW g, NEW new \in Seq(QuoteRow), NEW t,
         f.quotes \in Seq(QuoteRow), Extended(f, g, new, t)
  PROVE  /\ \A s : s # t => Slice(g, s) = Slice(f, s)
         /\ Slice(f, t) = <<>> => Slice(g, t) = new
  <1> DEFINE q == f.quotes
             r == g.quotes
  <1>0. r = q \o new /\ \A i \in DOMAIN new : new[i].sweep = t
    BY DEF Extended
  <1>1. /\ DOMAIN q = 1..Len(q) /\ Len(q) \in Nat /\ DOMAIN new = 1..Len(new) /\ Len(new) \in Nat
    OBVIOUS
  <1>2. /\ r \in Seq(QuoteRow) /\ DOMAIN r = 1..Len(q) + Len(new)
        /\ Len(r) = Len(q) + Len(new)
        /\ \A i \in 1..Len(q) + Len(new) : r[i] = IF i <= Len(q) THEN q[i] ELSE new[i - Len(q)]
    BY <1>0, ConcatProperties
  <1>3. ASSUME NEW s, s # t PROVE Slice(g, s) = Slice(f, s)
    <2>1. RowsOf(g, s) = RowsOf(f, s)
      BY <1>0, <1>1, <1>2, <1>3 DEF RowsOf
    <2>2. CASE RowsOf(f, s) = {}
      BY <2>1, <2>2 DEF Slice
    <2>3. CASE RowsOf(f, s) # {}
      <3>1. PICK a \in 1..Len(q), b \in 1..Len(q) :
              a = Min(RowsOf(f, s)) /\ b = Max(RowsOf(f, s))
        BY <2>3, SliceBounds
      <3>2. Slice(f, s) = SubSeq(q, a, b) /\ Slice(g, s) = SubSeq(q \o new, a, b)
        BY <1>0, <2>1, <2>3, <3>1 DEF Slice
      <3>3. SubSeq(q \o new, a, b) = SubSeq(q, a, b)
        BY SubSeqOfConcat1
      <3> QED BY <3>2, <3>3
    <2> QED BY <2>2, <2>3
  <1>4. ASSUME Slice(f, t) = <<>> PROVE Slice(g, t) = new
    <2>1. RowsOf(f, t) = {}
      BY <1>4, SliceRows
    <2>2. RowsOf(g, t) = Len(q) + 1 .. Len(q) + Len(new)
      <3>1. ASSUME NEW i \in RowsOf(g, t) PROVE i \in Len(q) + 1 .. Len(q) + Len(new)
        BY <1>0, <1>1, <1>2, <2>1 DEF RowsOf
      <3>2. ASSUME NEW i \in Len(q) + 1 .. Len(q) + Len(new) PROVE i \in RowsOf(g, t)
        <4>1. i - Len(q) \in DOMAIN new /\ r[i] = new[i - Len(q)] /\ i \in DOMAIN r
          BY <1>1, <1>2
        <4> QED BY <1>0, <4>1 DEF RowsOf
      <3> QED BY <3>1, <3>2
    <2>3. CASE new = <<>>
      <3>1. RowsOf(g, t) = {}
        BY <1>1, <2>2, <2>3
      <3> QED BY <2>3, <3>1 DEF Slice
    <2>4. CASE new # <<>>
      <3>1. Len(q) \in Nat /\ Len(new) \in Nat \ {0}
        BY <1>1, <2>4
      <3>2. PICK n \in Nat, k \in Nat \ {0} : n = Len(q) /\ k = Len(new)
        BY <3>1, Zenon
      <3>3. n + 1 \in n + 1 .. n + k /\ n + k \in n + 1 .. n + k
        BY <3>2
      <3>4. RowsOf(g, t) = n + 1 .. n + k
        BY <2>2, <3>2, Zenon
      <3>5. Slice(g, t) = SubSeq(r, n + 1, n + k)
        <4>1. RowsOf(g, t) # {}
          BY <3>3, <3>4, Zenon
        <4>2. Min(RowsOf(g, t)) = n + 1 /\ Max(RowsOf(g, t)) = n + k
          BY <3>4, EndsOfInterval, Zenon
        <4> QED BY <4>1, <4>2, Zenon DEF Slice
      <3>6. SubSeq(q \o new, Len(q) + 1, Len(q) + Len(new)) = new
        BY <2>4, AddedPart, Zenon
      <3> QED BY <1>0, <3>2, <3>5, <3>6, Zenon
    <2> QED BY <2>3, <2>4
  <1> QED BY <1>3, <1>4

\* The row of a market after a sweep is the last that the sweep lists of it.
LEMMA LastMention ==
  ASSUME NEW q \in Seq(Observation), NEW m
  PROVE  LET i == LastOf(q, m) IN
         \/ i = 0 /\ \A j \in DOMAIN q : q[j].market # m
         \/ /\ i \in DOMAIN q /\ q[i].market = m
            /\ \A j \in DOMAIN q : q[j].market = m => j <= i
  <1> DEFINE own == {i \in 1..Len(q) : q[i].market = m}
  <1>1. LastOf(q, m) = IF own # {} THEN Max(own) ELSE 0
    BY DEF LastOf, SelectLastInSeq
  <1>2. DOMAIN q = 1..Len(q) /\ Len(q) \in Nat
    OBVIOUS
  <1>3. CASE own = {}
    BY <1>1, <1>2, <1>3
  <1>4. CASE own # {}
    <2>1. own \in SUBSET (0..Len(q))
      BY <1>2
    <2>2. Max(own) \in own /\ \A k \in own : k <= Max(own)
      <3> HIDE DEF own
      <3> QED BY <1>2, <1>4, <2>1, MaxOfIndices
    <2> QED BY <1>1, <1>2, <1>4, <2>2
  <1> QED BY <1>3, <1>4

--------------------------------------------------------------------------------
(* Types, and what a process that is here or there has in hand *)

PcStates == {"idle", "fetching", "auditing", "writing", "finishing", "booking", "counting",
             "reporting"}
Resting == {"idle", "counting", "reporting"}
Tally == [markets : 0..Cardinality(Market), quotes : Nat]

\* What the events table holds.
Event ==
    {Violation(s, m) : s \in Sweep, m \in Market}
    \union {Halt(s) : s \in Sweep}
    \union {Complete(s, o, shards) : s \in Sweep, o \in Seq(Observation), shards \in SUBSET Shard}

File == [markets : [Market -> Observation \union {NoRow}], quotes : Seq(QuoteRow),
         books : SUBSET BookRow, system : SUBSET Event]

\* The file, and what a power failure may take it back to.
Files == {wal[i] : i \in DOMAIN wal}

FileTyped == db \in File /\ wal \in Seq(File) /\ wal # <<>> /\ Last(wal) = db

CountsTyped ==
    /\ clock \in 0..MaxTime
    /\ writer \in Proc \union {NoProc}
    /\ sweeps \in 0..MaxSweeps
    /\ seen \in [Sweep -> Seq(Observation)]
    /\ overlapped \in BOOLEAN

RunTyped ==
    /\ pc \in [Proc -> PcStates]
    /\ sweep \in [Proc -> 0..MaxSweeps]
    /\ inactive \in [Proc -> SUBSET Shard]
    /\ page \in [Proc -> 0..Len(Pages)]
    /\ obs \in [Proc -> Seq(Observation)]
    /\ done \in [Proc -> Nat]
    /\ wanted \in [Proc -> SUBSET Market]
    /\ capturedAt \in [Proc -> 0..MaxTime]
    /\ tally \in [Proc -> Tally]

\* A process that captures has a number, and one that does not has nothing.
InHand(p) ==
    /\ sweep[p] = 0 <=> pc[p] \in Resting
    /\ sweep[p] <= sweeps
    /\ pc[p] \in Resting => page[p] = 0 /\ obs[p] = <<>>
    /\ pc[p] \in Resting \union {"fetching", "booking"} => done[p] = 0
    /\ pc[p] = "fetching" => page[p] < Len(Pages)
    /\ done[p] <= Len(obs[p])

TypeInv ==
    /\ FileTyped
    /\ CountsTyped
    /\ RunTyped
    /\ \A p \in Proc : InHand(p)

\* A step of p changes nothing of another process.
OnlyMoves(p) ==
    /\ pc' = [pc EXCEPT ![p] = pc'[p]]
    /\ sweep' = [sweep EXCEPT ![p] = sweep'[p]]
    /\ inactive' = [inactive EXCEPT ![p] = inactive'[p]]
    /\ page' = [page EXCEPT ![p] = page'[p]]
    /\ obs' = [obs EXCEPT ![p] = obs'[p]]
    /\ done' = [done EXCEPT ![p] = done'[p]]
    /\ wanted' = [wanted EXCEPT ![p] = wanted'[p]]
    /\ capturedAt' = [capturedAt EXCEPT ![p] = capturedAt'[p]]
    /\ tally' = [tally EXCEPT ![p] = tally'[p]]

PointTyped(p) ==
    /\ pc[p] \in PcStates
    /\ sweep[p] \in 0..MaxSweeps
    /\ inactive[p] \in SUBSET Shard
    /\ page[p] \in 0..Len(Pages)
    /\ obs[p] \in Seq(Observation)
    /\ done[p] \in Nat
    /\ wanted[p] \in SUBSET Market
    /\ capturedAt[p] \in 0..MaxTime
    /\ tally[p] \in Tally

\* A process that rests has nothing in hand.
AtRest(p) ==
    /\ pc[p] = "idle" /\ sweep[p] = 0 /\ inactive[p] = {} /\ page[p] = 0 /\ obs[p] = <<>>
    /\ done[p] = 0 /\ wanted[p] = {} /\ capturedAt[p] = 0 /\ tally[p] = NoTally

\* Each process's variables have the types of the whole.
LEMMA PointsTyped ==
  ASSUME RunTyped, NEW p \in Proc
  PROVE  PointTyped(p)
  BY DEF RunTyped, PointTyped

LEMMA NoTallyTyped == NoTally \in Tally /\ Cardinality(Market) \in Nat
  <1>1. Cardinality(Market) \in Nat
    BY MarketAssumption, FS_CardinalityType
  <1> QED BY <1>1 DEF NoTally, Tally

\* There is a page.
LEMMA PagesTyped ==
  /\ Len(Pages) \in Nat /\ Len(Pages) > 0
  /\ \A i \in 1..Len(Pages) : Pages[i] \in SUBSET Seq(Market)
  <1> DEFINE S == SUBSET Seq(Market)
  <1>1. Pages \in Seq(S) /\ Pages # <<>>
    BY PagesAssumption
  <1> HIDE DEF S
  <1>2. Len(Pages) \in Nat /\ Len(Pages) > 0 /\ \A i \in 1..Len(Pages) : Pages[i] \in S
    BY <1>1
  <1> QED BY <1>2 DEF S

LEMMA RestIsTyped ==
  ASSUME RunTyped, NEW p \in Proc, Rest(p)
  PROVE  AtRest(p)' /\ PointTyped(p)' /\ OnlyMoves(p)
  <1>1. AtRest(p)' /\ OnlyMoves(p)
    BY DEF RunTyped, Rest, AtRest, OnlyMoves
  <1>2. PointTyped(p)'
    <2>1. 0 \in 0..MaxSweeps /\ 0 \in 0..Len(Pages) /\ 0 \in 0..MaxTime /\ "idle" \in PcStates
      BY PagesTyped, BoundsAssumption DEF PcStates
    <2> QED BY <1>1, <2>1, NoTallyTyped DEF PointTyped, AtRest
  <1> QED BY <1>1, <1>2

\* It is enough to look at the process that moves.
LEMMA MoveTyped ==
  ASSUME TypeInv, NEW p \in Proc, OnlyMoves(p), PointTyped(p)', InHand(p)',
         FileTyped', CountsTyped', sweeps <= sweeps'
  PROVE  TypeInv'
  <1>1. RunTyped
    BY DEF TypeInv
  <1>2. pc' \in [Proc -> PcStates] /\ sweep' \in [Proc -> 0..MaxSweeps]
    BY <1>1 DEF RunTyped, OnlyMoves, PointTyped
  <1>3. inactive' \in [Proc -> SUBSET Shard] /\ page' \in [Proc -> 0..Len(Pages)]
    BY <1>1 DEF RunTyped, OnlyMoves, PointTyped
  <1>4. obs' \in [Proc -> Seq(Observation)] /\ done' \in [Proc -> Nat]
    BY <1>1 DEF RunTyped, OnlyMoves, PointTyped
  <1>5. wanted' \in [Proc -> SUBSET Market] /\ capturedAt' \in [Proc -> 0..MaxTime]
    BY <1>1 DEF RunTyped, OnlyMoves, PointTyped
  <1>6. tally' \in [Proc -> Tally]
    BY <1>1 DEF RunTyped, OnlyMoves, PointTyped
  <1>7. RunTyped'
    BY <1>2, <1>3, <1>4, <1>5, <1>6 DEF RunTyped
  <1>8. ASSUME NEW q \in Proc PROVE InHand(q)'
    <2>1. CASE q = p
      BY <2>1
    <2>2. CASE q # p
      <3>1. /\ pc'[q] = pc[q] /\ sweep'[q] = sweep[q] /\ page'[q] = page[q]
            /\ obs'[q] = obs[q] /\ done'[q] = done[q]
        BY <1>1, <2>2 DEF RunTyped, OnlyMoves
      <3>2. sweep[q] <= sweeps'
        BY <1>1 DEF TypeInv, InHand, RunTyped, CountsTyped
      <3> QED BY <3>1, <3>2 DEF TypeInv, InHand
    <2> QED BY <2>1, <2>2
  <1> QED BY <1>7, <1>8 DEF TypeInv

\* A commit leaves one file more to go back to.
LEMMA CommitTyped ==
  ASSUME FileTyped, NEW file \in File, CommitTo(file)
  PROVE  FileTyped' /\ db' = file /\ Files' = Files \union {file}
  <1>1. wal' = Append(wal, file) /\ db' = file /\ wal \in Seq(File)
    BY DEF CommitTo, FileTyped
  <1>2. /\ wal' \in Seq(File) /\ wal' # <<>> /\ Len(wal') = Len(wal) + 1 /\ Len(wal) \in Nat
        /\ \A i \in 1..Len(wal) : wal'[i] = wal[i]
        /\ wal'[Len(wal) + 1] = file
        /\ DOMAIN wal = 1..Len(wal) /\ DOMAIN wal' = 1..Len(wal) + 1
    BY <1>1, AppendProperties
  <1>3. Last(wal') = file
    BY <1>2 DEF Last
  <1>4. Files' = Files \union {file}
    <2>1. ASSUME NEW f \in Files' PROVE f \in Files \union {file}
      <3>1. PICK i \in DOMAIN wal' : f = wal'[i]
        BY DEF Files
      <3>2. i \in DOMAIN wal \/ i = Len(wal) + 1
        BY <1>2
      <3> QED BY <1>2, <3>1, <3>2 DEF Files
    <2>2. ASSUME NEW f \in Files PROVE f \in Files'
      <3>1. PICK i \in DOMAIN wal : f = wal[i]
        BY DEF Files
      <3>2. i \in DOMAIN wal' /\ wal'[i] = wal[i]
        BY <1>2
      <3> QED BY <3>1, <3>2 DEF Files
    <2>3. file \in Files'
      <3>1. Len(wal) + 1 \in DOMAIN wal'
        BY <1>2
      <3> QED BY <1>2, <3>1 DEF Files
    <2> QED BY <2>1, <2>2, <2>3
  <1> QED BY <1>1, <1>2, <1>3, <1>4 DEF FileTyped

\* The file is among those to go back to.
LEMMA FilesTyped ==
  ASSUME FileTyped
  PROVE  db \in Files /\ Files \subseteq File
  <1>1. DOMAIN wal = 1..Len(wal) /\ Len(wal) \in Nat /\ Len(wal) > 0 /\ db = wal[Len(wal)]
    BY DEF FileTyped, Last
  <1>2. Len(wal) \in DOMAIN wal
    BY <1>1
  <1> QED BY <1>1, <1>2 DEF Files, FileTyped

\* A step that is no commit leaves the file as typed as it was.
LEMMA FileStaysTyped ==
  ASSUME FileTyped, UNCHANGED fileVars
  PROVE  FileTyped' /\ db' = db /\ Files' = Files
  BY DEF FileTyped, fileVars, Files

\* A process that is not at rest has a sweep of its own number.
LEMMA SweepTyped ==
  ASSUME TypeInv, NEW p \in Proc, pc[p] \notin Resting
  PROVE  sweep[p] \in Sweep /\ sweep[p] <= sweeps
  <1>1. sweep[p] \in 0..MaxSweeps /\ sweep[p] # 0 /\ sweep[p] <= sweeps /\ MaxSweeps \in Nat
    BY BoundsAssumption DEF TypeInv, RunTyped, InHand
  <1> QED BY <1>1 DEF Sweep

\* One event more.
LEMMA EventTyped ==
  ASSUME FileTyped, NEW e \in Event
  PROVE  /\ [db EXCEPT !.system = @ \union {e}] \in File
         /\ RecordSystemEvent(e) => /\ CommitTo([db EXCEPT !.system = @ \union {e}])
                                    /\ writer = NoProc
  BY DEF FileTyped, File, RecordSystemEvent, Autocommit

LEMMA EventsTyped ==
  ASSUME NEW s \in Sweep
  PROVE  /\ Halt(s) \in Event
         /\ \A m \in Market : Violation(s, m) \in Event
         /\ \A o \in Seq(Observation), shards \in SUBSET Shard : Complete(s, o, shards) \in Event
  BY DEF Event

\* What a page shows is observations.
LEMMA PageTyped ==
  ASSUME CountsTyped, NEW i \in 1..Len(Pages), NEW listed \in Pages[i],
         NEW look \in [DOMAIN listed -> Looks]
  PROVE  LET got == [k \in DOMAIN listed |-> [market |-> listed[k], asOf |-> clock,
                                              crossed |-> look[k].crossed,
                                              active |-> look[k].active]]
         IN /\ got \in Seq(Observation) /\ Len(got) = Len(listed)
            /\ \A k \in DOMAIN got : got[k].asOf = clock
  <1> DEFINE got == [k \in DOMAIN listed |-> [market |-> listed[k], asOf |-> clock,
                                              crossed |-> look[k].crossed,
                                              active |-> look[k].active]]
  <1>1. listed \in Seq(Market)
    BY PagesTyped
  <1>2. DOMAIN listed = 1..Len(listed) /\ Len(listed) \in Nat
    BY <1>1
  <1>3. ASSUME NEW k \in 1..Len(listed)
        PROVE  [market |-> listed[k], asOf |-> clock, crossed |-> look[k].crossed,
                active |-> look[k].active] \in Observation
    <2>1. look[k] \in [crossed : BOOLEAN, active : BOOLEAN]
      BY <1>2, LooksAssumption
    <2>2. listed[k] \in Market /\ clock \in 0..MaxTime
      BY <1>1 DEF CountsTyped
    <2> QED BY <2>1, <2>2 DEF Observation
  <1>4. got = [k \in 1..Len(listed) |-> [market |-> listed[k], asOf |-> clock,
                                         crossed |-> look[k].crossed,
                                         active |-> look[k].active]]
    BY <1>2
  <1>5. got \in Seq(Observation) /\ Len(got) = Len(listed) /\ DOMAIN got = 1..Len(listed)
    BY <1>2, <1>3, <1>4
  <1>6. \A k \in DOMAIN got : got[k].asOf = clock
    OBVIOUS
  <1> QED BY <1>5, <1>6

\* Types of the steps of a capture, one by one.
LEMMA CheckShardsTyped ==
  ASSUME TypeInv, NEW p \in Proc, CheckShards(p)
  PROVE  TypeInv' /\ OnlyMoves(p)
  <1>1. /\ FileTyped /\ CountsTyped /\ RunTyped /\ InHand(p) /\ PointTyped(p)
    BY PointsTyped DEF TypeInv
  <1>2. /\ pc[p] = "idle" /\ sweeps < MaxSweeps /\ sweeps' = sweeps + 1
        /\ sweep' = [sweep EXCEPT ![p] = sweeps + 1]
        /\ pc' = [pc EXCEPT ![p] = "fetching"]
        /\ \E shards \in SUBSET Shard : inactive' = [inactive EXCEPT ![p] = shards]
        /\ UNCHANGED <<clock, writer, page, obs, done, wanted, capturedAt, tally, seen>>
        /\ overlapped' = (overlapped \/ \E q \in Proc : sweep[q] # 0)
    BY DEF CheckShards, Begin
  <1>3. sweeps + 1 \in Sweep /\ sweeps + 1 \in 0..MaxSweeps /\ sweeps \in Nat
    BY <1>1, <1>2, BoundsAssumption DEF CountsTyped, Sweep
  <1>4. FileTyped'
    <2>1. CASE UNCHANGED fileVars
      BY <1>1, <2>1, FileStaysTyped
    <2>2. CASE RecordSystemEvent(Halt(sweeps + 1))
      BY <1>1, <1>3, <2>2, EventTyped, EventsTyped, CommitTyped
    <2> QED BY <2>1, <2>2 DEF CheckShards
  <1>5. CountsTyped'
    BY <1>1, <1>2, <1>3 DEF CountsTyped
  <1>6. OnlyMoves(p)
    BY <1>1, <1>2 DEF OnlyMoves, RunTyped
  <1>7. pc'[p] = "fetching" /\ sweep'[p] = sweeps + 1 /\ inactive'[p] \in SUBSET Shard
    BY <1>1, <1>2 DEF RunTyped
  <1>8. PointTyped(p)'
    BY <1>1, <1>2, <1>3, <1>7 DEF PointTyped, PcStates
  <1>9. InHand(p)'
    BY <1>1, <1>2, <1>3, <1>7, PagesTyped DEF InHand, Resting
  <1> QED BY <1>2, <1>3, <1>4, <1>5, <1>6, <1>8, <1>9, MoveTyped

\* A page adds to what its process and its sweep have seen, and to nothing else.
LEMMA FetchGets ==
  ASSUME TypeInv, NEW p \in Proc, FetchPage(p), page[p] + 1 \in 1..Len(Pages)
  PROVE  \E got \in Seq(Observation) :
           /\ obs' = [obs EXCEPT ![p] = @ \o got]
           /\ seen' = [seen EXCEPT ![sweep[p]] = @ \o got]
           /\ \A k \in DOMAIN got : got[k].asOf = clock
  <1> DEFINE Got(l, v) ==
               [i \in DOMAIN l |-> [market |-> l[i], asOf |-> clock,
                                    crossed |-> v[i].crossed, active |-> v[i].active]]
  <1>1. PICK listed \in Pages[page[p] + 1] : \E look \in [DOMAIN listed -> Looks] :
          /\ obs' = [obs EXCEPT ![p] = @ \o Got(listed, look)]
          /\ seen' = [seen EXCEPT ![sweep[p]] = @ \o Got(listed, look)]
    BY DEF FetchPage
  <1>2. PICK look \in [DOMAIN listed -> Looks] :
          /\ obs' = [obs EXCEPT ![p] = @ \o Got(listed, look)]
          /\ seen' = [seen EXCEPT ![sweep[p]] = @ \o Got(listed, look)]
    BY <1>1
  <1>3. /\ Got(listed, look) \in Seq(Observation)
        /\ \A k \in DOMAIN Got(listed, look) : Got(listed, look)[k].asOf = clock
    BY PageTyped DEF TypeInv
  <1> HIDE DEF Got
  <1> QED BY <1>2, <1>3

LEMMA FetchPageTyped ==
  ASSUME TypeInv, NEW p \in Proc, FetchPage(p)
  PROVE  TypeInv' /\ OnlyMoves(p)
  <1>1. /\ FileTyped /\ CountsTyped /\ RunTyped /\ InHand(p) /\ PointTyped(p)
    BY PointsTyped DEF TypeInv
  <1>2. /\ pc[p] = "fetching" /\ page' = [page EXCEPT ![p] = @ + 1]
        /\ UNCHANGED <<clock, fileVars, writer, sweeps, sweep, inactive, done, wanted,
                       capturedAt, tally, overlapped>>
    BY DEF FetchPage
  <1>3. page[p] + 1 \in 1..Len(Pages) /\ page[p] + 1 \in 0..Len(Pages) /\ sweep[p] \in Sweep
    <2>1. page[p] \in 0..Len(Pages) /\ page[p] < Len(Pages)
      BY <1>1, <1>2 DEF PointTyped, InHand
    <2>2. sweep[p] \in Sweep
      BY <1>2, SweepTyped DEF Resting
    <2> QED BY <2>1, <2>2, PagesTyped
  <1>4. PICK got \in Seq(Observation) : /\ obs' = [obs EXCEPT ![p] = @ \o got]
                                        /\ seen' = [seen EXCEPT ![sweep[p]] = @ \o got]
    BY <1>3, FetchGets
  <1>5. obs[p] \o got \in Seq(Observation) /\ seen[sweep[p]] \o got \in Seq(Observation)
        /\ Len(obs[p]) <= Len(obs[p] \o got)
    BY <1>1, <1>3 DEF PointTyped, CountsTyped
  <1>6. FileTyped' /\ CountsTyped'
    BY <1>1, <1>2, <1>3, <1>4, <1>5, FileStaysTyped DEF CountsTyped
  <1>7. OnlyMoves(p)
    <2>1. pc' = [pc EXCEPT ![p] = "auditing"] \/ pc' = pc
      BY DEF FetchPage
    <2> QED BY <1>1, <1>2, <1>4, <2>1 DEF OnlyMoves, RunTyped
  <1>8. /\ pc'[p] = "auditing" \/ (pc'[p] = "fetching" /\ page'[p] < Len(Pages))
        /\ page'[p] = page[p] + 1 /\ obs'[p] = obs[p] \o got
    <2>1. pc' = [pc EXCEPT ![p] = "auditing"] \/ (page[p] + 1 < Len(Pages) /\ UNCHANGED pc)
      BY DEF FetchPage
    <2>2. page'[p] = page[p] + 1 /\ obs'[p] = obs[p] \o got
      BY <1>1, <1>2, <1>4 DEF RunTyped
    <2>3. CASE pc' = [pc EXCEPT ![p] = "auditing"]
      <3>1. pc'[p] = "auditing"
        BY <1>1, <2>3 DEF RunTyped
      <3> QED BY <2>2, <3>1
    <2>4. CASE page[p] + 1 < Len(Pages) /\ UNCHANGED pc
      <3>1. pc'[p] = "fetching"
        BY <1>2, <2>4
      <3>2. page'[p] < Len(Pages)
        BY <2>2, <2>4
      <3> QED BY <2>2, <3>1, <3>2
    <2> QED BY <2>1, <2>3, <2>4
  <1>9. PointTyped(p)'
    BY <1>1, <1>2, <1>3, <1>5, <1>8 DEF PointTyped, PcStates
  <1>10. InHand(p)'
    <2>1. done'[p] = 0 /\ Len(obs'[p]) \in Nat
      BY <1>1, <1>2, <1>5, <1>8 DEF InHand
    <2> QED BY <1>1, <1>2, <1>8, <2>1 DEF InHand, Resting
  <1>11. sweeps <= sweeps'
    BY <1>1, <1>2 DEF CountsTyped
  <1> QED BY <1>6, <1>7, <1>9, <1>10, <1>11, MoveTyped

LEMMA AuditTyped ==
  ASSUME TypeInv, NEW p \in Proc, Audit(p)
  PROVE  TypeInv' /\ OnlyMoves(p)
  <1>1. /\ FileTyped /\ CountsTyped /\ RunTyped /\ InHand(p) /\ PointTyped(p)
    BY PointsTyped DEF TypeInv
  <1>2. /\ pc[p] = "auditing" /\ done[p] < Len(obs[p]) /\ done' = [done EXCEPT ![p] = @ + 1]
        /\ UNCHANGED <<clock, writer, sweeps, pc, sweep, inactive, page, obs, wanted,
                       capturedAt, tally, seen, overlapped>>
    BY DEF Audit
  <1>3. done[p] \in Nat /\ Len(obs[p]) \in Nat /\ sweep[p] \in Sweep
    BY <1>1, <1>2, SweepTyped DEF PointTyped, Resting
  <1>4. FileTyped'
    <2>1. obs[p][done[p] + 1].market \in Market
      <3>1. done[p] + 1 \in 1..Len(obs[p])
        BY <1>2, <1>3
      <3>2. obs[p][done[p] + 1] \in Observation
        BY <1>1, <3>1 DEF PointTyped
      <3> QED BY <3>2 DEF Observation
    <2>2. CASE UNCHANGED fileVars
      BY <1>1, <2>2, FileStaysTyped
    <2>3. CASE RecordSystemEvent(Violation(sweep[p], obs[p][done[p] + 1].market))
      BY <1>1, <1>3, <2>1, <2>3, EventTyped, EventsTyped, CommitTyped
    <2> QED BY <2>2, <2>3 DEF Audit
  <1>5. CountsTyped' /\ sweeps <= sweeps'
    BY <1>1, <1>2 DEF CountsTyped
  <1>6. OnlyMoves(p) /\ done'[p] = done[p] + 1
    BY <1>1, <1>2 DEF OnlyMoves, RunTyped
  <1>7. PointTyped(p)'
    BY <1>1, <1>2, <1>3, <1>6 DEF PointTyped
  <1>8. InHand(p)'
    BY <1>1, <1>2, <1>3, <1>6 DEF InHand, Resting
  <1> QED BY <1>4, <1>5, <1>6, <1>7, <1>8, MoveTyped

LEMMA BeginTransactionTyped ==
  ASSUME TypeInv, NEW p \in Proc, BeginTransaction(p)
  PROVE  TypeInv' /\ OnlyMoves(p)
  <1>1. /\ FileTyped /\ CountsTyped /\ RunTyped /\ InHand(p) /\ PointTyped(p)
    BY PointsTyped DEF TypeInv
  <1>2. /\ pc[p] = "auditing" /\ pc' = [pc EXCEPT ![p] = "writing"]
        /\ done' = [done EXCEPT ![p] = 0] /\ capturedAt' = [capturedAt EXCEPT ![p] = clock]
        /\ UNCHANGED <<clock, fileVars, writer, sweeps, sweep, inactive, page, obs, wanted,
                       tally, seen, overlapped>>
    BY DEF BeginTransaction, TimeOfSweep
  <1>3. FileTyped' /\ CountsTyped' /\ sweeps <= sweeps'
    BY <1>1, <1>2, FileStaysTyped DEF CountsTyped
  <1>4. OnlyMoves(p) /\ done'[p] = 0 /\ pc'[p] = "writing" /\ capturedAt'[p] = clock
    BY <1>1, <1>2 DEF OnlyMoves, RunTyped
  <1>5. PointTyped(p)'
    BY <1>1, <1>2, <1>4 DEF PointTyped, CountsTyped, PcStates
  <1>6. InHand(p)'
    <2>1. Len(obs[p]) \in Nat
      BY <1>1 DEF PointTyped
    <2> QED BY <1>1, <1>2, <1>4, <2>1 DEF InHand, Resting
  <1> QED BY <1>3, <1>4, <1>5, <1>6, MoveTyped

LEMMA WriteTyped ==
  ASSUME TypeInv, NEW p \in Proc, Write(p)
  PROVE  TypeInv' /\ OnlyMoves(p)
  <1>1. /\ FileTyped /\ CountsTyped /\ RunTyped /\ InHand(p) /\ PointTyped(p)
    BY PointsTyped DEF TypeInv
  <1>2. /\ pc[p] = "writing" /\ done[p] < Len(obs[p]) /\ writer' = p
        /\ done' = [done EXCEPT ![p] = @ + 1]
        /\ UNCHANGED <<clock, fileVars, sweeps, pc, sweep, inactive, page, obs, wanted,
                       capturedAt, tally, seen, overlapped>>
    BY DEF Write
  <1>3. done[p] \in Nat /\ Len(obs[p]) \in Nat
    BY <1>1 DEF PointTyped
  <1>4. FileTyped' /\ CountsTyped' /\ sweeps <= sweeps'
    BY <1>1, <1>2, FileStaysTyped DEF CountsTyped
  <1>5. OnlyMoves(p) /\ done'[p] = done[p] + 1
    BY <1>1, <1>2 DEF OnlyMoves, RunTyped
  <1>6. PointTyped(p)'
    BY <1>1, <1>2, <1>3, <1>5 DEF PointTyped
  <1>7. InHand(p)'
    BY <1>1, <1>2, <1>3, <1>5 DEF InHand, Resting
  <1> QED BY <1>4, <1>5, <1>6, <1>7, MoveTyped

\* What COMMIT makes of the file: the rows of the sweep after those that are there,
\* and a row for each market that it lists.
LEMMA PersistedTyped ==
  ASSUME TypeInv, NEW p \in Proc, pc[p] = "writing", done[p] = Len(obs[p])
  PROVE  /\ NewQuotes(p) \in Seq(QuoteRow)
         /\ DOMAIN NewQuotes(p) = DOMAIN obs[p]
         /\ NewQuotes(p) = [i \in DOMAIN obs[p] |->
              [sweep |-> sweep[p], captured_at |-> capturedAt[p], quote |-> obs[p][i]]]
         /\ MarketsWith(p) \in [Market -> Observation \union {NoRow}]
         /\ Persisted(p) \in File
         /\ Persisted(p).quotes = db.quotes \o NewQuotes(p)
         /\ Persisted(p).markets = MarketsWith(p)
         /\ Persisted(p).books = db.books /\ Persisted(p).system = db.system
  <1>1. RunTyped /\ PointTyped(p) /\ sweep[p] \in Sweep /\ FileTyped
    BY PointsTyped, SweepTyped DEF TypeInv, Resting
  <1>2. /\ obs[p] \in Seq(Observation) /\ Len(obs[p]) \in Nat /\ DOMAIN obs[p] = 1..Len(obs[p])
        /\ \A i \in DOMAIN obs[p] : obs[p][i] \in Observation
        /\ capturedAt[p] \in 0..MaxTime
    BY <1>1 DEF PointTyped
  <1>3. ASSUME NEW i \in DOMAIN obs[p]
        PROVE  [sweep |-> sweep[p], captured_at |-> capturedAt[p], quote |-> obs[p][i]] \in QuoteRow
    BY <1>1, <1>2 DEF QuoteRow
  <1>4. NewQuotes(p) = [i \in DOMAIN obs[p] |->
          [sweep |-> sweep[p], captured_at |-> capturedAt[p], quote |-> obs[p][i]]]
    BY <1>2 DEF NewQuotes
  <1>5. NewQuotes(p) \in Seq(QuoteRow) /\ DOMAIN NewQuotes(p) = DOMAIN obs[p]
    <2>1. NewQuotes(p) \in [1..Len(obs[p]) -> QuoteRow]
      BY <1>2, <1>3, <1>4
    <2> QED BY <1>2, <1>4, <2>1
  <1>6. MarketsWith(p) \in [Market -> Observation \union {NoRow}]
    <2> SUFFICES ASSUME NEW m \in Market
                 PROVE  MarketsWith(p)[m] \in Observation \union {NoRow}
      BY DEF MarketsWith
    <2>1. MarketsWith(p)[m] = IF LastOf(obs[p], m) = 0 THEN db.markets[m]
                                                       ELSE obs[p][LastOf(obs[p], m)]
      BY DEF MarketsWith
    <2>2. LastOf(obs[p], m) = 0 \/ LastOf(obs[p], m) \in DOMAIN obs[p]
      BY <1>2, LastMention
    <2>3. db.markets[m] \in Observation \union {NoRow}
      BY <1>1 DEF FileTyped, File
    <2> QED BY <1>2, <2>1, <2>2, <2>3
  <1>7. QuotesWith(p) \in Seq(QuoteRow) /\ QuotesWith(p) = db.quotes \o NewQuotes(p)
    <2>1. db.quotes \in Seq(QuoteRow)
      BY <1>1 DEF FileTyped, File
    <2> QED BY <1>5, <2>1, ConcatProperties DEF QuotesWith
  <1>8. /\ Persisted(p) \in File /\ Persisted(p).quotes = QuotesWith(p)
        /\ Persisted(p).markets = MarketsWith(p)
        /\ Persisted(p).books = db.books /\ Persisted(p).system = db.system
    BY <1>1, <1>6, <1>7 DEF Persisted, FileTyped, File
  <1> QED BY <1>4, <1>5, <1>6, <1>7, <1>8

LEMMA CommitStepTyped ==
  ASSUME TypeInv, NEW p \in Proc, Commit(p)
  PROVE  TypeInv' /\ OnlyMoves(p)
  <1>1. /\ FileTyped /\ CountsTyped /\ RunTyped /\ InHand(p) /\ PointTyped(p)
    BY PointsTyped DEF TypeInv
  <1>2. /\ pc[p] = "writing" /\ done[p] = Len(obs[p]) /\ CommitTo(Persisted(p))
        /\ writer' = (IF writer = p THEN NoProc ELSE writer)
        /\ pc' = [pc EXCEPT ![p] = "finishing"]
        /\ UNCHANGED <<clock, sweeps, seen, overlapped>>
        /\ UNCHANGED <<sweep, inactive, page, obs, done, wanted, capturedAt, tally>>
    BY DEF Commit, WriterFreed, runVars
  <1>3. FileTyped'
    BY <1>1, <1>2, PersistedTyped, CommitTyped
  <1>4. CountsTyped' /\ sweeps <= sweeps'
    BY <1>1, <1>2 DEF CountsTyped
  <1>5. OnlyMoves(p) /\ pc'[p] = "finishing"
    BY <1>1, <1>2 DEF OnlyMoves, RunTyped
  <1>6. PointTyped(p)'
    BY <1>1, <1>2, <1>5 DEF PointTyped, PcStates
  <1>7. InHand(p)'
    BY <1>1, <1>2, <1>5 DEF InHand, Resting
  <1> QED BY <1>3, <1>4, <1>5, <1>6, <1>7, MoveTyped

\* A process that ends what it was doing has nothing in hand.
LEMMA RestInHand ==
  ASSUME TypeInv, NEW p \in Proc, Rest(p), FileTyped', CountsTyped', sweeps' = sweeps
  PROVE  TypeInv' /\ OnlyMoves(p)
  <1>1. AtRest(p)' /\ PointTyped(p)' /\ OnlyMoves(p)
    BY RestIsTyped DEF TypeInv
  <1>2. sweeps \in Nat
    BY DEF TypeInv, CountsTyped
  <1>3. InHand(p)'
    BY <1>1, <1>2, PagesTyped DEF AtRest, InHand, Resting
  <1> QED BY <1>1, <1>2, <1>3, MoveTyped

LEMMA FinishTyped ==
  ASSUME TypeInv, NEW p \in Proc, Finish(p)
  PROVE  TypeInv' /\ OnlyMoves(p)
  <1>1. /\ pc[p] = "finishing" /\ Rest(p)
        /\ RecordSystemEvent(Complete(sweep[p], obs[p], inactive[p]))
        /\ UNCHANGED <<clock, writer, sweeps, seen, overlapped>>
    BY DEF Finish
  <1>2. Complete(sweep[p], obs[p], inactive[p]) \in Event
    <2>1. sweep[p] \in Sweep /\ obs[p] \in Seq(Observation) /\ inactive[p] \in SUBSET Shard
      BY <1>1, SweepTyped, PointsTyped DEF Resting, PointTyped, TypeInv
    <2> QED BY <2>1, EventsTyped
  <1>3. FileTyped' /\ CountsTyped'
    BY <1>1, <1>2, EventTyped, CommitTyped DEF TypeInv, CountsTyped
  <1> QED BY <1>1, <1>3, RestInHand

LEMMA StartBooksTyped ==
  ASSUME TypeInv, NEW p \in Proc, StartBooks(p)
  PROVE  TypeInv' /\ OnlyMoves(p)
  <1>1. /\ FileTyped /\ CountsTyped /\ RunTyped /\ InHand(p) /\ PointTyped(p)
    BY PointsTyped DEF TypeInv
  <1>2. /\ pc[p] = "idle" /\ sweeps < MaxSweeps /\ sweeps' = sweeps + 1
        /\ sweep' = [sweep EXCEPT ![p] = sweeps + 1]
        /\ pc' = [pc EXCEPT ![p] = "booking"]
        /\ \E tickers \in SUBSET Market : wanted' = [wanted EXCEPT ![p] = tickers]
        /\ UNCHANGED <<clock, fileVars, writer, inactive, page, obs, done, capturedAt, tally, seen>>
        /\ overlapped' = (overlapped \/ \E q \in Proc : sweep[q] # 0)
    BY DEF StartBooks, Begin
  <1>3. sweeps + 1 \in Sweep /\ sweeps + 1 \in 0..MaxSweeps /\ sweeps \in Nat
    BY <1>1, <1>2, BoundsAssumption DEF CountsTyped, Sweep
  <1>4. FileTyped' /\ CountsTyped'
    BY <1>1, <1>2, <1>3, FileStaysTyped DEF CountsTyped
  <1>5. OnlyMoves(p)
    BY <1>1, <1>2 DEF OnlyMoves, RunTyped
  <1>6. pc'[p] = "booking" /\ sweep'[p] = sweeps + 1 /\ wanted'[p] \in SUBSET Market
    BY <1>1, <1>2 DEF RunTyped
  <1>7. PointTyped(p)'
    BY <1>1, <1>2, <1>3, <1>6 DEF PointTyped, PcStates
  <1>8. InHand(p)'
    BY <1>1, <1>2, <1>3, <1>6 DEF InHand, Resting
  <1> QED BY <1>2, <1>3, <1>4, <1>5, <1>7, <1>8, MoveTyped

LEMMA FetchBookTyped ==
  ASSUME TypeInv, NEW p \in Proc, FetchBook(p)
  PROVE  TypeInv' /\ OnlyMoves(p)
  <1>1. /\ FileTyped /\ CountsTyped /\ RunTyped /\ InHand(p) /\ PointTyped(p)
    BY PointsTyped DEF TypeInv
  <1>2. PICK m \in wanted[p] :
          obs' = [obs EXCEPT ![p] =
                    <<[market |-> m, asOf |-> clock, crossed |-> FALSE, active |-> TRUE]>>]
    BY DEF FetchBook
  <1>3. /\ pc[p] = "booking" /\ obs[p] = <<>>
        /\ UNCHANGED <<clock, fileVars, writer, sweeps, pc, sweep, inactive, page, done, wanted,
                       capturedAt, tally, seen, overlapped>>
    BY DEF FetchBook
  <1> DEFINE o == [market |-> m, asOf |-> clock, crossed |-> FALSE, active |-> TRUE]
  <1>4. o \in Observation
    BY <1>1 DEF PointTyped, CountsTyped, Observation
  <1> HIDE DEF o
  <1>5. <<o>> \in Seq(Observation) /\ Len(<<o>>) = 1
    BY <1>4
  <1>6. FileTyped' /\ CountsTyped' /\ sweeps <= sweeps'
    BY <1>1, <1>3, FileStaysTyped DEF CountsTyped
  <1>7. OnlyMoves(p) /\ obs'[p] = <<o>>
    BY <1>1, <1>2, <1>3 DEF OnlyMoves, RunTyped, o
  <1>8. PointTyped(p)'
    BY <1>1, <1>3, <1>5, <1>7 DEF PointTyped
  <1>9. InHand(p)'
    BY <1>1, <1>3, <1>5, <1>7 DEF InHand, Resting
  <1> QED BY <1>6, <1>7, <1>8, <1>9, MoveTyped

LEMMA RecordBookTyped ==
  ASSUME TypeInv, NEW p \in Proc, RecordBook(p)
  PROVE  /\ TypeInv' /\ OnlyMoves(p)
         /\ Head(obs[p]) \in Observation
         /\ LET row == [sweep |-> sweep[p], captured_at |-> clock,
                        market |-> Head(obs[p]).market, asOf |-> Head(obs[p]).asOf]
            IN row \in BookRow /\ CommitTo([db EXCEPT !.books = @ \union {row}])
  <1>1. /\ FileTyped /\ CountsTyped /\ RunTyped /\ InHand(p) /\ PointTyped(p)
    BY PointsTyped DEF TypeInv
  <1> DEFINE o == Head(obs[p])
             row == [sweep |-> sweep[p], captured_at |-> clock, market |-> o.market, asOf |-> o.asOf]
  <1>2. /\ pc[p] = "booking" /\ obs[p] # <<>> /\ CommitTo([db EXCEPT !.books = @ \union {row}])
        /\ UNCHANGED <<clock, writer, sweeps, seen, overlapped>>
        /\ \/ Rest(p)
           \/ /\ wanted' = [wanted EXCEPT ![p] = @ \ {o.market}]
              /\ obs' = [obs EXCEPT ![p] = <<>>]
              /\ UNCHANGED <<pc, sweep, inactive, page, done, capturedAt, tally>>
    BY DEF RecordBook, RecordOrderbook, Autocommit
  <1>3. o \in Observation
    BY <1>1, <1>2 DEF PointTyped
  <1>4. sweep[p] \in Sweep
    BY <1>2, SweepTyped DEF Resting
  <1>5. row \in BookRow
    BY <1>1, <1>3, <1>4 DEF BookRow, Observation, CountsTyped
  <1>6. [db EXCEPT !.books = @ \union {row}] \in File
    <2> HIDE DEF row
    <2> QED BY <1>1, <1>5 DEF FileTyped, File
  <1>7. FileTyped' /\ CountsTyped'
    BY <1>1, <1>2, <1>6, CommitTyped DEF CountsTyped
  <1>8. CASE Rest(p)
    BY <1>2, <1>3, <1>5, <1>7, <1>8, RestInHand
  <1>9. CASE /\ wanted' = [wanted EXCEPT ![p] = @ \ {o.market}]
             /\ obs' = [obs EXCEPT ![p] = <<>>]
             /\ UNCHANGED <<pc, sweep, inactive, page, done, capturedAt, tally>>
    <2>1. OnlyMoves(p) /\ obs'[p] = <<>> /\ wanted'[p] = wanted[p] \ {o.market}
      BY <1>1, <1>9 DEF OnlyMoves, RunTyped
    <2>2. PointTyped(p)'
      BY <1>1, <1>9, <2>1 DEF PointTyped
    <2>3. InHand(p)' /\ sweeps <= sweeps'
      <3>1. done[p] = 0 /\ sweeps \in Nat
        BY <1>1, <1>2 DEF InHand, CountsTyped
      <3> QED BY <1>1, <1>2, <1>9, <2>1, <3>1 DEF InHand, Resting
    <2> QED BY <1>2, <1>3, <1>5, <1>7, <2>1, <2>2, <2>3, MoveTyped
  <1> QED BY <1>2, <1>8, <1>9

\* A table's rows are counted with a number, and the markets with at most theirs.
LEMMA RowsTyped ==
  ASSUME FileTyped
  PROVE  Rows("markets") \in 0..Cardinality(Market) /\ Rows("quotes") \in Nat
  <1> DEFINE known == {m \in Market : db.markets[m] # NoRow}
  <1>1. IsFiniteSet(known) /\ Cardinality(known) <= Cardinality(Market)
    BY MarketAssumption, FS_Subset
  <1>2. Cardinality(known) \in Nat /\ Cardinality(Market) \in Nat
    BY <1>1, MarketAssumption, FS_CardinalityType
  <1>3. Len(db.quotes) \in Nat
    BY DEF FileTyped, File
  <1>4. Rows("markets") = Cardinality(known) /\ Rows("quotes") = Len(db.quotes)
    BY DEF Rows
  <1> HIDE DEF known
  <1> QED BY <1>1, <1>2, <1>3, <1>4

LEMMA CountTyped ==
  ASSUME TypeInv, NEW p \in Proc, StartCounts(p) \/ EndCounts(p)
  PROVE  TypeInv' /\ OnlyMoves(p)
  <1>1. /\ FileTyped /\ CountsTyped /\ RunTyped /\ InHand(p) /\ PointTyped(p)
    BY PointsTyped DEF TypeInv
  <1>2. /\ pc[p] \in Resting /\ pc' = [pc EXCEPT ![p] = pc'[p]] /\ pc'[p] \in Resting
        /\ UNCHANGED <<clock, fileVars, writer, sweeps, sweep, inactive, page, obs, done, wanted,
                       capturedAt, seen, overlapped>>
    BY <1>1 DEF StartCounts, EndCounts, CountTable, Resting, RunTyped
  <1>3. tally' = [tally EXCEPT ![p] = tally'[p]] /\ tally'[p] \in Tally
    <2>1. tally[p] \in Tally /\ Rows("markets") \in 0..Cardinality(Market) /\ Rows("quotes") \in Nat
      BY <1>1, RowsTyped DEF PointTyped
    <2>2. CASE StartCounts(p)
      <3>1. tally' = [tally EXCEPT ![p] = [tally[p] EXCEPT !.markets = Rows("markets")]]
        BY <2>2 DEF StartCounts, CountTable, Tables
      <3> QED BY <1>1, <2>1, <3>1 DEF RunTyped, Tally
    <2>3. CASE EndCounts(p)
      <3>1. tally' = [tally EXCEPT ![p] = [tally[p] EXCEPT !.quotes = Rows("quotes")]]
        BY <2>3 DEF EndCounts, CountTable, Tables
      <3> QED BY <1>1, <2>1, <3>1 DEF RunTyped, Tally
    <2> QED BY <2>2, <2>3
  <1>4. FileTyped' /\ CountsTyped' /\ sweeps <= sweeps'
    BY <1>1, <1>2, FileStaysTyped DEF CountsTyped
  <1>5. OnlyMoves(p)
    BY <1>1, <1>2, <1>3 DEF OnlyMoves, RunTyped
  <1>6. PointTyped(p)'
    BY <1>1, <1>2, <1>3 DEF PointTyped, Resting, PcStates
  <1>7. InHand(p)'
    BY <1>1, <1>2 DEF InHand, Resting
  <1> QED BY <1>4, <1>5, <1>6, <1>7, MoveTyped

LEMMA ReportTyped ==
  ASSUME TypeInv, NEW p \in Proc, Report(p)
  PROVE  TypeInv' /\ OnlyMoves(p)
  <1>1. Rest(p) /\ UNCHANGED <<clock, fileVars, writer, sweeps, seen, overlapped>>
    BY DEF Report
  <1>2. FileTyped' /\ CountsTyped'
    BY <1>1, FileStaysTyped DEF TypeInv, CountsTyped
  <1> QED BY <1>1, <1>2, RestInHand

LEMMA AbortTyped ==
  ASSUME TypeInv, NEW p \in Proc, Abort(p)
  PROVE  TypeInv' /\ OnlyMoves(p)
  <1>1. /\ Rest(p) /\ UNCHANGED <<clock, fileVars, sweeps, seen, overlapped>>
        /\ writer' = IF writer = p THEN NoProc ELSE writer
    BY DEF Abort, WriterFreed
  <1>2. FileTyped' /\ CountsTyped'
    BY <1>1, FileStaysTyped DEF TypeInv, CountsTyped
  <1> QED BY <1>1, <1>2, RestInHand

\* What is left after a checkpoint, or a power failure, is one of the files.
LEMMA OneFile ==
  ASSUME FileTyped, NEW f \in Files, db' = f, wal' = <<f>>
  PROVE  FileTyped' /\ Files' = {f}
  <1>1. f \in File
    BY FilesTyped
  <1>2. /\ <<f>> \in Seq(File) /\ Len(<<f>>) = 1 /\ DOMAIN <<f>> = {1} /\ <<f>>[1] = f
        /\ <<f>> # <<>>
    BY <1>1
  <1> QED BY <1>1, <1>2 DEF FileTyped, Files, Last

LEMMA CheckpointTyped ==
  ASSUME TypeInv, Checkpoint
  PROVE  TypeInv' /\ Files' = {db} /\ db \in Files
  <1>1. wal' = <<db>> /\ UNCHANGED <<clock, db, writer, sweeps, pc, runVars, seen, overlapped>>
    BY DEF Checkpoint
  <1>2. db \in Files /\ FileTyped
    BY FilesTyped DEF TypeInv
  <1>3. FileTyped' /\ Files' = {db}
    BY <1>1, <1>2, OneFile
  <1>4. CountsTyped' /\ RunTyped'
    BY <1>1 DEF TypeInv, CountsTyped, RunTyped, runVars
  <1>5. \A p \in Proc : InHand(p)'
    BY <1>1 DEF TypeInv, InHand, runVars
  <1> QED BY <1>2, <1>3, <1>4, <1>5 DEF TypeInv

LEMMA PowerLossTyped ==
  ASSUME TypeInv, PowerLoss
  PROVE  TypeInv' /\ Files' = {db'} /\ db' \in Files /\ \A p \in Proc : AtRest(p)'
  <1>1. /\ writer' = NoProc /\ pc' = [p \in Proc |-> "idle"] /\ sweep' = [p \in Proc |-> 0]
        /\ inactive' = [p \in Proc |-> {}] /\ page' = [p \in Proc |-> 0]
        /\ obs' = [p \in Proc |-> <<>>] /\ done' = [p \in Proc |-> 0]
        /\ wanted' = [p \in Proc |-> {}] /\ capturedAt' = [p \in Proc |-> 0]
        /\ tally' = [p \in Proc |-> NoTally] /\ UNCHANGED <<clock, sweeps, seen, overlapped>>
    BY DEF PowerLoss
  <1>2. db' \in Files /\ wal' = <<db'>>
    <2>1. PICK i \in DOMAIN wal : db' = wal[i] /\ wal' = <<wal[i]>>
      BY DEF PowerLoss
    <2> QED BY <2>1 DEF Files
  <1>3. FileTyped' /\ Files' = {db'}
    BY <1>2, OneFile DEF TypeInv
  <1>4. CountsTyped'
    BY <1>1 DEF TypeInv, CountsTyped
  <1>5. RunTyped'
    <2>1. 0 \in 0..MaxSweeps /\ 0 \in 0..Len(Pages) /\ 0 \in 0..MaxTime /\ "idle" \in PcStates
      BY PagesTyped, BoundsAssumption DEF PcStates
    <2> QED BY <1>1, <2>1, NoTallyTyped DEF RunTyped
  <1>6. \A p \in Proc : AtRest(p)'
    BY <1>1 DEF AtRest
  <1>7. ASSUME NEW p \in Proc PROVE InHand(p)'
    <2>1. sweeps' \in Nat
      BY <1>4 DEF CountsTyped
    <2> QED BY <1>6, <2>1, PagesTyped DEF AtRest, InHand, Resting
  <1> QED BY <1>2, <1>3, <1>4, <1>5, <1>6, <1>7 DEF TypeInv

LEMMA TickTyped ==
  ASSUME TypeInv, Tick \/ UNCHANGED vars
  PROVE  TypeInv' /\ Files' = Files /\ clock <= clock'
  <1>1. UNCHANGED <<fileVars, writer, sweeps, pc, runVars, seen, overlapped>>
    BY DEF Tick, vars
  <1>2. clock' \in 0..MaxTime /\ clock <= clock'
    BY BoundsAssumption DEF Tick, vars, TypeInv, CountsTyped
  <1>3. FileTyped' /\ Files' = Files
    BY <1>1, FileStaysTyped DEF TypeInv
  <1>4. CountsTyped' /\ RunTyped'
    BY <1>1, <1>2 DEF TypeInv, CountsTyped, RunTyped, runVars
  <1>5. \A p \in Proc : InHand(p)'
    BY <1>1 DEF TypeInv, InHand, runVars
  <1> QED BY <1>2, <1>3, <1>4, <1>5 DEF TypeInv

LEMMA EmptyFileTyped ==
  ASSUME Init
  PROVE  EmptyFile \in File /\ Files = {EmptyFile}
  <1>1. <<>> \in Seq(QuoteRow)
    OBVIOUS
  <1>2. EmptyFile \in File
    BY <1>1 DEF EmptyFile, File
  <1>3. wal = <<EmptyFile>> /\ DOMAIN <<EmptyFile>> = {1} /\ <<EmptyFile>>[1] = EmptyFile
    BY DEF Init
  <1> QED BY <1>2, <1>3 DEF Files

LEMMA InitTyped == Init => TypeInv
  <1> SUFFICES ASSUME Init PROVE TypeInv
    OBVIOUS
  <1>1. FileTyped
    <2>1. EmptyFile \in File
      BY EmptyFileTyped
    <2>2. <<EmptyFile>> \in Seq(File) /\ <<EmptyFile>> # <<>> /\ Last(<<EmptyFile>>) = EmptyFile
      BY <2>1 DEF Last
    <2> QED BY <2>1, <2>2 DEF Init, FileTyped
  <1>2. 0 \in 0..MaxSweeps /\ 0 \in 0..Len(Pages) /\ 0 \in 0..MaxTime /\ "idle" \in PcStates
    BY PagesTyped, BoundsAssumption DEF PcStates
  <1>3. CountsTyped
    <2>1. seen \in [Sweep -> Seq(Observation)]
      BY DEF Init
    <2> QED BY <1>2, <2>1 DEF Init, CountsTyped
  <1>4. RunTyped
    BY <1>2, NoTallyTyped DEF Init, RunTyped
  <1>5. ASSUME NEW p \in Proc PROVE InHand(p)
    BY PagesTyped DEF Init, InHand, Resting
  <1> QED BY <1>1, <1>3, <1>4, <1>5 DEF TypeInv

LEMMA StepTyped == TypeInv /\ [Next]_vars => TypeInv'
  BY CheckShardsTyped, FetchPageTyped, AuditTyped, BeginTransactionTyped, WriteTyped,
     CommitStepTyped, FinishTyped, StartBooksTyped, FetchBookTyped, RecordBookTyped, CountTyped,
     ReportTyped, AbortTyped, CheckpointTyped, PowerLossTyped, TickTyped, ReaderAssumption
  DEF Next, Step

LEMMA TypesHold == Spec => []TypeInv
  <1> QED BY InitTyped, StepTyped, PTL DEF Spec

\* Every variable keeps its type: the events are of sweeps that were started, no loop
\* goes past what its capture fetched, and the newest state of the file is the one
\* that its readers see (storage.py:158-168).
THEOREM FileTypes == Spec => []TypeOK
  <1>1. TypeInv => TypeOK
    <2> SUFFICES ASSUME TypeInv PROVE TypeOK
      OBVIOUS
    <2>1. FileTyped /\ CountsTyped /\ RunTyped
      BY DEF TypeInv
    <2>2. \A e \in Event : e.sweep \in Sweep
      BY DEF Event, Violation, Halt, Complete
    <2>3. /\ db.markets \in [Market -> Observation \union {NoRow}] /\ db.quotes \in Seq(QuoteRow)
          /\ db.books \subseteq BookRow /\ db.system \subseteq Event /\ wal # <<>> /\ Last(wal) = db
      BY <2>1 DEF FileTyped, File
    <2>4. ASSUME NEW p \in Proc PROVE done[p] \in 0..Len(obs[p])
      <3>1. done[p] \in Nat /\ Len(obs[p]) \in Nat /\ done[p] <= Len(obs[p])
        BY <2>1 DEF RunTyped, TypeInv, InHand
      <3> QED BY <3>1
    <2> QED BY <2>1, <2>2, <2>3, <2>4 DEF TypeOK, CountsTyped, RunTyped, PcStates, Tally
  <1> QED BY <1>1, TypesHold, PTL

--------------------------------------------------------------------------------
(* What is true of the captures, of the files, and of the two together *)

\* A capture of events before its transaction, and up to its end.
Gathering == {"fetching", "auditing", "writing"}
Capturing == Gathering \union {"finishing"}

Vouched(f) == {e.sweep : e \in {x \in f.system : x.kind = "sweep_complete"}}

\* Captures under way have numbers of their own, and a number that is still to be
\* given has left no trace.
Untouched(f, s) == Slice(f, s) = <<>> /\ s \notin Vouched(f)
Numbered ==
    /\ \A p, q \in Proc : sweep[p] # 0 /\ sweep[p] = sweep[q] => p = q
    /\ \A s \in Sweep : s > sweeps => seen[s] = <<>> /\ \A f \in Files : Untouched(f, s)

\* What a capture has in hand is all that its sweep has seen, and it has seen it
\* by now, by its timestamp and in this order.
Gathered(p) ==
    /\ pc[p] \in Capturing => obs[p] = seen[sweep[p]]
    /\ \A i \in DOMAIN obs[p] : obs[p][i].asOf <= clock
    /\ pc[p] = "writing" =>
         capturedAt[p] <= clock /\ \A i \in DOMAIN obs[p] : obs[p][i].asOf <= capturedAt[p]
    /\ \A i, j \in DOMAIN obs[p] : i <= j => obs[p][i].asOf <= obs[p][j].asOf

\* Of the crossed books that it has in hand, those that the audit has passed are on
\* record.
Audited(p) ==
    pc[p] \in {"auditing", "writing"} => \A i \in DOMAIN obs[p] :
        obs[p][i].crossed /\ (pc[p] = "writing" \/ i <= done[p]) =>
            Violation(sweep[p], obs[p][i].market) \in db.system

\* A sweep is in no file before its transaction, and in the file after it.
Placed(p) ==
    /\ pc[p] \in Gathering => \A f \in Files : Untouched(f, sweep[p])
    /\ pc[p] = "finishing" => Len(Slice(db, sweep[p])) = Len(obs[p])

CaptureInv == Numbered /\ \A p \in Proc : Gathered(p) /\ Audited(p) /\ Placed(p)

\* Of each file by itself: no row is ahead of its timestamp or of the clock, crossed
\* books are on record, and the two tables list the same markets.
Stamped(f) ==
    /\ \A i \in DOMAIN f.quotes : /\ f.quotes[i].quote.asOf <= f.quotes[i].captured_at
                                  /\ f.quotes[i].captured_at <= clock
    /\ \A b \in f.books : b.asOf <= b.captured_at
OnRecord(f) ==
    \A i \in DOMAIN f.quotes : f.quotes[i].quote.crossed =>
        Violation(f.quotes[i].sweep, f.quotes[i].quote.market) \in f.system
Listed(f) ==
    /\ \A i \in DOMAIN f.quotes : f.markets[f.quotes[i].quote.market] # NoRow
    /\ \A m \in Market : f.markets[m] # NoRow => \E i \in DOMAIN f.quotes : f.quotes[i].quote.market = m
FileKept(f) == Stamped(f) /\ OnRecord(f) /\ Listed(f)
FileInv == \A f \in Files : FileKept(f)

\* As long as captures never overlapped there is one at most, it has seen nothing older
\* than what is in the file, and each file's rows are its latest.
Latest(f) ==
    \A i \in DOMAIN f.quotes : f.quotes[i].quote.asOf <= f.markets[f.quotes[i].quote.market].asOf
AloneInv ==
    ~overlapped =>
        /\ \A p, q \in Proc : sweep[p] # 0 /\ sweep[q] # 0 => p = q
        /\ \A f \in Files : Latest(f)
        /\ \A p \in Proc : pc[p] \in Gathering => \A i \in DOMAIN db.quotes, j \in DOMAIN obs[p] :
               db.quotes[i].quote.asOf <= obs[p][j].asOf

\* What counts() has read of the first table is no more than there is of the second.
CountInv ==
    \A p \in Proc : /\ pc[p] = "counting" => tally[p].markets <= Len(db.quotes)
                    /\ pc[p] = "reporting" => tally[p].markets <= tally[p].quotes

--------------------------------------------------------------------------------
(* What a step does to the files *)

EventAdded ==
    /\ Files' = Files \union {db'}
    /\ \E e \in Event :
         /\ db' = [db EXCEPT !.system = @ \union {e}]
         /\ e.kind = "sweep_complete" => \E p \in Proc : Finish(p) /\ e.sweep = sweep[p]
BookAdded ==
    /\ Files' = Files \union {db'}
    /\ \E p \in Proc : LET o == Head(obs[p]) IN
         /\ pc[p] = "booking" /\ obs[p] # <<>>
         /\ db' = [db EXCEPT !.books = @ \union {[sweep |-> sweep[p], captured_at |-> clock,
                                                  market |-> o.market, asOf |-> o.asOf]}]
SweepAdded(p) ==
    /\ Files' = Files \union {db'}
    /\ Commit(p) /\ pc[p] = "writing" /\ done[p] = Len(obs[p]) /\ db' = Persisted(p)

\* Power takes the file back, or it stays, or one of three things is committed.
LEMMA FilesStep ==
  ASSUME TypeInv, [Next]_vars
  PROVE  /\ TypeInv' /\ clock <= clock'
         /\ \/ PowerLoss /\ db' \in Files /\ Files' = {db'}
            \/ db' = db /\ Files' \subseteq Files
            \/ EventAdded
            \/ BookAdded
            \/ \E p \in Proc : SweepAdded(p)
  <1> DEFINE Moves == \/ PowerLoss /\ db' \in Files /\ Files' = {db'}
                      \/ db' = db /\ Files' \subseteq Files
                      \/ EventAdded
                      \/ BookAdded
                      \/ \E p \in Proc : SweepAdded(p)
  <1>1. TypeInv' /\ FileTyped /\ clock \in Int
    BY StepTyped DEF TypeInv, CountsTyped
  <1>2. ASSUME NEW e \in Event, RecordSystemEvent(e),
               e.kind = "sweep_complete" => \E p \in Proc : Finish(p) /\ e.sweep = sweep[p]
        PROVE  Moves
    BY <1>1, <1>2, EventTyped, CommitTyped DEF EventAdded
  <1>3. ASSUME UNCHANGED fileVars PROVE Moves
    BY <1>1, <1>3, FileStaysTyped
  <1>4. ASSUME NEW p \in Proc, CheckShards(p) PROVE Moves /\ clock' = clock
    <2>1. sweeps + 1 \in Sweep /\ clock' = clock
      BY <1>4, BoundsAssumption DEF CheckShards, Begin, TypeInv, CountsTyped, Sweep
    <2>2. UNCHANGED fileVars \/ RecordSystemEvent(Halt(sweeps + 1))
      BY <1>4 DEF CheckShards
    <2>3. Halt(sweeps + 1).kind # "sweep_complete"
      BY DEF Halt
    <2> QED BY <1>2, <1>3, <2>1, <2>2, <2>3, EventsTyped
  <1>5. ASSUME NEW p \in Proc, Audit(p) PROVE Moves /\ clock' = clock
    <2>1. sweep[p] \in Sweep /\ clock' = clock
      BY <1>5, SweepTyped DEF Audit, Resting
    <2>2. obs[p][done[p] + 1].market \in Market
      <3>1. obs[p] \in Seq(Observation) /\ done[p] \in Nat /\ done[p] < Len(obs[p])
        BY <1>5, PointsTyped DEF TypeInv, PointTyped, Audit
      <3>2. obs[p][done[p] + 1] \in Observation
        BY <3>1
      <3> QED BY <3>2 DEF Observation
    <2>3. \/ UNCHANGED fileVars
          \/ RecordSystemEvent(Violation(sweep[p], obs[p][done[p] + 1].market))
      BY <1>5 DEF Audit
    <2>4. Violation(sweep[p], obs[p][done[p] + 1].market).kind # "sweep_complete"
      BY DEF Violation
    <2> QED BY <1>2, <1>3, <2>1, <2>2, <2>3, <2>4, EventsTyped
  <1>6. ASSUME NEW p \in Proc, Finish(p) PROVE Moves /\ clock' = clock
    <2>1. /\ sweep[p] \in Sweep /\ obs[p] \in Seq(Observation) /\ inactive[p] \in SUBSET Shard
          /\ clock' = clock
      BY <1>6, SweepTyped, PointsTyped DEF Resting, PointTyped, TypeInv, Finish
    <2>2. RecordSystemEvent(Complete(sweep[p], obs[p], inactive[p]))
      BY <1>6 DEF Finish
    <2>3. Complete(sweep[p], obs[p], inactive[p]).sweep = sweep[p]
      BY DEF Complete
    <2> QED BY <1>2, <1>6, <2>1, <2>2, <2>3, EventsTyped
  <1>7. ASSUME NEW p \in Proc, RecordBook(p) PROVE Moves /\ clock' = clock
    <2> DEFINE row == [sweep |-> sweep[p], captured_at |-> clock,
                       market |-> Head(obs[p]).market, asOf |-> Head(obs[p]).asOf]
               file == [db EXCEPT !.books = @ \union {row}]
    <2>1. /\ pc[p] = "booking" /\ obs[p] # <<>> /\ clock' = clock
      BY <1>7 DEF RecordBook
    <2>2. row \in BookRow /\ CommitTo(file)
      BY <1>7, RecordBookTyped
    <2>3. file \in File
      <3> HIDE DEF row
      <3> QED BY <1>1, <2>2 DEF FileTyped, File
    <2>4. Files' = Files \union {db'} /\ db' = file
      <3> HIDE DEF file
      <3> QED BY <1>1, <2>2, <2>3, CommitTyped
    <2> QED BY <2>1, <2>4 DEF BookAdded
  <1>8. ASSUME NEW p \in Proc, Commit(p) PROVE Moves /\ clock' = clock
    <2>1. /\ pc[p] = "writing" /\ done[p] = Len(obs[p]) /\ CommitTo(Persisted(p)) /\ clock' = clock
      BY <1>8 DEF Commit
    <2>2. Persisted(p) \in File
      BY <2>1, PersistedTyped
    <2> QED BY <1>1, <1>8, <2>1, <2>2, CommitTyped DEF SweepAdded
  <1>9. ASSUME Checkpoint PROVE Moves /\ clock' = clock
    <2>1. db' = db /\ clock' = clock
      BY <1>9 DEF Checkpoint
    <2> QED BY <1>1, <1>9, <2>1, CheckpointTyped
  <1>10. ASSUME PowerLoss PROVE Moves /\ clock' = clock
    <2>1. clock' = clock
      BY <1>10 DEF PowerLoss
    <2> QED BY <1>1, <1>10, <2>1, PowerLossTyped
  <1>11. ASSUME Tick \/ UNCHANGED vars PROVE Moves /\ clock <= clock'
    <2>1. UNCHANGED fileVars
      BY <1>11 DEF Tick, vars
    <2> QED BY <1>1, <1>3, <1>11, <2>1, TickTyped
  <1>12. ASSUME NEW p \in Proc,
                \/ FetchPage(p) \/ BeginTransaction(p) \/ Write(p) \/ StartBooks(p)
                \/ FetchBook(p) \/ StartCounts(p) \/ EndCounts(p) \/ Report(p) \/ Abort(p)
         PROVE  Moves /\ clock' = clock
    <2>1. UNCHANGED fileVars /\ clock' = clock
      BY <1>12 DEF FetchPage, BeginTransaction, Write, StartBooks, FetchBook, StartCounts,
                   EndCounts, CountTable, Report, Abort
    <2> QED BY <1>3, <2>1
  <1>13. Moves /\ clock <= clock'
    <2> HIDE DEF Moves
    <2>1. CASE clock' = clock /\ Moves
      BY <1>1, <2>1
    <2>2. ASSUME NEW p \in Proc, CheckShards(p) \/ StartBooks(p) \/ Step(p) \/ Abort(p)
          PROVE  Moves /\ clock' = clock
      BY <1>4, <1>5, <1>6, <1>7, <1>8, <1>12, <2>2 DEF Step
    <2>3. ASSUME NEW p \in Reader, StartCounts(p) PROVE Moves /\ clock' = clock
      BY <1>12, <2>3, ReaderAssumption
    <2>4. CASE Next
      BY <1>9, <1>10, <1>11, <2>1, <2>2, <2>3, <2>4 DEF Next
    <2> QED BY <1>11, <2>4
  <1> QED BY <1>1, <1>13

\* A row of the file after COMMIT was there before or shows what the sweep has seen.
LEMMA PersistedRows ==
  ASSUME TypeInv, NEW p \in Proc, pc[p] = "writing", done[p] = Len(obs[p])
  PROVE  /\ \A i \in DOMAIN Persisted(p).quotes :
              \/ i \in DOMAIN db.quotes /\ Persisted(p).quotes[i] = db.quotes[i]
              \/ \E k \in DOMAIN obs[p] : Persisted(p).quotes[i] =
                   [sweep |-> sweep[p], captured_at |-> capturedAt[p], quote |-> obs[p][k]]
         /\ \A i \in DOMAIN db.quotes : /\ i \in DOMAIN Persisted(p).quotes
                                        /\ Persisted(p).quotes[i] = db.quotes[i]
         /\ \A k \in DOMAIN obs[p] : \E i \in DOMAIN Persisted(p).quotes :
              Persisted(p).quotes[i].quote = obs[p][k]
         /\ Len(db.quotes) <= Len(Persisted(p).quotes)
         /\ SubSeq(Persisted(p).quotes, 1, Len(db.quotes)) = db.quotes
  <1> DEFINE q == db.quotes
             new == NewQuotes(p)
             r == Persisted(p).quotes
  <1>1. /\ q \in Seq(QuoteRow) /\ new \in Seq(QuoteRow) /\ r = q \o new
        /\ new = [i \in DOMAIN obs[p] |->
             [sweep |-> sweep[p], captured_at |-> capturedAt[p], quote |-> obs[p][i]]]
        /\ DOMAIN new = DOMAIN obs[p]
    BY PersistedTyped DEF TypeInv, FileTyped, File
  <1> HIDE DEF q, new, r
  <1>2. /\ DOMAIN q = 1..Len(q) /\ Len(q) \in Nat /\ DOMAIN new = 1..Len(new) /\ Len(new) \in Nat
        /\ Len(r) = Len(q) + Len(new) /\ DOMAIN r = 1..Len(q) + Len(new)
        /\ \A i \in 1..Len(q) + Len(new) : r[i] = IF i <= Len(q) THEN q[i] ELSE new[i - Len(q)]
    BY <1>1, ConcatProperties
  <1>7. ASSUME NEW k \in DOMAIN new
        PROVE  /\ k \in DOMAIN obs[p]
               /\ new[k] = [sweep |-> sweep[p], captured_at |-> capturedAt[p], quote |-> obs[p][k]]
    BY <1>1
  <1>3. ASSUME NEW i \in DOMAIN r
        PROVE  \/ i \in DOMAIN q /\ r[i] = q[i]
               \/ \E k \in DOMAIN obs[p] :
                    r[i] = [sweep |-> sweep[p], captured_at |-> capturedAt[p], quote |-> obs[p][k]]
    <2>1. CASE i <= Len(q)
      BY <1>2, <2>1
    <2>2. CASE ~(i <= Len(q))
      <3>1. i - Len(q) \in DOMAIN new /\ r[i] = new[i - Len(q)]
        BY <1>2, <2>2
      <3> QED BY <1>7, <3>1
    <2> QED BY <2>1, <2>2
  <1>4. ASSUME NEW k \in DOMAIN obs[p] PROVE \E i \in DOMAIN r : r[i].quote = obs[p][k]
    <2>1. k \in DOMAIN new
      BY <1>1
    <2>2. Len(q) + k \in DOMAIN r /\ r[Len(q) + k] = new[k]
      BY <1>2, <2>1
    <2>3. new[k].quote = obs[p][k]
      BY <1>1
    <2> QED BY <2>2, <2>3
  <1>5. \A i \in DOMAIN q : i \in DOMAIN r /\ r[i] = q[i]
    BY <1>2
  <1>6. SubSeq(r, 1, Len(q)) = q
    <2>1. SubSeq(q \o new, 1, Len(q)) = SubSeq(q, 1, Len(q))
      BY <1>1, <1>2, SubSeqOfConcat1
    <2> QED BY <1>1, <2>1, SubSeqFull, Zenon
  <1>8. Len(q) <= Len(r)
    BY <1>2
  <1> QED BY <1>3, <1>4, <1>5, <1>6, <1>8 DEF q, r

\* A market's row after COMMIT is the last that the sweep listed of it, if any.
LEMMA PersistedMarkets ==
  ASSUME TypeInv, NEW p \in Proc, pc[p] = "writing", done[p] = Len(obs[p]), NEW m \in Market
  PROVE  \/ /\ Persisted(p).markets[m] = db.markets[m]
            /\ \A j \in DOMAIN obs[p] : obs[p][j].market # m
         \/ /\ Persisted(p).markets[m] # NoRow
            /\ \E k \in DOMAIN obs[p] :
                 /\ Persisted(p).markets[m] = obs[p][k] /\ obs[p][k].market = m
                 /\ \A j \in DOMAIN obs[p] : obs[p][j].market = m => j <= k
  <1>1. obs[p] \in Seq(Observation)
    BY PointsTyped DEF TypeInv, PointTyped
  <1>2. Persisted(p).markets[m] = IF LastOf(obs[p], m) = 0 THEN db.markets[m]
                                                           ELSE obs[p][LastOf(obs[p], m)]
    BY PersistedTyped DEF MarketsWith
  <1>3. \/ LastOf(obs[p], m) = 0 /\ \A j \in DOMAIN obs[p] : obs[p][j].market # m
        \/ /\ LastOf(obs[p], m) \in DOMAIN obs[p] /\ obs[p][LastOf(obs[p], m)].market = m
           /\ \A j \in DOMAIN obs[p] : obs[p][j].market = m => j <= LastOf(obs[p], m)
    BY <1>1, LastMention
  <1>4. ASSUME NEW k \in DOMAIN obs[p] PROVE k # 0 /\ obs[p][k] # NoRow
    <2>1. obs[p][k] \in Observation /\ k \in 1..Len(obs[p])
      BY <1>1
    <2> QED BY <2>1, NoRowAssumption
  <1> QED BY <1>2, <1>3, <1>4

--------------------------------------------------------------------------------
(* The files *)

\* What is kept of a file is kept as time passes ...
LEMMA KeptStays ==
  ASSUME TypeInv, TypeInv', clock <= clock', NEW f \in File, FileKept(f)
  PROVE  FileKept(f)'
  <1>1. clock \in Int /\ clock' \in Int
    BY DEF TypeInv, CountsTyped
  <1>2. ASSUME NEW i \in DOMAIN f.quotes PROVE f.quotes[i].captured_at <= clock'
    <2>1. f.quotes \in Seq(QuoteRow)
      BY DEF File
    <2>2. f.quotes[i] \in QuoteRow
      BY <2>1
    <2>3. f.quotes[i].captured_at \in Int /\ f.quotes[i].captured_at <= clock
      BY <2>2 DEF QuoteRow, FileKept, Stamped
    <2> QED BY <1>1, <2>3
  <1> QED BY <1>2 DEF FileKept, Stamped, OnRecord, Listed

\* ... and by each of the three things that are committed.
LEMMA EventKeeps ==
  ASSUME NEW f \in File, NEW e, FileKept(f)
  PROVE  FileKept([f EXCEPT !.system = @ \union {e}])
  BY DEF File, FileKept, Stamped, OnRecord, Listed

LEMMA BookKeeps ==
  ASSUME NEW f \in File, NEW row, FileKept(f), row.asOf <= row.captured_at
  PROVE  FileKept([f EXCEPT !.books = @ \union {row}])
  BY DEF File, FileKept, Stamped, OnRecord, Listed

LEMMA SweepKeeps ==
  ASSUME TypeInv, NEW p \in Proc, SweepAdded(p), Gathered(p), Audited(p), FileKept(db)
  PROVE  FileKept(Persisted(p))
  <1>1. pc[p] = "writing" /\ done[p] = Len(obs[p])
    BY DEF SweepAdded
  <1> DEFINE g == Persisted(p)
  <1>2. /\ \A i \in DOMAIN g.quotes :
             \/ i \in DOMAIN db.quotes /\ g.quotes[i] = db.quotes[i]
             \/ \E k \in DOMAIN obs[p] : g.quotes[i] =
                  [sweep |-> sweep[p], captured_at |-> capturedAt[p], quote |-> obs[p][k]]
        /\ \A i \in DOMAIN db.quotes : i \in DOMAIN g.quotes /\ g.quotes[i] = db.quotes[i]
        /\ \A k \in DOMAIN obs[p] : \E i \in DOMAIN g.quotes : g.quotes[i].quote = obs[p][k]
    BY <1>1, PersistedRows
  <1>3. g.books = db.books /\ g.system = db.system
    BY <1>1, PersistedTyped
  <1>4. \A m \in Market :
          \/ /\ g.markets[m] = db.markets[m] /\ \A j \in DOMAIN obs[p] : obs[p][j].market # m
          \/ /\ g.markets[m] # NoRow
             /\ \E k \in DOMAIN obs[p] : g.markets[m] = obs[p][k] /\ obs[p][k].market = m
    BY <1>1, PersistedMarkets
  <1> HIDE DEF g
  <1>5. Stamped(g)
    <2>1. capturedAt[p] <= clock /\ \A k \in DOMAIN obs[p] : obs[p][k].asOf <= capturedAt[p]
      BY <1>1 DEF Gathered
    <2>2. Stamped(db)
      BY DEF FileKept
    <2>3. ASSUME NEW i \in DOMAIN g.quotes
          PROVE  /\ g.quotes[i].quote.asOf <= g.quotes[i].captured_at
                 /\ g.quotes[i].captured_at <= clock
      <3>1. CASE i \in DOMAIN db.quotes /\ g.quotes[i] = db.quotes[i]
        BY <2>2, <3>1 DEF Stamped
      <3>2. CASE \E k \in DOMAIN obs[p] : g.quotes[i] =
                   [sweep |-> sweep[p], captured_at |-> capturedAt[p], quote |-> obs[p][k]]
        BY <2>1, <3>2
      <3> QED BY <1>2, <3>1, <3>2
    <2> QED BY <1>3, <2>2, <2>3 DEF Stamped
  <1>6. OnRecord(g)
    <2>1. \A k \in DOMAIN obs[p] :
            obs[p][k].crossed => Violation(sweep[p], obs[p][k].market) \in db.system
      BY <1>1 DEF Audited
    <2> SUFFICES ASSUME NEW i \in DOMAIN g.quotes, g.quotes[i].quote.crossed
                 PROVE  Violation(g.quotes[i].sweep, g.quotes[i].quote.market) \in g.system
      BY DEF OnRecord
    <2>2. CASE i \in DOMAIN db.quotes /\ g.quotes[i] = db.quotes[i]
      BY <1>3, <2>2 DEF FileKept, OnRecord
    <2>3. CASE \E k \in DOMAIN obs[p] : g.quotes[i] =
                 [sweep |-> sweep[p], captured_at |-> capturedAt[p], quote |-> obs[p][k]]
      BY <1>3, <2>1, <2>3
    <2> QED BY <1>2, <2>2, <2>3
  <1>7. Listed(g)
    <2>1. ASSUME NEW i \in DOMAIN g.quotes PROVE g.markets[g.quotes[i].quote.market] # NoRow
      <3>1. CASE i \in DOMAIN db.quotes /\ g.quotes[i] = db.quotes[i]
        <4>1. db.quotes[i].quote.market \in Market
          <5>1. db.quotes \in Seq(QuoteRow)
            BY DEF TypeInv, FileTyped, File
          <5>2. db.quotes[i] \in QuoteRow
            BY <3>1, <5>1
          <5> QED BY <5>2 DEF QuoteRow, Observation
        <4>2. db.markets[db.quotes[i].quote.market] # NoRow
          BY <3>1 DEF FileKept, Listed
        <4> QED BY <1>4, <3>1, <4>1, <4>2
      <3>2. CASE \E k \in DOMAIN obs[p] : g.quotes[i] =
                   [sweep |-> sweep[p], captured_at |-> capturedAt[p], quote |-> obs[p][k]]
        <4>1. PICK k \in DOMAIN obs[p] : g.quotes[i].quote = obs[p][k]
          BY <3>2
        <4>2. obs[p][k].market \in Market
          <5>1. obs[p] \in Seq(Observation)
            BY PointsTyped DEF TypeInv, PointTyped
          <5>2. obs[p][k] \in Observation
            BY <5>1
          <5> QED BY <5>2 DEF Observation
        <4> QED BY <1>4, <4>1, <4>2
      <3> QED BY <1>2, <3>1, <3>2
    <2>2. ASSUME NEW m \in Market, g.markets[m] # NoRow
          PROVE  \E i \in DOMAIN g.quotes : g.quotes[i].quote.market = m
      <3>1. CASE g.markets[m] = db.markets[m]
        BY <1>2, <2>2, <3>1 DEF FileKept, Listed
      <3>2. CASE \E k \in DOMAIN obs[p] : obs[p][k].market = m
        BY <1>2, <3>2
      <3> QED BY <1>4, <3>1, <3>2
    <2> QED BY <2>1, <2>2 DEF Listed
  <1> QED BY <1>5, <1>6, <1>7 DEF FileKept, g

LEMMA FileInvStep ==
  ASSUME TypeInv, FileInv, \A p \in Proc : Gathered(p) /\ Audited(p), [Next]_vars
  PROVE  FileInv'
  <1>1. TypeInv' /\ clock <= clock' /\ db \in Files /\ Files \subseteq File
    BY FilesStep, FilesTyped DEF TypeInv
  <1>2. \A f \in Files : FileKept(f)'
    BY <1>1, KeptStays DEF FileInv
  <1>3. FileKept(db) /\ db' \in File
    BY <1>1 DEF FileInv, TypeInv, FileTyped
  <1>4. CASE Files' \subseteq Files
    BY <1>2, <1>4 DEF FileInv
  <1>5. CASE Files' = Files \union {db'} /\ FileKept(db') 
    <2>1. \A f \in File : FileKept(f) => FileKept(f)'
      BY <1>1, KeptStays
    <2>2. \A f \in Files' : f \in File /\ FileKept(f)
      BY <1>1, <1>3, <1>5 DEF FileInv
    <2> QED BY <2>1, <2>2 DEF FileInv
  <1>6. CASE EventAdded
    BY <1>3, <1>5, <1>6, EventKeeps, FilesTyped DEF EventAdded, TypeInv, FileTyped
  <1>7. CASE BookAdded
    <2>1. PICK p \in Proc :
            /\ pc[p] = "booking" /\ obs[p] # <<>>
            /\ db' = [db EXCEPT !.books = @ \union {[sweep |-> sweep[p], captured_at |-> clock,
                        market |-> Head(obs[p]).market, asOf |-> Head(obs[p]).asOf]}]
      BY <1>7 DEF BookAdded
    <2>2. Head(obs[p]).asOf <= clock
      <3>1. obs[p] \in Seq(Observation)
        BY PointsTyped DEF TypeInv, PointTyped
      <3>2. 1 \in DOMAIN obs[p] /\ Head(obs[p]) = obs[p][1]
        BY <2>1, <3>1
      <3> QED BY <3>2 DEF Gathered
    <2>3. FileKept(db')
      BY <1>1, <1>3, <2>1, <2>2, BookKeeps
    <2> QED BY <1>5, <1>7, <2>3 DEF BookAdded
  <1>8. CASE \E p \in Proc : SweepAdded(p)
    <2>1. PICK p \in Proc : SweepAdded(p)
      BY <1>8
    <2>2. FileKept(db')
      BY <1>3, <2>1, SweepKeeps DEF SweepAdded
    <2> QED BY <1>5, <2>1, <2>2 DEF SweepAdded
  <1>9. CASE PowerLoss /\ db' \in Files /\ Files' = {db'}
    BY <1>4, <1>9
  <1> QED BY <1>4, <1>6, <1>7, <1>8, <1>9, FilesStep

--------------------------------------------------------------------------------
(* The rows that are there stay there *)

LEMMA PrefixOf ==
  ASSUME NEW S, NEW q \in Seq(S), NEW r \in Seq(S),
         Len(q) <= Len(r), SubSeq(r, 1, Len(q)) = q
  PROVE  IsPrefix(q, r)
  <1>1. SubSeq(q, 1, Len(q)) = q
    BY SubSeqFull
  <1> QED BY <1>1 DEF IsPrefix

\* No step but a power failure takes a row out of the file.
LEMMA RowsStay ==
  ASSUME TypeInv, [Next]_vars, ~PowerLoss
  PROVE  /\ Len(db.quotes) <= Len(db'.quotes)
         /\ SubSeq(db'.quotes, 1, Len(db.quotes)) = db.quotes
         /\ db.books \subseteq db'.books /\ db.system \subseteq db'.system
         /\ \A i \in DOMAIN db.quotes : i \in DOMAIN db'.quotes /\ db'.quotes[i] = db.quotes[i]
  <1>1. db \in File /\ db.quotes \in Seq(QuoteRow) /\ Len(db.quotes) \in Nat
    BY DEF TypeInv, FileTyped, File
  <1>2. SubSeq(db.quotes, 1, Len(db.quotes)) = db.quotes
    BY <1>1, SubSeqFull
  <1>3. CASE db'.quotes = db.quotes /\ db.books \subseteq db'.books /\ db.system \subseteq db'.system
    BY <1>1, <1>2, <1>3
  <1>4. CASE db' = db
    BY <1>3, <1>4
  <1>5. CASE EventAdded \/ BookAdded
    <2>1. db'.quotes = db.quotes /\ db.books \subseteq db'.books /\ db.system \subseteq db'.system
      BY <1>1, <1>5 DEF EventAdded, BookAdded, File
    <2> QED BY <1>3, <2>1
  <1>6. ASSUME NEW p \in Proc, SweepAdded(p)
        PROVE  /\ Len(db.quotes) <= Len(db'.quotes)
               /\ SubSeq(db'.quotes, 1, Len(db.quotes)) = db.quotes
               /\ db.books \subseteq db'.books /\ db.system \subseteq db'.system
               /\ \A i \in DOMAIN db.quotes : i \in DOMAIN db'.quotes /\ db'.quotes[i] = db.quotes[i]
    <2>1. pc[p] = "writing" /\ done[p] = Len(obs[p]) /\ db' = Persisted(p)
      BY <1>6 DEF SweepAdded
    <2>2. Persisted(p).books = db.books /\ Persisted(p).system = db.system
      BY <2>1, PersistedTyped
    <2> QED BY <2>1, <2>2, PersistedRows
  <1> QED BY <1>4, <1>5, <1>6, FilesStep

\* Observations are only ever added, after those that are there, except by a power
\* loss: record_quote(), record_orderbook() and record_system_event() insert, and
\* nothing in the store deletes (storage.py:253-313).
THEOREM RowsAreAppended == Spec => AppendOnly
  <1>1. TypeInv /\ [Next]_vars =>
          [PowerLoss \/ (/\ IsPrefix(db.quotes, db'.quotes)
                         /\ db.books \subseteq db'.books
                         /\ db.system \subseteq db'.system)]_vars
    <2> SUFFICES ASSUME TypeInv, [Next]_vars, ~PowerLoss
                 PROVE  /\ IsPrefix(db.quotes, db'.quotes)
                        /\ db.books \subseteq db'.books
                        /\ db.system \subseteq db'.system
      OBVIOUS
    <2>1. db.quotes \in Seq(QuoteRow) /\ db'.quotes \in Seq(QuoteRow)
      BY StepTyped DEF TypeInv, FileTyped, File
    <2>2. IsPrefix(db.quotes, db'.quotes)
      BY <2>1, RowsStay, PrefixOf
    <2> QED BY <2>2, RowsStay
  <1> QED BY <1>1, TypesHold, PTL DEF Spec, AppendOnly

--------------------------------------------------------------------------------
(* Who moves *)

\* p takes a step ...
Moves(p) == CheckShards(p) \/ StartBooks(p) \/ StartCounts(p) \/ Step(p) \/ Abort(p)

\* ... or stays where it is ...
Stays(p) ==
    /\ pc'[p] = pc[p] /\ sweep'[p] = sweep[p] /\ inactive'[p] = inactive[p] /\ page'[p] = page[p]
    /\ obs'[p] = obs[p] /\ done'[p] = done[p] /\ wanted'[p] = wanted[p]
    /\ capturedAt'[p] = capturedAt[p] /\ tally'[p] = tally[p]

\* ... or dies with all the others.
LEMMA WhoMoves ==
  ASSUME TypeInv, [Next]_vars, NEW p \in Proc
  PROVE  Moves(p) \/ Stays(p) \/ (PowerLoss /\ AtRest(p)')
  <1>1. ASSUME NEW q \in Proc, q # p, OnlyMoves(q) PROVE Stays(p)
    BY <1>1 DEF OnlyMoves, Stays, TypeInv, RunTyped
  <1>2. ASSUME NEW q \in Proc, q # p, Moves(q) PROVE Stays(p)
    <2>1. OnlyMoves(q)
      BY <1>2, CheckShardsTyped, FetchPageTyped, AuditTyped, BeginTransactionTyped, WriteTyped,
         CommitStepTyped, FinishTyped, StartBooksTyped, FetchBookTyped, RecordBookTyped,
         CountTyped, ReportTyped, AbortTyped
      DEF Moves, Step
    <2> QED BY <1>1, <1>2, <2>1
  <1>3. CASE Checkpoint \/ Tick \/ UNCHANGED vars
    BY <1>3 DEF Checkpoint, Tick, vars, runVars, Stays
  <1>4. CASE PowerLoss
    BY <1>4, PowerLossTyped
  <1>5. CASE \E q \in Proc : Moves(q)
    BY <1>2, <1>5
  <1> QED BY <1>3, <1>4, <1>5, ReaderAssumption DEF Next, Moves

--------------------------------------------------------------------------------
(* What counts() reports *)

\* A file has a quote for each market that it has a row of.
LEMMA KnownAreQuoted ==
  ASSUME TypeInv, FileKept(db)
  PROVE  Rows("markets") <= Len(db.quotes)
  <1> DEFINE known == {m \in Market : db.markets[m] # NoRow}
             q == db.quotes
             rows == {i \in 1..Len(q) : q[i].quote.market \in known}
             f == [i \in rows |-> q[i].quote.market]
  <1>1. DOMAIN q = 1..Len(q) /\ Len(q) \in Nat
    BY DEF TypeInv, FileTyped, File
  <1>2. \A m \in known : \E i \in rows : q[i].quote.market = m
    BY <1>1 DEF FileKept, Listed
  <1>3. f \in Surjection(rows, known)
    <2>1. f \in [rows -> known]
      OBVIOUS
    <2>2. \A m \in known : \E i \in rows : f[i] = m
      BY <1>2
    <2> HIDE DEF f, rows, known
    <2> QED BY <2>1, <2>2 DEF Surjection
  <1>4. IsFiniteSet(1..Len(q)) /\ Cardinality(1..Len(q)) = Len(q)
    <2> HIDE DEF q
    <2>1. 1 \in Int /\ Len(q) \in Int
      BY <1>1
    <2>2. /\ IsFiniteSet(1..Len(q))
          /\ Cardinality(1..Len(q)) = IF 1 > Len(q) THEN 0 ELSE Len(q) - 1 + 1
      BY <2>1, FS_Interval
    <2>3. ~(1 > Len(q)) \/ Len(q) = 0
      BY <1>1
    <2> QED BY <1>1, <2>2, <2>3
  <1>5. IsFiniteSet(rows) /\ Cardinality(rows) <= Len(q) /\ Cardinality(rows) \in Nat
    <2>1. rows \subseteq 1..Len(q)
      OBVIOUS
    <2> HIDE DEF rows
    <2> QED BY <1>4, <2>1, FS_Subset, FS_CardinalityType
  <1>6. IsFiniteSet(known) /\ Cardinality(known) <= Cardinality(rows) /\ Cardinality(known) \in Nat
    <2> HIDE DEF f, rows, known
    <2> QED BY <1>3, <1>5, FS_Surjection, FS_CardinalityType
  <1>7. Rows("markets") = Cardinality(known)
    BY DEF Rows
  <1> HIDE DEF known, rows, q, f
  <1>8. Rows("markets") <= Len(q)
    BY <1>1, <1>5, <1>6, <1>7
  <1> QED BY <1>8 DEF q

LEMMA CountInvStep ==
  ASSUME TypeInv, FileInv, CountInv, [Next]_vars
  PROVE  CountInv'
  <1>1. FileKept(db) /\ TypeInv' /\ RunTyped
    BY FilesTyped, StepTyped DEF TypeInv, FileInv
  <1> SUFFICES ASSUME NEW p \in Proc
               PROVE  /\ pc'[p] = "counting" => tally'[p].markets <= Len(db'.quotes)
                      /\ pc'[p] = "reporting" => tally'[p].markets <= tally'[p].quotes
    BY DEF CountInv
  <1>2. CASE PowerLoss
    BY <1>2, PowerLossTyped DEF AtRest
  <1>3. CASE Stays(p) /\ ~PowerLoss
    <2>1. tally[p].markets \in Int
      BY <1>1 DEF RunTyped, Tally
    <2>2. Len(db.quotes) \in Int /\ Len(db'.quotes) \in Int
      BY <1>1 DEF TypeInv, FileTyped, File
    <2>3. Len(db.quotes) <= Len(db'.quotes)
      BY <1>3, RowsStay
    <2> QED BY <1>3, <2>1, <2>2, <2>3 DEF Stays, CountInv
  <1>4. CASE StartCounts(p)
    <2>1. /\ pc' = [pc EXCEPT ![p] = "counting"] /\ db' = db
          /\ tally' = [tally EXCEPT ![p].markets = Rows("markets")]
      BY <1>4 DEF StartCounts, CountTable, Tables, fileVars
    <2>2. pc'[p] = "counting" /\ tally'[p].markets = Rows("markets")
      BY <1>1, <2>1 DEF RunTyped, Tally
    <2> QED BY <1>1, <2>1, <2>2, KnownAreQuoted
  <1>5. CASE EndCounts(p)
    <2>1. /\ pc[p] = "counting" /\ pc' = [pc EXCEPT ![p] = "reporting"]
          /\ tally' = [tally EXCEPT ![p].quotes = Len(db.quotes)]
      BY <1>5 DEF EndCounts, CountTable, Tables, Rows
    <2>2. /\ pc'[p] = "reporting" /\ tally'[p].quotes = Len(db.quotes)
          /\ tally'[p].markets = tally[p].markets
      BY <1>1, <2>1 DEF RunTyped, Tally
    <2> QED BY <2>1, <2>2 DEF CountInv
  <1>6. CASE Moves(p) /\ ~StartCounts(p) /\ ~EndCounts(p)
    <2>1. pc'[p] \notin {"counting", "reporting"}
      <3>1. CASE Report(p) \/ Abort(p) \/ Finish(p)
        BY <1>1, <3>1 DEF Report, Abort, Finish, Rest, RunTyped
      <3>2. CASE RecordBook(p)
        BY <1>1, <3>2 DEF RecordBook, Rest, RunTyped
      <3>3. CASE CheckShards(p) \/ StartBooks(p)
        BY <1>1, <3>3 DEF CheckShards, StartBooks, RunTyped
      <3>4. CASE FetchPage(p)
        BY <1>1, <3>4 DEF FetchPage, RunTyped
      <3>5. CASE BeginTransaction(p) \/ Commit(p)
        BY <1>1, <3>5 DEF BeginTransaction, Commit, RunTyped
      <3>6. CASE Audit(p) \/ Write(p) \/ FetchBook(p)
        BY <1>1, <3>6 DEF Audit, Write, FetchBook
      <3> QED BY <1>6, <3>1, <3>2, <3>3, <3>4, <3>5, <3>6 DEF Moves, Step
    <2> QED BY <2>1
  <1> QED BY <1>2, <1>3, <1>4, <1>5, <1>6, WhoMoves DEF Moves, Step

--------------------------------------------------------------------------------
(* Slices and vouchers, from step to step *)

\* Only the COMMIT of a sweep changes its slice.
LEMMA SliceStep ==
  ASSUME TypeInv, [Next]_vars, ~PowerLoss, NEW s,
         \A p \in Proc : sweep[p] = s => ~Commit(p)
  PROVE  Slice(db', s) = Slice(db, s)
  <1>1. db \in File
    BY DEF TypeInv, FileTyped
  <1>2. CASE db'.quotes = db.quotes
    <2>1. RowsOf(db', s) = RowsOf(db, s)
      BY <1>2 DEF RowsOf
    <2> QED BY <1>2, <2>1 DEF Slice
  <1>3. CASE db' = db \/ EventAdded \/ BookAdded
    BY <1>1, <1>2, <1>3 DEF EventAdded, BookAdded, File
  <1>4. ASSUME NEW p \in Proc, SweepAdded(p) PROVE Slice(db', s) = Slice(db, s)
    <2>1. pc[p] = "writing" /\ done[p] = Len(obs[p]) /\ Commit(p) /\ db' = Persisted(p)
      BY <1>4 DEF SweepAdded
    <2>2. /\ NewQuotes(p) \in Seq(QuoteRow) /\ db'.quotes = db.quotes \o NewQuotes(p)
          /\ NewQuotes(p) = [i \in DOMAIN obs[p] |->
                [sweep |-> sweep[p], captured_at |-> capturedAt[p], quote |-> obs[p][i]]]
      BY <2>1, PersistedTyped
    <2>3. \A i \in DOMAIN NewQuotes(p) : NewQuotes(p)[i].sweep = sweep[p]
      BY <2>2
    <2>4. db.quotes \in Seq(QuoteRow) /\ s # sweep[p]
      BY <1>1, <2>1 DEF File
    <2>5. NewQuotes(p) \in Seq(QuoteRow) /\ db'.quotes = db.quotes \o NewQuotes(p)
      BY <2>2
    <2>6. Extended(db, db', NewQuotes(p), sweep[p])
      BY <2>3, <2>5, Zenon DEF Extended
    <2> QED BY <2>4, <2>5, <2>6, SliceOfMore
  <1> QED BY <1>3, <1>4, FilesStep

\* The COMMIT of a sweep that has no row in the file yet makes it a slice.
LEMMA SliceOfCommit ==
  ASSUME TypeInv, NEW p \in Proc, Commit(p), Slice(db, sweep[p]) = <<>>
  PROVE  /\ db' = Persisted(p)
         /\ Slice(db', sweep[p]) = [i \in DOMAIN obs[p] |->
              [sweep |-> sweep[p], captured_at |-> capturedAt[p], quote |-> obs[p][i]]]
         /\ Len(Slice(db', sweep[p])) = Len(obs[p])
  <1>1. pc[p] = "writing" /\ done[p] = Len(obs[p]) /\ db' = Persisted(p)
    BY DEF Commit, CommitTo
  <1>2. /\ NewQuotes(p) \in Seq(QuoteRow) /\ db'.quotes = db.quotes \o NewQuotes(p)
        /\ DOMAIN NewQuotes(p) = DOMAIN obs[p]
        /\ NewQuotes(p) = [i \in DOMAIN obs[p] |->
              [sweep |-> sweep[p], captured_at |-> capturedAt[p], quote |-> obs[p][i]]]
    BY <1>1, PersistedTyped
  <1>3. \A i \in DOMAIN NewQuotes(p) : NewQuotes(p)[i].sweep = sweep[p]
    BY <1>2
  <1>4. db.quotes \in Seq(QuoteRow)
    BY DEF TypeInv, FileTyped, File
  <1>5. Slice(db', sweep[p]) = NewQuotes(p)
    <2>1. NewQuotes(p) \in Seq(QuoteRow) /\ db'.quotes = db.quotes \o NewQuotes(p)
      BY <1>2
    <2>2. Extended(db, db', NewQuotes(p), sweep[p])
      BY <1>3, <2>1, Zenon DEF Extended
    <2> QED BY <1>4, <2>1, <2>2, SliceOfMore
  <1>6. Len(NewQuotes(p)) = Len(obs[p])
    <2>1. obs[p] \in Seq(Observation)
      BY PointsTyped DEF TypeInv, PointTyped
    <2>2. DOMAIN obs[p] = 1..Len(obs[p]) /\ Len(obs[p]) \in Nat
      BY <2>1
    <2>3. DOMAIN NewQuotes(p) = 1..Len(NewQuotes(p)) /\ Len(NewQuotes(p)) \in Nat
      BY <1>2
    <2> QED BY <1>2, <2>2, <2>3
  <1> QED BY <1>1, <1>2, <1>5, <1>6, Zenon

\* Only the end of a sweep vouches for it.
LEMMA VouchedStep ==
  ASSUME TypeInv, [Next]_vars, ~PowerLoss, NEW s,
         \A p \in Proc : sweep[p] = s => ~Finish(p)
  PROVE  s \in Vouched(db') => s \in Vouched(db)
  <1>1. db \in File
    BY DEF TypeInv, FileTyped
  <1>2. CASE db'.system = db.system
    BY <1>2 DEF Vouched
  <1>3. CASE db' = db \/ BookAdded
    BY <1>1, <1>2, <1>3 DEF BookAdded, File
  <1>4. ASSUME NEW p \in Proc, SweepAdded(p) PROVE s \in Vouched(db') => s \in Vouched(db)
    BY <1>2, <1>4, PersistedTyped DEF SweepAdded
  <1>5. CASE EventAdded
    <2>1. PICK e \in Event :
            /\ db' = [db EXCEPT !.system = @ \union {e}]
            /\ e.kind = "sweep_complete" => \E p \in Proc : Finish(p) /\ e.sweep = sweep[p]
      BY <1>5 DEF EventAdded
    <2>2. db'.system = db.system \union {e}
      BY <1>1, <2>1 DEF File
    <2> QED BY <2>1, <2>2 DEF Vouched
  <1> QED BY <1>3, <1>4, <1>5, FilesStep

LEMMA UntouchedStep ==
  ASSUME TypeInv, [Next]_vars, NEW s, \A f \in Files : Untouched(f, s),
         \A p \in Proc : sweep[p] = s => ~Commit(p) /\ ~Finish(p)
  PROVE  \A f \in Files' : Untouched(f, s)
  <1>1. db \in Files
    BY FilesTyped DEF TypeInv
  <1>2. CASE Files' \subseteq Files
    BY <1>2
  <1>3. CASE Files' = Files \union {db'} /\ ~PowerLoss
    BY <1>1, <1>3, SliceStep, VouchedStep DEF Untouched
  <1>4. PowerLoss => Files' \subseteq Files
    BY PowerLossTyped
  <1> QED BY <1>2, <1>3, <1>4, FilesStep DEF EventAdded, BookAdded, SweepAdded

\* What a sweep has seen grows by the pages of its own capture.
LEMMA SeenStep ==
  ASSUME TypeInv, [Next]_vars, NEW s \in Sweep,
         \A p \in Proc : sweep[p] = s => ~FetchPage(p)
  PROVE  seen'[s] = seen[s]
  <1>1. ASSUME NEW p \in Proc, FetchPage(p) PROVE seen'[s] = seen[s]
    <2>1. page[p] + 1 \in 1..Len(Pages)
      <3>1. page[p] \in 0..Len(Pages) /\ page[p] < Len(Pages)
        BY <1>1, PointsTyped DEF TypeInv, PointTyped, InHand, FetchPage
      <3> QED BY <3>1, PagesTyped
    <2>2. PICK got \in Seq(Observation) : seen' = [seen EXCEPT ![sweep[p]] = @ \o got]
      BY <1>1, <2>1, FetchGets
    <2> QED BY <1>1, <2>2 DEF TypeInv, CountsTyped
  <1>2. ASSUME NEW p \in Proc, Step(p), ~FetchPage(p) PROVE seen' = seen
    BY <1>2 DEF Step, Audit, BeginTransaction, Write, Commit, Finish, FetchBook, RecordBook,
                EndCounts, CountTable, Report
  <1>3. ASSUME NEW p \in Proc, CheckShards(p) \/ StartBooks(p) \/ StartCounts(p) \/ Abort(p)
        PROVE seen' = seen
    BY <1>3 DEF CheckShards, StartBooks, StartCounts, CountTable, Abort
  <1>4. CASE Checkpoint \/ PowerLoss \/ Tick \/ UNCHANGED vars
    BY <1>4 DEF Checkpoint, PowerLoss, Tick, vars
  <1> QED BY <1>1, <1>2, <1>3, <1>4, ReaderAssumption DEF Next

--------------------------------------------------------------------------------
(* What a step of p does to p *)

Starts(p) ==
    /\ pc[p] = "idle" /\ pc'[p] = "fetching" /\ obs'[p] = <<>>
    /\ sweeps < MaxSweeps /\ sweep'[p] = sweeps + 1 /\ sweeps' = sweeps + 1

\* It does something else than capture events.
IsElsewhere(p) ==
    /\ (pc[p] \notin Gathering /\ pc'[p] \notin Capturing) \/ AtRest(p)'
    /\ \A i \in DOMAIN obs'[p] : obs'[p][i].asOf = clock

Gets(p) ==
    /\ FetchPage(p) /\ pc[p] = "fetching" /\ pc'[p] \in {"fetching", "auditing"}
    /\ sweep'[p] = sweep[p] /\ done'[p] = 0
    /\ \E got \in Seq(Observation) :
         /\ obs'[p] = obs[p] \o got /\ seen'[sweep[p]] = seen[sweep[p]] \o got
         /\ \A k \in DOMAIN got : got[k].asOf = clock

\* It goes on with what it has in hand.
Holds(p) == sweep'[p] = sweep[p] /\ obs'[p] = obs[p]
Audits(p) ==
    /\ pc[p] = "auditing" /\ pc'[p] = "auditing" /\ Holds(p)
    /\ done[p] < Len(obs[p]) /\ done'[p] = done[p] + 1
    /\ LET o == obs[p][done[p] + 1] IN
         o.crossed => Violation(sweep[p], o.market) \in db'.system
Opens(p) ==
    /\ pc[p] = "auditing" /\ pc'[p] = "writing" /\ Holds(p)
    /\ done[p] = Len(obs[p]) /\ capturedAt'[p] = clock
Writes(p) ==
    /\ pc[p] = "writing" /\ pc'[p] = "writing" /\ Holds(p) /\ capturedAt'[p] = capturedAt[p]
Commits(p) == Commit(p) /\ pc[p] = "writing" /\ pc'[p] = "finishing" /\ Holds(p)

LEMMA LocalSteps ==
  ASSUME TypeInv, NEW p \in Proc, Moves(p)
  PROVE  /\ clock' = clock
         /\ \/ Starts(p) \/ IsElsewhere(p) \/ Gets(p) \/ Audits(p) \/ Opens(p) \/ Writes(p)
            \/ Commits(p)
  <1>1. RunTyped /\ PointTyped(p) /\ InHand(p)
    BY PointsTyped DEF TypeInv
  <1>2. CASE CheckShards(p)
    <2>1. /\ pc[p] = "idle" /\ sweeps < MaxSweeps /\ sweeps' = sweeps + 1
          /\ sweep' = [sweep EXCEPT ![p] = sweeps + 1] /\ pc' = [pc EXCEPT ![p] = "fetching"]
          /\ UNCHANGED <<clock, obs>>
      BY <1>2 DEF CheckShards, Begin
    <2>2. obs[p] = <<>>
      BY <1>1, <2>1 DEF InHand, Resting
    <2> QED BY <1>1, <2>1, <2>2 DEF RunTyped, Starts
  <1>3. CASE StartBooks(p)
    <2>1. /\ pc[p] = "idle" /\ pc' = [pc EXCEPT ![p] = "booking"] /\ UNCHANGED <<clock, obs>>
      BY <1>3 DEF StartBooks, Begin
    <2>2. obs'[p] = <<>> /\ pc'[p] = "booking"
      BY <1>1, <2>1 DEF InHand, Resting, RunTyped
    <2> QED BY <2>1, <2>2 DEF IsElsewhere, Gathering, Capturing
  <1>4. CASE StartCounts(p) \/ EndCounts(p)
    <2>1. /\ pc[p] \in {"idle", "counting"} /\ pc'[p] \in {"counting", "reporting"}
          /\ UNCHANGED <<clock, obs>>
      BY <1>1, <1>4 DEF StartCounts, EndCounts, CountTable, RunTyped
    <2>2. obs'[p] = <<>>
      BY <1>1, <2>1 DEF InHand, Resting
    <2> QED BY <2>1, <2>2 DEF IsElsewhere, Gathering, Capturing
  <1>5. CASE Report(p) \/ Abort(p) \/ Finish(p)
    <2>1. Rest(p) /\ clock' = clock
      BY <1>5 DEF Report, Abort, Finish
    <2>2. AtRest(p)'
      BY <1>1, <2>1, RestIsTyped
    <2>3. obs'[p] = <<>>
      BY <2>2 DEF AtRest
    <2> QED BY <2>1, <2>2, <2>3 DEF IsElsewhere
  <1>6. CASE FetchPage(p)
    <2>1. /\ pc[p] = "fetching" /\ pc'[p] \in {"fetching", "auditing"}
          /\ UNCHANGED <<clock, sweep, done>>
      BY <1>1, <1>6 DEF FetchPage, RunTyped
    <2>2. page[p] + 1 \in 1..Len(Pages)
      <3>1. page[p] \in 0..Len(Pages) /\ page[p] < Len(Pages)
        BY <1>1, <2>1 DEF PointTyped, InHand
      <3> QED BY <3>1, PagesTyped
    <2>3. PICK got \in Seq(Observation) :
            /\ obs' = [obs EXCEPT ![p] = @ \o got]
            /\ seen' = [seen EXCEPT ![sweep[p]] = @ \o got]
            /\ \A k \in DOMAIN got : got[k].asOf = clock
      BY <1>6, <2>2, FetchGets
    <2>4. sweep[p] \in Sweep
      BY <2>1, SweepTyped DEF Resting
    <2>5. obs'[p] = obs[p] \o got /\ seen'[sweep[p]] = seen[sweep[p]] \o got
      BY <1>1, <2>3, <2>4 DEF RunTyped, TypeInv, CountsTyped
    <2>6. done'[p] = 0 /\ sweep'[p] = sweep[p]
      BY <1>1, <2>1 DEF InHand
    <2> QED BY <1>6, <2>1, <2>3, <2>5, <2>6 DEF Gets
  <1>7. CASE Audit(p)
    <2>1. /\ pc[p] = "auditing" /\ done[p] < Len(obs[p]) /\ done' = [done EXCEPT ![p] = @ + 1]
          /\ UNCHANGED <<clock, pc, sweep, obs>>
      BY <1>7 DEF Audit
    <2>2. obs[p][done[p] + 1].crossed =>
            Violation(sweep[p], obs[p][done[p] + 1].market) \in db'.system
      <3>1. db \in File
        BY DEF TypeInv, FileTyped
      <3> QED BY <1>7, <3>1 DEF Audit, RecordSystemEvent, Autocommit, CommitTo, File
    <2> QED BY <1>1, <2>1, <2>2 DEF Audits, Holds, RunTyped
  <1>8. CASE BeginTransaction(p)
    BY <1>1, <1>8 DEF BeginTransaction, TimeOfSweep, Opens, Holds, RunTyped
  <1>9. CASE Write(p)
    BY <1>1, <1>9 DEF Write, Writes, Holds
  <1>10. CASE Commit(p)
    BY <1>1, <1>10 DEF Commit, Commits, Holds, RunTyped, runVars
  <1>11. CASE FetchBook(p)
    <2>1. pc[p] = "booking" /\ UNCHANGED <<clock, pc>>
      BY <1>11 DEF FetchBook
    <2>2. PICK m \in wanted[p] :
            obs' = [obs EXCEPT ![p] =
                      <<[market |-> m, asOf |-> clock, crossed |-> FALSE, active |-> TRUE]>>]
      BY <1>11 DEF FetchBook
    <2>3. obs'[p] = <<[market |-> m, asOf |-> clock, crossed |-> FALSE, active |-> TRUE]>>
      BY <1>1, <2>2 DEF RunTyped
    <2>4. \A i \in DOMAIN obs'[p] : obs'[p][i].asOf = clock
      BY <2>3
    <2> QED BY <2>1, <2>4 DEF IsElsewhere, Gathering, Capturing
  <1>12. CASE RecordBook(p)
    <2>1. pc[p] = "booking" /\ clock' = clock
      BY <1>12 DEF RecordBook
    <2>2. CASE Rest(p)
      <3>1. AtRest(p)'
        BY <1>1, <2>2, RestIsTyped
      <3>2. obs'[p] = <<>>
        BY <3>1 DEF AtRest
      <3> QED BY <2>1, <3>1, <3>2 DEF IsElsewhere
    <2>3. CASE obs' = [obs EXCEPT ![p] = <<>>] /\ UNCHANGED pc
      <3>1. obs'[p] = <<>>
        BY <1>1, <2>3 DEF RunTyped
      <3> QED BY <2>1, <2>3, <3>1 DEF IsElsewhere, Gathering, Capturing
    <2> QED BY <1>12, <2>2, <2>3 DEF RecordBook
  <1> QED BY <1>2, <1>3, <1>4, <1>5, <1>6, <1>7, <1>8, <1>9, <1>10, <1>11, <1>12 DEF Moves, Step

--------------------------------------------------------------------------------
(* The captures *)

\* A process starts a capture, or none does.
LEMMA BeginOrNot ==
  ASSUME TypeInv, [Next]_vars
  PROVE  \/ \E p \in Proc : Begin(p)
         \/ /\ sweeps' = sweeps /\ overlapped' = overlapped
            /\ \A q \in Proc : sweep'[q] \in {sweep[q], 0}
  <1> DEFINE None == /\ sweeps' = sweeps /\ overlapped' = overlapped
                     /\ \A q \in Proc : sweep'[q] \in {sweep[q], 0}
  <1>1. RunTyped
    BY DEF TypeInv
  <1>2. ASSUME sweep' = sweep, sweeps' = sweeps, overlapped' = overlapped PROVE None
    BY <1>2
  <1>3. ASSUME NEW p \in Proc, Rest(p), sweeps' = sweeps, overlapped' = overlapped PROVE None
    BY <1>1, <1>3 DEF Rest, RunTyped
  <1>4. ASSUME NEW p \in Proc, CheckShards(p) \/ StartBooks(p) PROVE Begin(p)
    BY <1>4 DEF CheckShards, StartBooks
  <1>5. ASSUME NEW p \in Proc, Report(p) \/ Abort(p) \/ Finish(p) PROVE None
    BY <1>3, <1>5 DEF Report, Abort, Finish
  <1>6. ASSUME NEW p \in Proc, RecordBook(p) PROVE None
    BY <1>2, <1>3, <1>6 DEF RecordBook
  <1>7. ASSUME NEW p \in Proc, FetchPage(p) \/ Audit(p) \/ BeginTransaction(p) \/ Write(p)
                               \/ Commit(p) \/ FetchBook(p) \/ EndCounts(p) \/ StartCounts(p)
        PROVE  None
    BY <1>2, <1>7 DEF FetchPage, Audit, BeginTransaction, Write, Commit, runVars, FetchBook,
                      EndCounts, StartCounts, CountTable
  <1>8. ASSUME Checkpoint \/ Tick \/ UNCHANGED vars PROVE None
    BY <1>2, <1>8 DEF Checkpoint, Tick, vars, runVars
  <1>9. ASSUME PowerLoss PROVE None
    BY <1>1, <1>9 DEF PowerLoss
  <1> HIDE DEF None
  <1>10. None \/ \E p \in Proc : Begin(p)
    BY <1>4, <1>5, <1>6, <1>7, <1>8, <1>9, ReaderAssumption DEF Next, Step
  <1> QED BY <1>10 DEF None

\* A process that starts a capture is given the next number; no other changes.
LEMMA NumberStep ==
  ASSUME TypeInv, [Next]_vars
  PROVE  /\ sweeps <= sweeps'
         /\ \A p \in Proc : \/ sweep'[p] \in {sweep[p], 0}
                            \/ /\ sweep'[p] = sweeps + 1 /\ sweeps' = sweeps + 1
                               /\ \A q \in Proc \ {p} : sweep'[q] = sweep[q]
  <1>1. RunTyped /\ sweeps \in Nat
    BY DEF TypeInv, CountsTyped
  <1>2. ASSUME NEW p \in Proc, Begin(p)
        PROVE  /\ sweep'[p] = sweeps + 1 /\ sweeps' = sweeps + 1
               /\ \A q \in Proc \ {p} : sweep'[q] = sweep[q]
    BY <1>1, <1>2 DEF Begin, RunTyped
  <1> QED BY <1>1, <1>2, BeginOrNot

LEMMA NumberedStep ==
  ASSUME TypeInv, Numbered, [Next]_vars
  PROVE  Numbered'
  <1>1. /\ sweeps <= sweeps' /\ sweeps \in Nat /\ sweeps' \in Nat
        /\ \A p \in Proc : sweep[p] <= sweeps /\ sweep[p] \in Nat
    <2>1. /\ sweeps \in 0..MaxSweeps /\ sweeps' \in 0..MaxSweeps
          /\ sweep \in [Proc -> 0..MaxSweeps] /\ \A p \in Proc : sweep[p] <= sweeps
      BY StepTyped DEF TypeInv, CountsTyped, InHand, RunTyped
    <2>2. sweeps <= sweeps'
      BY NumberStep
    <2> QED BY <2>1, <2>2
  <1>2. ASSUME NEW p \in Proc, NEW q \in Proc, sweep'[p] # 0, sweep'[p] = sweep'[q]
        PROVE  p = q
    <2>1. CASE sweep'[p] = sweep[p] /\ sweep'[q] = sweep[q]
      BY <1>2, <2>1 DEF Numbered
    <2>2. CASE sweep'[p] = sweeps + 1 /\ \A r \in Proc \ {p} : sweep'[r] = sweep[r]
      <3>1. q # p => sweep'[q] <= sweeps
        BY <1>1, <2>2
      <3> QED BY <1>1, <1>2, <2>2, <3>1
    <2>3. CASE sweep'[q] = sweeps + 1 /\ \A r \in Proc \ {q} : sweep'[r] = sweep[r]
      <3>1. q # p => sweep'[p] <= sweeps
        BY <1>1, <2>3
      <3> QED BY <1>1, <1>2, <2>3, <3>1
    <2> QED BY <1>2, <2>1, <2>2, <2>3, NumberStep
  <1>3. ASSUME NEW s \in Sweep, s > sweeps'
        PROVE  seen'[s] = <<>> /\ \A f \in Files' : Untouched(f, s)
    <2>1. s > sweeps /\ \A p \in Proc : sweep[p] # s
      BY <1>1, <1>3 DEF Sweep
    <2>2. seen[s] = <<>> /\ \A f \in Files : Untouched(f, s)
      BY <2>1 DEF Numbered
    <2>3. seen'[s] = <<>>
      BY <2>1, <2>2, SeenStep
    <2>4. \A f \in Files' : Untouched(f, s)
      BY <2>1, <2>2, UntouchedStep
    <2> QED BY <2>3, <2>4
  <1> QED BY <1>2, <1>3 DEF Numbered, Untouched, Vouched

\* The next number is nobody's yet.
LEMMA NextIsNew ==
  ASSUME TypeInv, sweeps < MaxSweeps
  PROVE  sweeps + 1 \in Sweep /\ sweeps + 1 > sweeps /\ \A q \in Proc : sweep[q] # sweeps + 1
  <1>1. sweeps \in Nat /\ MaxSweeps \in Nat
    BY BoundsAssumption DEF TypeInv, CountsTyped
  <1>2. \A q \in Proc : sweep[q] <= sweeps /\ sweep[q] \in Nat
    BY DEF TypeInv, InHand, RunTyped
  <1>3. sweeps + 1 \in Sweep
    BY <1>1 DEF Sweep
  <1> QED BY <1>1, <1>2, <1>3

\* A process that has a sweep in hand is the only one.
LEMMA SweepIsMine ==
  ASSUME TypeInv, Numbered, NEW p \in Proc, pc[p] \notin Resting
  PROVE  sweep[p] \in Sweep /\ \A q \in Proc : sweep[q] = sweep[p] => q = p
  <1>1. sweep[p] \in Sweep /\ sweep[p] # 0
    BY SweepTyped DEF Sweep
  <1> QED BY <1>1 DEF Numbered

\* Observations that were made by the time it was.
LEMMA EarlierStays ==
  ASSUME TypeInv, TypeInv', clock <= clock', NEW q \in Seq(Observation),
         \A i \in DOMAIN q : q[i].asOf <= clock
  PROVE  \A i \in DOMAIN q : q[i].asOf <= clock'
  <1> SUFFICES ASSUME NEW i \in DOMAIN q PROVE q[i].asOf <= clock'
    OBVIOUS
  <1>1. q[i] \in Observation
    OBVIOUS
  <1>2. q[i].asOf \in Int /\ q[i].asOf <= clock
    BY <1>1 DEF Observation
  <1>3. clock \in Int /\ clock' \in Int
    BY DEF TypeInv, CountsTyped
  <1> QED BY <1>2, <1>3

\* The next page is seen now, after all that was seen before.
LEMMA LaterAppended ==
  ASSUME TypeInv, NEW q \in Seq(Observation), NEW got \in Seq(Observation),
         \A i \in DOMAIN q : q[i].asOf <= clock,
         \A i, j \in DOMAIN q : i <= j => q[i].asOf <= q[j].asOf,
         \A k \in DOMAIN got : got[k].asOf = clock
  PROVE  /\ \A i \in DOMAIN (q \o got) : (q \o got)[i].asOf <= clock
         /\ \A i, j \in DOMAIN (q \o got) : i <= j => (q \o got)[i].asOf <= (q \o got)[j].asOf
         /\ \A i \in DOMAIN (q \o got) : \/ i \in DOMAIN q /\ (q \o got)[i] = q[i]
                                         \/ (q \o got)[i].asOf = clock
  <1> DEFINE r == q \o got
  <1>1. clock \in Int /\ DOMAIN q = 1..Len(q) /\ Len(q) \in Nat
        /\ DOMAIN got = 1..Len(got) /\ Len(got) \in Nat
    BY DEF TypeInv, CountsTyped
  <1>2. /\ DOMAIN r = 1..Len(q) + Len(got)
        /\ \A i \in 1..Len(q) + Len(got) : r[i] = IF i <= Len(q) THEN q[i] ELSE got[i - Len(q)]
    BY ConcatProperties
  <1> HIDE DEF r
  <1>3. ASSUME NEW i \in DOMAIN r
        PROVE  \/ i \in DOMAIN q /\ r[i] = q[i]
               \/ i > Len(q) /\ r[i].asOf = clock
    <2>1. CASE i <= Len(q)
      BY <1>1, <1>2, <2>1
    <2>2. CASE ~(i <= Len(q))
      <3>1. i - Len(q) \in DOMAIN got /\ r[i] = got[i - Len(q)] /\ i > Len(q)
        BY <1>1, <1>2, <2>2
      <3> QED BY <3>1
    <2> QED BY <2>1, <2>2
  <1>4. \A i \in DOMAIN r : r[i].asOf <= clock
    BY <1>1, <1>3
  <1>5. ASSUME NEW i \in DOMAIN r, NEW j \in DOMAIN r, i <= j PROVE r[i].asOf <= r[j].asOf
    <2>1. i \in Int /\ j \in Int
      BY <1>1, <1>2
    <2>2. CASE j > Len(q) /\ r[j].asOf = clock
      BY <1>4, <2>2
    <2>3. CASE j \in DOMAIN q /\ r[j] = q[j]
      <3>1. i \in DOMAIN q /\ r[i] = q[i]
        BY <1>1, <1>3, <1>5, <2>1, <2>3
      <3> QED BY <1>5, <2>3, <3>1
    <2> QED BY <1>3, <2>2, <2>3
  <1> QED BY <1>3, <1>4, <1>5 DEF r

LEMMA GatheredStep ==
  ASSUME TypeInv, Numbered, NEW p \in Proc, Gathered(p), [Next]_vars
  PROVE  Gathered(p)'
  <1>1. /\ TypeInv' /\ clock <= clock' /\ RunTyped /\ clock \in Int
        /\ obs[p] \in Seq(Observation)
    BY FilesStep, PointsTyped DEF TypeInv, CountsTyped, PointTyped
  <1>2. CASE Stays(p)
    <2>1. pc[p] \in Capturing => seen'[sweep[p]] = seen[sweep[p]]
      <3> SUFFICES ASSUME pc[p] \in Capturing PROVE seen'[sweep[p]] = seen[sweep[p]]
        OBVIOUS
      <3>1. sweep[p] \in Sweep /\ \A q \in Proc : sweep[q] = sweep[p] => q = p
        BY SweepIsMine DEF Capturing, Gathering, Resting
      <3>2. ~FetchPage(p)
        <4>1. page[p] \in Int
          BY <1>1, PagesTyped DEF RunTyped
        <4> QED BY <1>1, <1>2, <4>1 DEF FetchPage, Stays, RunTyped
      <3> QED BY <3>1, <3>2, SeenStep
    <2>2. \A i \in DOMAIN obs[p] : obs[p][i].asOf <= clock'
      BY <1>1, EarlierStays DEF Gathered
    <2>3. pc[p] = "writing" => capturedAt[p] <= clock'
      <3>1. clock' \in Int /\ capturedAt[p] \in Int
        BY <1>1 DEF TypeInv, CountsTyped, RunTyped
      <3> QED BY <1>1, <3>1 DEF Gathered
    <2> QED BY <1>2, <2>1, <2>2, <2>3 DEF Gathered, Stays
  <1>3. CASE AtRest(p)'
    <2>1. pc'[p] \notin Capturing /\ obs'[p] = <<>> /\ pc'[p] # "writing"
      BY <1>3 DEF AtRest, Capturing, Gathering
    <2> QED BY <2>1 DEF Gathered
  <1>4. CASE Moves(p) /\ Starts(p)
    <2>1. sweeps + 1 \in Sweep /\ sweeps + 1 > sweeps /\ \A q \in Proc : sweep[q] # sweeps + 1
      BY <1>4, NextIsNew DEF Starts
    <2>2. seen'[sweeps + 1] = <<>>
      BY <2>1, SeenStep DEF Numbered
    <2> QED BY <1>4, <2>2 DEF Gathered, Starts
  <1>5. CASE Moves(p) /\ IsElsewhere(p)
    <2>1. CASE AtRest(p)'
      BY <1>3, <2>1
    <2>2. CASE pc'[p] \notin Capturing
      <3>1. clock' = clock /\ pc'[p] # "writing"
        BY <1>5, <2>2, LocalSteps DEF Capturing, Gathering
      <3>2. \A i \in DOMAIN obs'[p] : obs'[p][i].asOf = clock
        BY <1>5 DEF IsElsewhere
      <3> QED BY <1>1, <2>2, <3>1, <3>2 DEF Gathered
    <2> QED BY <1>5, <2>1, <2>2 DEF IsElsewhere
  <1>6. CASE Moves(p) /\ Gets(p)
    <2>1. PICK got \in Seq(Observation) :
            /\ obs'[p] = obs[p] \o got /\ seen'[sweep[p]] = seen[sweep[p]] \o got
            /\ \A k \in DOMAIN got : got[k].asOf = clock
      BY <1>6 DEF Gets
    <2>2. obs'[p] = seen'[sweep'[p]] /\ pc'[p] # "writing" /\ clock' = clock
      BY <1>6, <2>1, LocalSteps DEF Gets, Gathered, Capturing, Gathering
    <2>3. /\ \A i \in DOMAIN obs'[p] : obs'[p][i].asOf <= clock
          /\ \A i, j \in DOMAIN obs'[p] : i <= j => obs'[p][i].asOf <= obs'[p][j].asOf
      BY <1>1, <2>1, LaterAppended DEF Gathered
    <2> QED BY <2>2, <2>3 DEF Gathered
  <1>7. CASE Moves(p) /\ Holds(p) /\ (Audits(p) \/ Opens(p) \/ Writes(p) \/ Commits(p))
    <2>1. pc[p] \in Capturing /\ pc[p] # "fetching"
      BY <1>7 DEF Audits, Opens, Writes, Commits, Capturing, Gathering
    <2>2. seen'[sweep[p]] = seen[sweep[p]]
      <3>1. sweep[p] \in Sweep /\ \A q \in Proc : sweep[q] = sweep[p] => q = p
        BY <2>1, SweepIsMine DEF Capturing, Gathering, Resting
      <3> QED BY <2>1, <3>1, SeenStep DEF FetchPage
    <2>3. clock' = clock /\ obs'[p] = obs[p] /\ sweep'[p] = sweep[p]
      BY <1>7, LocalSteps DEF Holds
    <2>4. pc'[p] = "writing" =>
            capturedAt'[p] <= clock /\ \A i \in DOMAIN obs[p] : obs[p][i].asOf <= capturedAt'[p]
      BY <1>1, <1>7 DEF Audits, Opens, Writes, Commits, Gathered
    <2> QED BY <2>1, <2>2, <2>3, <2>4 DEF Gathered
  <1> QED BY <1>2, <1>3, <1>4, <1>5, <1>6, <1>7, WhoMoves, LocalSteps
          DEF Audits, Opens, Writes, Commits

LEMMA AuditedStep ==
  ASSUME TypeInv, NEW p \in Proc, Audited(p), [Next]_vars
  PROVE  Audited(p)'
  <1>1. /\ obs[p] \in Seq(Observation) /\ done[p] \in Nat
        /\ DOMAIN obs[p] = 1..Len(obs[p]) /\ Len(obs[p]) \in Nat
    BY PointsTyped DEF TypeInv, PointTyped
  <1>2. CASE AtRest(p)'
    <2>1. pc'[p] \notin {"auditing", "writing"}
      BY <1>2 DEF AtRest
    <2> QED BY <2>1 DEF Audited
  <1>3. CASE Stays(p) /\ ~PowerLoss
    <2>1. db.system \subseteq db'.system
      BY <1>3, RowsStay
    <2> QED BY <1>3, <2>1 DEF Stays, Audited
  <1>4. CASE Moves(p) /\ (Starts(p) \/ IsElsewhere(p) \/ Commits(p))
    <2>1. AtRest(p)' \/ pc'[p] \notin {"auditing", "writing"}
      BY <1>4 DEF Starts, IsElsewhere, Commits, Capturing, Gathering
    <2> QED BY <1>2, <2>1 DEF Audited
  <1>5. CASE Moves(p) /\ Gets(p)
    <2>1. done'[p] = 0 /\ pc'[p] # "writing" /\ obs'[p] \in Seq(Observation)
      BY <1>5, StepTyped, PointsTyped DEF Gets, TypeInv, PointTyped
    <2>2. \A i \in DOMAIN obs'[p] : ~(i <= done'[p])
      BY <2>1
    <2> QED BY <2>1, <2>2 DEF Audited
  <1>6. CASE Moves(p) /\ ~PowerLoss /\ (Audits(p) \/ Opens(p) \/ Writes(p))
    <2>1. db.system \subseteq db'.system
      BY <1>6, RowsStay
    <2>2. CASE Audits(p)
      <3> SUFFICES ASSUME NEW i \in DOMAIN obs[p], obs[p][i].crossed, i <= done[p] + 1
                   PROVE  Violation(sweep[p], obs[p][i].market) \in db'.system
        BY <2>2 DEF Audits, Holds, Audited
      <3>1. i <= done[p] \/ i = done[p] + 1
        BY <1>1
      <3>2. i = done[p] + 1 => Violation(sweep[p], obs[p][i].market) \in db'.system
        BY <2>2 DEF Audits
      <3>3. i <= done[p] => Violation(sweep[p], obs[p][i].market) \in db.system
        BY <2>2 DEF Audits, Audited
      <3> QED BY <2>1, <3>1, <3>2, <3>3
    <2>3. CASE Opens(p)
      <3>1. \A i \in DOMAIN obs[p] : i <= done[p]
        BY <1>1, <2>3 DEF Opens
      <3> QED BY <2>1, <2>3, <3>1 DEF Opens, Holds, Audited
    <2>4. CASE Writes(p)
      BY <2>1, <2>4 DEF Writes, Holds, Audited
    <2> QED BY <1>6, <2>2, <2>3, <2>4
  <1>7. PowerLoss => AtRest(p)'
    BY PowerLossTyped
  <1> QED BY <1>2, <1>3, <1>4, <1>5, <1>6, <1>7, WhoMoves, LocalSteps

LEMMA PlacedStep ==
  ASSUME TypeInv, Numbered, NEW p \in Proc, Placed(p), [Next]_vars
  PROVE  Placed(p)'
  <1>1. CASE AtRest(p)'
    <2>1. pc'[p] \notin Gathering /\ pc'[p] # "finishing"
      BY <1>1 DEF AtRest, Gathering
    <2> QED BY <2>1 DEF Placed
  <1>2. PowerLoss => AtRest(p)'
    BY PowerLossTyped
  <1>3. ASSUME pc[p] \in Gathering, ~Commit(p)
        PROVE  \A f \in Files' : Untouched(f, sweep[p])
    <2>1. \A q \in Proc : sweep[q] = sweep[p] => q = p
      BY <1>3, SweepIsMine DEF Gathering, Resting
    <2>2. ~Finish(p)
      BY <1>3 DEF Gathering, Finish
    <2>3. \A f \in Files : Untouched(f, sweep[p])
      BY <1>3 DEF Placed
    <2> QED BY <1>3, <2>1, <2>2, <2>3, UntouchedStep
  <1>4. CASE Stays(p) /\ ~PowerLoss
    <2>1. ~Commit(p)
      BY <1>4 DEF Stays, Commit, TypeInv, RunTyped
    <2>2. pc'[p] \in Gathering => \A f \in Files' : Untouched(f, sweep'[p])
      BY <1>3, <1>4, <2>1 DEF Stays
    <2>3. pc'[p] = "finishing" => Len(Slice(db', sweep'[p])) = Len(obs'[p])
      <3> SUFFICES ASSUME pc[p] = "finishing" PROVE Len(Slice(db', sweep[p])) = Len(obs[p])
        BY <1>4 DEF Stays
      <3>1. \A q \in Proc : sweep[q] = sweep[p] => ~Commit(q)
        BY <2>1, SweepIsMine DEF Resting
      <3>2. Slice(db', sweep[p]) = Slice(db, sweep[p])
        BY <1>4, <3>1, SliceStep
      <3>3. Len(Slice(db, sweep[p])) = Len(obs[p])
        BY DEF Placed
      <3> QED BY <3>2, <3>3
    <2> QED BY <2>2, <2>3 DEF Placed, Untouched, Vouched
  <1>5. CASE Moves(p) /\ Starts(p)
    <2>1. sweeps + 1 \in Sweep /\ sweeps + 1 > sweeps /\ \A q \in Proc : sweep[q] # sweeps + 1
      BY <1>5, NextIsNew DEF Starts
    <2>2. \A f \in Files' : Untouched(f, sweeps + 1)
      BY <2>1, UntouchedStep DEF Numbered
    <2> QED BY <1>5, <2>2 DEF Starts, Placed, Untouched, Vouched
  <1>6. CASE Moves(p) /\ IsElsewhere(p)
    <2>1. AtRest(p)' \/ (pc'[p] \notin Gathering /\ pc'[p] # "finishing")
      BY <1>6 DEF IsElsewhere, Capturing
    <2> QED BY <1>1, <2>1 DEF Placed
  <1>7. CASE Moves(p) /\ (Gets(p) \/ Audits(p) \/ Opens(p) \/ Writes(p))
    <2>1. /\ pc[p] \in Gathering /\ pc'[p] \in Gathering /\ sweep'[p] = sweep[p]
          /\ pc'[p] # "finishing"
      BY <1>7 DEF Gets, Audits, Opens, Writes, Holds, Gathering
    <2>2. ~Commit(p)
      BY <2>1 DEF Commit, TypeInv, RunTyped, Gathering
    <2>3. \A f \in Files' : Untouched(f, sweep'[p])
      BY <1>3, <2>1, <2>2
    <2> QED BY <2>1, <2>3 DEF Placed, Untouched, Vouched
  <1>8. CASE Moves(p) /\ Commits(p)
    <2>1. /\ Commit(p) /\ pc[p] = "writing" /\ pc'[p] = "finishing"
          /\ sweep'[p] = sweep[p] /\ obs'[p] = obs[p]
      BY <1>8 DEF Commits, Holds
    <2>2. Slice(db, sweep[p]) = <<>>
      <3>1. db \in Files
        BY FilesTyped DEF TypeInv
      <3> QED BY <2>1, <3>1 DEF Placed, Gathering, Untouched
    <2>3. Len(Slice(db', sweep[p])) = Len(obs[p])
      BY <2>1, <2>2, SliceOfCommit
    <2>4. pc'[p] \notin Gathering
      BY <2>1 DEF Gathering
    <2> QED BY <2>1, <2>3, <2>4 DEF Placed
  <1> QED BY <1>1, <1>2, <1>4, <1>5, <1>6, <1>7, <1>8, WhoMoves, LocalSteps

LEMMA CaptureInvStep ==
  ASSUME TypeInv, CaptureInv, [Next]_vars
  PROVE  CaptureInv'
  BY NumberedStep, GatheredStep, AuditedStep, PlacedStep DEF CaptureInv

--------------------------------------------------------------------------------
(* Together *)

IngestInv == TypeInv /\ CaptureInv /\ FileInv /\ CountInv

LEMMA IngestInvInit == Init => IngestInv
  <1> SUFFICES ASSUME Init PROVE IngestInv
    OBVIOUS
  <1>1. TypeInv /\ Files = {EmptyFile} /\ db = EmptyFile
    BY InitTyped, EmptyFileTyped DEF Init
  <1>2. FileKept(EmptyFile)
    BY DEF EmptyFile, FileKept, Stamped, OnRecord, Listed
  <1>3. \A s : Untouched(EmptyFile, s)
    BY DEF EmptyFile, Untouched, Vouched, Slice, RowsOf
  <1>4. CaptureInv
    <2>1. Numbered
      BY <1>1, <1>3 DEF Init, Numbered
    <2>2. ASSUME NEW p \in Proc PROVE Gathered(p) /\ Audited(p) /\ Placed(p)
      BY DEF Init, Gathered, Audited, Placed, Capturing, Gathering
    <2> QED BY <2>1, <2>2 DEF CaptureInv
  <1>5. CountInv
    BY DEF Init, CountInv
  <1> QED BY <1>1, <1>2, <1>4, <1>5 DEF IngestInv, FileInv

LEMMA IngestInvStep == IngestInv /\ [Next]_vars => IngestInv'
  BY StepTyped, CaptureInvStep, FileInvStep, CountInvStep DEF IngestInv, CaptureInv

LEMMA IngestInvHolds == Spec => []IngestInv
  <1> QED BY IngestInvInit, IngestInvStep, PTL DEF Spec

\* No crossed quote reaches the file without the invariant_violation that marks it as
\* a data fault, not even after a power loss between the two: _audit() records it
\* before the transaction opens (ingest.py:115-116).
THEOREM CrossedAreFlagged == Spec => []CrossedIsFlagged
  <1>1. IngestInv => CrossedIsFlagged
    BY DEF IngestInv, FileInv, FileKept, OnRecord, CrossedIsFlagged, Files, Range
  <1> QED BY <1>1, IngestInvHolds, PTL

\* Every row is stamped no earlier than what it shows was true: captured_at is read
\* after the last page (storage.py:323), or after the book (storage.py:298).
THEOREM NothingFromTheFuture == Spec => []NoLookahead
  <1>1. IngestInv => NoLookahead
    BY FilesTyped DEF IngestInv, TypeInv, FileInv, FileKept, Stamped, NoLookahead, Range
  <1> QED BY <1>1, IngestInvHolds, PTL

\* counts() reads one table after the other (storage.py:337-349), and still never reports
\* a market that has no observation: a market's row comes with its quote, and quotes are
\* only added.
THEOREM CountsAreCoherent == Spec => []ReportCoherent
  <1>1. IngestInv => ReportCoherent
    BY DEF IngestInv, CountInv, ReportCoherent
  <1> QED BY <1>1, IngestInvHolds, PTL

--------------------------------------------------------------------------------
(* Ingest implements Archive *)

Faults(f) ==
    {<<e.sweep, e.market>> : e \in {x \in f.system : x.kind = "invariant_violation"}}

LEMMA SameSlices ==
  ASSUME NEW f, NEW g, g.quotes = f.quotes
  PROVE  \A s : Slice(g, s) = Slice(f, s)
  BY DEF Slice, RowsOf

\* Two files with the same slices, faults and vouchers are one to a reader.
LEMMA SameView ==
  ASSUME NEW f, NEW g, \A s \in Sweep : Slice(g, s) = Slice(f, s),
         Faults(g) = Faults(f), Vouched(g) = Vouched(f)
  PROVE  ArchiveOf(g) = ArchiveOf(f)
  <1>1. [s \in Sweep |-> Slice(g, s)] = [s \in Sweep |-> Slice(f, s)]
    OBVIOUS
  <1> QED BY <1>1 DEF ArchiveOf, Faults, Vouched

LEMMA ViewOfBook ==
  ASSUME NEW f \in File, NEW row
  PROVE  ArchiveOf([f EXCEPT !.books = @ \union {row}]) = ArchiveOf(f)
  <1> DEFINE g == [f EXCEPT !.books = @ \union {row}]
  <1>1. g.quotes = f.quotes /\ g.system = f.system
    BY DEF File
  <1> HIDE DEF g
  <1>2. Faults(g) = Faults(f) /\ Vouched(g) = Vouched(f)
    BY <1>1 DEF Faults, Vouched
  <1>3. ArchiveOf(g) = ArchiveOf(f)
    BY <1>1, <1>2, SameSlices, SameView
  <1> QED BY <1>3 DEF g

LEMMA ViewOfHalt ==
  ASSUME NEW f \in File, NEW s
  PROVE  ArchiveOf([f EXCEPT !.system = @ \union {Halt(s)}]) = ArchiveOf(f)
  <1> DEFINE g == [f EXCEPT !.system = @ \union {Halt(s)}]
  <1>1. g.quotes = f.quotes /\ g.system = f.system \union {Halt(s)}
    BY DEF File
  <1>2. Halt(s).kind = "exchange_inactive"
    BY DEF Halt
  <1> HIDE DEF g
  <1>3. Faults(g) = Faults(f) /\ Vouched(g) = Vouched(f)
    BY <1>1, <1>2 DEF Faults, Vouched
  <1>4. ArchiveOf(g) = ArchiveOf(f)
    BY <1>1, <1>3, SameSlices, SameView
  <1> QED BY <1>4 DEF g

\* A fault on record in the file is one on record in the archive.
IsFault(f, s, m) ==
    ArchiveOf([f EXCEPT !.system = @ \union {Violation(s, m)}])
      = [ArchiveOf(f) EXCEPT !.faults = @ \union {<<s, m>>}]

LEMMA ViewOfViolation ==
  ASSUME NEW f \in File, NEW s, NEW m
  PROVE  IsFault(f, s, m)
  <1> DEFINE g == [f EXCEPT !.system = @ \union {Violation(s, m)}]
  <1>1. g.quotes = f.quotes /\ g.system = f.system \union {Violation(s, m)}
    BY DEF File
  <1>2. /\ Violation(s, m).kind = "invariant_violation" /\ Violation(s, m).sweep = s
        /\ Violation(s, m).market = m
    BY DEF Violation
  <1> HIDE DEF g
  <1>3. Faults(g) = Faults(f) \union {<<s, m>>} /\ Vouched(g) = Vouched(f)
    BY <1>1, <1>2 DEF Faults, Vouched
  <1>4. [t \in Sweep |-> Slice(g, t)] = [t \in Sweep |-> Slice(f, t)]
    BY <1>1, SameSlices
  <1>5. ArchiveOf(g) = [slice |-> [t \in Sweep |-> Slice(f, t)], faults |-> Faults(f) \union {<<s, m>>},
                        vouched |-> Vouched(f)]
    BY <1>3, <1>4 DEF ArchiveOf, Faults, Vouched
  <1>6. ArchiveOf(f) = [slice |-> [t \in Sweep |-> Slice(f, t)], faults |-> Faults(f),
                        vouched |-> Vouched(f)]
    BY DEF ArchiveOf, Faults, Vouched
  <1>7. ArchiveOf(g) = [ArchiveOf(f) EXCEPT !.faults = @ \union {<<s, m>>}]
    BY <1>5, <1>6
  <1> QED BY <1>7 DEF g, IsFault

LEMMA ViewOfComplete ==
  ASSUME NEW f \in File, NEW s, NEW o, NEW shards
  PROVE  ArchiveOf([f EXCEPT !.system = @ \union {Complete(s, o, shards)}])
           = [ArchiveOf(f) EXCEPT !.vouched = @ \union {s}]
  <1> DEFINE e == Complete(s, o, shards)
             g == [f EXCEPT !.system = @ \union {e}]
  <1>1. e.kind = "sweep_complete" /\ e.sweep = s
    BY DEF Complete
  <1> HIDE DEF e
  <1>2. g.quotes = f.quotes /\ g.system = f.system \union {e}
    BY DEF File
  <1> HIDE DEF g
  <1>3. Vouched(g) = Vouched(f) \union {s} /\ Faults(g) = Faults(f)
    BY <1>1, <1>2 DEF Faults, Vouched
  <1>4. [t \in Sweep |-> Slice(g, t)] = [t \in Sweep |-> Slice(f, t)]
    BY <1>2, SameSlices
  <1>5. ArchiveOf(g) = [slice |-> [t \in Sweep |-> Slice(f, t)], faults |-> Faults(f),
                        vouched |-> Vouched(f) \union {s}]
    BY <1>3, <1>4 DEF ArchiveOf, Faults, Vouched
  <1>6. ArchiveOf(f) = [slice |-> [t \in Sweep |-> Slice(f, t)], faults |-> Faults(f),
                        vouched |-> Vouched(f)]
    BY DEF ArchiveOf, Faults, Vouched
  <1>7. ArchiveOf(g) = [ArchiveOf(f) EXCEPT !.vouched = @ \union {s}]
    BY <1>5, <1>6
  <1> QED BY <1>7 DEF g, e

LEMMA ViewOfCommit ==
  ASSUME IngestInv, NEW p \in Proc, Commit(p), [Next]_vars
  PROVE  /\ sweep[p] \in Sweep /\ capturedAt[p] \in 0..MaxTime
         /\ ArchiveOf(db).slice[sweep[p]] = <<>>
         /\ ArchiveOf(db') = [ArchiveOf(db) EXCEPT !.slice[sweep[p]] =
                                Promise!SliceOf(sweep[p], capturedAt[p])]
  <1>1. TypeInv /\ Numbered /\ Placed(p) /\ Gathered(p) /\ pc[p] = "writing" /\ done[p] = Len(obs[p])
    BY DEF IngestInv, CaptureInv, Commit
  <1>2. sweep[p] \in Sweep /\ \A q \in Proc : sweep[q] = sweep[p] => q = p
    BY <1>1, SweepIsMine DEF Resting
  <1>3. capturedAt[p] \in 0..MaxTime
    BY <1>1, PointsTyped DEF TypeInv, PointTyped
  <1>4. Slice(db, sweep[p]) = <<>>
    <2>1. db \in Files
      BY <1>1, FilesTyped DEF TypeInv
    <2> QED BY <1>1, <2>1 DEF Placed, Gathering, Untouched
  <1>5. /\ db' = Persisted(p)
        /\ Slice(db', sweep[p]) = [i \in DOMAIN obs[p] |->
             [sweep |-> sweep[p], captured_at |-> capturedAt[p], quote |-> obs[p][i]]]
    BY <1>1, <1>4, SliceOfCommit
  <1>6. Slice(db', sweep[p]) = Promise!SliceOf(sweep[p], capturedAt[p])
    <2>1. obs[p] = seen[sweep[p]]
      BY <1>1 DEF Gathered, Capturing, Gathering
    <2> QED BY <1>5, <2>1 DEF Promise!SliceOf
  <1>7. db'.system = db.system
    BY <1>1, <1>5, PersistedTyped
  <1>8. Faults(db') = Faults(db) /\ Vouched(db') = Vouched(db)
    BY <1>7 DEF Faults, Vouched
  <1>9. ASSUME NEW s \in Sweep, s # sweep[p] PROVE Slice(db', s) = Slice(db, s)
    <2>1. ~PowerLoss
      BY <1>1, PowerLossTyped DEF Commit, PowerLoss, AtRest, TypeInv, RunTyped
    <2>2. ASSUME NEW q \in Proc, sweep[q] = s PROVE ~Commit(q)
      <3>1. q # p
        BY <1>9, <2>2
      <3>2. pc'[q] # pc[q] \/ ~Commit(q)
        BY <1>1 DEF Commit, TypeInv, RunTyped
      <3>3. pc' = [pc EXCEPT ![p] = "finishing"]
        BY DEF Commit
      <3> QED BY <1>1, <3>1, <3>2, <3>3 DEF TypeInv, RunTyped
    <2> QED BY <1>1, <2>1, <2>2, SliceStep
  <1>10. [s \in Sweep |-> Slice(db', s)]
           = [[s \in Sweep |-> Slice(db, s)] EXCEPT ![sweep[p]] = Slice(db', sweep[p])]
    BY <1>2, <1>9
  <1>11. ArchiveOf(db') = [slice |-> [s \in Sweep |-> Slice(db', s)], faults |-> Faults(db),
                           vouched |-> Vouched(db)]
    BY <1>8 DEF ArchiveOf, Faults, Vouched
  <1>12. ArchiveOf(db) = [slice |-> [s \in Sweep |-> Slice(db, s)], faults |-> Faults(db),
                          vouched |-> Vouched(db)]
    BY DEF ArchiveOf, Faults, Vouched
  <1>13. ArchiveOf(db') = [ArchiveOf(db) EXCEPT !.slice[sweep[p]] = Slice(db', sweep[p])]
    BY <1>10, <1>11, <1>12
  <1>14. ArchiveOf(db).slice[sweep[p]] = <<>>
    BY <1>2, <1>4, <1>12
  <1> QED BY <1>2, <1>3, <1>6, <1>13, <1>14

\* What a power failure may leave, to a reader.
Past == {ArchiveOf(f) : f \in Files}

LEMMA PastIsFiles == Past = {ArchiveOf(wal[i]) : i \in DOMAIN wal}
  BY DEF Past, Files

\* A commit is a change of the Archive.
LEMMA CommitChanges ==
  ASSUME TypeInv, NEW file \in File, CommitTo(file)
  PROVE  Promise!Change(ArchiveOf(file))
  <1>1. Files' = Files \union {file} /\ db' = file
    BY CommitTyped DEF TypeInv
  <1>2. Past' = Past \union {ArchiveOf(file)}
    BY <1>1 DEF Past
  <1>3. Past = {ArchiveOf(wal[i]) : i \in DOMAIN wal}
        /\ Past' = {ArchiveOf(wal'[i]) : i \in DOMAIN wal'}
    BY DEF Past, Files
  <1> QED BY <1>1, <1>2, <1>3 DEF Promise!Change

\* A commit that a reader does not see.
LEMMA CommitStutters ==
  ASSUME TypeInv, NEW file \in File, CommitTo(file), ArchiveOf(file) = ArchiveOf(db),
         UNCHANGED seen
  PROVE  UNCHANGED Promise!vars
  <1>1. Files' = Files \union {file} /\ db' = file /\ db \in Files
    BY CommitTyped, FilesTyped DEF TypeInv
  <1>2. Past' = Past
    BY <1>1 DEF Past
  <1>3. Past = {ArchiveOf(wal[i]) : i \in DOMAIN wal}
        /\ Past' = {ArchiveOf(wal'[i]) : i \in DOMAIN wal'}
    BY DEF Past, Files
  <1> QED BY <1>1, <1>2, <1>3 DEF Promise!vars

LEMMA NothingSeen ==
  ASSUME UNCHANGED <<fileVars, seen>>
  PROVE  UNCHANGED Promise!vars
  BY DEF fileVars, Promise!vars

\* A page is fetched by a sweep of which nothing is in the file.
LEMMA FetchImplements ==
  ASSUME IngestInv, NEW p \in Proc, FetchPage(p), [Next]_vars
  PROVE  Promise!Fetch(sweep[p])
  <1>1. TypeInv /\ Placed(p) /\ pc[p] = "fetching" /\ UNCHANGED fileVars
    BY DEF IngestInv, CaptureInv, FetchPage
  <1>2. sweep[p] \in Sweep
    BY <1>1, SweepTyped DEF Resting
  <1>3. Gets(p)
    BY <1>1, LocalSteps DEF Moves, Step, FetchPage, Starts, IsElsewhere, Audits, Opens, Writes,
                            Commits, Gathering, AtRest, RunTyped, TypeInv
  <1>4. PICK got \in Seq(Observation) : seen'[sweep[p]] = seen[sweep[p]] \o got
    BY <1>3 DEF Gets
  <1>5. IsPrefix(seen[sweep[p]], seen'[sweep[p]])
    <2>1. seen[sweep[p]] \in Seq(Observation) /\ Len(seen[sweep[p]]) \in Nat /\ Len(got) \in Nat
      BY <1>1, <1>2 DEF TypeInv, CountsTyped
    <2>2. /\ seen'[sweep[p]] \in Seq(Observation)
          /\ Len(seen'[sweep[p]]) = Len(seen[sweep[p]]) + Len(got)
      BY <1>4, <2>1, ConcatProperties
    <2>3. SubSeq(seen[sweep[p]] \o got, 1, Len(seen[sweep[p]])) = SubSeq(seen[sweep[p]], 1, Len(seen[sweep[p]]))
      BY <2>1, SubSeqOfConcat1
    <2>4. SubSeq(seen'[sweep[p]], 1, Len(seen[sweep[p]])) = seen[sweep[p]]
      BY <1>4, <2>1, <2>3, SubSeqFull, Zenon
    <2>5. Len(seen[sweep[p]]) <= Len(seen'[sweep[p]])
      BY <2>1, <2>2
    <2> QED BY <2>1, <2>2, <2>4, <2>5, PrefixOf
  <1>6. seen' \in [Sweep -> Seq(Observation)]
    BY <1>1, StepTyped DEF TypeInv, CountsTyped
  <1>7. \A r \in Sweep \ {sweep[p]} : seen'[r] = seen[r]
    <2>1. ASSUME NEW q \in Proc, FetchPage(q), q # p PROVE FALSE
      <3>1. OnlyMoves(q) /\ OnlyMoves(p)
        BY <1>1, <2>1, FetchPageTyped
      <3>2. page'[p] = page[p] + 1 /\ page[p] \in Int
        BY <1>1, PagesTyped DEF FetchPage, TypeInv, RunTyped
      <3>3. page'[p] = page[p]
        BY <1>1, <2>1, <3>1 DEF OnlyMoves, TypeInv, RunTyped
      <3> QED BY <3>2, <3>3
    <2> QED BY <1>1, <2>1, SeenStep
  <1>8. \A f \in Past : f.slice[sweep[p]] = <<>> /\ sweep[p] \notin f.vouched
    BY <1>1, <1>2 DEF Placed, Gathering, Untouched, Past, ArchiveOf, Vouched
  <1>9. UNCHANGED <<ArchiveOf(db), {ArchiveOf(wal[i]) : i \in DOMAIN wal}>>
    BY <1>1 DEF fileVars
  <1>10. \A f \in {ArchiveOf(wal[i]) : i \in DOMAIN wal} :
           f.slice[sweep[p]] = <<>> /\ sweep[p] \notin f.vouched
    BY <1>8, PastIsFiles, Zenon
  <1> QED BY <1>5, <1>6, <1>7, <1>9, <1>10, Zenon
          DEF Promise!Fetch, IsPrefix, Promise!IsPrefix

LEMMA AuditImplements ==
  ASSUME IngestInv, NEW p \in Proc, Audit(p)
  PROVE  UNCHANGED Promise!vars \/ Promise!Flag(sweep[p])
  <1>1. /\ TypeInv /\ Gathered(p) /\ pc[p] = "auditing" /\ UNCHANGED seen
        /\ done[p] < Len(obs[p])
    BY DEF IngestInv, CaptureInv, Audit
  <1>2. /\ sweep[p] \in Sweep /\ obs[p] \in Seq(Observation) /\ done[p] \in Nat /\ db \in File
        /\ obs[p] = seen[sweep[p]]
    BY <1>1, SweepTyped, PointsTyped
    DEF Resting, TypeInv, PointTyped, FileTyped, Gathered, Capturing, Gathering
  <1> DEFINE i == done[p] + 1
             s == sweep[p]
             m == obs[p][i].market
  <1>3. i \in DOMAIN seen[s] /\ m \in Market /\ seen[s][i] = obs[p][i]
    <2>1. i \in DOMAIN obs[p]
      BY <1>1, <1>2
    <2>2. obs[p][i] \in Observation
      BY <1>2, <2>1
    <2>3. m \in Market
      BY <2>2 DEF Observation
    <2> QED BY <1>2, <2>1, <2>3
  <1>4. CASE UNCHANGED fileVars
    BY <1>1, <1>4, NothingSeen
  <1>5. CASE obs[p][i].crossed /\ RecordSystemEvent(Violation(s, m))
    <2>1. /\ [db EXCEPT !.system = @ \union {Violation(s, m)}] \in File
          /\ CommitTo([db EXCEPT !.system = @ \union {Violation(s, m)}])
      BY <1>1, <1>2, <1>3, <1>5, EventsTyped, EventTyped DEF TypeInv
    <2>2. Promise!Change([ArchiveOf(db) EXCEPT !.faults = @ \union {<<s, m>>}])
      <3>1. PICK t, x : t = s /\ x = m
        OBVIOUS
      <3>2. ArchiveOf([db EXCEPT !.system = @ \union {Violation(t, x)}])
              = [ArchiveOf(db) EXCEPT !.faults = @ \union {<<t, x>>}]
        <4>1. db \in File
          BY <1>2
        <4>2. IsFault(db, t, x)
          BY <4>1, ViewOfViolation, Zenon
        <4> QED BY <4>2, Zenon DEF IsFault
      <3>3. /\ [db EXCEPT !.system = @ \union {Violation(t, x)}] \in File
            /\ CommitTo([db EXCEPT !.system = @ \union {Violation(t, x)}])
        BY <2>1, <3>1, Zenon
      <3>4. Promise!Change(ArchiveOf([db EXCEPT !.system = @ \union {Violation(t, x)}]))
        BY <1>1, <3>3, CommitChanges
      <3> QED BY <3>1, <3>2, <3>4, Zenon
    <2>3. seen[s][i].crossed /\ seen[s][i].market = m
      BY <1>3, <1>5
    <2> QED BY <1>1, <1>3, <2>2, <2>3 DEF Promise!Flag
  <1> QED BY <1>4, <1>5 DEF Audit

LEMMA CommitImplements ==
  ASSUME IngestInv, NEW p \in Proc, Commit(p), [Next]_vars
  PROVE  Promise!Add(sweep[p])
  <1>1. /\ TypeInv /\ Gathered(p) /\ Audited(p) /\ pc[p] = "writing" /\ done[p] = Len(obs[p])
        /\ CommitTo(Persisted(p)) /\ UNCHANGED seen
    BY DEF IngestInv, CaptureInv, Commit
  <1>2. /\ sweep[p] \in Sweep /\ capturedAt[p] \in 0..MaxTime
        /\ ArchiveOf(db).slice[sweep[p]] = <<>>
        /\ ArchiveOf(db') = [ArchiveOf(db) EXCEPT !.slice[sweep[p]] =
                               Promise!SliceOf(sweep[p], capturedAt[p])]
    BY ViewOfCommit
  <1>3. Persisted(p) \in File /\ db' = Persisted(p)
    BY <1>1, PersistedTyped DEF CommitTo
  <1>4. Promise!Change(ArchiveOf(db'))
    BY <1>1, <1>3, CommitChanges
  <1>5. ASSUME NEW i \in DOMAIN seen[sweep[p]], seen[sweep[p]][i].crossed
        PROVE  <<sweep[p], seen[sweep[p]][i].market>> \in ArchiveOf(db).faults
    <2>1. obs[p] = seen[sweep[p]]
      BY <1>1 DEF Gathered, Capturing, Gathering
    <2>2. Violation(sweep[p], obs[p][i].market) \in db.system
      BY <1>1, <1>5, <2>1 DEF Audited
    <2> QED BY <2>1, <2>2 DEF ArchiveOf, Violation
  <1> QED BY <1>1, <1>2, <1>4, <1>5 DEF Promise!Add

LEMMA FinishImplements ==
  ASSUME IngestInv, NEW p \in Proc, Finish(p)
  PROVE  Promise!Vouch(sweep[p])
  <1>1. /\ TypeInv /\ Gathered(p) /\ Placed(p) /\ pc[p] = "finishing" /\ UNCHANGED seen
        /\ RecordSystemEvent(Complete(sweep[p], obs[p], inactive[p]))
    BY DEF IngestInv, CaptureInv, Finish
  <1>2. /\ sweep[p] \in Sweep /\ obs[p] \in Seq(Observation) /\ inactive[p] \in SUBSET Shard
        /\ db \in File /\ FileTyped
    BY <1>1, SweepTyped, PointsTyped DEF Resting, PointTyped, TypeInv, FileTyped
  <1> DEFINE e == Complete(sweep[p], obs[p], inactive[p])
  <1>3. e \in Event
    BY <1>2, EventsTyped
  <1>4. [db EXCEPT !.system = @ \union {e}] \in File /\ CommitTo([db EXCEPT !.system = @ \union {e}])
    BY <1>1, <1>2, <1>3, EventTyped
  <1>5. Promise!Change([ArchiveOf(db) EXCEPT !.vouched = @ \union {sweep[p]}])
    BY <1>1, <1>2, <1>4, CommitChanges, ViewOfComplete
  <1>6. Len(ArchiveOf(db).slice[sweep[p]]) = Len(seen[sweep[p]])
    BY <1>1, <1>2 DEF Gathered, Placed, Capturing, ArchiveOf
  <1> QED BY <1>1, <1>5, <1>6 DEF Promise!Vouch

LEMMA StepImplements == IngestInv /\ [Next]_vars => [Promise!Next]_(Promise!vars)
  <1> SUFFICES ASSUME IngestInv, [Next]_vars PROVE Promise!Next \/ UNCHANGED Promise!vars
    OBVIOUS
  <1>1. TypeInv /\ FileTyped /\ db \in File
    BY DEF IngestInv, TypeInv, FileTyped
  <1>2. ASSUME NEW p \in Proc, CheckShards(p) PROVE UNCHANGED Promise!vars
    <2>1. UNCHANGED seen /\ sweeps + 1 \in Sweep
      BY <1>1, <1>2, NextIsNew DEF CheckShards, Begin
    <2>2. CASE UNCHANGED fileVars
      BY <2>1, <2>2, NothingSeen
    <2>3. CASE RecordSystemEvent(Halt(sweeps + 1))
      <3>1. /\ [db EXCEPT !.system = @ \union {Halt(sweeps + 1)}] \in File
            /\ CommitTo([db EXCEPT !.system = @ \union {Halt(sweeps + 1)}])
        BY <1>1, <2>1, <2>3, EventsTyped, EventTyped
      <3> QED BY <1>1, <2>1, <3>1, ViewOfHalt, CommitStutters
    <2> QED BY <1>2, <2>2, <2>3 DEF CheckShards
  <1>3. ASSUME NEW p \in Proc, RecordBook(p) PROVE UNCHANGED Promise!vars
    <2> DEFINE row == [sweep |-> sweep[p], captured_at |-> clock,
                       market |-> Head(obs[p]).market, asOf |-> Head(obs[p]).asOf]
               file == [db EXCEPT !.books = @ \union {row}]
    <2>1. row \in BookRow /\ CommitTo(file) /\ UNCHANGED seen
      BY <1>1, <1>3, RecordBookTyped DEF RecordBook
    <2> HIDE DEF row
    <2>2. file \in File /\ ArchiveOf(file) = ArchiveOf(db)
      BY <1>1, <2>1, ViewOfBook DEF File
    <2> HIDE DEF file
    <2> QED BY <1>1, <2>1, <2>2, CommitStutters
  <1>4. ASSUME NEW p \in Proc, FetchPage(p) \/ Audit(p) \/ Commit(p) \/ Finish(p)
        PROVE  Promise!Next \/ UNCHANGED Promise!vars
    <2>1. sweep[p] \in Sweep
      BY <1>1, <1>4, SweepTyped DEF FetchPage, Audit, Commit, Finish, Resting
    <2> QED BY <1>4, <2>1, FetchImplements, AuditImplements, CommitImplements, FinishImplements
            DEF Promise!Next
  <1>5. ASSUME NEW p \in Proc,
               \/ BeginTransaction(p) \/ Write(p) \/ StartBooks(p) \/ FetchBook(p)
               \/ StartCounts(p) \/ EndCounts(p) \/ Report(p) \/ Abort(p)
        PROVE  UNCHANGED Promise!vars
    <2>1. UNCHANGED <<fileVars, seen>>
      BY <1>5 DEF BeginTransaction, Write, StartBooks, FetchBook, StartCounts, EndCounts,
                  CountTable, Report, Abort
    <2> QED BY <2>1, NothingSeen
  <1>6. CASE Checkpoint
    <2>1. db' = db /\ wal' = <<db>> /\ UNCHANGED seen
      BY <1>6 DEF Checkpoint
    <2>2. {ArchiveOf(wal'[i]) : i \in DOMAIN wal'} = {ArchiveOf(db)}
      BY <2>1
    <2> QED BY <2>1, <2>2 DEF Promise!Next, Promise!Sync
  <1>7. CASE PowerLoss
    <2>1. db' \in Files /\ wal' = <<db'>> /\ UNCHANGED seen
      <3>1. PICK i \in DOMAIN wal : db' = wal[i] /\ wal' = <<wal[i]>>
        BY <1>7 DEF PowerLoss
      <3> QED BY <1>7, <3>1 DEF PowerLoss, Files
    <2>2. {ArchiveOf(wal'[i]) : i \in DOMAIN wal'} = {ArchiveOf(db')}
      BY <2>1
    <2>3. ArchiveOf(db') \in {ArchiveOf(wal[i]) : i \in DOMAIN wal}
      BY <2>1 DEF Files
    <2> QED BY <2>1, <2>2, <2>3 DEF Promise!Next, Promise!Lose
  <1>8. CASE Tick \/ UNCHANGED vars
    <2>1. UNCHANGED <<fileVars, seen>>
      BY <1>8 DEF Tick, vars
    <2> QED BY <2>1, NothingSeen
  <1> QED BY <1>2, <1>3, <1>4, <1>5, <1>6, <1>7, <1>8, ReaderAssumption DEF Next, Step

LEMMA InitImplements == Init => Promise!Init
  <1> SUFFICES ASSUME Init PROVE Promise!Init
    OBVIOUS
  <1>1. ArchiveOf(EmptyFile) = Promise!EmptyFile
    <2>1. \A s : Slice(EmptyFile, s) = <<>>
      BY DEF EmptyFile, Slice, RowsOf
    <2>2. Faults(EmptyFile) = {} /\ Vouched(EmptyFile) = {}
      BY DEF EmptyFile, Faults, Vouched
    <2> QED BY <2>1, <2>2 DEF ArchiveOf, Faults, Vouched, Promise!EmptyFile
  <1>2. {ArchiveOf(wal[i]) : i \in DOMAIN wal} = {ArchiveOf(EmptyFile)}
    BY DEF Init
  <1> QED BY <1>1, <1>2 DEF Init, Promise!Init

\* Whatever order the processes, the crashes and the power failures come in, what a
\* reader makes of the file is an Archive: sweep() and record_snapshot_sweep() add
\* whole slices, after the record of their faults and before the event that vouches
\* for them (ingest.py:112-131, storage.py:315-333).
THEOREM IngestIsAnArchive == Spec => ImplementsArchive
  <1> QED BY InitImplements, StepImplements, IngestInvHolds, PTL
          DEF Spec, ImplementsArchive, Promise!Spec

--------------------------------------------------------------------------------
(* What an Archive promises, Ingest keeps *)

Archived == INSTANCE ArchiveProofs WITH
    Time <- 0..MaxTime,
    fetched <- seen,
    file <- ArchiveOf(db),
    past <- {ArchiveOf(wal[i]) : i \in DOMAIN wal}

\* The theorems about Archive are about this one.
LEMMA SameArchive ==
  /\ Archived!Init <=> Promise!Init
  /\ [Archived!Next]_(Archived!vars) <=> [Promise!Next]_(Promise!vars)
  BY DEF Archived!Init, Archived!EmptyFile, Promise!Init, Promise!EmptyFile, Archived!Next, Promise!Next,
         Archived!vars, Promise!vars, Archived!Fetch, Promise!Fetch, Archived!Flag, Promise!Flag,
         Archived!Add, Promise!Add, Archived!Vouch, Promise!Vouch, Archived!Sync, Promise!Sync,
         Archived!Lose, Promise!Lose, Archived!Change, Promise!Change, Archived!SliceOf, Promise!SliceOf,
         Archived!IsPrefix, Promise!IsPrefix

LEMMA PromisesHold == Spec => [](IngestInv /\ Archived!Inv)
  <1>1. Init => Archived!Inv
    BY InitImplements, SameArchive, Archived!InvInit
  <1>2. IngestInv /\ Archived!Inv /\ [Next]_vars => Archived!Inv'
    BY StepImplements, SameArchive, Archived!InvStep
  <1> QED BY <1>1, <1>2, IngestInvInit, IngestInvStep, PTL DEF Spec

\* In whatever file is left, a slice is all that its sweep has seen.
LEMMA SliceIsWhole ==
  ASSUME TypeInv, Archived!Inv, NEW f \in Files, NEW s \in Sweep, Slice(f, s) # <<>>
  PROVE  \E t \in 0..MaxTime :
           Slice(f, s) = [k \in DOMAIN seen[s] |->
                            [sweep |-> s, captured_at |-> t, quote |-> seen[s][k]]]
  <1>1. ArchiveOf(f) \in {ArchiveOf(wal[i]) : i \in DOMAIN wal}
    BY DEF Files
  <1>2. ArchiveOf(f).slice[s] = Slice(f, s)
    BY DEF ArchiveOf
  <1>3. Archived!Kept(ArchiveOf(f))
    BY <1>1 DEF Archived!Inv
  <1>4. \E t \in 0..MaxTime : Slice(f, s) = Archived!SliceOf(s, t)
    BY <1>2, <1>3 DEF Archived!Kept, Archived!WholeIn
  <1> QED BY <1>4 DEF Archived!SliceOf

\* "a crash cannot leave a half-written snapshot sweep" (storage.py:160): whatever is left
\* of the file by a crash or a power failure, a sweep's quotes are all there, in order,
\* as one slice with one timestamp, or none is.
THEOREM SweepsAreAtomic == Spec => []SweepAtomic
  <1>1. IngestInv /\ Archived!Inv => SweepAtomic
    <2> SUFFICES ASSUME IngestInv, Archived!Inv, NEW i \in DOMAIN wal, NEW s \in Sweep,
                        Slice(wal[i], s) # <<>>
                 PROVE  LET rows == Slice(wal[i], s) IN
                        /\ [k \in DOMAIN rows |-> rows[k].quote] = seen[s]
                        /\ \A k \in DOMAIN rows : /\ rows[k].sweep = s
                                                  /\ rows[k].captured_at = rows[1].captured_at
      BY DEF SweepAtomic
    <2> DEFINE rows == Slice(wal[i], s)
    <2>1. TypeInv /\ wal[i] \in Files /\ seen[s] \in Seq(Observation)
      BY DEF IngestInv, Files, TypeInv, CountsTyped
    <2>2. PICK t \in 0..MaxTime :
            rows = [k \in DOMAIN seen[s] |->
                      [sweep |-> s, captured_at |-> t, quote |-> seen[s][k]]]
      BY <2>1, SliceIsWhole
    <2>3. wal[i].quotes \in Seq(QuoteRow)
      BY <2>1, FilesTyped DEF TypeInv, File
    <2>4. rows \in Seq(QuoteRow)
      BY <2>3, SliceRows
    <2>5. 1 \in DOMAIN rows
      <3> HIDE DEF rows
      <3>1. rows # <<>>
        BY DEF rows
      <3> QED BY <2>4, <3>1
    <2> HIDE DEF rows
    <2>6. DOMAIN rows = DOMAIN seen[s]
      BY <2>2
    <2>7. \A k \in DOMAIN seen[s] : /\ rows[k].quote = seen[s][k] /\ rows[k].sweep = s
                                    /\ rows[k].captured_at = t
      BY <2>2
    <2>8. [k \in DOMAIN rows |-> rows[k].quote] = seen[s]
      <3>1. seen[s] = [k \in DOMAIN seen[s] |-> seen[s][k]]
        BY <2>1
      <3> QED BY <2>6, <2>7, <3>1
    <2>9. \A k \in DOMAIN rows : rows[k].sweep = s /\ rows[k].captured_at = rows[1].captured_at
      BY <2>5, <2>6, <2>7
    <2> QED BY <2>8, <2>9 DEF rows
  <1> QED BY <1>1, PromisesHold, PTL

\* A sweep_complete event vouches for its data: no crash, failure or power loss leaves the
\* event without the quotes and the market rows it counts: sweep() records it after
\* record_snapshot_sweep() has returned (ingest.py:112-131).
THEOREM CompleteIsPersisted == Spec => []CompleteMeansPersisted
  <1>1. IngestInv /\ Archived!Inv => CompleteMeansPersisted
    <2> SUFFICES ASSUME IngestInv, Archived!Inv, NEW i \in DOMAIN wal, NEW e \in wal[i].system,
                        e.kind = "sweep_complete"
                 PROVE  /\ Range(seen[e.sweep]) =
                             {r.quote : r \in {q \in Range(wal[i].quotes) : q.sweep = e.sweep}}
                        /\ \A o \in Range(seen[e.sweep]) : wal[i].markets[o.market] # NoRow
      BY DEF CompleteMeansPersisted
    <2> DEFINE f == wal[i]
               s == e.sweep
               rows == Slice(f, s)
    <2>1. TypeInv /\ f \in Files /\ f \in File
      BY FilesTyped DEF IngestInv, TypeInv, Files
    <2>2. s \in Sweep
      <3>1. e \in Event
        BY <2>1 DEF File
      <3> QED BY <3>1 DEF Event, Violation, Halt, Complete
    <2>3. seen[s] \in Seq(Observation) /\ f.quotes \in Seq(QuoteRow)
      BY <2>1, <2>2 DEF TypeInv, CountsTyped, File
    <2>4. FileKept(f)
      BY <2>1 DEF IngestInv, FileInv
    <2>5. Len(rows) = Len(seen[s])
      <3>1. ArchiveOf(f) \in {ArchiveOf(wal[j]) : j \in DOMAIN wal}
        BY DEF Files
      <3>2. Archived!Kept(ArchiveOf(f))
        BY <3>1 DEF Archived!Inv
      <3>3. s \in ArchiveOf(f).vouched
        BY DEF ArchiveOf
      <3>4. ArchiveOf(f).slice[s] = rows
        BY <2>2 DEF ArchiveOf
      <3> QED BY <3>2, <3>3, <3>4 DEF Archived!Kept, Archived!VouchedIn
    <2> HIDE DEF f, s, rows
    <2>6. /\ rows \in Seq(QuoteRow) /\ (rows = <<>> <=> RowsOf(f, s) = {})
          /\ \A j \in RowsOf(f, s) : \E k \in DOMAIN rows : rows[k] = f.quotes[j]
          /\ \A k \in DOMAIN rows : \E j \in DOMAIN f.quotes : f.quotes[j] = rows[k]
      BY <2>3, SliceRows DEF rows
    <2>7. DOMAIN rows = DOMAIN seen[s]
          /\ \A k \in DOMAIN seen[s] : rows[k].quote = seen[s][k] /\ rows[k].sweep = s
      <3>1. CASE rows = <<>>
        <4>1. Len(seen[s]) = 0
          BY <2>5, <3>1
        <4>2. seen[s] = <<>>
          BY <2>3, <4>1
        <4> QED BY <3>1, <4>2
      <3>2. CASE rows # <<>>
        <4>1. PICK t \in 0..MaxTime :
                rows = [k \in DOMAIN seen[s] |->
                          [sweep |-> s, captured_at |-> t, quote |-> seen[s][k]]]
          BY <2>1, <2>2, <3>2, SliceIsWhole DEF rows
        <4> QED BY <4>1
      <3> QED BY <3>1, <3>2
    <2>8. ASSUME NEW k \in DOMAIN seen[s]
          PROVE  \E j \in DOMAIN f.quotes : f.quotes[j].sweep = s /\ f.quotes[j].quote = seen[s][k]
      BY <2>6, <2>7
    <2>9. ASSUME NEW j \in DOMAIN f.quotes, f.quotes[j].sweep = s
          PROVE  \E k \in DOMAIN seen[s] : f.quotes[j].quote = seen[s][k]
      <3>1. j \in RowsOf(f, s)
        BY <2>9 DEF RowsOf
      <3> QED BY <2>6, <2>7, <3>1
    <2>10. Range(seen[s]) = {r.quote : r \in {q \in Range(f.quotes) : q.sweep = s}}
      BY <2>8, <2>9 DEF Range
    <2>11. ASSUME NEW o \in Range(seen[s]) PROVE f.markets[o.market] # NoRow
      <3>1. PICK k \in DOMAIN seen[s] : o = seen[s][k]
        BY DEF Range
      <3>2. PICK j \in DOMAIN f.quotes : f.quotes[j].quote = o
        BY <2>8, <3>1
      <3> QED BY <2>4, <3>2 DEF FileKept, Listed
    <2> QED BY <2>10, <2>11 DEF f, s
  <1> QED BY <1>1, PromisesHold, PTL

--------------------------------------------------------------------------------
(* Captures that never overlap *)

\* Only a COMMIT adds quotes or changes the row of a market.
LEMMA TablesStep ==
  ASSUME TypeInv, [Next]_vars, ~PowerLoss, \A p \in Proc : ~Commit(p)
  PROVE  db'.quotes = db.quotes /\ db'.markets = db.markets
  <1>1. db \in File
    BY DEF TypeInv, FileTyped
  <1> QED BY <1>1, FilesStep DEF EventAdded, BookAdded, SweepAdded, File

\* Rows that are the latest of what was in the file, and of what the sweep saw after
\* that, are the latest of both.
LEMMA SweepLatest ==
  ASSUME TypeInv, NEW p \in Proc, SweepAdded(p), Gathered(p), Latest(db),
         \A i \in DOMAIN db.quotes, j \in DOMAIN obs[p] : db.quotes[i].quote.asOf <= obs[p][j].asOf
  PROVE  Latest(db')
  <1>1. pc[p] = "writing" /\ done[p] = Len(obs[p]) /\ db' = Persisted(p)
    BY DEF SweepAdded
  <1> DEFINE g == Persisted(p)
  <1>2. \A i \in DOMAIN g.quotes :
          \/ i \in DOMAIN db.quotes /\ g.quotes[i] = db.quotes[i]
          \/ \E k \in DOMAIN obs[p] : g.quotes[i] =
               [sweep |-> sweep[p], captured_at |-> capturedAt[p], quote |-> obs[p][k]]
    BY <1>1, PersistedRows
  <1>3. \A m \in Market :
          \/ /\ g.markets[m] = db.markets[m] /\ \A j \in DOMAIN obs[p] : obs[p][j].market # m
          \/ \E k \in DOMAIN obs[p] :
               /\ g.markets[m] = obs[p][k]
               /\ \A j \in DOMAIN obs[p] : obs[p][j].market = m => j <= k
    BY <1>1, PersistedMarkets
  <1>4. /\ \A i \in DOMAIN db.quotes : db.quotes[i].quote.market \in Market
        /\ \A k \in DOMAIN obs[p] : obs[p][k].market \in Market
    <2>1. db.quotes \in Seq(QuoteRow) /\ obs[p] \in Seq(Observation)
      BY PointsTyped DEF TypeInv, FileTyped, File, PointTyped
    <2>2. ASSUME NEW i \in DOMAIN db.quotes PROVE db.quotes[i].quote.market \in Market
      <3>1. db.quotes[i] \in QuoteRow
        BY <2>1
      <3> QED BY <3>1 DEF QuoteRow, Observation
    <2>3. ASSUME NEW k \in DOMAIN obs[p] PROVE obs[p][k].market \in Market
      <3>1. obs[p][k] \in Observation
        BY <2>1
      <3> QED BY <3>1 DEF Observation
    <2> QED BY <2>2, <2>3
  <1> HIDE DEF g
  <1>5. ASSUME NEW i \in DOMAIN g.quotes
        PROVE  g.quotes[i].quote.asOf <= g.markets[g.quotes[i].quote.market].asOf
    <2>1. CASE i \in DOMAIN db.quotes /\ g.quotes[i] = db.quotes[i]
      <3>1. db.quotes[i].quote.asOf <= db.markets[db.quotes[i].quote.market].asOf
        BY <2>1 DEF Latest
      <3> QED BY <1>3, <1>4, <2>1, <3>1
    <2>2. CASE \E k \in DOMAIN obs[p] : g.quotes[i] =
                 [sweep |-> sweep[p], captured_at |-> capturedAt[p], quote |-> obs[p][k]]
      <3>1. PICK j \in DOMAIN obs[p] : g.quotes[i].quote = obs[p][j]
        BY <2>2
      <3>2. PICK k \in DOMAIN obs[p] : g.markets[obs[p][j].market] = obs[p][k] /\ j <= k
        BY <1>3, <1>4
      <3> QED BY <3>1, <3>2 DEF Gathered
    <2> QED BY <1>2, <2>1, <2>2
  <1> QED BY <1>1, <1>5 DEF g, Latest

LEMMA AloneInvStep ==
  ASSUME IngestInv, AloneInv, [Next]_vars
  PROVE  AloneInv'
  <1> SUFFICES ASSUME ~overlapped'
               PROVE  /\ \A p, q \in Proc : sweep'[p] # 0 /\ sweep'[q] # 0 => p = q
                      /\ \A f \in Files' : Latest(f)
                      /\ \A p \in Proc : pc'[p] \in Gathering =>
                           \A i \in DOMAIN db'.quotes, j \in DOMAIN obs'[p] :
                             db'.quotes[i].quote.asOf <= obs'[p][j].asOf
    BY DEF AloneInv, Latest
  <1>1. /\ TypeInv /\ RunTyped /\ db \in Files /\ db \in File /\ clock \in Int
        /\ \A p \in Proc : Gathered(p)
    BY FilesTyped DEF IngestInv, CaptureInv, TypeInv, FileTyped, CountsTyped
  <1>2. ~overlapped /\ \A p, q \in Proc : sweep'[p] # 0 /\ sweep'[q] # 0 => p = q
    <2>1. CASE \E p \in Proc : Begin(p)
      <3>1. PICK p \in Proc : Begin(p)
        BY <2>1
      <3>2. /\ ~overlapped /\ \A q \in Proc : sweep[q] = 0
            /\ sweep' = [sweep EXCEPT ![p] = sweeps + 1]
        BY <1>1, <3>1 DEF Begin, TypeInv, CountsTyped
      <3> QED BY <1>1, <3>2 DEF RunTyped
    <2>2. CASE overlapped' = overlapped /\ \A q \in Proc : sweep'[q] \in {sweep[q], 0}
      BY <2>2 DEF AloneInv
    <2> QED BY <1>1, <2>1, <2>2, BeginOrNot
  <1>3. /\ \A p, q \in Proc : sweep[p] # 0 /\ sweep[q] # 0 => p = q
        /\ \A f \in Files : Latest(f)
        /\ \A p \in Proc : pc[p] \in Gathering =>
             \A i \in DOMAIN db.quotes, j \in DOMAIN obs[p] :
               db.quotes[i].quote.asOf <= obs[p][j].asOf
    BY <1>2 DEF AloneInv
  <1>4. \A f \in Files' : Latest(f)
    <2>1. CASE Files' \subseteq Files
      BY <1>3, <2>1
    <2>2. CASE Files' = Files \union {db'} /\ Latest(db')
      BY <1>3, <2>2
    <2>3. EventAdded \/ BookAdded => Latest(db')
      <3>1. Latest(db)
        BY <1>1, <1>3
      <3>2. EventAdded \/ BookAdded => db'.quotes = db.quotes /\ db'.markets = db.markets
        BY <1>1 DEF EventAdded, BookAdded, File
      <3> QED BY <3>1, <3>2 DEF Latest
    <2>4. ASSUME NEW p \in Proc, SweepAdded(p) PROVE Latest(db')
      <3>1. pc[p] \in Gathering
        BY <2>4 DEF SweepAdded, Gathering
      <3> QED BY <1>1, <1>3, <2>4, <3>1, SweepLatest
    <2> QED BY <1>1, <2>1, <2>2, <2>3, <2>4, FilesStep DEF EventAdded, BookAdded, SweepAdded
  <1>5. ASSUME NEW p \in Proc, pc'[p] \in Gathering, NEW i \in DOMAIN db'.quotes,
               NEW j \in DOMAIN obs'[p]
        PROVE  db'.quotes[i].quote.asOf <= obs'[p][j].asOf
    <2>1. ~PowerLoss /\ ~AtRest(p)'
      BY <1>1, <1>5, PowerLossTyped DEF AtRest, Gathering
    <2>2. ASSUME pc[p] \in Gathering PROVE db'.quotes = db.quotes
      <3>1. sweep[p] # 0
        BY <1>1, <2>2 DEF TypeInv, InHand, Gathering, Resting
      <3>2. ASSUME NEW q \in Proc, Commit(q) PROVE FALSE
        <4>1. pc[q] = "writing" /\ pc' = [pc EXCEPT ![q] = "finishing"]
          BY <3>2 DEF Commit
        <4>2. sweep[q] # 0
          BY <1>1, <4>1 DEF TypeInv, InHand, Resting
        <4>3. q = p
          BY <1>3, <3>1, <4>2
        <4> QED BY <1>1, <1>5, <4>1, <4>3 DEF RunTyped, Gathering
      <3> QED BY <1>1, <2>1, <3>2, TablesStep
    <2>3. CASE Stays(p)
      BY <1>3, <1>5, <2>2, <2>3 DEF Stays
    <2>4. CASE Starts(p)
      BY <1>5, <2>4 DEF Starts
    <2>5. CASE Gets(p)
      <3>1. pc[p] \in Gathering
        BY <2>5 DEF Gets, Gathering
      <3>2. i \in DOMAIN db.quotes /\ db'.quotes[i] = db.quotes[i]
        BY <1>5, <2>2, <3>1
      <3>3. PICK got \in Seq(Observation) :
              obs'[p] = obs[p] \o got /\ \A k \in DOMAIN got : got[k].asOf = clock
        BY <2>5 DEF Gets
      <3>4. (j \in DOMAIN obs[p] /\ obs'[p][j] = obs[p][j]) \/ obs'[p][j].asOf = clock
        <4>1. obs[p] \in Seq(Observation)
          BY <1>1, PointsTyped DEF PointTyped
        <4>2. /\ \A k \in DOMAIN obs[p] : obs[p][k].asOf <= clock
              /\ \A k, l \in DOMAIN obs[p] : k <= l => obs[p][k].asOf <= obs[p][l].asOf
          BY <1>1 DEF Gathered
        <4>3. \A k \in DOMAIN (obs[p] \o got) : \/ k \in DOMAIN obs[p] /\ (obs[p] \o got)[k] = obs[p][k]
                                                \/ (obs[p] \o got)[k].asOf = clock
          BY <1>1, <3>3, <4>1, <4>2, LaterAppended
        <4>4. j \in DOMAIN (obs[p] \o got)
          BY <1>5, <3>3
        <4> QED BY <3>3, <4>3, <4>4, Zenon
      <3>5. db.quotes[i].quote.asOf <= clock
        <4>1. db.quotes \in Seq(QuoteRow)
          BY <1>1 DEF File
        <4>2. db.quotes[i] \in QuoteRow
          BY <3>2, <4>1
        <4>3. db.quotes[i].quote.asOf \in Int /\ db.quotes[i].captured_at \in Int
          BY <4>2 DEF QuoteRow, Observation
        <4>4. /\ db.quotes[i].quote.asOf <= db.quotes[i].captured_at
              /\ db.quotes[i].captured_at <= clock
          BY <1>1, <3>2 DEF IngestInv, FileInv, FileKept, Stamped
        <4> QED BY <1>1, <4>3, <4>4
      <3>6. j \in DOMAIN obs[p] => db.quotes[i].quote.asOf <= obs[p][j].asOf
        BY <1>3, <3>1, <3>2
      <3> QED BY <3>2, <3>4, <3>5, <3>6
    <2>6. CASE Audits(p) \/ Opens(p) \/ Writes(p)
      <3>1. pc[p] \in Gathering /\ obs'[p] = obs[p]
        BY <2>6 DEF Audits, Opens, Writes, Holds, Gathering
      <3> QED BY <1>3, <1>5, <2>2, <3>1
    <2>7. ~IsElsewhere(p) /\ ~Commits(p)
      BY <1>5, <2>1 DEF IsElsewhere, Commits, Capturing, Gathering
    <2> QED BY <1>1, <2>1, <2>3, <2>4, <2>5, <2>6, <2>7, WhoMoves, LocalSteps
  <1> QED BY <1>2, <1>4, <1>5

LEMMA AloneInvInit == Init => AloneInv
  <1> SUFFICES ASSUME Init PROVE AloneInv
    OBVIOUS
  <1>1. Files = {EmptyFile} /\ db = EmptyFile /\ \A p \in Proc : sweep[p] = 0 /\ obs[p] = <<>>
    BY EmptyFileTyped DEF Init
  <1>2. Latest(EmptyFile)
    BY DEF EmptyFile, Latest
  <1> QED BY <1>1, <1>2 DEF AloneInv

\* As long as captures never overlap, the markets table is the latest state of each market
\* that the file has observed, "Latest state per key." (storage.py:38): also after a power
\* loss, which takes both tables back together.
THEOREM LatestIfAlone == Spec => []LatestStateIfAlone
  <1>1. Init => AloneInv
    BY AloneInvInit
  <1>2. IngestInv /\ AloneInv /\ [Next]_vars => AloneInv'
    BY AloneInvStep
  <1>3. IngestInv /\ AloneInv => LatestStateIfAlone
    <2> SUFFICES ASSUME IngestInv, AloneInv, ~overlapped, NEW i \in DOMAIN db.quotes
                 PROVE  LET r == db.quotes[i] IN
                        /\ db.markets[r.quote.market] # NoRow
                        /\ r.quote.asOf <= db.markets[r.quote.market].asOf
      BY DEF LatestStateIfAlone, LatestStatePerKey, Range
    <2>1. FileKept(db) /\ Latest(db)
      BY FilesTyped DEF IngestInv, TypeInv, FileInv, AloneInv
    <2> QED BY <2>1 DEF FileKept, Listed, Latest
  <1> QED BY <1>1, <1>2, <1>3, IngestInvInit, IngestInvStep, PTL DEF Spec

\* The rows of a file are in the order of their timestamps.
InTimeOrder(f) ==
    \A i, j \in DOMAIN f.quotes :
        i <= j => f.quotes[i].captured_at <= f.quotes[j].captured_at

\* As long as captures never overlapped, every file's rows are, and the sweep that
\* is being written is stamped after them.
OrderInv ==
    ~overlapped =>
        /\ \A f \in Files : InTimeOrder(f)
        /\ \A p \in Proc : pc[p] = "writing" => \A i \in DOMAIN db.quotes :
               db.quotes[i].captured_at <= capturedAt[p]

\* Rows in order, and then rows of one later timestamp, are in order.
LEMMA SweepInOrder ==
  ASSUME TypeInv, NEW p \in Proc, SweepAdded(p), InTimeOrder(db),
         \A i \in DOMAIN db.quotes : db.quotes[i].captured_at <= capturedAt[p]
  PROVE  InTimeOrder(db')
  <1>1. pc[p] = "writing" /\ done[p] = Len(obs[p]) /\ db' = Persisted(p)
    BY DEF SweepAdded
  <1> DEFINE g == Persisted(p)
  <1>2. /\ \A i \in DOMAIN db.quotes : g.quotes[i] = db.quotes[i]
        /\ \A i \in DOMAIN g.quotes \ DOMAIN db.quotes : g.quotes[i].captured_at = capturedAt[p]
    <2> HIDE DEF g
    <2>1. \A i \in DOMAIN db.quotes : g.quotes[i] = db.quotes[i]
      BY <1>1, PersistedRows DEF g
    <2>2. \A i \in DOMAIN g.quotes :
            \/ i \in DOMAIN db.quotes
            \/ \E k \in DOMAIN obs[p] : g.quotes[i] =
                 [sweep |-> sweep[p], captured_at |-> capturedAt[p], quote |-> obs[p][k]]
      BY <1>1, PersistedRows DEF g
    <2>3. ASSUME NEW i \in DOMAIN g.quotes, i \notin DOMAIN db.quotes
          PROVE  g.quotes[i].captured_at = capturedAt[p]
      <3>1. PICK k \in DOMAIN obs[p] : g.quotes[i] =
              [sweep |-> sweep[p], captured_at |-> capturedAt[p], quote |-> obs[p][k]]
        BY <2>2, <2>3
      <3> QED BY <3>1
    <2> QED BY <2>1, <2>3
  <1>3. /\ db.quotes \in Seq(QuoteRow) /\ g.quotes \in Seq(QuoteRow) /\ capturedAt[p] \in Int
    BY <1>1, PersistedTyped, PointsTyped DEF TypeInv, FileTyped, File, PointTyped
  <1>4. DOMAIN db.quotes = 1..Len(db.quotes) /\ DOMAIN g.quotes = 1..Len(g.quotes)
        /\ Len(db.quotes) \in Nat /\ Len(g.quotes) \in Nat
    BY <1>3
  <1> HIDE DEF g
  <1>5. ASSUME NEW i \in DOMAIN g.quotes, NEW j \in DOMAIN g.quotes, i <= j
        PROVE  g.quotes[i].captured_at <= g.quotes[j].captured_at
    <2>1. CASE j \in DOMAIN db.quotes
      <3>1. i \in DOMAIN db.quotes
        BY <1>4, <1>5, <2>1
      <3> QED BY <1>2, <1>5, <2>1, <3>1 DEF InTimeOrder
    <2>2. CASE j \notin DOMAIN db.quotes /\ i \in DOMAIN db.quotes
      BY <1>2, <2>2
    <2>3. CASE j \notin DOMAIN db.quotes /\ i \notin DOMAIN db.quotes
      BY <1>2, <1>3, <2>3
    <2> QED BY <2>1, <2>2, <2>3
  <1> QED BY <1>1, <1>5 DEF g, InTimeOrder

LEMMA OrderInvStep ==
  ASSUME IngestInv, AloneInv, OrderInv, [Next]_vars
  PROVE  OrderInv'
  <1> SUFFICES ASSUME ~overlapped'
               PROVE  /\ \A f \in Files' : InTimeOrder(f)
                      /\ \A p \in Proc : pc'[p] = "writing" => \A i \in DOMAIN db'.quotes :
                             db'.quotes[i].captured_at <= capturedAt'[p]
    BY DEF OrderInv, InTimeOrder
  <1>1. /\ TypeInv /\ RunTyped /\ db \in Files /\ db \in File /\ clock \in Int
    BY FilesTyped DEF IngestInv, CaptureInv, TypeInv, FileTyped, CountsTyped
  <1>2. ~overlapped
    BY <1>1, BeginOrNot DEF Begin, TypeInv, CountsTyped
  <1>3. /\ \A p, q \in Proc : sweep[p] # 0 /\ sweep[q] # 0 => p = q
        /\ \A f \in Files : InTimeOrder(f)
        /\ \A p \in Proc : pc[p] = "writing" => \A i \in DOMAIN db.quotes :
               db.quotes[i].captured_at <= capturedAt[p]
    BY <1>2 DEF AloneInv, OrderInv
  <1>4. \A f \in Files' : InTimeOrder(f)
    <2>1. CASE Files' \subseteq Files
      BY <1>3, <2>1
    <2>2. CASE Files' = Files \union {db'} /\ InTimeOrder(db')
      BY <1>3, <2>2
    <2>3. EventAdded \/ BookAdded => InTimeOrder(db')
      <3>1. InTimeOrder(db)
        BY <1>1, <1>3
      <3>2. EventAdded \/ BookAdded => db'.quotes = db.quotes
        BY <1>1 DEF EventAdded, BookAdded, File
      <3> QED BY <3>1, <3>2 DEF InTimeOrder
    <2>4. ASSUME NEW p \in Proc, SweepAdded(p) PROVE InTimeOrder(db')
      <3>1. pc[p] = "writing"
        BY <2>4 DEF SweepAdded
      <3> QED BY <1>1, <1>3, <2>4, <3>1, SweepInOrder
    <2> QED BY <1>1, <2>1, <2>2, <2>3, <2>4, FilesStep DEF EventAdded, BookAdded, SweepAdded
  <1>5. ASSUME NEW p \in Proc, pc'[p] = "writing", NEW i \in DOMAIN db'.quotes
        PROVE  db'.quotes[i].captured_at <= capturedAt'[p]
    <2>1. ~PowerLoss /\ ~AtRest(p)'
      BY <1>1, <1>5, PowerLossTyped DEF AtRest
    <2>2. ASSUME pc[p] \in Gathering PROVE db'.quotes = db.quotes
      <3>1. sweep[p] # 0
        BY <1>1, <2>2 DEF TypeInv, InHand, Gathering, Resting
      <3>2. ASSUME NEW q \in Proc, Commit(q) PROVE FALSE
        <4>1. pc[q] = "writing" /\ pc' = [pc EXCEPT ![q] = "finishing"]
          BY <3>2 DEF Commit
        <4>2. sweep[q] # 0
          BY <1>1, <4>1 DEF TypeInv, InHand, Resting
        <4>3. q = p
          BY <1>3, <3>1, <4>2
        <4> QED BY <1>1, <1>5, <4>1, <4>3 DEF RunTyped
      <3> QED BY <1>1, <2>1, <3>2, TablesStep
    <2>3. CASE pc[p] = "writing" /\ capturedAt'[p] = capturedAt[p]
      BY <1>3, <1>5, <2>2, <2>3 DEF Gathering
    <2>4. CASE Opens(p)
      <3>1. capturedAt'[p] = clock /\ db'.quotes = db.quotes
        BY <2>2, <2>4 DEF Opens, Gathering
      <3>2. db.quotes[i].captured_at <= clock
        BY <1>1, <1>5, <3>1 DEF IngestInv, FileInv, FileKept, Stamped
      <3> QED BY <3>1, <3>2
    <2>5. Stays(p) \/ Opens(p) \/ Writes(p)
      BY <1>1, <1>5, <2>1, WhoMoves, LocalSteps
      DEF Starts, IsElsewhere, Gets, Audits, Commits, Capturing, Gathering
    <2> QED BY <1>5, <2>3, <2>4, <2>5 DEF Stays, Writes
  <1> QED BY <1>4, <1>5

LEMMA OrderInvInit == Init => OrderInv
  <1> SUFFICES ASSUME Init PROVE OrderInv
    OBVIOUS
  <1>1. Files = {EmptyFile} /\ \A p \in Proc : pc[p] # "writing"
    BY EmptyFileTyped DEF Init
  <1>2. InTimeOrder(EmptyFile)
    BY DEF EmptyFile, InTimeOrder
  <1> QED BY <1>1, <1>2 DEF OrderInv

\* As long as captures never overlap, the rows are in the order of their timestamps in
\* whatever file is left: what quote_history() sorts by captured_at (storage.py:351-359) it
\* finds sorted.
THEOREM RowsInTimeOrder == Spec => [](~overlapped => InTimeOrder(db))
  <1>1. IngestInv /\ AloneInv /\ OrderInv /\ [Next]_vars => (AloneInv /\ OrderInv)'
    BY AloneInvStep, OrderInvStep
  <1>2. IngestInv /\ OrderInv => (~overlapped => InTimeOrder(db))
    BY FilesTyped DEF IngestInv, TypeInv, OrderInv
  <1> QED BY <1>1, <1>2, AloneInvInit, OrderInvInit, IngestInvInit, IngestInvStep, PTL DEF Spec

--------------------------------------------------------------------------------
(* Histories *)

\* The rows of q that show m at time t, each as a sequence of its own.
Shown(q, m, t) ==
    [i \in DOMAIN q |-> IF q[i].quote.market = m /\ q[i].captured_at = t THEN <<q[i]>> ELSE <<>>]

LEMMA ShownTyped ==
  ASSUME NEW q \in Seq(QuoteRow), NEW m, NEW t
  PROVE  /\ Shown(q, m, t) \in Seq(Seq(QuoteRow)) /\ Len(Shown(q, m, t)) = Len(q)
         /\ RowsAt(q, m, t) = FlattenSeq(Shown(q, m, t)) /\ RowsAt(q, m, t) \in Seq(QuoteRow)
  <1>1. PICK n : n = Len(q) /\ n \in Nat /\ DOMAIN q = 1..n
    BY LenProperties
  <1>2. \A i \in 1..n : <<q[i]>> \in Seq(QuoteRow) /\ <<>> \in Seq(QuoteRow)
    BY <1>1
  <1>3. Shown(q, m, t) \in [1..n -> Seq(QuoteRow)]
    BY <1>1, <1>2 DEF Shown
  <1>4. Shown(q, m, t) \in Seq(Seq(QuoteRow)) /\ Len(Shown(q, m, t)) = n
    BY <1>1, <1>3
  <1>5. RowsAt(q, m, t) = FlattenSeq(Shown(q, m, t))
    BY DEF RowsAt, Shown
  <1> QED BY <1>1, <1>4, <1>5, FlattenTyped

\* There is nothing to show of a time that no row bears.
LEMMA NothingShown ==
  ASSUME NEW q \in Seq(QuoteRow), NEW m, NEW t, \A i \in DOMAIN q : q[i].captured_at # t
  PROVE  RowsAt(q, m, t) = <<>>
  <1>1. DOMAIN q = 1..Len(q)
    BY LenProperties
  <1>2. PICK s : s = Shown(q, m, t)
    OBVIOUS
  <1>3. \A i \in 1..Len(s) : s[i] = <<>>
    BY <1>1, <1>2, ShownTyped DEF Shown
  <1>4. s \in Seq(Seq(QuoteRow)) /\ RowsAt(q, m, t) = FlattenSeq(s)
    BY <1>2, ShownTyped
  <1> QED BY <1>3, <1>4, FlattenEmpty

\* What is shown of rows and of more rows is shown of the ones, then of the others.
LEMMA ShownInTurn ==
  ASSUME NEW q \in Seq(QuoteRow), NEW r \in Seq(QuoteRow), NEW m, NEW t
  PROVE  RowsAt(q \o r, m, t) = RowsAt(q, m, t) \o RowsAt(r, m, t)
  <1>1. PICK s : s = q \o r /\ s \in Seq(QuoteRow)
    BY ConcatProperties
  <1>2. PICK a, b, c : a = Shown(q, m, t) /\ b = Shown(r, m, t) /\ c = Shown(s, m, t)
    OBVIOUS
  <1>3. /\ a \in Seq(Seq(QuoteRow)) /\ b \in Seq(Seq(QuoteRow)) /\ c \in Seq(Seq(QuoteRow))
        /\ Len(a) = Len(q) /\ Len(b) = Len(r) /\ Len(c) = Len(s)
        /\ RowsAt(q, m, t) = FlattenSeq(a) /\ RowsAt(r, m, t) = FlattenSeq(b)
        /\ RowsAt(s, m, t) = FlattenSeq(c)
    BY <1>1, <1>2, ShownTyped
  <1>4. PICK k, n : k = Len(q) /\ n = Len(r) /\ k \in Nat /\ n \in Nat
    BY LenProperties
  <1>5. /\ Len(s) = k + n /\ \A i \in 1..k : s[i] = q[i]
        /\ \A i \in k + 1..k + n : s[i] = r[i - k]
    BY <1>1, <1>4, ConcatProperties
  <1>6. \A i \in 1..k : c[i] = a[i]
    BY <1>1, <1>2, <1>4, <1>5 DEF Shown
  <1>7. \A i \in k + 1..k + n : c[i] = b[i - k]
    <2>1. ASSUME NEW i \in k + 1..k + n PROVE c[i] = b[i - k]
      <3>1. i \in DOMAIN s /\ i - k \in DOMAIN r /\ s[i] = r[i - k]
        BY <1>1, <1>4, <1>5
      <3> QED BY <1>2, <3>1 DEF Shown
    <2> QED BY <2>1
  <1>8. PICK d : d = a \o b
    OBVIOUS
  <1>11. /\ d \in Seq(Seq(QuoteRow)) /\ Len(d) = k + n
         /\ \A i \in 1..k + n : d[i] = IF i <= k THEN a[i] ELSE b[i - k]
    <2>1. /\ d \in Seq(Seq(QuoteRow)) /\ Len(d) = Len(a) + Len(b)
          /\ \A i \in 1..Len(a) + Len(b) : d[i] = IF i <= Len(a) THEN a[i] ELSE b[i - Len(a)]
      <3>1. /\ a \o b \in Seq(Seq(QuoteRow)) /\ Len(a \o b) = Len(a) + Len(b)
            /\ \A i \in 1..Len(a) + Len(b) :
                 (a \o b)[i] = IF i <= Len(a) THEN a[i] ELSE b[i - Len(a)]
        BY <1>3, ConcatProperties
      <3> QED BY <1>8, <3>1, Zenon
    <2> QED BY <1>3, <1>4, <2>1, Zenon
  <1>9. c = d
    <2>1. ASSUME NEW i \in 1..k + n PROVE c[i] = d[i]
      <3>1. CASE i <= k
        <4>1. i \in 1..k
          BY <1>4, <3>1
        <4> QED BY <1>6, <1>11, <3>1, <4>1
      <3>2. CASE ~(i <= k)
        <4>1. i \in k + 1..k + n
          BY <1>4, <3>2
        <4> QED BY <1>7, <1>11, <3>2, <4>1
      <3> QED BY <3>1, <3>2
    <2> QED BY <1>3, <1>4, <1>5, <1>11, <2>1, SeqEqual
  <1>10. FlattenSeq(c) = FlattenSeq(a) \o FlattenSeq(b)
    <2>1. FlattenSeq(a \o b) = FlattenSeq(a) \o FlattenSeq(b)
      BY <1>3, FlattenConcat
    <2> QED BY <1>8, <1>9, <2>1, Zenon
  <1> QED BY <1>1, <1>3, <1>10, Zenon

\* Of a file, QuoteHistory(f, m)[t] is shown by the rows of each time in turn.
ByTime(q, m) == [t \in 1..MaxTime + 1 |-> RowsAt(q, m, t - 1)]

LEMMA ByTimeTyped ==
  ASSUME NEW q \in Seq(QuoteRow), NEW m
  PROVE  /\ ByTime(q, m) \in Seq(Seq(QuoteRow)) /\ Len(ByTime(q, m)) = MaxTime + 1
         /\ FlattenSeq(ByTime(q, m)) \in Seq(QuoteRow)
  <1>1. ByTime(q, m) \in [1..MaxTime + 1 -> Seq(QuoteRow)]
    BY ShownTyped DEF ByTime
  <1>2. MaxTime + 1 \in Nat
    BY BoundsAssumption
  <1>3. ByTime(q, m) \in Seq(Seq(QuoteRow)) /\ Len(ByTime(q, m)) = MaxTime + 1
    BY <1>1, <1>2
  <1> QED BY <1>3, FlattenTyped

\* Rows of one time, after rows of no later time, come at the end of the history.
LEMMA HistoryGrows ==
  ASSUME NEW q \in Seq(QuoteRow), NEW new \in Seq(QuoteRow), NEW m, NEW c \in 0..MaxTime,
         \A i \in DOMAIN q : q[i].captured_at <= c,
         \A i \in DOMAIN new : new[i].captured_at = c
  PROVE  IsPrefix(FlattenSeq(ByTime(q, m)), FlattenSeq(ByTime(q \o new, m)))
  <1>1. PICK s : s = q \o new /\ s \in Seq(QuoteRow)
    BY ConcatProperties
  <1>2. PICK a, b, k, x : a = ByTime(q, m) /\ b = ByTime(s, m) /\ k = c + 1 /\ x = RowsAt(new, m, c)
    OBVIOUS
  <1>3. /\ a \in Seq(Seq(QuoteRow)) /\ b \in Seq(Seq(QuoteRow))
        /\ Len(a) = MaxTime + 1 /\ Len(b) = MaxTime + 1 /\ k \in 1..MaxTime + 1
        /\ x \in Seq(QuoteRow) /\ MaxTime \in Nat /\ k - 1 = c
    <2>1. k \in 1..MaxTime + 1 /\ MaxTime \in Nat /\ k - 1 = c
      BY <1>2, BoundsAssumption
    <2> QED BY <1>1, <1>2, <2>1, ByTimeTyped, ShownTyped
  <1>4. \A t \in 1..MaxTime + 1 : a[t] = RowsAt(q, m, t - 1) /\ b[t] = RowsAt(s, m, t - 1)
    BY <1>2 DEF ByTime
  <1>5. \A t : RowsAt(s, m, t) = RowsAt(q, m, t) \o RowsAt(new, m, t)
    BY <1>1, ShownInTurn
  <1>6. b[k] = a[k] \o x
    <2>1. a[k] = RowsAt(q, m, c) /\ b[k] = RowsAt(s, m, c)
      BY <1>3, <1>4
    <2> QED BY <1>2, <1>5, <2>1
  <1>7. ASSUME NEW i \in 1..k - 1 PROVE b[i] = a[i]
    <2>1. i \in 1..MaxTime + 1 /\ i - 1 # c
      BY <1>2, <1>3
    <2>2. RowsAt(new, m, i - 1) = <<>>
      BY <2>1, NothingShown
    <2>3. RowsAt(q, m, i - 1) \o <<>> = RowsAt(q, m, i - 1)
      BY ShownTyped, ConcatEmptySeq
    <2> QED BY <1>4, <1>5, <2>1, <2>2, <2>3
  <1>8. ASSUME NEW i \in k + 1..Len(a) PROVE a[i] = <<>>
    <2>1. i \in 1..MaxTime + 1 /\ i - 1 > c /\ i - 1 \in Int
      BY <1>2, <1>3
    <2>2. \A j \in DOMAIN q : q[j].captured_at # i - 1
      BY <2>1
    <2>3. RowsAt(q, m, i - 1) = <<>>
      BY <2>2, NothingShown
    <2> QED BY <1>4, <2>1, <2>3
  <1>9. PICK z \in Seq(QuoteRow) : FlattenSeq(b) = FlattenSeq(a) \o z
    <2>1. /\ Len(a) = Len(b) /\ k \in 1..Len(a)
          /\ \A i \in 1..k - 1 : b[i] = a[i]
          /\ \A i \in k + 1..Len(a) : a[i] = <<>>
      BY <1>3, <1>7, <1>8
    <2> QED BY <1>3, <1>6, <2>1, FlattenPrefix
  <1>10. PICK u, v : u = FlattenSeq(a) /\ v = FlattenSeq(b)
    OBVIOUS
  <1>11. u \in Seq(QuoteRow) /\ v \in Seq(QuoteRow) /\ v = u \o z
    BY <1>1, <1>2, <1>9, <1>10, ByTimeTyped
  <1>12. IsPrefix(u, v)
    <2>1. Len(u) <= Len(v) /\ Len(u) \in Nat
      BY <1>11, ConcatProperties, LenProperties
    <2>2. SubSeq(u \o z, 1, Len(u)) = u
      BY <1>11, SubSeqOfConcat1, SubSeqFull
    <2> QED BY <1>11, <2>1, <2>2, PrefixOf
  <1> QED BY <1>1, <1>2, <1>10, <1>12

LEMMA HistoryStep ==
  ASSUME IngestInv, OrderInv, [Next]_vars, ~PowerLoss, ~overlapped', NEW m \in Market
  PROVE  IsPrefix(QuoteHistory(db, m), QuoteHistory(db', m))
  <1>1. /\ TypeInv /\ TypeInv' /\ db.quotes \in Seq(QuoteRow)
        /\ QuoteHistory(db, m) = FlattenSeq(ByTime(db.quotes, m))
        /\ QuoteHistory(db', m) = FlattenSeq(ByTime(db'.quotes, m))
    BY StepTyped DEF IngestInv, TypeInv, FileTyped, File, QuoteHistory, ByTime
  <1>2. ~overlapped
    BY <1>1, BeginOrNot DEF Begin, TypeInv, CountsTyped
  <1>3. CASE db'.quotes = db.quotes
    <2>1. PICK u : u = FlattenSeq(ByTime(db.quotes, m)) /\ u \in Seq(QuoteRow)
      BY <1>1, ByTimeTyped
    <2>2. IsPrefix(u, u)
      BY <2>1, SubSeqFull, LenProperties DEF IsPrefix
    <2> QED BY <1>1, <1>3, <2>1, <2>2
  <1>4. ASSUME NEW p \in Proc, Commit(p)
        PROVE  IsPrefix(QuoteHistory(db, m), QuoteHistory(db', m))
    <2>1. pc[p] = "writing" /\ db'.quotes = db.quotes \o NewQuotes(p)
      BY <1>1, <1>4 DEF Commit, CommitTo, Persisted, QuotesWith, TypeInv, FileTyped, File
    <2>2. \A i \in DOMAIN db.quotes : db.quotes[i].captured_at <= capturedAt[p]
      BY <1>2, <2>1 DEF OrderInv
    <2>3. /\ NewQuotes(p) \in Seq(QuoteRow) /\ capturedAt[p] \in 0..MaxTime
          /\ \A i \in DOMAIN NewQuotes(p) : NewQuotes(p)[i].captured_at = capturedAt[p]
      <3>1. done[p] = Len(obs[p]) /\ RunTyped
        BY <1>1, <1>4 DEF Commit, TypeInv
      <3>2. /\ NewQuotes(p) \in Seq(QuoteRow)
            /\ NewQuotes(p) = [i \in DOMAIN obs[p] |->
                 [sweep |-> sweep[p], captured_at |-> capturedAt[p], quote |-> obs[p][i]]]
        BY <1>1, <2>1, <3>1, PersistedTyped
      <3>3. capturedAt[p] \in 0..MaxTime
        BY <3>1 DEF RunTyped
      <3> QED BY <3>2, <3>3
    <2> QED BY <1>1, <2>1, <2>2, <2>3, HistoryGrows
  <1>5. db'.quotes = db.quotes \/ \E p \in Proc : Commit(p)
    BY <1>1, TablesStep
  <1> QED BY <1>3, <1>4, <1>5

\* As long as captures never overlap, quote_history() (storage.py:351-359) takes nothing
\* back that it has answered, short of its limit: a sweep's rows are stamped before BEGIN
\* (storage.py:323) but no earlier than any row in the file, so they come at the end of
\* every history, for any markets, pages, captures, times and interleaving.
THEOREM HistoriesGrow == Spec => HistoryGrowsIfAlone
  <1>1. IngestInv /\ AloneInv /\ OrderInv /\ [Next]_vars => (AloneInv /\ OrderInv)'
    BY AloneInvStep, OrderInvStep
  <1>2. IngestInv /\ OrderInv /\ [Next]_vars =>
          [PowerLoss \/ (~overlapped' => \A m \in Market :
             IsPrefix(QuoteHistory(db, m), QuoteHistory(db', m)))]_vars
    BY HistoryStep
  <1> QED BY <1>1, <1>2, AloneInvInit, OrderInvInit, IngestInvInit, IngestInvStep, PTL
          DEF Spec, HistoryGrowsIfAlone

================================================================================
