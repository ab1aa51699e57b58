-------------------------------- MODULE Ingest ---------------------------------
(***************************************************************************)
(* data/ingest.py over data/storage.py: processes (`python -m kalshi_arb   *)
(* ingest` and `... books`) that capture the exchange into one SQLite      *)
(* file.                                                                   *)
(*                                                                         *)
(* A sweep reads the shard status, fetches the pages of events, audits     *)
(* what it saw, persists it in one transaction and then records that it    *)
(* is complete.  Each of its writes outside that transaction commits by    *)
(* itself, and each table that `stats` counts is read by itself.  Between  *)
(* any two of these steps time passes, another process works, the process  *)
(* dies, or the power fails: with a WAL and synchronous=NORMAL a power     *)
(* failure takes the file back to some commit since the last checkpoint,   *)
(* never to half of one.                                                   *)
(***************************************************************************)
EXTENDS Integers, Sequences, SequencesExt, FiniteSets

CONSTANTS
    Proc,           \* processes that capture
    Reader,         \* those of them that may run `stats` or `health` as well
    NoProc,         \* "nobody", as the holder of SQLite's write lock
    Market,
    Shard,          \* the shards that the exchange's status lists
    ShardOf,        \* ShardOf[m]: exchange_index of market m
    Pages,          \* Pages[i]: what page i of get_events() may list, in order
    Looks,          \* how a market may look: [crossed, active]
    NoRow,          \* no row for a market in the markets table
    MaxSweeps,      \* bound: captures started over the whole run
    MaxTime         \* bound: the clock stops here

ASSUME ReaderAssumption == Reader \subseteq Proc
ASSUME NoProcAssumption == NoProc \notin Proc
ASSUME MarketAssumption == IsFiniteSet(Market)
ASSUME ShardAssumption == DOMAIN ShardOf = Market
ASSUME PagesAssumption == Pages \in Seq(SUBSET Seq(Market)) /\ Pages # <<>>
ASSUME LooksAssumption == Looks \subseteq [crossed : BOOLEAN, active : BOOLEAN]
ASSUME BoundsAssumption == MaxSweeps \in Nat /\ MaxTime \in Nat

Sweep == 1..MaxSweeps

\* A market as the exchange reported it at time asOf: is its book crossed, and is
\* its status ACTIVE?
Observation == [market : Market, asOf : 0..MaxTime, crossed : BOOLEAN, active : BOOLEAN]

ASSUME NoRowAssumption == NoRow \notin Observation

VARIABLES
    clock,
    db,             \* the committed contents of the file
    wal,            \* the contents a power failure may go back to, oldest first
    writer,         \* the process that holds SQLite's write lock
    sweeps,         \* captures started so far
    pc,             \* where each process is
    sweep,          \* the number of its capture
    inactive,       \* IngestReport.inactive_shards
    page,           \* pages fetched so far
    obs,            \* what the capture has fetched, in order
    done,           \* how many of them the loop in hand has been through
    wanted,         \* tickers capture_books() has still to fetch
    capturedAt,     \* captured_at of the sweep's rows
    tally,          \* what counts() has read
    seen,           \* history: all that each sweep fetched
    overlapped      \* history: were two captures ever under way at once?

fileVars == <<db, wal>>
runVars == <<sweep, inactive, page, obs, done, wanted, capturedAt, tally>>
vars == <<clock, fileVars, writer, sweeps, pc, runVars, seen, overlapped>>

QuoteRow == [sweep : Sweep, captured_at : 0..MaxTime, quote : Observation]
BookRow == [sweep : Sweep, captured_at : 0..MaxTime, market : Market, asOf : 0..MaxTime]
Violation(s, m) == [kind |-> "invariant_violation", sweep |-> s, market |-> m]
Halt(s) == [kind |-> "exchange_inactive", sweep |-> s]
Complete(s, o, shards) ==
    [kind |-> "sweep_complete", sweep |-> s, inactive_shards |-> shards,
     crossed_books |-> {x.market : x \in {y \in Range(o) : y.crossed}},
     tradeable |-> {x.market : x \in {y \in Range(o) : y.active}}]

\* The tables: reference data by key, and the append-only observations, the
\* quotes in the order of their rows.
EmptyFile ==
    [markets |-> [m \in Market |-> NoRow], quotes |-> <<>>, books |-> {}, system |-> {}]

NoTally == [markets |-> 0, quotes |-> 0]

TypeOK ==
    /\ clock \in 0..MaxTime
    /\ db.markets \in [Market -> Observation \union {NoRow}]
    /\ db.quotes \in Seq(QuoteRow)
    /\ db.books \subseteq BookRow
    /\ \A e \in db.system : e.sweep \in Sweep
    /\ wal # <<>> /\ Last(wal) = db
    /\ writer \in Proc \union {NoProc}
    /\ sweeps \in 0..MaxSweeps
    /\ pc \in [Proc -> {"idle", "fetching", "auditing", "writing", "finishing", "booking",
                     "counting", "reporting"}]
    /\ sweep \in [Proc -> 0..MaxSweeps]
    /\ inactive \in [Proc -> SUBSET Shard]
    /\ page \in [Proc -> 0..Len(Pages)]
    /\ obs \in [Proc -> Seq(Observation)]
    /\ wanted \in [Proc -> SUBSET Market]
    /\ \A p \in Proc : done[p] \in 0..Len(obs[p])
    /\ capturedAt \in [Proc -> 0..MaxTime]
    /\ seen \in [Sweep -> Seq(Observation)]
    /\ tally \in [Proc -> [markets : 0..Cardinality(Market), quotes : Nat]]
    /\ overlapped \in BOOLEAN

Init ==
    /\ clock = 0
    /\ db = EmptyFile
    /\ wal = <<EmptyFile>>
    /\ writer = NoProc
    /\ sweeps = 0
    /\ pc = [p \in Proc |-> "idle"]
    /\ sweep = [p \in Proc |-> 0]
    /\ inactive = [p \in Proc |-> {}]
    /\ page = [p \in Proc |-> 0]
    /\ obs = [p \in Proc |-> <<>>]
    /\ done = [p \in Proc |-> 0]
    /\ wanted = [p \in Proc |-> {}]
    /\ capturedAt = [p \in Proc |-> 0]
    /\ tally = [p \in Proc |-> NoTally]
    /\ seen = [s \in Sweep |-> <<>>]
    /\ overlapped = FALSE

--------------------------------------------------------------------------------
(* The store.  A definition nothing uses is a mistake in the one that follows *)
(* it, named for what it gets wrong.                                          *)

CommitTo(file) ==
    /\ db' = file
    /\ wal' = Append(wal, file)

\* One statement outside a transaction: it needs the write lock, and commits.
Autocommit(file) == writer = NoProc /\ CommitTo(file)

RecordSystemEvent(e) == Autocommit([db EXCEPT !.system = @ \union {e}])

RecordOrderbook(row) == Autocommit([db EXCEPT !.books = @ \union {row}])

\* record_quote(), once per observation of the sweep.
NewQuotes(p) ==
    [i \in 1..done[p] |-> [sweep |-> sweep[p], captured_at |-> capturedAt[p], quote |-> obs[p][i]]]
QuotesReplaced(p) ==
    SelectSeq(db.quotes, LAMBDA r : \A i \in 1..done[p] : obs[p][i].market # r.quote.market)
    \o NewQuotes(p)
QuotesWith(p) == db.quotes \o NewQuotes(p)

\* upsert_market(), once per observation of the sweep: the last one wins.
LastOf(q, m) == SelectLastInSeq(q, LAMBDA o : o.market = m)     \* 0: q has none
MarketsInsertedOnly(p) ==
    [m \in Market |->
        LET i == LastOf(obs[p], m) IN
        IF i = 0 \/ db.markets[m] # NoRow THEN db.markets[m] ELSE obs[p][i]]
MarketsWith(p) ==
    [m \in Market |->
        LET i == LastOf(obs[p], m) IN IF i = 0 THEN db.markets[m] ELSE obs[p][i]]

\* What COMMIT makes of the transaction of p.
Persisted(p) == [db EXCEPT !.markets = MarketsWith(p), !.quotes = QuotesWith(p)]

\* quote_history() of a market, short of its limit: oldest first, and rows of one
\* time in the order they were inserted.
RowsAt(q, m, t) ==
    FlattenSeq([i \in DOMAIN q |->
        IF q[i].quote.market = m /\ q[i].captured_at = t THEN <<q[i]>> ELSE <<>>])
QuoteHistoryNewestFirst(file, m) ==
    FlattenSeq([t \in 1..MaxTime + 1 |-> RowsAt(file.quotes, m, MaxTime + 1 - t)])
QuoteHistory(file, m) ==
    FlattenSeq([t \in 1..MaxTime + 1 |-> RowsAt(file.quotes, m, t - 1)])

--------------------------------------------------------------------------------
(* A capture *)

\* The process ends what it was doing and forgets it.
RestInTransaction(p) ==
    /\ pc' = [pc EXCEPT ![p] = "idle"]
    /\ sweep' = [sweep EXCEPT ![p] = 0]
    /\ obs' = [obs EXCEPT ![p] = <<>>]
    /\ UNCHANGED <<inactive, page, done, wanted, capturedAt, tally>>
Rest(p) ==
    /\ pc' = [pc EXCEPT ![p] = "idle"]
    /\ sweep' = [sweep EXCEPT ![p] = 0]
    /\ inactive' = [inactive EXCEPT ![p] = {}]
    /\ page' = [page EXCEPT ![p] = 0]
    /\ obs' = [obs EXCEPT ![p] = <<>>]
    /\ done' = [done EXCEPT ![p] = 0]
    /\ wanted' = [wanted EXCEPT ![p] = {}]
    /\ capturedAt' = [capturedAt EXCEPT ![p] = 0]
    /\ tally' = [tally EXCEPT ![p] = NoTally]

Begin(p) ==
    /\ pc[p] = "idle" /\ sweeps < MaxSweeps
    /\ sweeps' = sweeps + 1
    /\ sweep' = [sweep EXCEPT ![p] = sweeps + 1]
    /\ overlapped' = (overlapped \/ \E q \in Proc : sweep[q] # 0)

\* sweep(), with the answer of check_shards(): any shards may be inactive, and
\* an exchange-wide halt is recorded at once.
CheckShards(p) ==
    /\ Begin(p)
    /\ pc' = [pc EXCEPT ![p] = "fetching"]
    /\ \E shards \in SUBSET Shard : inactive' = [inactive EXCEPT ![p] = shards]
    /\ \/ UNCHANGED fileVars
       \/ RecordSystemEvent(Halt(sweeps + 1))
    /\ UNCHANGED <<clock, writer, page, obs, done, wanted, capturedAt, tally, seen>>

\* get_events() receives its next page, which may list again what an earlier page
\* listed; the last page, or max_pages, ends it.
FetchPage(p) ==
    /\ pc[p] = "fetching"
    /\ page' = [page EXCEPT ![p] = @ + 1]
    /\ \E listed \in Pages[page[p] + 1] : \E look \in [DOMAIN listed -> Looks] :
         LET got == [i \in DOMAIN listed |->
                        [market |-> listed[i], asOf |-> clock,
                         crossed |-> look[i].crossed, active |-> look[i].active]]
         IN /\ obs' = [obs EXCEPT ![p] = @ \o got]
            /\ seen' = [seen EXCEPT ![sweep[p]] = @ \o got]
    /\ \/ pc' = [pc EXCEPT ![p] = "auditing"]
       \/ page[p] + 1 < Len(Pages) /\ UNCHANGED pc
    /\ UNCHANGED <<clock, fileVars, writer, sweeps, sweep, inactive, done, wanted,
                   capturedAt, tally, overlapped>>

\* _audit() of the next market: a crossed book is recorded at once.
AuditUncrossed(p) ==
    /\ pc[p] = "auditing" /\ done[p] < Len(obs[p])
    /\ done' = [done EXCEPT ![p] = @ + 1]
    /\ UNCHANGED <<clock, fileVars, writer, sweeps, pc, sweep, inactive, page, obs, wanted,
                   capturedAt, tally, seen, overlapped>>
Audit(p) ==
    /\ pc[p] = "auditing" /\ done[p] < Len(obs[p])
    /\ done' = [done EXCEPT ![p] = @ + 1]
    /\ LET o == obs[p][done[p] + 1] IN
         IF o.crossed THEN RecordSystemEvent(Violation(sweep[p], o.market))
                      ELSE UNCHANGED fileVars
    /\ UNCHANGED <<clock, writer, sweeps, pc, sweep, inactive, page, obs, wanted,
                   capturedAt, tally, seen, overlapped>>

\* _now(), as record_snapshot_sweep() begins.
TimeOfFirstPage(p) == IF obs[p] = <<>> THEN clock ELSE Head(obs[p]).asOf
TimeOfSweep(p) == clock

\* record_snapshot_sweep(): one timestamp for all the rows, then BEGIN.
BeginTransaction(p) ==
    /\ pc[p] = "auditing" /\ done[p] = Len(obs[p])
    /\ pc' = [pc EXCEPT ![p] = "writing"]
    /\ done' = [done EXCEPT ![p] = 0]
    /\ capturedAt' = [capturedAt EXCEPT ![p] = TimeOfSweep(p)]
    /\ UNCHANGED <<clock, fileVars, writer, sweeps, sweep, inactive, page, obs, wanted,
                   tally, seen, overlapped>>

\* upsert_market() and record_quote() of the next market, in the transaction; the
\* first statement takes the write lock.
WriteThrough(p) ==
    /\ pc[p] = "writing" /\ done[p] < Len(obs[p]) /\ writer \in {p, NoProc}
    /\ writer' = p
    /\ done' = [done EXCEPT ![p] = @ + 1]
    /\ CommitTo([db EXCEPT !.quotes = Append(@,
           [sweep |-> sweep[p], captured_at |-> capturedAt[p], quote |-> obs[p][done'[p]]])])
    /\ UNCHANGED <<clock, sweeps, pc, sweep, inactive, page, obs, wanted, capturedAt, tally,
                   seen, overlapped>>
Write(p) ==
    /\ pc[p] = "writing" /\ done[p] < Len(obs[p]) /\ writer \in {p, NoProc}
    /\ writer' = p
    /\ done' = [done EXCEPT ![p] = @ + 1]
    /\ UNCHANGED <<clock, fileVars, sweeps, pc, sweep, inactive, page, obs, wanted,
                   capturedAt, tally, seen, overlapped>>

\* COMMIT frees the write lock.
WriterKept(p) == writer
WriterFreed(p) == IF writer = p THEN NoProc ELSE writer
CommitStamped(p) ==
    /\ pc[p] = "writing" /\ done[p] = Len(obs[p])
    /\ CommitTo([Persisted(p) EXCEPT !.quotes =
         db.quotes \o [i \in DOMAIN obs[p] |-> [sweep |-> sweep[p], captured_at |-> obs[p][i].asOf,
                                                quote |-> obs[p][i]]]])
    /\ writer' = WriterFreed(p)
    /\ pc' = [pc EXCEPT ![p] = "finishing"]
    /\ UNCHANGED <<clock, sweeps, runVars, seen, overlapped>>
Commit(p) ==
    /\ pc[p] = "writing" /\ done[p] = Len(obs[p])
    /\ CommitTo(Persisted(p))
    /\ writer' = WriterFreed(p)
    /\ pc' = [pc EXCEPT ![p] = "finishing"]
    /\ UNCHANGED <<clock, sweeps, runVars, seen, overlapped>>

\* sweep() records its summary and returns.
FinishUncommitted(p) ==
    /\ pc[p] \in {"writing", "finishing"} /\ writer \in {p, NoProc}
    /\ RecordSystemEvent(Complete(sweep[p], obs[p], inactive[p]))
    /\ Rest(p)
    /\ UNCHANGED <<clock, writer, sweeps, seen, overlapped>>
Finish(p) ==
    /\ pc[p] = "finishing"
    /\ RecordSystemEvent(Complete(sweep[p], obs[p], inactive[p]))
    /\ Rest(p)
    /\ UNCHANGED <<clock, writer, sweeps, seen, overlapped>>

\* capture_books() for a list of tickers ...
StartBooks(p) ==
    /\ Begin(p)
    /\ pc' = [pc EXCEPT ![p] = "booking"]
    /\ \E tickers \in SUBSET Market \ {{}} : wanted' = [wanted EXCEPT ![p] = tickers]
    /\ UNCHANGED <<clock, fileVars, writer, inactive, page, obs, done, capturedAt, tally, seen>>

\* ... fetches one book ...
FetchBook(p) ==
    /\ pc[p] = "booking" /\ obs[p] = <<>>
    /\ \E m \in wanted[p] :
         obs' = [obs EXCEPT ![p] =
                   <<[market |-> m, asOf |-> clock, crossed |-> FALSE, active |-> TRUE]>>]
    /\ UNCHANGED <<clock, fileVars, writer, sweeps, pc, sweep, inactive, page, done, wanted,
                   capturedAt, tally, seen, overlapped>>

\* ... and records it before it asks for the next.
RecordBook(p) ==
    /\ pc[p] = "booking" /\ obs[p] # <<>>
    /\ LET o == Head(obs[p]) IN
         /\ RecordOrderbook([sweep |-> sweep[p], captured_at |-> clock,
                             market |-> o.market, asOf |-> o.asOf])
         /\ IF wanted[p] = {o.market}
            THEN Rest(p)
            ELSE /\ wanted' = [wanted EXCEPT ![p] = @ \ {o.market}]
                 /\ obs' = [obs EXCEPT ![p] = <<>>]
                 /\ UNCHANGED <<pc, sweep, inactive, page, done, capturedAt, tally>>
    /\ UNCHANGED <<clock, writer, sweeps, seen, overlapped>>

\* counts(), for `stats` or `health`, reads the tables one after the other, each
\* of them in the file as it is by then.  (Those left out are counted alike.)
TablesQuotesFirst == <<"quotes", "markets">>
Tables == <<"markets", "quotes">>

Rows(table) ==
    IF table = "markets" THEN Cardinality({m \in Market : db.markets[m] # NoRow})
                         ELSE Len(db.quotes)

CountTable(p, i) ==
    /\ tally' = [tally EXCEPT ![p][Tables[i]] = Rows(Tables[i])]
    /\ UNCHANGED <<clock, fileVars, writer, sweeps, sweep, inactive, page, obs, done, wanted,
                   capturedAt, seen, overlapped>>
StartCounts(p) ==
    /\ pc[p] = "idle"
    /\ pc' = [pc EXCEPT ![p] = "counting"]
    /\ CountTable(p, 1)
EndCounts(p) ==
    /\ pc[p] = "counting"
    /\ pc' = [pc EXCEPT ![p] = "reporting"]
    /\ CountTable(p, 2)

\* The counts are printed.
Report(p) ==
    /\ pc[p] = "reporting"
    /\ Rest(p)
    /\ UNCHANGED <<clock, fileVars, writer, sweeps, seen, overlapped>>

\* The process ends early: a request or a statement raises (SQLite's busy timeout
\* included) and the transaction rolls back, or the process is killed and SQLite
\* discards the transaction it left open.
Abort(p) ==
    /\ pc[p] # "idle"
    /\ writer' = WriterFreed(p)
    /\ Rest(p)
    /\ UNCHANGED <<clock, fileVars, sweeps, seen, overlapped>>

\* The WAL is written back to the database file, and synced.
Checkpoint ==
    /\ wal' = <<db>>
    /\ UNCHANGED <<clock, db, writer, sweeps, pc, runVars, seen, overlapped>>

\* Power fails: every process dies and some suffix of the WAL is lost.
PowerLoss ==
    /\ \E i \in DOMAIN wal : db' = wal[i] /\ wal' = <<wal[i]>>
    /\ writer' = NoProc
    /\ pc' = [p \in Proc |-> "idle"]
    /\ sweep' = [p \in Proc |-> 0]
    /\ inactive' = [p \in Proc |-> {}]
    /\ page' = [p \in Proc |-> 0]
    /\ obs' = [p \in Proc |-> <<>>]
    /\ done' = [p \in Proc |-> 0]
    /\ wanted' = [p \in Proc |-> {}]
    /\ capturedAt' = [p \in Proc |-> 0]
    /\ tally' = [p \in Proc |-> NoTally]
    /\ UNCHANGED <<clock, sweeps, seen, overlapped>>

Tick ==
    /\ clock < MaxTime
    /\ clock' = clock + 1
    /\ UNCHANGED <<fileVars, writer, sweeps, pc, runVars, seen, overlapped>>

--------------------------------------------------------------------------------

Step(p) ==
    \/ FetchPage(p)
    \/ Audit(p)
    \/ BeginTransaction(p)
    \/ Write(p)
    \/ Commit(p)
    \/ Finish(p)
    \/ FetchBook(p)
    \/ RecordBook(p)
    \/ EndCounts(p)
    \/ Report(p)

Next ==
    \/ \E p \in Proc : CheckShards(p)
    \/ \E p \in Proc : StartBooks(p)
    \/ \E p \in Reader : StartCounts(p)
    \/ \E p \in Proc : Step(p)
    \/ \E p \in Proc : Abort(p)
    \/ Checkpoint
    \/ PowerLoss
    \/ Tick

Spec == Init /\ [][Next]_vars

\* Requests end (Client!EveryRequestEnds) and a process keeps running.
FairSpec == Spec /\ \A p \in Proc : WF_vars(Step(p))

--------------------------------------------------------------------------------
(* Properties *)

\* The rows of sweep s in a file, and the file from the first of them to the last.
RowsOf(file, s) == {i \in DOMAIN file.quotes : file.quotes[i].sweep = s}
Slice(file, s) ==
    IF RowsOf(file, s) = {} THEN <<>>
    ELSE SubSeq(file.quotes, Min(RowsOf(file, s)), Max(RowsOf(file, s)))

\* "a crash cannot leave a half-written snapshot sweep" (storage.py:160): in the
\* file, and in whatever a power failure may leave of it, a sweep's quotes are all
\* there, in the order they were listed, as one slice with one timestamp and nothing
\* of another sweep in between, or none is; and a market listed twice is there twice.
SweepAtomic ==
    \A i \in DOMAIN wal : \A s \in Sweep :
        LET rows == Slice(wal[i], s) IN
        rows # <<>> => /\ [k \in DOMAIN rows |-> rows[k].quote] = seen[s]
                       /\ \A k \in DOMAIN rows : /\ rows[k].sweep = s
                                                 /\ rows[k].captured_at = rows[1].captured_at

\* A sweep_complete event vouches for its data: no crash, failure or power loss
\* leaves the event without the quotes and the market rows it counts.
CompleteMeansPersisted ==
    \A i \in DOMAIN wal : \A e \in wal[i].system : e.kind = "sweep_complete" =>
        /\ Range(seen[e.sweep]) = {r.quote : r \in {q \in Range(wal[i].quotes) : q.sweep = e.sweep}}
        /\ \A o \in Range(seen[e.sweep]) : wal[i].markets[o.market] # NoRow

\* No crossed quote reaches the file without the invariant_violation that marks
\* it as a data fault, not even after a power loss between the two.
CrossedIsFlagged ==
    \A i \in DOMAIN wal : \A r \in Range(wal[i].quotes) :
        r.quote.crossed => Violation(r.sweep, r.quote.market) \in wal[i].system

\* Every row is stamped no earlier than what it shows was true: a reader that
\* stops at time t uses nothing that was observed after t (storage.py:10-12).
NoLookahead ==
    /\ \A r \in Range(db.quotes) : r.quote.asOf <= r.captured_at
    /\ \A b \in db.books : b.asOf <= b.captured_at

\* "Latest state per key." (storage.py:38): the markets table is never behind an
\* observation that the same file holds.
LatestStatePerKey ==
    \A r \in Range(db.quotes) :
        LET row == db.markets[r.quote.market] IN row # NoRow /\ r.quote.asOf <= row.asOf

\* As long as captures never overlap, the markets table is the latest state.
LatestStateIfAlone == ~overlapped => LatestStatePerKey

\* Observations are only ever added, after those that are there, except by a power
\* loss.
AppendOnly ==
    [][PowerLoss \/ (/\ IsPrefix(db.quotes, db'.quotes)
                     /\ db.books \subseteq db'.books
                     /\ db.system \subseteq db'.system)]_vars

\* What quote_history() has once answered it does not take back: as long as
\* captures never overlap, no commit inserts a row before one that a reader may
\* have seen, so a replay up to a time sees what was there at that time.
HistoryGrowsIfAlone ==
    [][PowerLoss \/ (~overlapped' => \A m \in Market :
           IsPrefix(QuoteHistory(db, m), QuoteHistory(db', m)))]_vars

\* Whatever order the processes take the write lock in, every capture ends.
EveryCaptureEnds == \A p \in Proc : pc[p] # "idle" ~> pc[p] = "idle"

\* counts() is not one snapshot, but under any capture it never reports a market
\* that has no observation.
ReportCoherent == \A p \in Proc : pc[p] = "reporting" => tally[p].markets <= tally[p].quotes

\* "A market on a paused shard is not tradeable even when the exchange reports
\* itself active" (ingest.py:6-7): none is counted as tradeable.
PausedShardNotTradeable ==
    \A e \in db.system : e.kind = "sweep_complete" =>
        \A m \in e.tradeable : ShardOf[m] \notin e.inactive_shards

\* What is in the file, as Archive sees it.
ArchiveOf(file) ==
    [slice |-> [s \in Sweep |-> Slice(file, s)],
     faults |-> {<<e.sweep, e.market>> : e \in {x \in file.system : x.kind = "invariant_violation"}},
     vouched |-> {e.sweep : e \in {x \in file.system : x.kind = "sweep_complete"}}]

Promise == INSTANCE Archive WITH
    Time <- 0..MaxTime,
    fetched <- seen,
    file <- ArchiveOf(db),
    past <- {ArchiveOf(wal[i]) : i \in DOMAIN wal}

\* The file, over every crash and power loss, is an Archive.
ImplementsArchive == Promise!Spec

================================================================================
