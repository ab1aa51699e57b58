------------------------------ MODULE CommandLine -------------------------------
(***************************************************************************)
(* __main__.py: one run of `python -m kalshi_arb <command>`, from the      *)
(* configuration (ConfigGate) to the exit code, with the listing of        *)
(* Paginate in the middle of `ingest`.  What several processes do to one   *)
(* file is Ingest's subject; here one process runs, and anything it calls  *)
(* may raise.                                                              *)
(*                                                                         *)
(* asyncio.run() answers the first interrupt by cancelling the command at  *)
(* its next await; what runs without one, as all that follows the listing  *)
(* does, runs to its end.  A second interrupt is immediate.                *)
(***************************************************************************)
EXTENDS Paginate, ConfigGate

CONSTANTS
    Environs,       \* the environments the process may find
    Tickers,        \* the arguments of `books`
    NoSettings,     \* load_settings() has not returned
    Running         \* no exit code yet

ASSUME EnvironsAssumption == Environs \subseteq Environ
ASSUME TickersAssumption == Tickers \in Nat \ {0}
ASSUME NoSettingsAssumption == \A e \in Environ : SettingsOf(e) # NoSettings
ASSUME RunningAssumption == Running \notin {0, 1, 2, 130}

VARIABLES
    environ,
    command,
    step,           \* what the process does next
    settings,
    refusalShown,   \* the banner has reported the refusal
    requested,      \* history: some request has been sent
    opened,         \* the store is open, and its file exists
    interrupted,    \* the command has been asked to stop
    inactive,       \* some shard was not trading
    crossed,        \* some book was crossed, and recorded as a fault
    rows,           \* the observations committed
    complete,       \* the sweep_complete event is committed
    books,          \* order books committed
    exit            \* the exit code

storeVars == <<rows, complete, books>>
foundVars == <<inactive, crossed>>
commandVars == <<environ, command, step, settings, refusalShown, requested, opened,
                 interrupted, foundVars, storeVars, exit>>
runVars == <<vars, commandVars>>

Command == {"health", "ingest", "books", "stats"}

CommandTypeOK ==
    /\ TypeOK
    /\ environ \in Environs
    /\ command \in Command
    /\ step \in {"config", "banner", "store", "client", "status", "listing", "auditing",
                 "persisting", "finishing", "closing", "booking", "counting", "over"}
    /\ settings = NoSettings \/ settings = SettingsOf(environ)
    /\ {refusalShown, requested, opened, interrupted, inactive, crossed, complete}
         \subseteq BOOLEAN
    /\ books \in 0..Tickers
    /\ exit \in {Running, 0, 1, 2, 130}
    /\ (step = "over") = (exit # Running)

CommandInit ==
    /\ Init
    /\ environ \in Environs
    /\ command \in Command
    /\ step = "config"
    /\ settings = NoSettings
    /\ refusalShown = FALSE /\ requested = FALSE /\ opened = FALSE /\ interrupted = FALSE
    /\ inactive = FALSE /\ crossed = FALSE
    /\ rows = <<>> /\ complete = FALSE /\ books = 0
    /\ exit = Running

--------------------------------------------------------------------------------

Goto(next) == step' = next /\ UNCHANGED exit

\* The process ends: as it was told to, or with a command that returns a code,
\* unless the command was interrupted.
Exit(code) == step' = "over" /\ exit' = code
Return(code) == Exit(IF interrupted THEN 130 ELSE code)

\* main(): ConfigError is exit code 2, and any other exception a traceback.
LoadSettings ==
    /\ step = "config"
    /\ \/ /\ environ.file = "not YAML"
          /\ Exit(1) /\ UNCHANGED settings
       \/ /\ environ.file # "not YAML" /\ Misconfigured(environ)
          /\ Exit(2) /\ UNCHANGED settings
       \/ /\ environ.file # "not YAML" /\ ~Misconfigured(environ)
          /\ settings' = SettingsOf(environ)
          /\ Goto("banner")
    /\ UNCHANGED <<vars, environ, command, refusalShown, requested, opened, interrupted,
                   foundVars, storeVars>>

\* _banner(), and on to the command: `health` alone begins with the client.
BannerOfHealth ==
    /\ step = "banner"
    /\ refusalShown' = (settings.gate_refusal /\ command = "health")
    /\ Goto(IF command = "health" THEN "client" ELSE "store")
    /\ UNCHANGED <<vars, environ, command, settings, requested, opened, interrupted,
                   foundVars, storeVars>>
Banner ==
    /\ step = "banner"
    /\ refusalShown' = settings.gate_refusal
    /\ Goto(IF command = "health" THEN "client" ELSE "store")
    /\ UNCHANGED <<vars, environ, command, settings, requested, opened, interrupted,
                   foundVars, storeVars>>

\* MarketDataStore(args.database)
OpenStore ==
    /\ step = "store"
    /\ opened' = TRUE
    /\ Goto(IF command \in {"ingest", "books"} THEN "client" ELSE "counting")
    /\ UNCHANGED <<vars, environ, command, settings, refusalShown, requested, interrupted,
                   foundVars, storeVars>>

\* KalshiClient(settings): a tier the limiter does not know raises ValueError.
OpenClient ==
    /\ step = "client"
    /\ IF settings.tier \in Tier
       THEN Goto(IF command = "books" THEN "booking" ELSE "status")
       ELSE Exit(1)
    /\ UNCHANGED <<vars, environ, command, settings, refusalShown, requested, opened,
                   interrupted, foundVars, storeVars>>

\* get_exchange_status(): `health` prints the answer, check_shards() keeps it.
AskStatus ==
    /\ step = "status" /\ ~interrupted
    /\ requested' = TRUE
    /\ \/ command = "health" /\ Goto("store") /\ UNCHANGED inactive
       \/ command = "ingest" /\ Goto("listing") /\ inactive' \in BOOLEAN
    /\ UNCHANGED <<vars, environ, command, settings, refusalShown, opened, interrupted,
                   crossed, storeVars>>

\* get_events(): the pages are gathered before anything is done with them.
ListPageAndPersist ==
    /\ step = "listing" /\ ~interrupted
    /\ ReadPage
    /\ rows' = yielded'
    /\ Goto(IF pc' = "done" THEN "auditing" ELSE "listing")
    /\ UNCHANGED <<environ, command, settings, refusalShown, requested, opened, interrupted,
                   foundVars, complete, books>>
ListPage ==
    /\ step = "listing" /\ ~interrupted
    /\ ReadPage
    /\ Goto(IF pc' = "done" THEN "auditing" ELSE "listing")
    /\ UNCHANGED <<environ, command, settings, refusalShown, requested, opened, interrupted,
                   foundVars, storeVars>>

\* _audit(), of what was listed.
Audit ==
    /\ step = "auditing"
    /\ crossed' \in IF yielded = <<>> THEN {FALSE} ELSE BOOLEAN
    /\ Goto("persisting")
    /\ UNCHANGED <<vars, environ, command, settings, refusalShown, requested, opened,
                   interrupted, inactive, storeVars>>

\* record_snapshot_sweep()
Persist ==
    /\ step = "persisting"
    /\ rows' = yielded
    /\ Goto("finishing")
    /\ UNCHANGED <<vars, environ, command, settings, refusalShown, requested, opened,
                   interrupted, foundVars, complete, books>>

\* The sweep_complete event.
FinishSweep ==
    /\ step = "finishing"
    /\ complete' = TRUE
    /\ Goto("closing")
    /\ UNCHANGED <<vars, environ, command, settings, refusalShown, requested, opened,
                   interrupted, foundVars, rows, books>>

\* The client is closed, the summary printed; the exit code of a sweep is is_healthy.
HealthyBooks == ~crossed
Healthy == ~crossed /\ ~inactive
Close ==
    /\ step = "closing"
    /\ Return(IF command = "books" \/ Healthy THEN 0 ELSE 1)
    /\ UNCHANGED <<vars, environ, command, settings, refusalShown, requested, opened,
                   interrupted, foundVars, storeVars>>

\* capture_books(): one book more.
CaptureBookForEver ==
    /\ step = "booking" /\ ~interrupted
    /\ requested' = TRUE
    /\ UNCHANGED <<vars, environ, command, step, settings, refusalShown, opened, interrupted,
                   foundVars, storeVars, exit>>
CaptureBook ==
    /\ step = "booking" /\ ~interrupted
    /\ requested' = TRUE
    /\ books' = books + 1
    /\ Goto(IF books + 1 = Tickers THEN "closing" ELSE "booking")
    /\ UNCHANGED <<vars, environ, command, settings, refusalShown, opened, interrupted,
                   foundVars, rows, complete>>

\* counts()
Count ==
    /\ step = "counting"
    /\ Return(0)
    /\ UNCHANGED <<vars, environ, command, settings, refusalShown, requested, opened,
                   interrupted, foundVars, storeVars>>

\* A request, a payload or a statement raises: nothing catches it, the
\* transaction rolls back, and the traceback's exit code is 1.
Raise ==
    /\ step \in {"store", "client", "status", "listing", "auditing", "persisting", "finishing",
                 "closing", "booking", "counting"}
    /\ requested' = (requested \/ step \in {"status", "listing", "booking"})
    /\ Exit(1)
    /\ IF step = "listing" THEN Fail ELSE UNCHANGED vars
    /\ UNCHANGED <<environ, command, settings, refusalShown, opened, interrupted,
                   foundVars, storeVars>>

\* The first interrupt asks the command to stop; a second one stops it.
Interrupt ==
    /\ step \notin {"config", "banner", "over"}
    /\ interrupted' = TRUE
    /\ \/ ~interrupted /\ UNCHANGED <<step, exit>>
       \/ interrupted /\ Exit(130)
    /\ UNCHANGED <<vars, environ, command, settings, refusalShown, requested, opened,
                   foundVars, storeVars>>

\* The command stops where it awaits: a request, or the client's aclose().
Cancelled ==
    /\ interrupted
    /\ \/ step \in {"status", "listing", "booking", "closing"}
       \/ command = "health" /\ step = "store"
    /\ Exit(130)
    /\ UNCHANGED <<vars, environ, command, settings, refusalShown, requested, opened,
                   interrupted, foundVars, storeVars>>

Progress ==
    \/ LoadSettings \/ Banner \/ OpenStore \/ OpenClient
    \/ AskStatus \/ ListPage \/ Audit \/ Persist \/ FinishSweep \/ Close
    \/ CaptureBook \/ Count
    \/ Cancelled

CommandNext == Progress \/ Raise \/ Interrupt

\* Requests end (Client!EveryRequestEnds), and the process goes on.
CommandSpec == CommandInit /\ [][CommandNext]_runVars /\ WF_runVars(Progress)

--------------------------------------------------------------------------------
(* Properties *)

\* The gate fails closed: settings are live only if the mode, the flag and the
\* environment all say so, and then they are; short of that the mode is the one
\* asked for or paper, and a refusal is on record (config.py:3-6, 167-173).
GateFailsClosed ==
    settings # NoSettings =>
        /\ settings.mode = "live" <=>
             /\ environ.mode = "live"
             /\ environ.enable = "true"
             /\ environ.environment = "production"
        /\ settings.mode \in {environ.mode, "paper"}
        /\ environ.mode = "live" => settings.mode = "live" \/ settings.gate_refusal

\* Nothing is requested and no file is touched before the configuration has been
\* accepted and a refused request for live trading has been reported
\* (__main__.py:8-9), so never on exit code 2.
GateBeforeAction ==
    requested \/ opened =>
        /\ settings # NoSettings /\ exit # 2
        /\ settings.gate_refusal => refusalShown

\* Exit code 0 of `ingest` says that the whole listing is in the file, complete
\* and found healthy: a fault, a shard not trading, an exception at any step and
\* an interrupt at any await all show in the exit code ("Exits non-zero if a
\* data-quality fault is found", README.md).
ExitTellsOutcome ==
    command = "ingest" /\ exit = 0 =>
        complete /\ rows = yielded /\ pc = "done" /\ ~crossed /\ ~inactive

\* The items of the first n pages.
FirstPages(n) == FlattenSeq(SubSeq(Listing, 1, n))

\* A listing that breaks off leaves no rows, and a finished one all of them: the
\* file has what the honest exchange lists, every item once and in order up to
\* max_pages, or nothing.
WholeListingOrNothing ==
    (complete \/ rows # <<>>) /\ server # "hostile" =>
        rows = FirstPages(IF maxPages \in 1..Len(Listing) THEN maxPages ELSE Len(Listing))

\* A listing no limit ends, of an exchange that always has one page more and a new
\* cursor to it, and nobody interrupts it.
ListsForEver ==
    step = "listing" /\ cursor \in Fresh /\ maxPages = 0 /\ ~interrupted

\* Every command ends, under any limit, whatever cursors come back, and at an
\* interrupt at any time.  The loop of paginate() has no bound of its own
\* (client.py:192), so one thing can keep a command running: an unlimited listing
\* in which every page has items and a cursor never seen before.
EveryCommandEnds == <>(exit # Running) \/ <>[]ListsForEver

================================================================================
