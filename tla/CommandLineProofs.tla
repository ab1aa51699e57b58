--------------------------- MODULE CommandLineProofs ----------------------------
(* Theorems about CommandLine, for any listing, cursors, page limits, tickers  *)
(* and environments.                                                            *)
EXTENDS CommandLine, FoldLemmas

\* The steps that leave the listing alone.
LEMMA ListingSteps ==
  [CommandNext]_runVars => ReadPage \/ Fail \/ UNCHANGED vars
  BY DEF CommandNext, Progress, LoadSettings, Banner, OpenStore, OpenClient, AskStatus,
         ListPage, Audit, Persist, FinishSweep, Close, CaptureBook, Count, Cancelled,
         Raise, Interrupt, runVars

--------------------------------------------------------------------------------
(* No cursor is sent twice *)

\* Every cursor that was sent, but for fresh ones, is a cursor seen before, or none;
\* and the one in hand, as long as the listing goes on, has not been sent.
CursorInv ==
    /\ asked \in Seq(seen \union {NoCursor})
    /\ cursor \in seen \union {NoCursor} \union Fresh
    /\ IsInjective(asked)
    /\ pc = "reading" => \A i \in DOMAIN asked : asked[i] # cursor

LEMMA AskedOnce ==
  ASSUME CursorInv, pc = "reading", Ask
  PROVE  asked' \in Seq(seen \union {NoCursor}) /\ IsInjective(asked')
  <1>1. /\ asked \in Seq(seen \union {NoCursor}) /\ cursor \in seen \union {NoCursor} \union Fresh
        /\ IsInjective(asked) /\ \A i \in DOMAIN asked : asked[i] # cursor
    BY DEF CursorInv
  <1>2. CASE cursor \in Fresh
    BY <1>1, <1>2 DEF Ask
  <1>3. CASE cursor \notin Fresh
    <2>1. asked' = Append(asked, cursor)
      BY <1>3 DEF Ask
    <2>2. IsInjective(Append(asked, cursor))
      BY <1>1 DEF IsInjective
    <2> QED BY <1>1, <1>3, <2>1, <2>2
  <1> QED BY <1>2, <1>3

LEMMA CursorInit == CommandInit => CursorInv
  BY DEF CommandInit, Init, CursorInv, IsInjective

LEMMA ReadPageKeepsCursors == CursorInv /\ ReadPage => CursorInv'
  <1> SUFFICES ASSUME CursorInv, ReadPage PROVE CursorInv'
    OBVIOUS
  <1>1. asked' \in Seq(seen \union {NoCursor}) /\ IsInjective(asked')
    BY AskedOnce DEF ReadPage
  <1>2. CASE pc' = "done" /\ UNCHANGED <<cursor, seen>>
    BY <1>1, <1>2 DEF CursorInv
  <1>3. ASSUME NEW answer \in Answers, ~NothingMore(answer),
               seen' = seen \union ({answer.cursor} \ Fresh), cursor' = answer.cursor
        PROVE  CursorInv'
    <2>1. cursor' \notin seen \union {NoCursor}
      BY <1>3 DEF NothingMore
    <2>2. \A i \in DOMAIN asked' : asked'[i] \in seen \union {NoCursor}
      BY <1>1
    <2>3. asked' \in Seq(seen' \union {NoCursor})
      BY <1>1, <1>3, SeqMonotonic
    <2>4. cursor' \in seen' \union {NoCursor} \union Fresh
      BY <1>3
    <2> QED BY <1>1, <2>1, <2>2, <2>3, <2>4 DEF CursorInv
  <1> QED BY <1>2, <1>3 DEF ReadPage

LEMMA CursorStep == CursorInv /\ [CommandNext]_runVars => CursorInv'
  <1> SUFFICES ASSUME CursorInv, [CommandNext]_runVars PROVE CursorInv'
    OBVIOUS
  <1>1. CASE Fail
    BY <1>1, AskedOnce DEF Fail, CursorInv
  <1>2. CASE UNCHANGED vars
    BY <1>2 DEF vars, CursorInv
  <1> QED BY <1>1, <1>2, ListingSteps, ReadPageKeepsCursors

\* Whatever cursors the server sends, no page is asked for twice.
THEOREM CursorsAreSentOnce == CommandSpec => []NoCursorTwice
  <1>1. CursorInv => NoCursorTwice
    BY DEF CursorInv, NoCursorTwice
  <1> QED BY <1>1, CursorInit, CursorStep, PTL DEF CommandSpec

--------------------------------------------------------------------------------
(* The gate *)

\* What the process has made of its environment, and how far that lets it go.
GateInv ==
    /\ environ \in Environ
    /\ \/ settings = NoSettings
       \/ settings = SettingsOf(environ) /\ ~Misconfigured(environ)
    /\ step = "config" => ~requested /\ ~opened
    /\ step = "banner" => ~requested /\ ~opened /\ settings # NoSettings
    /\ step \notin {"config", "banner", "over"} =>
         settings # NoSettings /\ (settings.gate_refusal => refusalShown)
    /\ step # "over" => exit = Running
    /\ GateBeforeAction

LEMMA GateInit == CommandInit => GateInv
  <1> SUFFICES ASSUME CommandInit PROVE GateInv
    OBVIOUS
  <1>1. environ \in Environ
    BY EnvironsAssumption DEF CommandInit
  <1>2. step = "config" /\ settings = NoSettings /\ exit = Running
    BY DEF CommandInit
  <1>3. ~requested /\ ~opened
    BY Zenon DEF CommandInit
  <1>4. GateBeforeAction
    BY <1>3, Zenon DEF GateBeforeAction
  <1> QED BY <1>1, <1>2, <1>3, <1>4 DEF GateInv

LEMMA LoadKeepsGate == GateInv /\ LoadSettings => GateInv'
  <1> SUFFICES ASSUME GateInv, LoadSettings PROVE GateInv'
    OBVIOUS
  <1>1. /\ environ' = environ /\ environ \in Environ
        /\ ~requested /\ ~opened /\ exit = Running
        /\ \/ settings = NoSettings
           \/ settings = SettingsOf(environ) /\ ~Misconfigured(environ)
    BY DEF GateInv, LoadSettings
  <1>2. ~requested' /\ ~opened'
    BY <1>1, Zenon DEF LoadSettings
  <1>3. GateBeforeAction'
    BY <1>2, Zenon DEF GateBeforeAction
  <1>4. CASE step' = "over" /\ settings' = settings
    BY <1>1, <1>2, <1>3, <1>4 DEF GateInv
  <1>5. CASE /\ step' = "banner" /\ exit' = exit
             /\ settings' = SettingsOf(environ) /\ ~Misconfigured(environ)
    <2>1. settings' # NoSettings
      BY <1>1, <1>5, NoSettingsAssumption
    <2>2. Misconfigured(environ)' <=> Misconfigured(environ)
      BY <1>1
    <2>3. SettingsOf(environ)' = SettingsOf(environ)
      BY <1>1
    <2> QED BY <1>1, <1>2, <1>3, <1>5, <2>1, <2>2, <2>3 DEF GateInv
  <1> QED BY <1>4, <1>5 DEF LoadSettings, Exit, Goto

LEMMA BannerKeepsGate == GateInv /\ Banner => GateInv'
  BY DEF GateInv, GateBeforeAction, Banner, Goto

\* Past the banner, the settings stay and no step goes back.
LEMMA LaterStepKeepsGate ==
  ASSUME GateInv,
         step \notin {"config", "banner", "over"},
         step' \notin {"config", "banner"},
         step' # "over" => exit' = exit,
         exit' # 2,
         UNCHANGED <<environ, settings, refusalShown>>
  PROVE  GateInv'
  BY DEF GateInv, GateBeforeAction

LEMMA GateStep == GateInv /\ [CommandNext]_runVars => GateInv'
  <1> SUFFICES ASSUME GateInv, [CommandNext]_runVars PROVE GateInv'
    OBVIOUS
  <1>0. step # "over" => exit = Running
    BY DEF GateInv
  <1> USE RunningAssumption, LaterStepKeepsGate DEF Goto, Exit, Return
  <1>1. CASE LoadSettings
    BY <1>1, LoadKeepsGate
  <1>2. CASE Banner
    BY <1>2, BannerKeepsGate
  <1>3. CASE OpenStore
    BY <1>0, <1>3 DEF OpenStore
  <1>4. CASE OpenClient
    BY <1>0, <1>4 DEF OpenClient
  <1>5. CASE AskStatus
    BY <1>0, <1>5 DEF AskStatus
  <1>6. CASE ListPage
    BY <1>0, <1>6 DEF ListPage
  <1>7. CASE Audit
    BY <1>0, <1>7 DEF Audit
  <1>8. CASE Persist
    BY <1>0, <1>8 DEF Persist
  <1>9. CASE FinishSweep
    BY <1>0, <1>9 DEF FinishSweep
  <1>10. CASE Close
    BY <1>0, <1>10 DEF Close
  <1>11. CASE CaptureBook
    BY <1>0, <1>11 DEF CaptureBook
  <1>12. CASE Count
    BY <1>0, <1>12 DEF Count
  <1>13. CASE Cancelled
    BY <1>0, <1>13 DEF Cancelled
  <1>14. CASE Raise
    BY <1>0, <1>14 DEF Raise
  <1>15. CASE Interrupt
    BY <1>0, <1>15 DEF Interrupt
  <1>16. CASE UNCHANGED runVars
    BY <1>16 DEF runVars, commandVars, GateInv, GateBeforeAction
  <1> QED
    BY <1>1, <1>2, <1>3, <1>4, <1>5, <1>6, <1>7, <1>8, <1>9, <1>10, <1>11, <1>12, <1>13,
       <1>14, <1>15, <1>16 DEF CommandNext, Progress

LEMMA GateInvariant == CommandSpec => []GateInv
  <1> QED BY GateInit, GateStep, PTL DEF CommandSpec

\* Settings are live only if mode, flag and environment all say so; whatever else is
\* found, the mode is the one asked for or paper, and a refusal is on record.
THEOREM TheGateFailsClosed == CommandSpec => []GateFailsClosed
  <1>1. ASSUME GateInv, settings # NoSettings
        PROVE  GateFailsClosed
    <2>1. environ \in Environ /\ ~Misconfigured(environ)
      BY <1>1 DEF GateInv
    <2>2. /\ settings.mode = EffectiveMode(environ)
          /\ settings.gate_refusal = Refused(environ)
      BY <1>1 DEF GateInv, SettingsOf
    <2>3. EffectiveMode(environ) = "live" <=>
            environ.mode = "live" /\ environ.enable = "true" /\ environ.environment = "production"
      BY <2>1 DEF Misconfigured, LiveOnDemo, EffectiveMode, Refused, Enabled, Requested,
                  EnvironmentOf, OrDefault, Environ, TradingMode, Environment
    <2>4. EffectiveMode(environ) \in {environ.mode, "paper"}
      BY DEF EffectiveMode, Requested, OrDefault
    <2>5. environ.mode = "live" => EffectiveMode(environ) = "live" \/ Refused(environ)
      BY DEF EffectiveMode, Requested, OrDefault
    <2>6. environ.mode = "live" => settings.mode = "live" \/ settings.gate_refusal
      BY <2>2, <2>5, Zenon
    <2> QED BY <2>2, <2>3, <2>4, <2>6 DEF GateFailsClosed
  <1>2. GateInv => GateFailsClosed
    BY <1>1 DEF GateFailsClosed
  <1> QED BY <1>2, GateInvariant, PTL

\* Nothing is requested and no file touched before the configuration is accepted and
\* a refusal reported, so never on exit code 2.
THEOREM TheGateComesFirst == CommandSpec => []GateBeforeAction
  <1>1. GateInv => GateBeforeAction
    BY DEF GateInv
  <1> QED BY <1>1, GateInvariant, PTL

--------------------------------------------------------------------------------
(* The exit code *)

\* What has been done when a step is reached, and which command reaches it.
OutcomeInv ==
    /\ step \in {"listing", "auditing", "persisting", "finishing"} => command = "ingest"
    /\ step = "booking" => command = "books"
    /\ step = "counting" => command # "ingest"
    /\ step \in {"auditing", "persisting", "finishing"} => pc = "done"
    /\ step = "finishing" => rows = yielded
    /\ step = "closing" => command = "books" \/ (pc = "done" /\ rows = yielded /\ complete = TRUE)
    /\ step # "over" => exit = Running
    /\ ExitTellsOutcome

LEMMA OutcomeInit == CommandInit => OutcomeInv
  BY RunningAssumption DEF CommandInit, OutcomeInv, ExitTellsOutcome

\* A step that ends the process otherwise than with 0 has nothing to show.
LEMMA FailedExit ==
  ASSUME step' = "over", exit' # 0
  PROVE  OutcomeInv'
  BY DEF OutcomeInv, ExitTellsOutcome

\* A step that goes on has to reach its next step with what is expected there.
LEMMA NextStep ==
  ASSUME step' # "over", exit' = Running,
         step' \in {"listing", "auditing", "persisting", "finishing"} => command' = "ingest",
         step' = "booking" => command' = "books",
         step' = "counting" => command' # "ingest",
         step' \in {"auditing", "persisting", "finishing"} => pc' = "done",
         step' = "finishing" => rows' = yielded',
         step' = "closing" =>
           command' = "books" \/ (pc' = "done" /\ rows' = yielded' /\ complete' = TRUE)
  PROVE  OutcomeInv'
  BY RunningAssumption DEF OutcomeInv, ExitTellsOutcome

LEMMA Unchanged ==
  ASSUME OutcomeInv, UNCHANGED <<step, exit>>,
         UNCHANGED <<command, pc, yielded, rows, complete, crossed, inactive>>
  PROVE  OutcomeInv'
  <1>1. ExitTellsOutcome'
    BY Zenon DEF OutcomeInv, ExitTellsOutcome
  <1> QED BY <1>1 DEF OutcomeInv

LEMMA OutcomeStep == OutcomeInv /\ [CommandNext]_runVars => OutcomeInv'
  <1> SUFFICES ASSUME OutcomeInv, [CommandNext]_runVars PROVE OutcomeInv'
    OBVIOUS
  <1>0. step # "over" => exit = Running
    BY DEF OutcomeInv
  <1> USE DEF Goto, Exit
  <1>1. CASE LoadSettings
    <2>1. CASE step' = "over" /\ exit' \in {1, 2}
      BY <2>1, FailedExit
    <2>2. CASE exit' = Running /\ step' = "banner"
      BY <2>2, NextStep
    <2> QED BY <1>0, <1>1, <2>1, <2>2 DEF LoadSettings
  <1>2. CASE Banner
    BY <1>0, <1>2, NextStep DEF Banner
  <1>3. CASE OpenStore
    <2>1. /\ exit' = Running /\ command' = command
          /\ \/ step' = "client"
             \/ step' = "counting" /\ command # "ingest"
      BY <1>0, <1>3 DEF OpenStore
    <2> QED BY <2>1, NextStep
  <1>4. CASE OpenClient
    <2>1. CASE step' = "over" /\ exit' = 1
      BY <2>1, FailedExit
    <2>2. CASE /\ exit' = Running /\ command' = command
               /\ step' = "status" \/ (step' = "booking" /\ command = "books")
      BY <2>2, NextStep
    <2> QED BY <1>0, <1>4, <2>1, <2>2 DEF OpenClient
  <1>5. CASE AskStatus
    BY <1>0, <1>5, NextStep DEF AskStatus
  <1>6. CASE ListPage
    <2>1. command = "ingest" /\ command' = command
      BY <1>6 DEF ListPage, OutcomeInv
    <2> QED BY <1>0, <1>6, <2>1, NextStep DEF ListPage
  <1>7. CASE Audit
    <2>1. command = "ingest" /\ pc = "done" /\ command' = command /\ pc' = pc
      BY <1>7 DEF Audit, OutcomeInv, vars
    <2> QED BY <1>0, <1>7, <2>1, NextStep DEF Audit
  <1>8. CASE Persist
    <2>1. command = "ingest" /\ pc = "done" /\ command' = command /\ pc' = pc
      BY <1>8 DEF Persist, OutcomeInv, vars
    <2>2. rows' = yielded'
      BY <1>8 DEF Persist, vars
    <2> QED BY <1>0, <1>8, <2>1, <2>2, NextStep DEF Persist
  <1>9. CASE FinishSweep
    <2>1. /\ command = "ingest" /\ pc = "done" /\ rows = yielded
          /\ UNCHANGED <<command, pc, rows, yielded>>
      BY <1>9 DEF FinishSweep, OutcomeInv, vars
    <2> QED BY <1>0, <1>9, <2>1, NextStep DEF FinishSweep
  <1>10. CASE Close
    <2>1. /\ command = "books" \/ (pc = "done" /\ rows = yielded /\ complete = TRUE)
          /\ UNCHANGED <<command, pc, rows, yielded, complete, crossed, inactive>>
      BY <1>10 DEF Close, OutcomeInv, vars, foundVars, storeVars
    <2>2. step' = "over" /\ (exit' = 0 => command = "books" \/ Healthy)
      BY <1>10 DEF Close, Return
    <2>3. ExitTellsOutcome'
      <3>1. command # "books" /\ exit' = 0 => ~crossed' /\ ~inactive'
        BY <2>1, <2>2, Zenon DEF Healthy
      <3> QED BY <2>1, <3>1 DEF ExitTellsOutcome
    <2> QED BY <2>2, <2>3 DEF OutcomeInv
  <1>11. CASE CaptureBook
    <2>1. command = "books" /\ command' = command
      BY <1>11 DEF CaptureBook, OutcomeInv
    <2>2. exit' = Running /\ step' \in {"closing", "booking"}
      BY <1>0, <1>11 DEF CaptureBook
    <2> QED BY <2>1, <2>2, NextStep
  <1>12. CASE Count
    <2>1. command' # "ingest" /\ step' = "over"
      BY <1>12 DEF Count, Return, OutcomeInv
    <2> QED BY <2>1 DEF OutcomeInv, ExitTellsOutcome
  <1>13. CASE Cancelled
    BY <1>13, FailedExit DEF Cancelled
  <1>14. CASE Raise
    BY <1>14, FailedExit DEF Raise
  <1>15. CASE Interrupt
    <2>1. CASE step' = "over" /\ exit' = 130
      BY <2>1, FailedExit
    <2>2. CASE UNCHANGED <<step, exit>>
      <3>1. UNCHANGED <<command, pc, yielded, rows, complete, crossed, inactive>>
        BY <1>15 DEF Interrupt, vars, foundVars, storeVars
      <3> QED BY <2>2, <3>1, Unchanged
    <2> QED BY <1>15, <2>1, <2>2 DEF Interrupt
  <1>16. CASE UNCHANGED runVars
    <2>1. /\ UNCHANGED <<step, exit>>
          /\ UNCHANGED <<command, pc, yielded, rows, complete, crossed, inactive>>
      BY <1>16 DEF runVars, commandVars, vars, foundVars, storeVars
    <2> QED BY <2>1, Unchanged
  <1> QED
    BY <1>1, <1>2, <1>3, <1>4, <1>5, <1>6, <1>7, <1>8, <1>9, <1>10, <1>11, <1>12, <1>13,
       <1>14, <1>15, <1>16 DEF CommandNext, Progress

\* Exit code 0 of `ingest` says that all that was listed is in the file, complete and
\* found healthy, whatever failed and whenever the process was interrupted.
THEOREM ZeroMeansSuccess == CommandSpec => []ExitTellsOutcome
  <1>1. OutcomeInv => ExitTellsOutcome
    BY DEF OutcomeInv
  <1> QED BY <1>1, OutcomeInit, OutcomeStep, PTL DEF CommandSpec

--------------------------------------------------------------------------------
(* Types, and the length of a listing *)

\* The answers of a server, whichever it is, lead to pages the model knows.
LEMMA AnswersTyped ==
  ASSUME cursor \in Cursor \union Fresh \union {NoCursor},
         server # "hostile" => cursor \notin Fresh,
         NEW answer \in Answers
  PROVE  /\ answer.cursor \in Cursor \union Fresh \union {NoCursor}
         /\ server # "hostile" => answer.cursor \notin Fresh
  <1>1. CASE server = "hostile"
    BY <1>1 DEF Answers
  <1>2. CASE server # "hostile"
    <2>1. PICK last : answer = Honest(last)
      BY <1>2 DEF Answers
    <2>0. cursor \in Nat
      BY <1>2, CursorAssumption DEF NoCursor
    <2>2. CASE cursor >= Len(Listing)
      <3>1. answer.cursor = NoCursor
        BY <2>1, <2>2 DEF Honest
      <3> QED BY <3>1, FreshAssumption DEF NoCursor
    <2>3. CASE ~(cursor >= Len(Listing))
      <3>1. answer.cursor \in {cursor + 1, NoCursor}
        BY <2>1, <2>3 DEF Honest
      <3>2. Len(Listing) \in Nat /\ DOMAIN Listing = 1..Len(Listing)
        BY ListingAssumption
      <3>4. cursor + 1 \in 1..Len(Listing)
        BY <2>0, <2>3, <3>2
      <3>5. cursor + 1 \in Nat /\ NoCursor \in Nat
        BY <2>0 DEF NoCursor
      <3> QED BY <3>1, <3>2, <3>4, <3>5, CursorAssumption, FreshAssumption
    <2> QED BY <2>2, <2>3
  <1> QED BY <1>1, <1>2

\* As long as the listing goes on, its limit has not been reached; and no cursor of an
\* honest server is a fresh one.
PagesInv ==
    /\ TypeOK
    /\ pc = "reading" /\ maxPages # 0 => pages < maxPages
    /\ server # "hostile" => cursor \notin Fresh

LEMMA PagesInit == Init => PagesInv
  <1> SUFFICES ASSUME Init PROVE PagesInv
    OBVIOUS
  <1>1. maxPages \in Nat
    BY PageLimitsAssumption DEF Init
  <1>2. NoCursor \notin Fresh
    BY FreshAssumption DEF NoCursor
  <1> QED BY <1>1, <1>2 DEF Init, PagesInv, TypeOK

\* What was asked stays a sequence of cursors.
LEMMA AskTyped ==
  ASSUME TypeOK, Ask
  PROVE  asked' \in Seq(Cursor \union {NoCursor})
  <1>1. asked \in Seq(Cursor \union {NoCursor}) /\ cursor \in Cursor \union Fresh \union {NoCursor}
    BY DEF TypeOK
  <1>2. CASE cursor \in Fresh
    BY <1>1, <1>2 DEF Ask
  <1>3. CASE cursor \notin Fresh
    BY <1>1, <1>3 DEF Ask
  <1> QED BY <1>2, <1>3

LEMMA ReadPageKeepsPages ==
  ASSUME PagesInv, ReadPage
  PROVE  PagesInv'
  <1>1. /\ TypeOK /\ pc = "reading" /\ maxPages \in Nat /\ pages \in 0..maxPages
        /\ maxPages # 0 => pages < maxPages
        /\ server' = server /\ maxPages' = maxPages
        /\ pages' = IF maxPages = 0 THEN 0 ELSE pages + 1
    BY PageLimitsAssumption DEF PagesInv, TypeOK, ReadPage
  <1>2. pages' \in 0..maxPages'
    BY <1>1
  <1>3. asked' \in Seq(Cursor \union {NoCursor})
    BY <1>1, AskTyped DEF ReadPage
  <1>4. CASE pc' = "done" /\ UNCHANGED <<cursor, seen>>
    BY <1>1, <1>2, <1>3, <1>4 DEF PagesInv, TypeOK
  <1>5. ASSUME NEW answer \in Answers, ~LimitReached, pc' = pc, ~NothingMore(answer),
               seen' = seen \union ({answer.cursor} \ Fresh), cursor' = answer.cursor
        PROVE  PagesInv'
    <2>1. /\ answer.cursor \in Cursor \union Fresh
          /\ server # "hostile" => answer.cursor \notin Fresh
      BY <1>1, <1>5, AnswersTyped DEF PagesInv, TypeOK, NothingMore
    <2>2. seen' \subseteq Cursor
      BY <1>1, <1>5, <2>1 DEF TypeOK
    <2>3. maxPages' # 0 => pages' < maxPages'
      BY <1>1, <1>5 DEF LimitReached
    <2> QED BY <1>1, <1>2, <1>3, <1>5, <2>1, <2>2, <2>3 DEF PagesInv, TypeOK
  <1> QED BY <1>4, <1>5 DEF ReadPage

LEMMA PagesStep ==
  ASSUME PagesInv, ReadPage \/ Fail \/ UNCHANGED vars
  PROVE  PagesInv'
  <1>1. CASE Fail
    <2>1. /\ pc = "reading" /\ pc' = "failed"
          /\ UNCHANGED <<server, maxPages, cursor, seen, pages, yielded>>
      BY <1>1 DEF Fail
    <2>2. asked' \in Seq(Cursor \union {NoCursor})
      BY <1>1, AskTyped DEF Fail, PagesInv
    <2> QED BY <2>1, <2>2 DEF PagesInv, TypeOK
  <1>2. CASE UNCHANGED vars
    BY <1>2 DEF PagesInv, TypeOK, vars
  <1> QED BY <1>1, <1>2, ReadPageKeepsPages

\* What the command itself keeps, numbers and codes.
StepInv ==
    /\ environ \in Environs
    /\ command \in Command
    /\ step \in {"config", "banner", "store", "client", "status", "listing", "auditing",
                 "persisting", "finishing", "closing", "booking", "counting", "over"}
    /\ settings = NoSettings \/ settings = SettingsOf(environ)
    /\ books \in 0..Tickers
    /\ step \notin {"closing", "over"} => books < Tickers
    /\ exit \in {Running, 0, 1, 2, 130}
    /\ step = "over" <=> exit # Running

\* And its flags.
FlagInv ==
    /\ refusalShown \in BOOLEAN /\ requested \in BOOLEAN /\ opened \in BOOLEAN
    /\ interrupted \in BOOLEAN /\ inactive \in BOOLEAN /\ crossed \in BOOLEAN
    /\ complete \in BOOLEAN

LEMMA StepInit == CommandInit => StepInv
  BY TickersAssumption, RunningAssumption DEF CommandInit, StepInv, Command

LEMMA StepStep == StepInv /\ [CommandNext]_runVars => StepInv'
  <1> SUFFICES ASSUME StepInv, [CommandNext]_runVars PROVE StepInv'
    OBVIOUS
  <1> USE TickersAssumption, RunningAssumption DEF StepInv, Goto, Exit, Return, storeVars
  <1>1. CASE LoadSettings
    <2>1. /\ environ' = environ /\ command' = command /\ books' = books
          /\ \/ step' = "over" /\ exit' \in {1, 2} /\ settings' = settings
             \/ step' = "banner" /\ exit' = exit /\ settings' = SettingsOf(environ)
      BY <1>1 DEF LoadSettings
    <2>2. SettingsOf(environ)' = SettingsOf(environ)
      BY <2>1
    <2>3. step = "config"
      BY <1>1 DEF LoadSettings
    <2>4. books' < Tickers
      BY <2>1, <2>3
    <2> QED BY <2>1, <2>2, <2>3, <2>4
  <1>2. ASSUME UNCHANGED <<environ, command, settings>>, step # "over",
               books' \in 0..Tickers,
               \/ /\ step' \in {"store", "client", "status", "listing", "auditing",
                                "persisting", "finishing", "closing", "booking", "counting"}
                  /\ exit' = exit /\ (step' # "closing" => books' < Tickers)
               \/ step' = "over" /\ exit' \in {0, 1, 130}
        PROVE  StepInv'
    <2>1. settings' = NoSettings \/ settings' = SettingsOf(environ)'
      BY <1>2
    <2> QED BY <1>2, <2>1
  <1>3. CASE Banner
    BY <1>2, <1>3 DEF Banner
  <1>4. CASE OpenStore
    BY <1>2, <1>4 DEF OpenStore
  <1>5. CASE OpenClient
    BY <1>2, <1>5 DEF OpenClient
  <1>6. CASE AskStatus
    BY <1>2, <1>6 DEF AskStatus
  <1>7. CASE ListPage
    BY <1>2, <1>7 DEF ListPage
  <1>8. CASE Audit
    BY <1>2, <1>8 DEF Audit
  <1>9. CASE Persist
    BY <1>2, <1>9 DEF Persist
  <1>10. CASE FinishSweep
    BY <1>2, <1>10 DEF FinishSweep
  <1>11. CASE Close
    BY <1>2, <1>11 DEF Close
  <1>12. CASE CaptureBook
    BY <1>2, <1>12 DEF CaptureBook
  <1>13. CASE Count
    BY <1>2, <1>13 DEF Count
  <1>14. CASE Cancelled
    BY <1>2, <1>14 DEF Cancelled
  <1>15. CASE Raise
    BY <1>2, <1>15 DEF Raise
  <1>16. CASE Interrupt
    <2>1. CASE step' = "over" /\ exit' = 130
      BY <1>2, <1>16, <2>1 DEF Interrupt
    <2>2. CASE UNCHANGED <<step, exit>>
      BY <1>2, <1>16, <2>2 DEF Interrupt
    <2> QED BY <1>16, <2>1, <2>2 DEF Interrupt
  <1>17. CASE UNCHANGED runVars
    <2>1. UNCHANGED <<environ, command, step, settings, books, exit>>
      BY <1>17 DEF runVars, commandVars
    <2>2. SettingsOf(environ)' = SettingsOf(environ)
      BY <2>1
    <2> QED BY <2>1, <2>2
  <1> QED
    BY <1>1, <1>3, <1>4, <1>5, <1>6, <1>7, <1>8, <1>9, <1>10, <1>11, <1>12, <1>13,
       <1>14, <1>15, <1>16, <1>17 DEF CommandNext, Progress

LEMMA FlagInit == CommandInit => FlagInv
  BY Zenon DEF CommandInit, FlagInv

LEMMA FlagStep == GateInv /\ FlagInv /\ [CommandNext]_runVars => FlagInv'
  <1> SUFFICES ASSUME GateInv, FlagInv, [CommandNext]_runVars PROVE FlagInv'
    OBVIOUS
  <1>1. /\ opened' = opened \/ opened' = TRUE
        /\ interrupted' = interrupted \/ interrupted' = TRUE
        /\ complete' = complete \/ complete' = TRUE
    BY Zenon DEF CommandNext, Progress, LoadSettings, Banner, OpenStore, OpenClient,
         AskStatus, ListPage, Audit, Persist, FinishSweep, Close, CaptureBook, Count,
         Cancelled, Raise, Interrupt, runVars, commandVars, storeVars
  <1>2. inactive' = inactive \/ inactive' \in BOOLEAN
    BY Zenon DEF CommandNext, Progress, LoadSettings, Banner, OpenStore, OpenClient,
         AskStatus, ListPage, Audit, Persist, FinishSweep, Close, CaptureBook, Count,
         Cancelled, Raise, Interrupt, runVars, commandVars, foundVars
  <1>3. crossed' \in BOOLEAN
    <2>1. CASE Audit
      <3>1. crossed' \in IF yielded = <<>> THEN {FALSE} ELSE BOOLEAN
        BY <2>1, Zenon DEF Audit
      <3>2. {FALSE} \subseteq BOOLEAN
        BY Zenon
      <3> QED BY <3>1, <3>2, Zenon
    <2>2. CASE ~Audit
      <3>1. crossed' = crossed
        BY <2>2, Zenon DEF CommandNext, Progress, LoadSettings, Banner, OpenStore,
             OpenClient, AskStatus, ListPage, Persist, FinishSweep, Close, CaptureBook,
             Count, Cancelled, Raise, Interrupt, runVars, commandVars, foundVars
      <3> QED BY <3>1, Zenon DEF FlagInv
    <2> QED BY <2>1, <2>2
  <1>4. requested' \in BOOLEAN
    <2>1. CASE Raise
      <3>1. requested' = (requested \/ step \in {"status", "listing", "booking"})
        BY <2>1, Zenon DEF Raise
      <3> QED BY <3>1, Zenon
    <2>2. CASE ~Raise
      <3>1. requested' = requested \/ requested' = TRUE
        BY <2>2, Zenon DEF CommandNext, Progress, LoadSettings, Banner, OpenStore,
             OpenClient, AskStatus, ListPage, Audit, Persist, FinishSweep, Close,
             CaptureBook, Count, Cancelled, Interrupt, runVars, commandVars
      <3> QED BY <3>1, Zenon DEF FlagInv
    <2> QED BY <2>1, <2>2
  <1>5. refusalShown' \in BOOLEAN
    <2>1. CASE Banner
      <3>1. settings = SettingsOf(environ)
        BY <2>1 DEF GateInv, Banner
      <3>2. settings.gate_refusal = Refused(environ)
        BY <3>1 DEF SettingsOf
      <3>3. refusalShown' = Refused(environ)
        BY <2>1, <3>2, Zenon DEF Banner
      <3> QED BY <3>3, Zenon DEF Refused
    <2>2. CASE ~Banner
      <3>1. refusalShown' = refusalShown
        BY <2>2, Zenon DEF CommandNext, Progress, LoadSettings, OpenStore, OpenClient,
             AskStatus, ListPage, Audit, Persist, FinishSweep, Close, CaptureBook, Count,
             Cancelled, Raise, Interrupt, runVars, commandVars
      <3> QED BY <3>1, Zenon DEF FlagInv
    <2> QED BY <2>1, <2>2
  <1>6. opened' \in BOOLEAN /\ interrupted' \in BOOLEAN /\ complete' \in BOOLEAN
    BY <1>1, Zenon DEF FlagInv
  <1>7. inactive' \in BOOLEAN
    BY <1>2, Zenon DEF FlagInv
  <1> QED BY <1>3, <1>4, <1>5, <1>6, <1>7, Zenon DEF FlagInv

\* What the command keeps in mind has its type in every state, and a listing never
\* reads more pages than max_pages, whatever cursors the server sends
\* (client.py:197-199).
THEOREM CommandTyped == CommandSpec => []CommandTypeOK
  <1>1. CommandInit => PagesInv /\ StepInv /\ GateInv /\ FlagInv
    BY PagesInit, StepInit, GateInit, FlagInit DEF CommandInit
  <1>2. PagesInv /\ StepInv /\ GateInv /\ FlagInv /\ [CommandNext]_runVars
          => (PagesInv /\ StepInv /\ GateInv /\ FlagInv)'
    <2>1. PagesInv /\ [CommandNext]_runVars => PagesInv'
      BY ListingSteps, PagesStep
    <2> QED BY <2>1, StepStep, FlagStep, GateStep
  <1>3. PagesInv /\ StepInv /\ GateInv /\ FlagInv => CommandTypeOK
    <2> SUFFICES ASSUME PagesInv, StepInv, FlagInv PROVE CommandTypeOK
      OBVIOUS
    <2>1. {refusalShown, requested, opened, interrupted, inactive, crossed, complete}
            \subseteq BOOLEAN
      BY Zenon DEF FlagInv
    <2>2. (step = "over") = (exit # Running)
      BY Zenon DEF StepInv
    <2> QED BY <2>1, <2>2 DEF PagesInv, StepInv, CommandTypeOK
  <1> QED BY <1>1, <1>2, <1>3, PTL DEF CommandSpec

--------------------------------------------------------------------------------
(* The whole listing, or nothing *)

\* The pages that max_pages leaves of a listing.
Wanted == IF maxPages \in 1..Len(Listing) THEN maxPages ELSE Len(Listing)

\* While the listing goes on, the next page of an honest server is the one after
\* those that were yielded, and it is wanted; in the end all the wanted ones are.
ListingInv ==
    /\ maxPages \in Nat
    /\ server # "hostile" =>
         /\ pc = "reading" =>
              /\ cursor \in 0..Len(Listing)
              /\ maxPages # 0 => pages = cursor /\ cursor < maxPages
              /\ seen \subseteq 1..cursor
              /\ yielded = FirstPages(cursor)
         /\ pc = "done" => yielded = FirstPages(Wanted)

LEMMA ListingIsSequence ==
  /\ Len(Listing) \in Nat /\ DOMAIN Listing = 1..Len(Listing)
  /\ \A i \in 1..Len(Listing) : Listing[i] \in Seq(Item) /\ Listing[i] # <<>>
  BY ListingAssumption

LEMMA NextPage ==
  ASSUME NEW n \in Nat, n + 1 \in 1..Len(Listing)
  PROVE  Listing[n + 1] # <<>> /\ FirstPages(n + 1) = FirstPages(n) \o Listing[n + 1]
  <1>1. Listing[n + 1] \in Seq(Item) /\ Listing[n + 1] # <<>> /\ Listing \in Seq(Seq(Item))
    BY ListingIsSequence, ListingAssumption
  <1>2. PICK r, q, x : r = SubSeq(Listing, 1, n) /\ q = SubSeq(Listing, 1, n + 1) /\ x = Listing[n + 1]
    OBVIOUS
  <1>3. r \in Seq(Seq(Item)) /\ x \in Seq(Item)
    BY <1>1, <1>2, ListingIsSequence
  <1>4. q = Append(r, x)
    BY <1>1, <1>2, ListingIsSequence
  <1>5. FlattenSeq(q) = FlattenSeq(r) \o x
    BY <1>3, <1>4, FlattenAppend
  <1> QED BY <1>1, <1>2, <1>5 DEF FirstPages

LEMMA ListingInit == Init => ListingInv
  <1>1. SubSeq(Listing, 1, 0) = <<>>
    BY ListingIsSequence, ListingAssumption
  <1>2. FirstPages(0) = <<>>
    BY <1>1, FlattenNone DEF FirstPages
  <1> QED BY <1>2, ListingIsSequence, PageLimitsAssumption DEF Init, ListingInv, NoCursor

LEMMA ReadPageKeepsListing ==
  ASSUME ListingInv, ReadPage
  PROVE  ListingInv'
  <1>1. /\ server' = server /\ maxPages' = maxPages /\ pc = "reading" /\ maxPages \in Nat
        /\ maxPages # 0 => pages' = pages + 1
    BY DEF ReadPage, ListingInv
  <1>2. SUFFICES ASSUME server # "hostile"
        PROVE  /\ pc' = "reading" =>
                    /\ cursor' \in 0..Len(Listing)
                    /\ maxPages # 0 => pages' = cursor' /\ cursor' < maxPages
                    /\ seen' \subseteq 1..cursor'
                    /\ yielded' = FirstPages(cursor')
               /\ pc' = "done" => yielded' = FirstPages(Wanted)
    BY <1>1 DEF ListingInv, Wanted
  <1>3. /\ cursor \in 0..Len(Listing)
        /\ maxPages # 0 => pages = cursor /\ cursor < maxPages
        /\ seen \subseteq 1..cursor /\ yielded = FirstPages(cursor)
    BY <1>1, <1>2 DEF ListingInv
  <1>4. Len(Listing) \in Nat /\ maxPages \in Nat /\ cursor \in Nat /\ cursor \notin Fresh
    BY <1>1, <1>3, ListingIsSequence, FreshAssumption
  <1>5. PICK answer \in Answers :
          /\ yielded' = yielded \o answer.items
          /\ \/ /\ LimitReached \/ NothingMore(answer)
                /\ pc' = "done"
                /\ UNCHANGED <<cursor, seen>>
             \/ /\ ~(LimitReached \/ NothingMore(answer))
                /\ seen' = seen \union ({answer.cursor} \ Fresh)
                /\ cursor' = answer.cursor
                /\ UNCHANGED pc
    BY <1>4 DEF ReadPage, Yield
  <1>6. PICK last : answer = Honest(last)
    BY <1>2 DEF Answers
  <1>7. CASE cursor >= Len(Listing)
    <2>1. answer.items = <<>>
      BY <1>6, <1>7 DEF Honest
    <2>2. cursor = Len(Listing)
      BY <1>3, <1>4, <1>7
    <2>3. pc' = "done" /\ yielded' = yielded \o <<>>
      BY <1>5, <2>1 DEF NothingMore
    <2>4. Wanted = Len(Listing)
      BY <1>3, <1>4, <2>2 DEF Wanted
    <2>5. yielded \o <<>> = FirstPages(Wanted)
      BY <1>3, <2>2, <2>4
    <2> QED BY <2>3, <2>5
  <1>8. CASE ~(cursor >= Len(Listing))
    <2>1. /\ answer.items = Listing[cursor + 1]
          /\ answer.cursor = IF cursor + 1 < Len(Listing) \/ last THEN cursor + 1 ELSE NoCursor
      BY <1>6, <1>8 DEF Honest
    <2>2. /\ cursor + 1 \in 1..Len(Listing)
          /\ answer.cursor \in {cursor + 1, NoCursor}
          /\ answer.cursor = NoCursor => cursor + 1 = Len(Listing)
      BY <1>4, <1>8, <2>1 DEF NoCursor
    <2>3. yielded' = FirstPages(cursor + 1)
      BY <1>3, <1>4, <1>5, <2>1, <2>2, NextPage, Zenon
    <2>4. CASE LimitReached
      <3>1. pc' = "done" /\ maxPages = cursor + 1
        BY <1>3, <1>4, <1>5, <2>4 DEF LimitReached
      <3> QED BY <2>2, <2>3, <3>1 DEF Wanted
    <2>5. CASE ~LimitReached
      <3>1. maxPages # 0 => cursor + 1 < maxPages /\ pages' = cursor + 1
        BY <1>1, <1>3, <1>4, <2>5 DEF LimitReached
      <3>2. CASE answer.cursor = NoCursor
        <4>1. pc' = "done"
          BY <1>5, <3>2 DEF NothingMore
        <4>2. Wanted = cursor + 1
          BY <1>4, <2>2, <3>1, <3>2 DEF Wanted
        <4> QED BY <2>3, <4>1, <4>2
      <3>3. CASE answer.cursor # NoCursor
        <4>1. answer.cursor = cursor + 1 /\ answer.items # <<>>
          BY <1>4, <2>1, <2>2, <3>3, NextPage
        <4>2. answer.cursor \notin seen
          <5>1. cursor + 1 \notin 1..cursor
            BY <1>4
          <5> QED BY <1>3, <4>1, <5>1
        <4>3. ~NothingMore(answer)
          BY <3>3, <4>1, <4>2 DEF NothingMore
        <4>4. pc' = "reading" /\ cursor' = cursor + 1 /\ seen' \subseteq seen \union {cursor + 1}
          BY <1>1, <1>5, <2>5, <4>1, <4>3
        <4>5. seen' \subseteq 1..cursor'
          <5>1. 1..cursor \subseteq 1..(cursor + 1) /\ cursor + 1 \in 1..(cursor + 1)
            BY <1>4
          <5> QED BY <1>3, <4>4, <5>1
        <4>6. cursor' \in 0..Len(Listing)
          BY <1>4, <2>2, <4>4
        <4> QED BY <2>3, <3>1, <4>4, <4>5, <4>6
      <3> QED BY <3>2, <3>3
    <2> QED BY <2>4, <2>5
  <1> QED BY <1>7, <1>8

LEMMA ListingStep == ListingInv /\ [CommandNext]_runVars => ListingInv'
  <1>1. ListingInv /\ Fail => ListingInv'
    BY DEF Fail, ListingInv
  <1>2. ListingInv /\ UNCHANGED vars => ListingInv'
    BY DEF vars, ListingInv, Wanted
  <1> QED BY <1>1, <1>2, ReadPageKeepsListing, ListingSteps

\* Nothing is in the file before the listing is done, and then all of it is.
RowsInv ==
    /\ step \in {"config", "banner", "store", "client", "status", "listing", "auditing",
                 "persisting"} => rows = <<>> /\ complete = FALSE
    /\ complete = TRUE \/ rows # <<>> => pc = "done" /\ rows = yielded

LEMMA RowsInit == CommandInit => RowsInv
  BY DEF CommandInit, RowsInv

\* A step after which the file is as it was.
LEMMA RowsStay ==
  ASSUME RowsInv, UNCHANGED <<rows, complete>>,
         step' \in {"config", "banner", "store", "client", "status", "listing", "auditing",
                    "persisting"} =>
           step \in {"config", "banner", "store", "client", "status", "listing", "auditing",
                     "persisting"},
         UNCHANGED <<pc, yielded>> \/ step = "listing"
  PROVE  RowsInv'
  BY DEF RowsInv

LEMMA RowsStep == RowsInv /\ OutcomeInv /\ [CommandNext]_runVars => RowsInv'
  <1> SUFFICES ASSUME RowsInv, OutcomeInv, [CommandNext]_runVars PROVE RowsInv'
    OBVIOUS
  <1> USE DEF Goto, Exit, Return, storeVars, vars
  <1>1. CASE Persist
    <2>1. rows' = yielded' /\ pc' = "done" /\ step' = "finishing"
      BY <1>1 DEF Persist, OutcomeInv
    <2> QED BY <2>1 DEF RowsInv
  <1>2. CASE FinishSweep
    <2>1. rows' = yielded' /\ pc' = "done" /\ step' = "closing"
      BY <1>2 DEF FinishSweep, OutcomeInv
    <2> QED BY <2>1 DEF RowsInv
  <1>3. CASE LoadSettings
    BY <1>3, RowsStay DEF LoadSettings
  <1>4. CASE Banner
    BY <1>4, RowsStay DEF Banner
  <1>5. CASE OpenStore
    BY <1>5, RowsStay DEF OpenStore
  <1>6. CASE OpenClient
    BY <1>6, RowsStay DEF OpenClient
  <1>7. CASE AskStatus
    BY <1>7, RowsStay DEF AskStatus
  <1>8. CASE ListPage
    BY <1>8, RowsStay DEF ListPage
  <1>9. CASE Audit
    BY <1>9, RowsStay DEF Audit
  <1>10. CASE Close
    BY <1>10, RowsStay DEF Close
  <1>11. CASE CaptureBook
    BY <1>11, RowsStay DEF CaptureBook
  <1>12. CASE Count
    BY <1>12, RowsStay DEF Count
  <1>13. CASE Cancelled
    BY <1>13, RowsStay DEF Cancelled
  <1>14. CASE Raise
    BY <1>14, RowsStay DEF Raise
  <1>15. CASE Interrupt
    BY <1>15, RowsStay DEF Interrupt
  <1>16. CASE UNCHANGED runVars
    BY <1>16, RowsStay DEF runVars, commandVars
  <1> QED
    BY <1>1, <1>2, <1>3, <1>4, <1>5, <1>6, <1>7, <1>8, <1>9, <1>10, <1>11, <1>12, <1>13,
       <1>14, <1>15, <1>16 DEF CommandNext, Progress

\* What `ingest` leaves in the file of an honest exchange is the listing up to
\* max_pages, every page once and in order, or nothing at all, whatever fails or
\* interrupts it (client.py:171-205, 249-251, ingest.py:112-131).
THEOREM AllOrNothing == CommandSpec => []WholeListingOrNothing
  <1>1. CommandInit => RowsInv /\ OutcomeInv /\ ListingInv
    BY RowsInit, OutcomeInit, ListingInit DEF CommandInit
  <1>2. RowsInv /\ OutcomeInv /\ ListingInv /\ [CommandNext]_runVars
          => (RowsInv /\ OutcomeInv /\ ListingInv)'
    BY RowsStep, OutcomeStep, ListingStep
  <1>3. RowsInv /\ OutcomeInv /\ ListingInv => WholeListingOrNothing
    BY DEF RowsInv, ListingInv, WholeListingOrNothing, Wanted
  <1> QED BY <1>1, <1>2, <1>3, PTL DEF CommandSpec

================================================================================
