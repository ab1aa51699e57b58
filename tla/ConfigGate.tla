------------------------------- MODULE ConfigGate -------------------------------
(***************************************************************************)
(* config.py: load_settings(), a function of four environment variables    *)
(* and one file.  A variable is what is left of it after strip() and       *)
(* lower(), "" if it is not set; every spelling of a kind stands for all.  *)
(***************************************************************************)

TradingMode == {"research", "backtest", "paper", "live"}
Environment == {"demo", "production"}
Tier == {"basic", "advanced", "expert", "premier", "paragon", "prime", "prestige"}

\* What the process may find when it starts.
Environ ==
    [mode : TradingMode \union {"", "unknown"},         \* TRADING_MODE
     enable : {"", "false", "true", "malformed"},       \* ENABLE_LIVE_TRADING
     environment : Environment \union {"", "unknown"},  \* KALSHI_ENVIRONMENT
     tier : {"", "advanced", "unknown"},                \* KALSHI_API_TIER, in part
     file : {"absent", "mapping", "not a mapping", "not YAML"}]

--------------------------------------------------------------------------------
(* A definition nothing uses is a mistake in the one that follows it, named   *)
(* for what it gets wrong.                                                    *)

OrDefault(raw, default) == IF raw = "" THEN default ELSE raw

Requested(e) == OrDefault(e.mode, "paper")
EnvironmentOf(e) == OrDefault(e.environment, "demo")

\* _parse_bool(), of a flag it can parse: nothing but a true value is true.
Enabled(e) == e.enable = "true"

\* Live was asked for and is not granted.
Refused(e) == Requested(e) = "live" /\ ~Enabled(e)

\* The effective mode: a refusal downgrades it.
EffectiveModeOfAnyFlag(e) ==
    IF Requested(e) = "live" /\ e.enable = "" THEN "paper" ELSE Requested(e)
EffectiveMode(e) == IF Refused(e) THEN "paper" ELSE Requested(e)

\* What raises ConfigError.  The flag is parsed only if live was asked for.
UnknownMode(e) == Requested(e) \notin TradingMode
AmbiguousFlag(e) == Requested(e) = "live" /\ e.enable = "malformed"
UnknownEnvironment(e) == EnvironmentOf(e) \notin Environment
LiveOnDemo(e) == EffectiveMode(e) = "live" /\ EnvironmentOf(e) # "production"

Misconfigured(e) ==
    \/ e.file = "not a mapping"
    \/ UnknownMode(e) \/ AmbiguousFlag(e) \/ UnknownEnvironment(e) \/ LiveOnDemo(e)

\* The Settings, of an environment that is not misconfigured.
SettingsOf(e) ==
    [mode |-> EffectiveMode(e), environment |-> EnvironmentOf(e),
     tier |-> OrDefault(e.tier, "basic"),
     live_trading_requested |-> Requested(e) = "live", gate_refusal |-> Refused(e)]

================================================================================
