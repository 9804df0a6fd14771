------------------------------ MODULE MCTickJobs ------------------------------
(* Instance of TickJobs for TLC: a built-in brain, one with a whitelist entry, *)
(* one enabled by a stray flag.                                                *)
EXTENDS TickJobs

MCOrder == <<"anthropic", "mistral", "stray">>
MCBuiltin == {"anthropic"}
MCBuiltinBackend == [n \in MCBuiltin |-> "api"]
MCBuiltinPoll == [n \in MCBuiltin |-> 3]
MCUnset(S) == [n \in S |-> Unset]
MCAll == {"anthropic", "mistral", "stray"}

MCPaper == [enabled |-> FALSE, dry |-> "false", keys |-> TRUE, trading |-> TRUE,
            maxDailyLoss |-> 0, capitalCap |-> 0]
MCHalfArmed == [MCPaper EXCEPT !.enabled = TRUE]
MCArmed == [MCHalfArmed EXCEPT !.maxDailyLoss = 5, !.capitalCap = 5]

MCPlain == [fields |-> [n \in MCBuiltin |-> 2], flags |-> {"stray"}, whitelist |-> {},
            backend |-> [n \in MCAll |-> "api"], poll |-> MCUnset(MCAll), arms |-> MCPaper]
MCBoth == [fields |-> MCUnset(MCBuiltin), flags |-> {"anthropic", "mistral"},
           whitelist |-> {"mistral", "stray"},
           backend |-> [n \in MCAll |-> IF n = "mistral" THEN "mistral" ELSE NoBackend],
           poll |-> [n \in MCAll |-> IF n = "mistral" THEN 1 ELSE Unset],
           arms |-> MCPaper]
MCEnvironments == {MCPlain, MCBoth} \cup {[MCBoth EXCEPT !.arms = a] : a \in {MCHalfArmed, MCArmed}}

MCMaxAge == [s \in {"fng"} |-> 2]
MCEarliest == -3     \* three candles from before the first tick
MCBacktested == <<"ma_trend", "supertrend">>
==============================================================================
