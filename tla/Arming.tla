-------------------------------- MODULE Arming --------------------------------
(***************************************************************************)
(* The gate in front of real orders: what the operator set, the mode that  *)
(* follows, and the broker a start of the engine gets.  Only the paper     *)
(* broker exists as yet; every other mode refuses the start.               *)
(***************************************************************************)
EXTENDS Integers

\* dry is live_dry_run: blank stands for None, 0 and the empty string, which are no answer.
Arms == [enabled : BOOLEAN, dry : {"true", "false", "blank"}, keys : BOOLEAN,
         trading : BOOLEAN, maxDailyLoss : Nat, capitalCap : Nat]

ResolveMode(arms) ==
    IF ~arms.enabled THEN "paper"
    ELSE IF arms.dry # "false" \/ ~arms.keys THEN "live-dry-run"
    ELSE "live"

Problems(arms) ==
    {p \in {"keys", "trading_enabled", "max_daily_loss", "live_capital_cap"} :
        CASE p = "keys"            -> ~arms.keys
          [] p = "trading_enabled" -> ~arms.trading
          [] p = "max_daily_loss"  -> arms.maxDailyLoss = 0
          [] OTHER                 -> arms.capitalCap = 0}

\* PermissionError, NotImplementedError, or a broker.
SelectBroker(arms) ==
    IF ResolveMode(arms) = "live" /\ Problems(arms) # {} THEN "unsafe"
    ELSE IF ResolveMode(arms) # "paper" THEN "not integrated"
    ELSE "broker"
==============================================================================
