---------------------------- MODULE LedgerPromise ----------------------------
(***************************************************************************)
(* What the paper ledger promises about one strategy's money: opening and  *)
(* closing a position are single steps that move the wallet and record a   *)
(* trade together; a process that dies in the middle of one leaves it torn *)
(* (the wallet moved, the record missing), and nothing else ever happens.  *)
(***************************************************************************)
EXTENDS Integers

CONSTANTS Strategies, Balance, Fee, Nets

VARIABLES
    wallet,     \* wallets.balance
    held,       \* strategies with an open position
    booked,     \* sum of trades.pnl by strategy
    torn        \* operations a crash has cut short

pvars == <<wallet, held, booked, torn>>

Init ==
    /\ wallet = [s \in Strategies |-> Balance]
    /\ held = {}
    /\ booked = [s \in Strategies |-> 0]
    /\ torn = 0

\* The wallet and the trades move by the same amount.
Book(s, amount) ==
    /\ wallet' = [wallet EXCEPT ![s] = @ + amount]
    /\ booked' = [booked EXCEPT ![s] = @ + amount]
    /\ UNCHANGED torn

Open(s) == s \notin held /\ held' = held \cup {s} /\ Book(s, -Fee)

Close(s) == s \in held /\ held' = held \ {s} /\ \E net \in Nets : Book(s, net)

\* A crash inside either: the wallet has moved, the trade is not recorded, and the
\* position row may or may not have followed.
Torn(s, amount) ==
    /\ wallet' = [wallet EXCEPT ![s] = @ + amount]
    /\ torn' = torn + 1
    /\ UNCHANGED booked

TornOpen(s) == s \notin held /\ held' \in {held, held \cup {s}} /\ Torn(s, -Fee)

TornClose(s) == /\ s \in held /\ held' \in {held, held \ {s}}
                /\ \E net \in Nets : Torn(s, net)

Next == \E s \in Strategies : Open(s) \/ Close(s) \/ TornOpen(s) \/ TornClose(s)

Spec == Init /\ [][Next]_pvars
==============================================================================
