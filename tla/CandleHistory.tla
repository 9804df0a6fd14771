---------------------------- MODULE CandleHistory ----------------------------
(***************************************************************************)
(* The stored candles of one market: the engine saves the newest ones on   *)
(* every tick, the last of them still forming; ensure_history, which the   *)
(* backtest and walk-forward tools call, extends the stored range at its   *)
(* two ends, chunk by chunk.                                               *)
(***************************************************************************)
EXTENDS Integers, Sequences, FiniteSets

CONSTANTS
    Window,     \* candles of one live fetch (get_candles' limit)
    Days,       \* candles of history a tool asks for
    Chunk,      \* _MAX_LIMIT
    Probe,      \* candles skipped where the exchange has none
    Reach,      \* how far back the exchange goes
    Start, MaxNow   \* bounds

ASSUME CandleAssumption ==
    /\ Days \in Nat /\ Reach \in Nat /\ Window \in 1 .. Reach + 1
    /\ Chunk \in Nat \ {0} /\ Probe \in 1 .. Chunk
    /\ MaxNow \in Nat /\ Start \in 0 .. MaxNow

VARIABLES
    now,        \* the candle that is forming
    store,      \* candles table: by time "none", "forming" or "final"
    disturbed   \* history: an outage longer than the live window or than the exchange's
                \* memory, a span cut short, a range extended past a half-formed candle

candles == <<now, store, disturbed>>

Times == 0 .. MaxNow
Stored == {t \in Times : store[t] # "none"}
\* get_candle_bounds
Oldest == CHOOSE t \in Stored : \A u \in Stored : t <= u
Newest == CHOOSE t \in Stored : \A u \in Stored : u <= t

CandleInit ==
    /\ now = Start
    /\ store = [t \in Times |-> "none"]
    /\ disturbed = FALSE

Served(lo, hi) == {t \in Times : lo <= t /\ t <= hi /\ t <= now /\ now - t <= Reach}
Quality(t) == IF t = now THEN "forming" ELSE "final"

\* mutant: rows that exist are left alone
InsertOnly(times) == [t \in Times |-> IF t \in times \ Stored THEN Quality(t) ELSE store[t]]
\* save_candles: an upsert.
Upsert(times) == [t \in Times |-> IF t \in times THEN Quality(t) ELSE store[t]]

\* What the spans of a running tool are still to bring.
Planned(spans) == UNION {spans[i].from .. spans[i].to : i \in 1 .. Len(spans)}

\* engine.run saves what it fetched.  An outage: the window no longer reaches the newest
\* candle that is stored or on its way.
SaveLive(spans) ==
    LET covered == Stored \cup Planned(spans) IN
    /\ store' = Upsert(Served(now - Window + 1, now))
    /\ disturbed' = (disturbed \/ (covered # {} /\ \A t \in covered : t <= now - Window))
    /\ UNCHANGED now

Passes ==
    /\ now < MaxNow
    /\ now' = now + 1
    /\ UNCHANGED <<store, disturbed>>

------------------------------------------------------------------------------
(* ensure_history *)

Span(lo, hi) == IF lo <= hi THEN <<[from |-> lo, to |-> hi]>> ELSE <<>>

\* The aligned range up to the last completed candle, without what lies between the two
\* bounds; everything when nothing is stored.
Spans ==
    LET from == IF now > Days THEN now - Days ELSE 0 IN
    IF Stored = {} THEN Span(from, now - 1)
    ELSE Span(from, Oldest - 1) \o Span(Newest + 1, now - 1)

\* One turn of _fetch_span's loop: what is left of the spans after it.
ChunkEnd(s) == IF s.from + Chunk - 1 < s.to THEN s.from + Chunk - 1 ELSE s.to
Rest(spans, next) ==
    IF next <= spans[1].to THEN <<[spans[1] EXCEPT !.from = next]>> \o Tail(spans)
                           ELSE Tail(spans)

\* The exchange no longer has what follows the candles stored below.
Overtaken(s) == now - s.from > Reach /\ \E t \in Stored : t < s.from
\* ... the one below was saved while it formed, and has not been since.
Frozen(s) == \E t \in Stored : t < s.from /\ store[t] = "forming"

\* No data that far back: probe forward.
NoneServed(spans) ==
    /\ Served(spans[1].from, ChunkEnd(spans[1])) = {}
    /\ disturbed' = (disturbed \/ Overtaken(spans[1]))
    /\ UNCHANGED <<now, store>>

SaveChunk(spans) ==
    LET s == spans[1] IN
    /\ Served(s.from, ChunkEnd(s)) # {}
    /\ store' = Upsert(Served(s.from, ChunkEnd(s)))
    /\ disturbed' = (disturbed \/ Overtaken(s) \/ Frozen(s))
    /\ UNCHANGED now

\* A failed fetch gives the span up, whatever was saved of it.
CutShort ==
    /\ disturbed' = TRUE
    /\ UNCHANGED <<now, store>>

------------------------------------------------------------------------------
(* Properties *)

\* Between its bounds the store is complete and final, unless the history says why not
\* (ensure_history trusts whatever lies between the bounds, and never refetches it).
StoreComplete(extending) ==
    ~disturbed /\ ~extending =>
        \A t \in Stored : t < Newest => store[t] = "final" /\ store[t + 1] # "none"
==============================================================================
