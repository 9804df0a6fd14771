---------------------------- MODULE AlwaysOnProofs ----------------------------
(***************************************************************************)
(* Theorems about SchemaMigrations, for any number of programs that open   *)
(* the ledger and any released version, and about AlwaysOn, for any live   *)
(* window, history, chunk, probe and reach of the exchange and any number  *)
(* of trades, deaths and candles.                                          *)
(***************************************************************************)
EXTENDS AlwaysOn, TLAPS, WellFoundedInduction

------------------------------------------------------------------------------
(* Opening the ledger: SchemaMigrations alone *)

\* A column belongs to one version: neither the base tables nor another version has it.
LEMMA OwnColumns ==
    ASSUME NEW v \in 1 .. SchemaVersion
    PROVE  /\ Adds(v) \cap Base = {}
           /\ \A u \in 1 .. SchemaVersion : u # v => Adds(v) \cap Objects(u) = {}
<1>1. /\ Len(Migrations) = 14
      /\ Migrations[1] = ReleasedToV9[1]
      /\ Migrations[2] = ReleasedToV9[2]
      /\ Migrations[3] = ReleasedToV9[3]
      /\ Migrations[4] = ReleasedToV9[4]
      /\ Migrations[5] = ReleasedToV9[5]
      /\ Migrations[6] = ReleasedToV9[6]
      /\ Migrations[7] = ReleasedToV9[7]
      /\ Migrations[8] = ReleasedToV9[8]
      /\ Migrations[9] = ReleasedToV9[9]
      /\ Migrations[10] = ReleasedAfterV9[1]
      /\ Migrations[11] = ReleasedAfterV9[2]
      /\ Migrations[12] = ReleasedAfterV9[3]
      /\ Migrations[13] = ReleasedAfterV9[4]
      /\ Migrations[14] = ReleasedAfterV9[5]
    BY DEF Migrations, ReleasedToV9, ReleasedAfterV9
<1>2. /\ ReleasedToV9[1].creates = {"indexes of v1"} /\ ReleasedToV9[1].adds = {}
      /\ ReleasedToV9[2].creates = {"risk_events"} /\ ReleasedToV9[2].adds = {"decision_log.v2", "llm_responses.v2", "trades.v2"}
      /\ ReleasedToV9[3].creates = {"regimes"} /\ ReleasedToV9[3].adds = {}
      /\ ReleasedToV9[4].creates = {"trade_outcomes"} /\ ReleasedToV9[4].adds = {}
      /\ ReleasedToV9[5].creates = {} /\ ReleasedToV9[5].adds = {"trades.v5"}
      /\ ReleasedToV9[6].creates = {} /\ ReleasedToV9[6].adds = {"trades.v6"}
      /\ ReleasedToV9[7].creates = {"reflections", "playbooks"} /\ ReleasedToV9[7].adds = {}
      /\ ReleasedToV9[8].creates = {"proposals"} /\ ReleasedToV9[8].adds = {}
      /\ ReleasedToV9[9].creates = {} /\ ReleasedToV9[9].adds = {"proposals.v9"}
    BY DEF ReleasedToV9
<1>3. /\ ReleasedAfterV9[1].creates = {"cost_ledger"} /\ ReleasedAfterV9[1].adds = {}
      /\ ReleasedAfterV9[2].creates = {"signal_cache"} /\ ReleasedAfterV9[2].adds = {}
      /\ ReleasedAfterV9[3].creates = {"experiments"} /\ ReleasedAfterV9[3].adds = {}
      /\ ReleasedAfterV9[4].creates = {"backtest_results"} /\ ReleasedAfterV9[4].adds = {}
      /\ ReleasedAfterV9[5].creates = {"self_mod_prs"} /\ ReleasedAfterV9[5].adds = {}
    BY DEF ReleasedAfterV9
<1> DEFINE Columns == {"decision_log.v2", "llm_responses.v2", "trades.v2",
                       "trades.v5", "trades.v6", "proposals.v9"}
           Owner(x) == IF x = "trades.v5" THEN 5 ELSE IF x = "trades.v6" THEN 6
                       ELSE IF x = "proposals.v9" THEN 9 ELSE 2
<1>4. SchemaVersion \in 1 .. 14
    BY <1>1, MigrationsAssumption
<1>5. ASSUME NEW i \in 1 .. SchemaVersion
      PROVE  /\ \A x \in Migrations[i].adds : x \in Columns /\ Owner(x) = i
             /\ \A x \in Migrations[i].creates : x \notin Columns
    <2>1. CASE i = 1
        <3>1. Migrations[1].creates = {"indexes of v1"} /\ Migrations[1].adds = {}
            BY <1>1, <1>2
        <3> QED BY <2>1, <3>1
    <2>2. CASE i = 2
        <3>1. Migrations[2].creates = {"risk_events"} /\ Migrations[2].adds = {"decision_log.v2", "llm_responses.v2", "trades.v2"}
            BY <1>1, <1>2
        <3> QED BY <2>2, <3>1
    <2>3. CASE i = 3
        <3>1. Migrations[3].creates = {"regimes"} /\ Migrations[3].adds = {}
            BY <1>1, <1>2
        <3> QED BY <2>3, <3>1
    <2>4. CASE i = 4
        <3>1. Migrations[4].creates = {"trade_outcomes"} /\ Migrations[4].adds = {}
            BY <1>1, <1>2
        <3> QED BY <2>4, <3>1
    <2>5. CASE i = 5
        <3>1. Migrations[5].creates = {} /\ Migrations[5].adds = {"trades.v5"}
            BY <1>1, <1>2
        <3> QED BY <2>5, <3>1
    <2>6. CASE i = 6
        <3>1. Migrations[6].creates = {} /\ Migrations[6].adds = {"trades.v6"}
            BY <1>1, <1>2
        <3> QED BY <2>6, <3>1
    <2>7. CASE i = 7
        <3>1. Migrations[7].creates = {"reflections", "playbooks"} /\ Migrations[7].adds = {}
            BY <1>1, <1>2
        <3> QED BY <2>7, <3>1
    <2>8. CASE i = 8
        <3>1. Migrations[8].creates = {"proposals"} /\ Migrations[8].adds = {}
            BY <1>1, <1>2
        <3> QED BY <2>8, <3>1
    <2>9. CASE i = 9
        <3>1. Migrations[9].creates = {} /\ Migrations[9].adds = {"proposals.v9"}
            BY <1>1, <1>2
        <3> QED BY <2>9, <3>1
    <2>10. CASE i = 10
        <3>1. Migrations[10].creates = {"cost_ledger"} /\ Migrations[10].adds = {}
            BY <1>1, <1>3
        <3> QED BY <2>10, <3>1
    <2>11. CASE i = 11
        <3>1. Migrations[11].creates = {"signal_cache"} /\ Migrations[11].adds = {}
            BY <1>1, <1>3
        <3> QED BY <2>11, <3>1
    <2>12. CASE i = 12
        <3>1. Migrations[12].creates = {"experiments"} /\ Migrations[12].adds = {}
            BY <1>1, <1>3
        <3> QED BY <2>12, <3>1
    <2>13. CASE i = 13
        <3>1. Migrations[13].creates = {"backtest_results"} /\ Migrations[13].adds = {}
            BY <1>1, <1>3
        <3> QED BY <2>13, <3>1
    <2>14. CASE i = 14
        <3>1. Migrations[14].creates = {"self_mod_prs"} /\ Migrations[14].adds = {}
            BY <1>1, <1>3
        <3> QED BY <2>14, <3>1
    <2> QED BY <1>4, <2>1, <2>2, <2>3, <2>4, <2>5, <2>6, <2>7, <2>8, <2>9, <2>10, <2>11, <2>12, <2>13, <2>14
<1>6. Columns \cap Base = {}
    BY DEF Base
<1> HIDE DEF Owner, Columns
<1> QED BY <1>5, <1>6 DEF Adds, Objects

Points == {"closed", "schema", "read", "begin", "bump", "commit", "ready", "failed"}

Conn == [at : Points, ver : Int, fresh : BOOLEAN, new : SUBSET Everything, writer : BOOLEAN]

\* The types of the state.
SchemaTypes ==
    /\ version \in 0 .. SchemaVersion
    /\ raced \in BOOLEAN
    /\ conn \in [Openers -> Conn]

\* What a constructor may rely on at each of its points, whatever the others commit.
Sane(o) ==
    /\ conn[o].at \in {"read", "begin", "bump", "commit", "ready"} => Base \subseteq objects
    /\ Migrating(o) => /\ conn[o].ver \in 1 .. SchemaVersion
                       /\ \A u \in 1 .. conn[o].ver - 1 : Objects(u) \subseteq objects
    /\ conn[o].at \in {"bump", "commit"} =>
          /\ conn[o].new \subseteq Objects(conn[o].ver)
          /\ Objects(conn[o].ver) \subseteq objects \cup conn[o].new
    /\ conn[o].at = "ready" => Everything \subseteq objects

\* Openers that take turns: one migrates at a time, at the version after the recorded one,
\* and no later version has left a column.
InTurn ==
    ~raced => /\ OnceOnly
              /\ \A o \in Openers : Migrating(o) => conn[o].ver = version + 1
              /\ \A o, p \in Openers : Migrating(o) /\ Migrating(p) => o = p

\* The inductive invariant.
SchemaInv ==
    SchemaTypes /\ (\A o \in Openers : Sane(o)) /\ NothingSkipped /\ InTurn

\* The released versions are counted from 1.
LEMMA VersionIsNat == SchemaVersion \in Nat /\ SchemaVersion >= 1
    BY MigrationsAssumption

\* A closed connection is a connection.
LEMMA ClosedConn == Closed \in Conn
<1> DEFINE none == {}
<1>1. none \in SUBSET Everything
    OBVIOUS
<1>2. Closed = [at |-> "closed", ver |-> 0, fresh |-> FALSE, new |-> none, writer |-> FALSE]
    BY DEF Closed
<1> HIDE DEF none
<1>3. [at |-> "closed", ver |-> 0, fresh |-> FALSE, new |-> none, writer |-> FALSE] \in Conn
    BY <1>1 DEF Conn, Points
<1> QED BY <1>2, <1>3

\* A ledger nobody has opened yet.
LEMMA InitSane == SchemaInit => SchemaInv
<1> SUFFICES ASSUME SchemaInit PROVE SchemaInv
    OBVIOUS
<1>1. SchemaTypes
    <2>1. conn \in [Openers -> Conn]
        BY ClosedConn DEF SchemaInit
    <2>2. version = 0 /\ raced = FALSE
        BY DEF SchemaInit
    <2>3. version \in 0 .. SchemaVersion
        BY VersionIsNat, <2>2
    <2>4. raced \in BOOLEAN
        BY <2>2
    <2> QED BY <2>1, <2>3, <2>4 DEF SchemaTypes
<1>2. \A o \in Openers : conn[o].at = "closed"
    BY DEF SchemaInit, Closed
<1> QED BY <1>1, <1>2 DEF SchemaInit, SchemaInv, Sane, Migrating, NothingSkipped, InTurn, OnceOnly

\* A step of o leaves the others where they are, a commit of its at most makes them stale.
LEMMA OneMoves ==
    ASSUME SchemaTypes, NEW o \in Openers, NEW c \in Conn, Goto(o, c) \/ CommitAndGoto(o, c)
    PROVE  /\ conn' \in [Openers -> Conn]
           /\ conn'[o] = c
           /\ \A p \in Openers \ {o} : /\ conn'[p].at = conn[p].at
                                       /\ conn'[p].ver = conn[p].ver
                                       /\ conn'[p].new = conn[p].new
<1>1. conn \in [Openers -> Conn]
    BY DEF SchemaTypes
<1>2. \A p \in Openers : [conn[p] EXCEPT !.fresh = FALSE] \in Conn
    BY <1>1 DEF Conn
<1>3. CASE Goto(o, c)
    BY <1>1, <1>3 DEF Goto
<1>4. CASE CommitAndGoto(o, c)
    BY <1>1, <1>2, <1>4 DEF CommitAndGoto, Conn
<1> QED BY <1>3, <1>4

\* Objects are only ever added, so what the others rely on stays true.
LEMMA OthersSane ==
    ASSUME \A p \in Openers : Sane(p), NEW p \in Openers, objects \subseteq objects',
           conn'[p].at = conn[p].at, conn'[p].ver = conn[p].ver, conn'[p].new = conn[p].new
    PROVE  Sane(p)'
    BY DEF Sane, Migrating

\* A step that neither commits nor begins to migrate.
LEMMA QuietStep ==
    ASSUME SchemaInv, NEW o \in Openers, NEW c \in Conn, Goto(o, c),
           UNCHANGED <<objects, version, raced>>, Sane(o)',
           c.at \in {"begin", "bump", "commit"} => Migrating(o) /\ c.ver = conn[o].ver
    PROVE  SchemaInv'
<1>1. /\ conn' \in [Openers -> Conn]
      /\ conn'[o] = c
      /\ \A p \in Openers \ {o} : /\ conn'[p].at = conn[p].at
                                  /\ conn'[p].ver = conn[p].ver
                                  /\ conn'[p].new = conn[p].new
    BY OneMoves DEF SchemaInv
<1>2. SchemaTypes'
    BY <1>1 DEF SchemaInv, SchemaTypes
<1>3. \A p \in Openers : Sane(p)'
    BY <1>1, OthersSane DEF SchemaInv
<1>4. NothingSkipped'
    BY DEF SchemaInv, NothingSkipped
<1>5. \A p \in Openers : Migrating(p)' => Migrating(p) /\ conn'[p].ver = conn[p].ver
    BY <1>1 DEF Migrating
<1>6. InTurn'
    BY <1>5 DEF SchemaInv, InTurn, OnceOnly
<1> QED BY <1>2, <1>3, <1>4, <1>6 DEF SchemaInv

\* Every step of every constructor keeps the invariant.
LEMMA StepSane == SchemaInv /\ [SchemaNext]_schema => SchemaInv'
<1> SUFFICES ASSUME SchemaInv, [SchemaNext]_schema PROVE SchemaInv'
    OBVIOUS
<1> USE VersionIsNat
<1>1. CASE UNCHANGED schema
    BY <1>1 DEF schema, SchemaInv, SchemaTypes, Sane, Migrating, NothingSkipped, InTurn, OnceOnly
<1>2. ASSUME NEW o \in Openers, Open(o) PROVE SchemaInv'
    <2>1. [Closed EXCEPT !.at = "schema"] \in Conn
        BY ClosedConn DEF Conn, Points
    <2>2. conn'[o] = [Closed EXCEPT !.at = "schema"]
        BY <1>2, <2>1, OneMoves DEF SchemaInv, Open
    <2>3. Sane(o)'
        BY <2>2 DEF Closed, Sane, Migrating
    <2> QED BY <1>2, <2>1, <2>3, QuietStep DEF Open, Closed
<1>3. ASSUME NEW o \in Openers, NEW a \in {"closed", "failed"},
             Goto(o, [Closed EXCEPT !.at = a]), UNCHANGED <<objects, version, raced>>
      PROVE  SchemaInv'
    <2>1. [Closed EXCEPT !.at = a] \in Conn
        BY ClosedConn DEF Conn, Points
    <2>2. conn'[o] = [Closed EXCEPT !.at = a]
        BY <1>3, <2>1, OneMoves DEF SchemaInv
    <2>3. Sane(o)'
        BY <2>2 DEF Closed, Sane, Migrating
    <2> QED BY <1>3, <2>1, <2>3, QuietStep DEF Closed
<1>4. ASSUME NEW o \in Openers, Fails(o) PROVE SchemaInv'
    BY <1>3, <1>4 DEF Fails
<1>5. ASSUME NEW o \in Openers, Close(o) PROVE SchemaInv'
    <2>1. Closed = [Closed EXCEPT !.at = "closed"]
        BY DEF Closed
    <2> QED BY <1>3, <1>5, <2>1 DEF Close
<1>6. ASSUME NEW o \in Openers, CreateBase(o) PROVE SchemaInv'
    <2>1. conn[o] \in Conn /\ conn[o].at = "schema"
        BY <1>6 DEF SchemaInv, SchemaTypes, CreateBase
    <2>2. CASE Base \subseteq objects
        <3>1. [conn[o] EXCEPT !.at = "read"] \in Conn
            BY <2>1 DEF Conn, Points
        <3>2. conn'[o] = [conn[o] EXCEPT !.at = "read"]
            BY <1>6, <2>2, <3>1, OneMoves DEF SchemaInv, CreateBase
        <3>3. Sane(o)'
            BY <1>6, <2>1, <2>2, <3>2 DEF CreateBase, Conn, Sane, Migrating
        <3> QED BY <1>6, <2>1, <2>2, <3>1, <3>3, QuietStep DEF CreateBase, Conn
    <2>3. CASE ~(Base \subseteq objects)
        <3>1. PICK t \in Base \ objects : objects' = objects \cup {t}
            BY <1>6, <2>3 DEF CreateBase
        <3>2. /\ CommitAndGoto(o, conn[o])
              /\ UNCHANGED <<version, raced>>
            BY <1>6, <2>3 DEF CreateBase
        <3>3. /\ conn' \in [Openers -> Conn]
              /\ \A p \in Openers : /\ conn'[p].at = conn[p].at
                                    /\ conn'[p].ver = conn[p].ver
                                    /\ conn'[p].new = conn[p].new
            BY <2>1, <3>2, OneMoves DEF SchemaInv
        <3>4. SchemaTypes'
            BY <3>2, <3>3 DEF SchemaInv, SchemaTypes
        <3>5. \A p \in Openers : Sane(p)'
            BY <3>1, <3>3, OthersSane DEF SchemaInv
        <3>6. NothingSkipped'
            BY <3>1, <3>2 DEF SchemaInv, NothingSkipped
        <3>7. ASSUME ~raced PROVE OnceOnly'
            <4> SUFFICES ASSUME NEW v \in version + 1 .. SchemaVersion PROVE Adds(v) \cap objects' = {}
                BY <3>2 DEF OnceOnly
            <4>1. v \in 1 .. SchemaVersion
                BY DEF SchemaInv, SchemaTypes
            <4>2. Adds(v) \cap objects = {}
                BY <3>7 DEF SchemaInv, InTurn, OnceOnly
            <4>3. Adds(v) \cap Base = {}
                BY <4>1, OwnColumns
            <4> QED BY <3>1, <4>2, <4>3
        <3>8. InTurn'
            BY <3>2, <3>3, <3>7 DEF SchemaInv, InTurn, Migrating
        <3> QED BY <3>4, <3>5, <3>6, <3>8 DEF SchemaInv
    <2> QED BY <2>2, <2>3
<1>7. ASSUME NEW o \in Openers, ReadVersion(o) PROVE SchemaInv'
    <2>1. conn[o] \in Conn /\ conn[o].at = "read" /\ Base \subseteq objects
        BY <1>7 DEF SchemaInv, SchemaTypes, ReadVersion, Sane
    <2>2. CASE version >= SchemaVersion
        <3>1. [Closed EXCEPT !.at = "ready"] \in Conn
            BY ClosedConn DEF Conn, Points
        <3>2. conn'[o] = [Closed EXCEPT !.at = "ready"]
            BY <1>7, <2>2, <3>1, OneMoves DEF SchemaInv, ReadVersion
        <3>3. Everything \subseteq objects
            BY <2>1, <2>2 DEF SchemaInv, SchemaTypes, NothingSkipped, Everything
        <3>4. Sane(o)'
            BY <1>7, <2>1, <3>2, <3>3 DEF ReadVersion, Closed, Sane, Migrating, Everything
        <3> QED BY <1>7, <2>2, <3>1, <3>4, QuietStep DEF ReadVersion, Closed
    <2>3. CASE version < SchemaVersion
        <3> DEFINE c == [conn[o] EXCEPT !.at = "begin", !.ver = version + 1]
        <3>1. c \in Conn
            <4>1. version + 1 \in Int
                BY DEF SchemaInv, SchemaTypes
            <4> QED BY <2>1, <4>1 DEF Conn, Points
        <3>2. /\ Goto(o, c)
              /\ raced' = (raced \/ \E p \in Openers : Migrating(p))
              /\ UNCHANGED <<objects, version>>
            BY <1>7, <2>3 DEF ReadVersion, SchemaInv, SchemaTypes
        <3>3. /\ conn' \in [Openers -> Conn]
              /\ conn'[o] = c
              /\ \A p \in Openers \ {o} : /\ conn'[p].at = conn[p].at
                                          /\ conn'[p].ver = conn[p].ver
                                          /\ conn'[p].new = conn[p].new
            <4> HIDE DEF c
            <4> QED BY <3>1, <3>2, OneMoves DEF SchemaInv
        <3>4. SchemaTypes'
            BY <3>2, <3>3 DEF SchemaInv, SchemaTypes
        <3>5. c.at = "begin" /\ c.ver = version + 1
            BY <2>1 DEF Conn
        <3> HIDE DEF c
        <3>6. Sane(o)'
            BY <2>1, <2>3, <3>2, <3>3, <3>5
               DEF Sane, Migrating, SchemaInv, SchemaTypes, NothingSkipped
        <3>7. \A p \in Openers : Sane(p)'
            BY <3>2, <3>3, <3>6, OthersSane DEF SchemaInv
        <3>8. NothingSkipped'
            BY <3>2 DEF SchemaInv, NothingSkipped
        <3>9. ASSUME ~raced' PROVE /\ ~raced
                                   /\ \A p \in Openers : Migrating(p)' => p = o
            BY <3>2, <3>3, <3>9 DEF SchemaInv, SchemaTypes, Migrating
        <3>10. InTurn'
            BY <3>2, <3>3, <3>5, <3>9 DEF SchemaInv, InTurn, OnceOnly
        <3> QED BY <3>4, <3>7, <3>8, <3>10 DEF SchemaInv
    <2> QED BY <2>2, <2>3 DEF SchemaInv, SchemaTypes
<1>8. ASSUME NEW o \in Openers, RunStatements(o) PROVE SchemaInv'
    <2>1. conn[o] \in Conn /\ conn[o].at = "begin" /\ Migrating(o)
        BY <1>8 DEF SchemaInv, SchemaTypes, RunStatements, Migrating
    <2>2. CASE Adds(conn[o].ver) \cap objects # {}
        BY <1>4, <1>8, <2>2 DEF RunStatements
    <2>3. CASE Adds(conn[o].ver) \cap objects = {}
        <3> DEFINE missing == Objects(conn[o].ver) \ objects
                   c == [conn[o] EXCEPT !.at = "bump", !.fresh = TRUE, !.new = missing,
                                        !.writer = missing # {}]
        <3>1. conn[o].ver \in 1 .. SchemaVersion
            BY <2>1 DEF SchemaInv, Sane
        <3>2. missing \in SUBSET Everything
            BY <3>1 DEF Everything
        <3>3. c \in Conn /\ c.at = "bump" /\ c.ver = conn[o].ver /\ c.new = missing
            BY <2>1, <3>2 DEF Conn, Points
        <3>4. Goto(o, c) /\ UNCHANGED <<objects, version, raced>>
            BY <1>8, <2>3 DEF RunStatements
        <3> HIDE DEF c
        <3>5. conn'[o] = c
            BY <3>3, <3>4, OneMoves DEF SchemaInv
        <3>6. Sane(o)'
            BY <2>1, <3>3, <3>4, <3>5 DEF SchemaInv, Sane, Migrating
        <3> QED BY <2>1, <3>3, <3>4, <3>6, QuietStep
    <2> QED BY <2>2, <2>3
<1>9. ASSUME NEW o \in Openers, Bump(o) PROVE SchemaInv'
    <2>1. conn[o] \in Conn /\ conn[o].at = "bump" /\ Migrating(o)
        BY <1>9 DEF SchemaInv, SchemaTypes, Bump, Migrating
    <2>2. CASE conn[o].writer \/ (conn[o].fresh /\ ~Locked)
        <3> DEFINE c == [conn[o] EXCEPT !.at = "commit", !.writer = TRUE]
        <3>1. c \in Conn /\ c.at = "commit" /\ c.ver = conn[o].ver /\ c.new = conn[o].new
            BY <2>1 DEF Conn, Points
        <3>2. Goto(o, c) /\ UNCHANGED <<objects, version, raced>>
            BY <1>9, <2>2 DEF Bump
        <3> HIDE DEF c
        <3>3. conn'[o] = c
            BY <3>1, <3>2, OneMoves DEF SchemaInv
        <3>4. Sane(o)'
            BY <2>1, <3>1, <3>2, <3>3 DEF SchemaInv, Sane, Migrating
        <3> QED BY <2>1, <3>1, <3>2, <3>4, QuietStep
    <2> QED BY <1>4, <1>9, <2>2 DEF Bump
<1>10. ASSUME NEW o \in Openers, Commit(o) PROVE SchemaInv'
    <2> DEFINE c == IF conn[o].ver = SchemaVersion THEN [Closed EXCEPT !.at = "ready"]
                    ELSE [Closed EXCEPT !.at = "begin", !.ver = conn[o].ver + 1]
    <2>1. conn[o] \in Conn /\ conn[o].at = "commit" /\ Migrating(o)
        BY <1>10 DEF SchemaInv, SchemaTypes, Commit, Migrating
    <2>2. /\ conn[o].ver \in 1 .. SchemaVersion
          /\ Base \subseteq objects
          /\ \A u \in 1 .. conn[o].ver - 1 : Objects(u) \subseteq objects
          /\ conn[o].new \subseteq Objects(conn[o].ver)
          /\ Objects(conn[o].ver) \subseteq objects \cup conn[o].new
        BY <2>1 DEF SchemaInv, Sane
    <2>3. /\ objects' = objects \cup conn[o].new
          /\ version' = conn[o].ver
          /\ raced' = raced
          /\ CommitAndGoto(o, c)
        BY <1>10 DEF Commit
    <2>4. /\ c \in Conn
          /\ conn[o].ver = SchemaVersion => c.at = "ready"
          /\ conn[o].ver # SchemaVersion => c.at = "begin" /\ c.ver = conn[o].ver + 1
        <3>1. conn[o].ver + 1 \in Int
            BY <2>2
        <3> QED BY <3>1, ClosedConn DEF Conn, Points
    <2> HIDE DEF c
    <2>5. /\ conn' \in [Openers -> Conn]
          /\ conn'[o] = c
          /\ \A p \in Openers \ {o} : /\ conn'[p].at = conn[p].at
                                      /\ conn'[p].ver = conn[p].ver
                                      /\ conn'[p].new = conn[p].new
        BY <2>3, <2>4, OneMoves DEF SchemaInv
    <2>6. SchemaTypes'
        BY <2>2, <2>3, <2>5 DEF SchemaInv, SchemaTypes
    <2>7. \A u \in 1 .. conn[o].ver : Objects(u) \subseteq objects'
        BY <2>2, <2>3
    <2>8. NothingSkipped'
        BY <2>3, <2>7 DEF NothingSkipped
    <2>9. Sane(o)'
        <3>1. CASE conn[o].ver = SchemaVersion
            <4>1. Everything \subseteq objects'
                BY <2>2, <2>3, <2>7, <3>1 DEF Everything
            <4> QED BY <2>2, <2>3, <2>4, <2>5, <3>1, <4>1 DEF Sane, Migrating, Everything
        <3>2. CASE conn[o].ver # SchemaVersion
            <4>1. c.ver \in 1 .. SchemaVersion /\ c.ver - 1 = conn[o].ver
                BY <2>2, <2>4, <3>2
            <4> QED BY <2>2, <2>3, <2>4, <2>5, <2>7, <3>2, <4>1 DEF Sane, Migrating
        <3> QED BY <3>1, <3>2
    <2>10. \A p \in Openers : Sane(p)'
        BY <2>3, <2>5, <2>9, OthersSane DEF SchemaInv
    <2>11. InTurn'
        <3> SUFFICES ASSUME ~raced
                     PROVE  /\ OnceOnly'
                            /\ \A p \in Openers : Migrating(p)' => conn'[p].ver = version' + 1
                            /\ \A p, q \in Openers : Migrating(p)' /\ Migrating(q)' => p = q
            BY <2>3 DEF InTurn
        <3>1. conn[o].ver = version + 1
            BY <2>1 DEF SchemaInv, InTurn
        <3>2. \A p \in Openers : Migrating(p)' => p = o
            BY <2>1, <2>5 DEF SchemaInv, InTurn, Migrating
        <3>3. Migrating(o)' => conn'[o].ver = version' + 1
            BY <2>3, <2>4, <2>5 DEF Migrating
        <3>4. OnceOnly'
            <4> SUFFICES ASSUME NEW v \in version' + 1 .. SchemaVersion
                         PROVE  Adds(v) \cap objects' = {}
                BY DEF OnceOnly
            <4>1. v \in 1 .. SchemaVersion /\ v # conn[o].ver /\ v \in version + 1 .. SchemaVersion
                BY <2>2, <2>3, <3>1 DEF SchemaInv, SchemaTypes
            <4>2. Adds(v) \cap objects = {}
                BY <4>1 DEF SchemaInv, InTurn, OnceOnly
            <4>3. Adds(v) \cap Objects(conn[o].ver) = {}
                BY <2>2, <4>1, OwnColumns
            <4> QED BY <2>2, <2>3, <4>2, <4>3
        <3> QED BY <3>2, <3>3, <3>4
    <2> QED BY <2>6, <2>8, <2>10, <2>11 DEF SchemaInv
<1>11. ASSUME NEW o \in Openers, GiveUp(o) PROVE SchemaInv'
    BY <1>4, <1>11 DEF GiveUp
<1> QED BY <1>1, <1>2, <1>5, <1>6, <1>7, <1>8, <1>9, <1>10, <1>11 DEF SchemaNext, Migrate

\* What the proofs rest on: at each of its points a constructor finds what it relies on,
\* and openers that take turns are one behind the other.
THEOREM SchemaInvariant == SchemaSpec => []SchemaInv
<1> QED BY InitSane, StepSane, PTL DEF SchemaSpec

\* Whoever opens the ledger, dies or is refused on the way, in any order: a connection that
\* comes out of the constructor has a complete schema, the recorded version does not lie,
\* and no migration meets its own columns while openers take turns (db.py:425-451).
THEOREM SchemaStaysSound == SchemaSpec => []SchemaSound
<1>1. SchemaInv => SchemaSound
    BY DEF SchemaInv, SchemaSound, ReadyMeansComplete, Sane, InTurn, OnceOnlyInTurn
<1> QED BY <1>1, SchemaInvariant, PTL

------------------------------------------------------------------------------
(* The daemon and its status file *)

\* An engine runs exactly while the daemon is in it, and the file says "stopped" only of a
\* process that has ended.
ServiceInv ==
    /\ daemon \in {"down", "loop", "engine", "backoff", "end"}
    /\ pc \in {"off", "open", "top", "fetch", "save", "act", "alert", "sleep"}
    /\ (pc # "off") = (daemon = "engine")
    /\ StoppedMeansStopped

LEMMA ServiceStep == ServiceInv /\ [Next]_vars => ServiceInv'
<1> SUFFICES ASSUME ServiceInv, [Next]_vars PROVE ServiceInv'
    OBVIOUS
<1> USE DEF ServiceInv, StoppedMeansStopped, service
<1>1. CASE UNCHANGED vars
    BY <1>1 DEF vars
<1>2. CASE Boot
    BY <1>2 DEF Boot
<1>3. CASE Terminate \/ Enable
    BY <1>3 DEF Terminate, Enable
<1>4. CASE Kill
    BY <1>4 DEF Kill, Dies
<1>5. CASE LoopTop
    BY <1>5 DEF LoopTop
<1>6. CASE EngineRaises
    BY <1>6 DEF EngineRaises, Dies, Restarting
<1>7. CASE OpenRaises
    BY <1>7 DEF OpenRaises, Restarting
<1>8. CASE Backoff \/ End
    BY <1>8 DEF Backoff, End
<1>9. CASE EngineOpens \/ StartRun
    BY <1>9 DEF EngineOpens, StartRun
<1>10. CASE Top
    BY <1>10 DEF Top, Returns
<1>11. CASE Fetch
    BY <1>11 DEF Fetch
<1>12. CASE Save
    BY <1>12 DEF Save
<1>13. CASE Act
    BY <1>13 DEF Act
<1>14. CASE Alert
    BY <1>14 DEF Alert, Returns
<1>15. CASE Sleep
    BY <1>15 DEF Sleep
<1>16. CASE Tool
    BY <1>16 DEF Tool, ToolOpens, ToolPlans, ToolFetches, ToolEnds
<1>17. CASE ToolDies \/ Clock
    BY <1>17 DEF ToolDies, Clock
<1> QED
    BY <1>1, <1>2, <1>3, <1>4, <1>5, <1>6, <1>7, <1>8, <1>9, <1>10, <1>11, <1>12, <1>13,
       <1>14, <1>15, <1>16, <1>17 DEF Next, Daemon, Engine

\* The program of the whole service keeps it.
LEMMA ServiceInvariant == Spec => []ServiceInv
<1>1. Init => ServiceInv
    BY DEF Init, ServiceInv, StoppedMeansStopped
<1> QED BY <1>1, ServiceStep, PTL DEF Spec

\* A status file that says "stopped" is right, whatever kills, signals and exceptions came
\* before (daemon.py:63-65): no engine runs then, and only a boot starts one.
THEOREM StatusIsRight == Spec => []StoppedMeansStopped
<1>1. ServiceInv => StoppedMeansStopped
    BY DEF ServiceInv
<1> QED BY <1>1, ServiceInvariant, PTL

------------------------------------------------------------------------------
(* The watermark of the alerts *)

\* Below the watermark a trade was alerted once or lost with an engine; above it nobody was
\* told.  Between ticks a running engine has told of every trade there is, and a trade that
\* is there while no engine has started on it is one that was lost.
AlertInv ==
    /\ trades \in 0 .. MaxTrades
    /\ lastAlert \in 0 .. trades
    /\ alerts \in [Trades -> Nat]
    /\ lost \subseteq Trades
    /\ AlertedOnce
    /\ \A t \in Trades : lastAlert < t => alerts[t] = 0
    /\ \A t \in Trades : trades < t => t \notin lost
    /\ pc \in {"top", "fetch", "save", "act", "sleep"} => lastAlert = trades
    /\ pc \in {"off", "open"} => \A t \in Trades : lastAlert < t /\ t <= trades => t \in lost
    /\ pc = "alert" => \A t \in Trades : lastAlert < t => t \notin lost

\* An engine that dies takes what it has not alerted with it.
LEMMA DeathLoses == ServiceInv /\ AlertInv /\ Dies => AlertInv'
<1> SUFFICES ASSUME ServiceInv, AlertInv, Dies PROVE AlertInv'
    OBVIOUS
<1>1. /\ UNCHANGED <<trades, lastAlert, alerts>> /\ pc' = "off"
      /\ lost' = lost \cup {t \in Trades : lastAlert < t /\ t <= trades /\ pc # "open"}
    BY DEF Dies
<1>2. lost' \subseteq Trades
    BY <1>1 DEF AlertInv
<1>3. \A t \in Trades : t <= lastAlert => (t \in lost' <=> t \in lost)
    BY <1>1 DEF AlertInv, Trades
<1>4. \A t \in Trades : lastAlert < t /\ t <= trades => t \in lost'
    BY <1>1 DEF AlertInv
<1>5. \A t \in Trades : trades < t => t \notin lost'
    BY <1>1 DEF AlertInv, Trades
<1>6. AlertedOnce'
    BY <1>1, <1>3 DEF AlertInv, AlertedOnce
<1> QED BY <1>1, <1>2, <1>4, <1>5, <1>6 DEF AlertInv

LEMMA AlertStep == ServiceInv /\ AlertInv /\ [Next]_vars => AlertInv'
<1> SUFFICES ASSUME ServiceInv, AlertInv, [Next]_vars PROVE AlertInv'
    OBVIOUS
<1>1. ASSUME UNCHANGED alerting, pc' = pc \/ {pc, pc'} \subseteq {"off", "open"}
                                     \/ {pc, pc'} \subseteq {"top", "fetch", "save", "act", "sleep"}
      PROVE  AlertInv'
    <2>1. UNCHANGED <<trades, lastAlert, alerts, lost>>
        BY <1>1 DEF alerting
    <2>2. AlertedOnce'
        BY <2>1 DEF AlertInv, AlertedOnce
    <2> QED BY <1>1, <2>1, <2>2 DEF AlertInv
<1>2. CASE UNCHANGED vars
    BY <1>1, <1>2 DEF vars
<1>3. CASE Boot \/ Terminate \/ Enable
    BY <1>1, <1>3 DEF Boot, Terminate, Enable
<1>4. CASE Kill \/ EngineRaises
    BY <1>4, DeathLoses DEF Kill, EngineRaises
<1>5. CASE LoopTop
    <2>1. pc = "off"
        BY <1>5 DEF LoopTop, ServiceInv
    <2> QED BY <1>1, <1>5, <2>1 DEF LoopTop
<1>6. CASE OpenRaises
    BY <1>1, <1>6 DEF OpenRaises
<1>7. CASE Backoff \/ End \/ EngineOpens
    BY <1>1, <1>7 DEF Backoff, End, EngineOpens
<1>8. CASE StartRun
    <2>1. /\ pc = "open" /\ pc' = "top" /\ lastAlert' = trades
          /\ UNCHANGED <<trades, alerts, lost>>
        BY <1>8 DEF StartRun
    <2>2. AlertedOnce'
        <3> SUFFICES ASSUME NEW t \in Trades
                     PROVE  alerts[t] <= 1 /\ (t <= trades => (alerts[t] = 0) = (t \in lost))
            BY <2>1 DEF AlertedOnce
        <3>1. CASE t <= lastAlert
            BY <3>1 DEF AlertInv, AlertedOnce
        <3>2. CASE ~(t <= lastAlert)
            <4>1. lastAlert < t
                BY <3>2 DEF AlertInv, Trades
            <4> QED BY <2>1, <4>1 DEF AlertInv
        <3> QED BY <3>1, <3>2
    <2>3. \A t \in Trades : lastAlert' < t => alerts'[t] = 0
        BY <2>1 DEF AlertInv, Trades
    <2>4. lastAlert' \in 0 .. trades'
        BY <2>1 DEF AlertInv
    <2> QED BY <2>1, <2>2, <2>3, <2>4 DEF AlertInv
<1>9. CASE Top
    <2>1. CASE stop
        <3>1. /\ UNCHANGED <<trades, lastAlert, alerts, lost>> /\ pc' = "off"
              /\ lastAlert = trades
            BY <1>9, <2>1 DEF Top, Returns, alerting, AlertInv
        <3>2. AlertedOnce'
            BY <3>1 DEF AlertInv, AlertedOnce
        <3>3. \A t \in Trades : ~(lastAlert < t /\ t <= trades)
            BY <3>1 DEF AlertInv, Trades
        <3> QED BY <3>1, <3>2, <3>3 DEF AlertInv
    <2>2. CASE ~stop
        BY <1>1, <1>9, <2>2 DEF Top
    <2> QED BY <2>1, <2>2
<1>10. CASE Fetch \/ Save \/ Sleep
    BY <1>1, <1>10 DEF Fetch, Save, Sleep
<1>11. CASE Act
    <2>1. PICK k \in 0 .. 2 : trades + k <= MaxTrades /\ trades' = trades + k
        BY <1>11 DEF Act
    <2>2. /\ pc = "act" /\ pc' = "alert" /\ UNCHANGED <<lastAlert, alerts, lost>>
          /\ lastAlert = trades
        BY <1>11 DEF Act, AlertInv
    <2>3. trades' \in 0 .. MaxTrades /\ trades <= trades'
        BY <2>1, AlwaysOnAssumption DEF AlertInv
    <2>4. AlertedOnce'
        BY <2>2 DEF AlertInv, AlertedOnce
    <2>5. lastAlert' \in 0 .. trades'
        BY <2>2, <2>3 DEF AlertInv
    <2>6. \A t \in Trades : trades' < t => trades < t
        BY <2>3 DEF Trades, AlertInv
    <2> QED BY <2>2, <2>3, <2>4, <2>5, <2>6 DEF AlertInv
<1>12. CASE Alert
    <2>1. CASE lastAlert < trades
        <3> DEFINE n == lastAlert + 1
        <3>1. /\ pc = "alert" /\ pc' = "alert" /\ UNCHANGED <<trades, lost>>
              /\ alerts' = [alerts EXCEPT ![n] = @ + 1] /\ lastAlert' = n
            BY <1>12, <2>1 DEF Alert
        <3>2. n \in Trades /\ n \in 0 .. trades /\ lastAlert < n
            BY <2>1, AlwaysOnAssumption DEF AlertInv, Trades
        <3>3. alerts[n] = 0 /\ n \notin lost
            BY <3>1, <3>2 DEF AlertInv
        <3>4. alerts' \in [Trades -> Nat] /\ alerts'[n] = 1
            BY <3>1, <3>2, <3>3 DEF AlertInv
        <3>5. \A t \in Trades \ {n} : alerts'[t] = alerts[t]
            BY <3>1 DEF AlertInv
        <3>6. \A t \in Trades : t # n => (t <= n <=> t <= lastAlert)
            BY DEF AlertInv, Trades
        <3> HIDE DEF n
        <3>7. AlertedOnce'
            <4> SUFFICES ASSUME NEW t \in Trades
                         PROVE  /\ alerts'[t] <= 1
                                /\ t <= n => (alerts'[t] = 0) = (t \in lost)
                BY <3>1 DEF AlertedOnce
            <4>1. CASE t = n
                <5>1. alerts'[t] = 1 /\ t \notin lost
                    BY <4>1, <3>3, <3>4
                <5> QED BY <5>1
            <4>2. CASE t # n
                <5>1. alerts'[t] = alerts[t] /\ (t <= n <=> t <= lastAlert)
                    BY <4>2, <3>5, <3>6
                <5> QED BY <5>1 DEF AlertInv, AlertedOnce
            <4> QED BY <4>1, <4>2
        <3>8. \A t \in Trades : n < t => lastAlert < t /\ t # n
            BY <3>2 DEF AlertInv, Trades
        <3> QED BY <3>1, <3>2, <3>4, <3>5, <3>7, <3>8 DEF AlertInv
    <2>2. CASE ~(lastAlert < trades)
        <3>1. /\ UNCHANGED <<trades, lastAlert, alerts, lost>> /\ pc' \in {"off", "sleep"}
            BY <1>12, <2>2 DEF Alert, Returns
        <3>2. lastAlert = trades
            BY <2>2 DEF AlertInv
        <3>3. AlertedOnce'
            BY <3>1 DEF AlertInv, AlertedOnce
        <3>4. \A t \in Trades : ~(lastAlert < t /\ t <= trades)
            BY <3>2 DEF AlertInv, Trades
        <3> QED BY <3>1, <3>2, <3>3, <3>4 DEF AlertInv
    <2> QED BY <2>1, <2>2
<1>13. CASE Tool
    BY <1>1, <1>13 DEF Tool, ToolOpens, ToolPlans, ToolFetches, ToolEnds
<1>14. CASE ToolDies \/ Clock
    BY <1>1, <1>14 DEF ToolDies, Clock
<1> QED
    BY <1>2, <1>3, <1>4, <1>5, <1>6, <1>7, <1>8, <1>9, <1>10, <1>11, <1>12, <1>13, <1>14
       DEF Next, Daemon, Engine

\* No trade is alerted twice and none is passed over but those an engine died with, however
\* often the engine, its daemon and its machine restart (engine.py:338, 419-433).
THEOREM AlertsOnce == Spec => []AlertedOnce
<1>1. Init => AlertInv
    <2> SUFFICES ASSUME Init PROVE AlertInv
        OBVIOUS
    <2>1. /\ trades = 0 /\ lastAlert = 0 /\ alerts = [t \in Trades |-> 0] /\ lost = {}
          /\ pc = "off"
        BY DEF Init
    <2>2. \A t \in Trades : ~(t <= 0)
        BY DEF Trades
    <2>3. AlertedOnce
        BY <2>1, <2>2 DEF AlertedOnce
    <2> QED BY <2>1, <2>2, <2>3, AlwaysOnAssumption DEF AlertInv
<1>2. AlertInv => AlertedOnce
    BY DEF AlertInv
<1> QED BY <1>1, <1>2, AlertStep, ServiceInvariant, PTL DEF Spec

------------------------------------------------------------------------------
(* The schema under the service *)

\* A commit of data changes nothing of the schema and moves no constructor.
LEMMA DataCommit ==
    ASSUME SchemaInv, NEW o \in Openers, CommitAndGoto(o, conn[o]),
           UNCHANGED <<objects, version, raced>>
    PROVE  SchemaInv'
<1>1. conn[o] \in Conn
    BY DEF SchemaInv, SchemaTypes
<1>2. /\ conn' \in [Openers -> Conn]
      /\ conn'[o] = conn[o]
      /\ \A p \in Openers \ {o} : /\ conn'[p].at = conn[p].at
                                  /\ conn'[p].ver = conn[p].ver
                                  /\ conn'[p].new = conn[p].new
    BY <1>1, OneMoves DEF SchemaInv
<1>3. \A p \in Openers : /\ conn'[p].at = conn[p].at
                         /\ conn'[p].ver = conn[p].ver
                         /\ conn'[p].new = conn[p].new
    BY <1>2
<1>4. SchemaTypes'
    BY <1>2 DEF SchemaInv, SchemaTypes
<1>5. \A p \in Openers : Sane(p)'
    BY <1>3, OthersSane DEF SchemaInv
<1>6. InTurn'
    BY <1>3 DEF SchemaInv, InTurn, OnceOnly, Migrating
<1>7. NothingSkipped'
    BY DEF SchemaInv, NothingSkipped
<1> QED BY <1>4, <1>5, <1>6, <1>7 DEF SchemaInv

\* A connection goes, in whatever state it was.
LEMMA AnyClose ==
    ASSUME SchemaInv, NEW o \in Openers, Close(o)
    PROVE  SchemaInv'
<1>1. conn'[o] = Closed
    BY ClosedConn, OneMoves DEF Close, SchemaInv
<1>2. Sane(o)'
    BY <1>1 DEF Closed, Sane, Migrating
<1> QED BY <1>2, ClosedConn, QuietStep DEF Close, Closed

\* Whatever the service and the tool do to the ledger is a step of an opener, a commit of
\* data or the end of a connection.
LEMMA SchemaServiceStep == SchemaInv /\ [Next]_vars => SchemaInv'
<1> SUFFICES ASSUME SchemaInv, [Next]_vars PROVE SchemaInv'
    OBVIOUS
<1>1. engine \in Openers /\ tool \in Openers
    BY AlwaysOnAssumption
<1>2. ASSUME UNCHANGED schema PROVE SchemaInv'
    BY <1>2, StepSane
<1>3. ASSUME NEW o \in {engine, tool}, Open(o) \/ Migrate(o) PROVE SchemaInv'
    <2>1. SchemaNext
        BY <1>1, <1>3 DEF SchemaNext
    <2> QED BY <2>1, StepSane
<1>4. ASSUME NEW o \in {engine, tool}, Close(o) PROVE SchemaInv'
    BY <1>1, <1>4, AnyClose
<1>5. ASSUME NEW o \in {engine, tool}, CommitAndGoto(o, conn[o]),
             UNCHANGED <<objects, version, raced>>
      PROVE  SchemaInv'
    BY <1>1, <1>5, DataCommit
<1>6. CASE UNCHANGED vars
    BY <1>2, <1>6 DEF vars
<1>7. CASE Boot \/ Terminate \/ Enable \/ Backoff \/ End
    BY <1>2, <1>7 DEF Boot, Terminate, Enable, Backoff, End
<1>8. CASE Kill \/ EngineRaises \/ OpenRaises
    BY <1>4, <1>8 DEF Kill, EngineRaises, OpenRaises, Dies
<1>9. CASE LoopTop
    BY <1>2, <1>3, <1>9 DEF LoopTop
<1>10. CASE EngineOpens
    BY <1>3, <1>10 DEF EngineOpens
<1>11. CASE StartRun \/ Fetch \/ Sleep
    BY <1>2, <1>11 DEF StartRun, Fetch, Sleep
<1>12. CASE Top \/ Alert
    BY <1>2, <1>4, <1>12 DEF Top, Alert, Returns
<1>13. CASE Save \/ Act
    BY <1>5, <1>13 DEF Save, Act, Commits
<1>14. CASE ToolOpens
    BY <1>3, <1>14 DEF ToolOpens
<1>15. CASE ToolPlans \/ Clock
    BY <1>2, <1>15 DEF ToolPlans, Clock
<1>16. CASE ToolFetches
    BY <1>2, <1>5, <1>16 DEF ToolFetches
<1>17. CASE ToolEnds \/ ToolDies
    BY <1>4, <1>17 DEF ToolEnds, ToolDies
<1> QED
    BY <1>6, <1>7, <1>8, <1>9, <1>10, <1>11, <1>12, <1>13, <1>14, <1>15, <1>16, <1>17
       DEF Next, Daemon, Engine, Tool

\* The engine of a daemon that is killed, restarted and signalled, and a tool beside it: a
\* connection out of the constructor has a complete schema, the version does not lie, and no
\* migration meets its own columns while openers take turns.
THEOREM ServiceSchemaSound == Spec => []SchemaSound
<1>1. Init => SchemaInv
    BY InitSane DEF Init
<1>2. SchemaInv => SchemaSound
    BY DEF SchemaInv, SchemaSound, ReadyMeansComplete, Sane, InTurn, OnceOnlyInTurn
<1> QED BY <1>1, <1>2, SchemaServiceStep, PTL DEF Spec

------------------------------------------------------------------------------
(* The candle store *)

SpanType == [from : Nat, to : Nat]
Covered == Stored \cup Planned(job)

\* The tool's spans lie in the past, in order; nothing is stored beyond the forming candle.
JobInv ==
    /\ now \in Times
    /\ store \in [Times -> {"none", "forming", "final"}]
    /\ disturbed \in BOOLEAN
    /\ \A t \in Stored : t <= now
    /\ job \in Seq(SpanType)
    /\ \A i \in 1 .. Len(job) : job[i].from <= job[i].to /\ job[i].to < now
    /\ \A i, j \in 1 .. Len(job) : i < j => job[i].to < job[j].from
    /\ job # <<>> => task = "extend"

\* Nothing is missing between two candles that are stored or on their way.
NoHole == \A t, u \in Covered : t < u => t + 1 \in Covered
\* What is stored of a span already was stored by the engine, up to the end of the span.
StoredUpward ==
    \A i \in 1 .. Len(job) : \A t \in Stored :
        job[i].from <= t /\ t <= job[i].to => t + 1 \in Stored
\* A candle saved while it formed is the newest, or a span is about to pass it.
OneForming ==
    \A t \in Stored : store[t] = "forming" =>
        \/ \A u \in Covered : u <= t
        \/ \E i \in 1 .. Len(job) : job[i].from = t + 1

CandleInv == JobInv /\ (~disturbed => NoHole /\ StoredUpward /\ OneForming)

\* A set of times that is not empty has a last and a first one.
LEMMA HasBounds ==
    ASSUME NEW S, S \subseteq Times, S # {}
    PROVE  /\ \E t \in S : \A u \in S : u <= t
           /\ \E t \in S : \A u \in S : t <= u
<1>1. S \subseteq Nat /\ MaxNow \in Nat
    BY CandleAssumption DEF Times
<1>2. PICK m \in S : \A y \in S : <<y, m>> \notin OpToRel(<, Nat)
    BY <1>1, NatLessThanWellFounded, WFMin
<1>3. ASSUME NEW u \in S PROVE m <= u
    <2>1. <<u, m>> \notin OpToRel(<, Nat) /\ u \in Nat /\ m \in Nat
        BY <1>1, <1>2
    <2>2. ~(u < m)
        BY <2>1, Zenon DEF OpToRel
    <2>3. u \in Nat /\ m \in Nat
        BY <1>1, <1>2
    <2> QED BY <2>2, <2>3
<1> DEFINE T == {MaxNow - t : t \in S}
<1>4. T \subseteq Nat /\ T # {}
    BY <1>1 DEF Times
<1>5. PICK k \in T : \A y \in T : <<y, k>> \notin OpToRel(<, Nat)
    <2> HIDE DEF T
    <2> QED BY <1>4, NatLessThanWellFounded, WFMin
<1>6. PICK l \in S : k = MaxNow - l
    OBVIOUS
<1>7. ASSUME NEW u \in S PROVE u <= l
    <2>1. <<MaxNow - u, k>> \notin OpToRel(<, Nat) /\ MaxNow - u \in Nat /\ k \in Nat
        BY <1>4, <1>5
    <2>2. ~(MaxNow - u < k)
        BY <2>1, Zenon DEF OpToRel
    <2> QED BY <1>1, <1>6, <2>2
<1> QED BY <1>3, <1>7

\* The bounds of a store that is not empty.
LEMMA StoreBounds ==
    ASSUME Stored # {}
    PROVE  /\ Newest \in Stored /\ \A u \in Stored : u <= Newest
           /\ Oldest \in Stored /\ \A u \in Stored : Oldest <= u
<1>1. Stored \subseteq Times
    BY DEF Stored
<1> QED BY <1>1, HasBounds DEF Newest, Oldest

\* What Rest leaves of the spans when the first is cut at n.
LEMMA RestJob ==
    ASSUME JobInv, job # <<>>, NEW n \in Nat, job[1].from < n, job' = Rest(job, n)
    PROVE  /\ job' \in Seq(SpanType)
           /\ \A i \in 1 .. Len(job') :
                 /\ job'[i].from <= job'[i].to
                 /\ n <= job'[i].from \/ job[1].to < job'[i].from
                 /\ \E k \in 1 .. Len(job) : /\ job'[i].to = job[k].to
                                             /\ job[k].from <= job'[i].from
           /\ \A i, j \in 1 .. Len(job') : i < j => job'[i].to < job'[j].from
           /\ \A k \in 2 .. Len(job) : \E i \in 1 .. Len(job') : job'[i] = job[k]
           /\ n <= job[1].to => \E i \in 1 .. Len(job') :
                                    job'[i].from = n /\ job'[i].to = job[1].to
<1>1. /\ Len(job) \in Nat /\ 1 <= Len(job)
      /\ \A i \in 1 .. Len(job) : job[i] \in SpanType
      /\ Tail(job) \in Seq(SpanType) /\ Len(Tail(job)) = Len(job) - 1
      /\ \A i \in 1 .. Len(job) - 1 : Tail(job)[i] = job[i + 1]
    BY DEF JobInv
<1>2. CASE n <= job[1].to
    <2> DEFINE c == [job[1] EXCEPT !.from = n]
    <2>1. c \in SpanType /\ c.from = n /\ c.to = job[1].to
        BY <1>1 DEF SpanType
    <2>2. job' = <<c>> \o Tail(job)
        BY <1>2 DEF Rest
    <2> HIDE DEF c
    <2>3. /\ job' \in Seq(SpanType) /\ Len(job') = Len(job) /\ job'[1] = c
          /\ \A i \in 2 .. Len(job) : job'[i] = job[i]
        BY <1>1, <2>1, <2>2
    <2>4. \A i \in 2 .. Len(job) : job[1].to < job[i].from /\ job[i].from <= job[i].to
        BY <1>1 DEF JobInv
    <2>5. \A i, j \in 1 .. Len(job') : i < j => job'[i].to < job'[j].from
        <3> SUFFICES ASSUME NEW i \in 1 .. Len(job), NEW j \in 1 .. Len(job), i < j
                     PROVE  job'[i].to < job'[j].from
            BY <2>3
        <3>1. j \in 2 .. Len(job) /\ job'[i].to = job[i].to
            BY <2>1, <2>3
        <3> QED BY <2>3, <3>1 DEF JobInv
    <2>6. ASSUME NEW i \in 1 .. Len(job')
          PROVE  /\ job'[i].from <= job'[i].to
                 /\ n <= job'[i].from \/ job[1].to < job'[i].from
                 /\ \E k \in 1 .. Len(job) : job'[i].to = job[k].to /\ job[k].from <= job'[i].from
        <3>1. CASE i = 1
            <4>1. /\ 1 \in 1 .. Len(job) /\ job'[i].to = job[1].to /\ job'[i].from = n
                  /\ job[1].from <= job'[i].from
                BY <1>1, <2>1, <2>3, <3>1 DEF SpanType
            <4> QED BY <1>2, <4>1
        <3>2. CASE i # 1
            <4>1. /\ i \in 2 .. Len(job) /\ i \in 1 .. Len(job)
                  /\ job'[i] = job[i] /\ job[i] \in SpanType
                BY <1>1, <2>3, <3>2
            <4>2. job'[i].to = job[i].to /\ job[i].from <= job'[i].from
                BY <4>1 DEF SpanType
            <4> QED BY <2>4, <4>1, <4>2
        <3> QED BY <3>1, <3>2
    <2>7. 1 \in 1 .. Len(job') /\ job'[1].from = n /\ job'[1].to = job[1].to
        BY <1>1, <2>1, <2>3
    <2>8. \A k \in 2 .. Len(job) : k \in 1 .. Len(job') /\ job'[k] = job[k]
        BY <1>1, <2>3
    <2> QED BY <2>3, <2>5, <2>6, <2>7, <2>8
<1>3. CASE ~(n <= job[1].to)
    <2>1. job' = Tail(job)
        BY <1>3 DEF Rest
    <2>2. \A i \in 1 .. Len(job') : i + 1 \in 2 .. Len(job) /\ job'[i] = job[i + 1]
        BY <1>1, <2>1
    <2>3. \A k \in 2 .. Len(job) : k - 1 \in 1 .. Len(job') /\ job'[k - 1] = job[k]
        BY <1>1, <2>1
    <2>4. \A i \in 2 .. Len(job) : job[1].to < job[i].from /\ job[i].from <= job[i].to
        BY <1>1 DEF JobInv
    <2>5. \A i, j \in 1 .. Len(job') : i < j => job'[i].to < job'[j].from
        BY <1>1, <2>1, <2>2 DEF JobInv
    <2>6. \A i \in 1 .. Len(job') :
                 /\ job'[i].from <= job'[i].to
                 /\ n <= job'[i].from \/ job[1].to < job'[i].from
                 /\ \E k \in 1 .. Len(job) : job'[i].to = job[k].to /\ job[k].from <= job'[i].from
        <3> TAKE i \in 1 .. Len(job')
        <3> DEFINE k == i + 1
        <3>1. k \in 2 .. Len(job) /\ k \in 1 .. Len(job) /\ job[k] \in SpanType /\ job'[i] = job[k]
            BY <1>1, <2>2
        <3> HIDE DEF k
        <3>2. job'[i].to = job[k].to /\ job[k].from <= job'[i].from
            BY <3>1 DEF SpanType
        <3> QED BY <2>4, <3>1, <3>2
    <2> QED BY <1>1, <1>3, <2>1, <2>3, <2>5, <2>6
<1> QED BY <1>2, <1>3

\* A sequence of spans is one of pairs of numbers.
LEMMA SpanNumbers ==
    ASSUME NEW j \in Seq(SpanType)
    PROVE  /\ Len(j) \in Nat /\ (j # <<>> => 1 \in 1 .. Len(j))
           /\ \A i \in 1 .. Len(j) : j[i].from \in Nat /\ j[i].to \in Nat
<1>1. Len(j) \in Nat /\ (j # <<>> => 1 \in 1 .. Len(j)) /\ \A i \in 1 .. Len(j) : j[i] \in SpanType
    OBVIOUS
<1>2. \A s \in SpanType : s.from \in Nat /\ s.to \in Nat
    BY DEF SpanType
<1> QED BY <1>1, <1>2

\* What the cut takes off the plan, and that it adds nothing.
LEMMA RestPlanned ==
    ASSUME JobInv, job # <<>>, NEW n \in Nat, job[1].from < n, job' = Rest(job, n)
    PROVE  /\ \A t \in Planned(job)' : /\ t \in Planned(job)
                                       /\ n <= t \/ job[1].to < t
           /\ \A t \in Planned(job) : \/ t \in Planned(job)'
                                      \/ job[1].from <= t /\ t <= job[1].to /\ t < n
<1>1. /\ Len(job) \in Nat /\ 1 \in 1 .. Len(job)
      /\ \A i \in 1 .. Len(job) : job[i].from \in Nat /\ job[i].to \in Nat
    BY SpanNumbers DEF JobInv
<1>2. \A i \in 1 .. Len(job') : job'[i].from \in Nat /\ job'[i].to \in Nat
    <2>1. job' \in Seq(SpanType)
        BY RestJob
    <2> QED BY <2>1, SpanNumbers
<1>3. ASSUME NEW t \in Planned(job)'
      PROVE  t \in Planned(job) /\ (n <= t \/ job[1].to < t)
    <2>1. PICK i \in 1 .. Len(job') : t \in job'[i].from .. job'[i].to
        BY <1>3 DEF Planned
    <2>2. n <= job'[i].from \/ job[1].to < job'[i].from
        BY RestJob
    <2>3. PICK k \in 1 .. Len(job) : job'[i].to = job[k].to /\ job[k].from <= job'[i].from
        BY RestJob
    <2>4. t \in job[k].from .. job[k].to
        BY <1>1, <1>2, <2>1, <2>3
    <2>5. n <= t \/ job[1].to < t
        BY <1>1, <1>2, <2>1, <2>2
    <2> QED BY <2>4, <2>5 DEF Planned
<1>4. ASSUME NEW t \in Planned(job), ~(job[1].from <= t /\ t <= job[1].to /\ t < n)
      PROVE  t \in Planned(job)'
    <2>1. PICK k \in 1 .. Len(job) : t \in job[k].from .. job[k].to
        BY DEF Planned
    <2>2. CASE k = 1
        <3>1. n <= t /\ t <= job[1].to
            BY <1>1, <1>4, <2>1, <2>2
        <3>2. n <= job[1].to
            BY <1>1, <2>1, <2>2, <3>1
        <3>3. PICK i \in 1 .. Len(job') : job'[i].from = n /\ job'[i].to = job[1].to
            BY <3>2, RestJob
        <3>4. t \in job'[i].from .. job'[i].to
            BY <1>1, <2>1, <2>2, <3>1, <3>3
        <3> QED BY <3>4 DEF Planned
    <2>3. CASE k # 1
        <3>1. k \in 2 .. Len(job)
            BY <1>1, <2>3
        <3>2. PICK i \in 1 .. Len(job') : job'[i] = job[k]
            BY <3>1, RestJob
        <3> QED BY <2>1, <3>2 DEF Planned
    <2> QED BY <2>2, <2>3
<1> QED BY <1>3, <1>4

\* A turn of the fetch loop: what it saves lies in the first span below the cut and reaches
\* up to it, and what it leaves out of the plan has nothing stored below.
LEMMA FetchTurn ==
    ASSUME CandleInv, job # <<>>, NEW n \in Nat, job[1].from < n, job' = Rest(job, n),
           UNCHANGED <<now, task>>,
           store' \in [Times -> {"none", "forming", "final"}], disturbed' \in BOOLEAN,
           ~disturbed' => ~disturbed,
           \A t \in Stored : t \in Stored',
           \A t \in Stored' : t \in Stored \/ (/\ job[1].from <= t /\ t <= job[1].to /\ t < n
                                               /\ t + 1 < n /\ t < job[1].to => t + 1 \in Stored'),
           \A t \in Stored' : store'[t] = "forming" => t \in Stored /\ store[t] = "forming",
           ~disturbed' => \A t \in Stored : t < job[1].from => store[t] # "forming",
           ~disturbed' => \/ \A t \in Times :
                                job[1].from <= t /\ t <= job[1].to /\ t < n => t \in Stored'
                          \/ \A t \in Stored : job[1].from <= t
    PROVE  CandleInv'
<1> USE DEF CandleInv
<1>1. /\ Len(job) \in Nat /\ 1 \in 1 .. Len(job) /\ now \in Nat
      /\ \A i \in 1 .. Len(job) : job[i].from \in Nat /\ job[i].to \in Nat
      /\ Times \subseteq Nat
    BY SpanNumbers, CandleAssumption DEF JobInv, Times
<1>2. \A i \in 1 .. Len(job') : job'[i].from \in Nat /\ job'[i].to \in Nat
    <2>1. job' \in Seq(SpanType)
        BY RestJob
    <2> QED BY <2>1, SpanNumbers
<1>3. Stored \subseteq Times /\ Stored' \subseteq Times
    BY DEF Stored
<1>4. JobInv'
    <2>1. \A t \in Stored' : t <= now
        <3> SUFFICES ASSUME NEW t \in Stored', t \notin Stored PROVE t <= now
            BY DEF JobInv
        <3>1. t <= job[1].to /\ job[1].to < now /\ t \in Nat
            BY <1>1, <1>3 DEF JobInv
        <3> QED BY <1>1, <3>1
    <2>2. \A i \in 1 .. Len(job') : job'[i].from <= job'[i].to /\ job'[i].to < now
        <3> TAKE i \in 1 .. Len(job')
        <3>1. job'[i].from <= job'[i].to /\ \E k \in 1 .. Len(job) : job'[i].to = job[k].to
            BY RestJob
        <3> QED BY <3>1 DEF JobInv
    <2>3. /\ job' \in Seq(SpanType)
          /\ \A i, j \in 1 .. Len(job') : i < j => job'[i].to < job'[j].from
        BY RestJob
    <2>4. now' \in Times /\ task' = "extend"
        BY DEF JobInv
    <2> QED BY <2>1, <2>2, <2>3, <2>4 DEF JobInv
<1> SUFFICES ASSUME ~disturbed' PROVE NoHole' /\ StoredUpward' /\ OneForming'
    BY <1>4
<1>5. NoHole /\ StoredUpward /\ OneForming
    OBVIOUS
<1>6. ASSUME NEW t \in Covered' PROVE t \in Covered
    <2>1. CASE t \in Planned(job)'
        BY <2>1, RestPlanned DEF Covered
    <2>2. CASE t \in Stored' /\ t \notin Stored
        <3>1. job[1].from <= t /\ t <= job[1].to /\ t \in Nat
            BY <1>3, <2>2
        <3>2. t \in job[1].from .. job[1].to
            BY <1>1, <3>1
        <3> QED BY <1>1, <3>2 DEF Covered, Planned
    <2>3. CASE t \in Stored
        BY <2>3 DEF Covered
    <2> QED BY <2>1, <2>2, <2>3 DEF Covered
<1>7. Covered \subseteq Nat
    <2>1. \A t \in Planned(job) : t \in Nat
        <3> SUFFICES ASSUME NEW i \in 1 .. Len(job), NEW t \in job[i].from .. job[i].to
                     PROVE  t \in Nat
            BY DEF Planned
        <3> QED BY <1>1
    <2> QED BY <1>1, <1>3, <2>1 DEF Covered
<1>8. NoHole'
    <2> SUFFICES ASSUME NEW t \in Covered', NEW u \in Covered', t < u, t + 1 \notin Covered'
                 PROVE  FALSE
        BY DEF NoHole
    <2>1. t \in Covered /\ u \in Covered /\ t \in Nat /\ u \in Nat
        BY <1>6, <1>7
    <2>2. t + 1 \in Covered /\ t + 1 \notin Stored' /\ t + 1 \notin Planned(job)'
        BY <1>5, <2>1 DEF NoHole, Covered
    <2>3. t + 1 \in Planned(job) /\ t + 1 \notin Stored
        BY <2>2 DEF Covered
    <2>4. job[1].from <= t + 1 /\ t + 1 <= job[1].to /\ t + 1 < n
        BY <2>2, <2>3, RestPlanned
    <2>5. t + 1 \in Times
        <3>1. t + 1 <= now
            BY <1>1, <2>1, <2>4 DEF JobInv
        <3>2. now <= MaxNow /\ MaxNow \in Nat
            BY CandleAssumption DEF JobInv, Times
        <3> QED BY <1>1, <2>1, <3>1, <3>2 DEF Times
    <2>6. \A s \in Stored : job[1].from <= s
        BY <2>2, <2>4, <2>5
    <2>7. t \notin Planned(job)'
        <3> SUFFICES ASSUME t \in Planned(job)' PROVE FALSE
            OBVIOUS
        <3>1. n <= t \/ job[1].to < t
            BY RestPlanned
        <3> QED BY <1>1, <2>1, <2>4, <3>1
    <2>8. t \in Stored'
        BY <2>7 DEF Covered
    <2>9. CASE t \in Stored
        <3>1. job[1].from <= t /\ t <= job[1].to
            BY <1>1, <2>1, <2>4, <2>6, <2>9
        <3>2. t + 1 \in Stored
            BY <1>1, <1>5, <2>9, <3>1 DEF StoredUpward
        <3> QED BY <2>3, <3>2
    <2>10. CASE t \notin Stored
        <3>1. t + 1 < n /\ t < job[1].to
            BY <1>1, <2>1, <2>4
        <3> QED BY <2>2, <2>8, <2>10, <3>1
    <2> QED BY <2>9, <2>10
<1>9. StoredUpward'
    <2> SUFFICES ASSUME NEW i \in 1 .. Len(job'), NEW t \in Stored',
                        job'[i].from <= t, t <= job'[i].to
                 PROVE  t + 1 \in Stored'
        BY DEF StoredUpward
    <2>1. PICK k \in 1 .. Len(job) : job'[i].to = job[k].to /\ job[k].from <= job'[i].from
        BY RestJob
    <2>2. n <= job'[i].from \/ job[1].to < job'[i].from
        BY RestJob
    <2>3. t \in Nat
        BY <1>1, <1>3
    <2>4. t \in Stored
        <3>1. n <= t \/ job[1].to < t
            BY <1>1, <1>2, <2>2, <2>3
        <3>2. ~(t <= job[1].to /\ t < n)
            BY <1>1, <2>3, <3>1
        <3> QED BY <3>2
    <2>5. job[k].from <= t /\ t <= job[k].to
        BY <1>1, <1>2, <2>1, <2>3
    <2>6. t + 1 \in Stored
        BY <1>5, <2>4, <2>5 DEF StoredUpward
    <2> QED BY <2>6
<1>10. OneForming'
    <2> SUFFICES ASSUME NEW t \in Stored', store'[t] = "forming"
                 PROVE  \/ \A u \in Covered' : u <= t
                        \/ \E i \in 1 .. Len(job') : job'[i].from = t + 1
        BY DEF OneForming
    <2>1. t \in Stored /\ store[t] = "forming" /\ t \in Nat
        BY <1>1, <1>3
    <2>2. CASE \A u \in Covered : u <= t
        BY <1>6, <2>2
    <2>3. CASE \E i \in 1 .. Len(job) : job[i].from = t + 1
        <3>1. PICK i \in 1 .. Len(job) : job[i].from = t + 1
            BY <2>3
        <3>2. CASE i = 1
            <4>1. t < job[1].from
                BY <1>1, <2>1, <3>1, <3>2
            <4> QED BY <2>1, <4>1
        <3>3. CASE i # 1
            <4>1. i \in 2 .. Len(job)
                BY <1>1, <3>3
            <4>2. \E k \in 1 .. Len(job') : job'[k] = job[i]
                BY <4>1, RestJob
            <4> QED BY <3>1, <4>2
        <3> QED BY <3>2, <3>3
    <2> QED BY <1>5, <2>1, <2>2, <2>3 DEF OneForming
<1> QED BY <1>8, <1>9, <1>10

\* The invariant reads the candles, the spans and whether the tool is extending.
LEMMA CandlesQuiet ==
    ASSUME CandleInv, UNCHANGED <<candles, job>>, task' = task \/ job = <<>>
    PROVE  CandleInv'
<1>1. UNCHANGED <<now, store, disturbed, job>>
    BY DEF candles
<1>2. Stored' = Stored /\ Covered' = Covered
    BY <1>1 DEF Stored, Covered, Planned
<1>3. JobInv'
    BY <1>1, <1>2 DEF CandleInv, JobInv
<1>4. ~disturbed => NoHole' /\ StoredUpward' /\ OneForming'
    BY <1>1, <1>2 DEF CandleInv, NoHole, StoredUpward, OneForming
<1> QED BY <1>1, <1>3, <1>4 DEF CandleInv

\* Time passes.
LEMMA CandlesPass == CandleInv /\ Passes /\ UNCHANGED <<task, job>> => CandleInv'
<1> SUFFICES ASSUME CandleInv, Passes, UNCHANGED <<task, job>> PROVE CandleInv'
    OBVIOUS
<1>1. now' = now + 1 /\ now < MaxNow /\ UNCHANGED <<store, disturbed, job, task>>
    BY DEF Passes
<1>2. Stored' = Stored /\ Covered' = Covered
    BY <1>1 DEF Stored, Covered, Planned
<1>3. JobInv'
    <2>1. now \in Nat /\ now' \in Times
        BY <1>1, CandleAssumption DEF CandleInv, JobInv, Times
    <2>2. \A t \in Stored' : t <= now'
        <3> TAKE t \in Stored'
        <3>1. t \in Nat /\ t <= now
            BY <1>2, CandleAssumption DEF CandleInv, JobInv, Stored, Times
        <3> QED BY <1>1, <2>1, <3>1
    <2>3. \A i \in 1 .. Len(job) : job[i].to < now'
        <3> TAKE i \in 1 .. Len(job)
        <3>1. job[i].to \in Nat /\ job[i].to < now
            BY SpanNumbers DEF CandleInv, JobInv
        <3> QED BY <1>1, <2>1, <3>1
    <2> QED BY <1>1, <2>1, <2>2, <2>3 DEF CandleInv, JobInv
<1>4. ~disturbed => NoHole' /\ StoredUpward' /\ OneForming'
    BY <1>1, <1>2 DEF CandleInv, NoHole, StoredUpward, OneForming
<1> QED BY <1>1, <1>3, <1>4 DEF CandleInv

\* An upsert of times up to now: what is stored, and what is forming, after it.
LEMMA AfterUpsert ==
    ASSUME CandleInv, NEW ts, ts \subseteq Times, store' = Upsert(ts)
    PROVE  /\ store' \in [Times -> {"none", "forming", "final"}]
           /\ Stored' = Stored \cup ts
           /\ \A t \in Stored' : store'[t] = "forming" =>
                 (t \in ts /\ t = now) \/ (t \in Stored \ ts /\ store[t] = "forming")
<1>1. store' = [t \in Times |-> IF t \in ts THEN IF t = now THEN "forming" ELSE "final"
                                ELSE store[t]]
    BY DEF Upsert, Quality
<1>2. store \in [Times -> {"none", "forming", "final"}]
    BY DEF CandleInv, JobInv
<1> QED BY <1>1, <1>2 DEF Stored

\* The engine saves its window: the newest candles, one of them forming.
LEMMA CandlesLive == CandleInv /\ SaveLive(job) /\ UNCHANGED <<task, job>> => CandleInv'
<1> SUFFICES ASSUME CandleInv, SaveLive(job), UNCHANGED <<task, job>> PROVE CandleInv'
    OBVIOUS
<1> DEFINE ts == Served(now - Window + 1, now)
<1>1. /\ store' = Upsert(ts) /\ now' = now /\ UNCHANGED <<task, job>>
      /\ disturbed' = (disturbed \/ (Covered # {} /\ \A t \in Covered : t <= now - Window))
    BY DEF SaveLive, Covered
<1>2. /\ now \in Nat /\ now <= MaxNow /\ MaxNow \in Nat /\ Window \in Nat /\ Window >= 1
      /\ Reach \in Nat /\ Window <= Reach + 1
    BY CandleAssumption DEF CandleInv, JobInv, Times
<1>3. \A t : t \in ts <=> t \in Nat /\ now - Window < t /\ t <= now
    BY <1>2 DEF Served, Times
<1>4. ts \subseteq Times
    BY DEF Served
<1> HIDE DEF ts
<1>5. /\ store' \in [Times -> {"none", "forming", "final"}]
      /\ Stored' = Stored \cup ts
      /\ \A t \in Stored' : store'[t] = "forming" =>
            (t \in ts /\ t = now) \/ (t \in Stored \ ts /\ store[t] = "forming")
    BY <1>1, <1>4, AfterUpsert
<1>6. Stored \subseteq Nat
    BY <1>2 DEF Stored, Times
<1>7. JobInv'
    <2>1. \A t \in Stored' : t <= now'
        BY <1>1, <1>3, <1>5 DEF CandleInv, JobInv
    <2>2. disturbed' \in BOOLEAN
        BY <1>1 DEF CandleInv, JobInv
    <2> QED BY <1>1, <1>5, <2>1, <2>2 DEF CandleInv, JobInv
<1>8. Planned(job)' = Planned(job)
    BY <1>1 DEF Planned
<1>9. \A t \in Covered : t \in Nat /\ t <= now
    <2>1. ASSUME NEW i \in 1 .. Len(job), NEW t \in job[i].from .. job[i].to
          PROVE  t \in Nat /\ t <= now
        <3>1. job[i].from \in Nat /\ job[i].to \in Nat /\ job[i].to < now
            BY SpanNumbers DEF CandleInv, JobInv
        <3> QED BY <1>2, <3>1
    <2>2. \A t \in Planned(job) : t \in Nat /\ t <= now
        BY <2>1 DEF Planned
    <2> QED BY <1>6, <2>2 DEF Covered, CandleInv, JobInv
<1>10. Covered' = Covered \cup ts
    BY <1>5, <1>8 DEF Covered
<1> SUFFICES ASSUME ~disturbed' PROVE NoHole' /\ StoredUpward' /\ OneForming'
    BY <1>7 DEF CandleInv
<1>11. NoHole /\ StoredUpward /\ OneForming
    BY <1>1 DEF CandleInv
<1>12. Covered = {} \/ \E c \in Covered : now - Window < c
    <2> SUFFICES ASSUME Covered # {} PROVE \E c \in Covered : now - Window < c
        OBVIOUS
    <2>1. PICK c \in Covered : ~(c <= now - Window)
        BY <1>1
    <2> QED BY <1>2, <1>9, <2>1
<1>13. NoHole'
    <2> SUFFICES ASSUME NEW t \in Covered', NEW u \in Covered', t < u PROVE t + 1 \in Covered'
        BY DEF NoHole
    <2>1. t \in Nat /\ u \in Nat /\ t + 1 <= now
        BY <1>2, <1>3, <1>9, <1>10
    <2>2. CASE now - Window < t + 1
        BY <1>3, <1>10, <2>1, <2>2
    <2>3. CASE ~(now - Window < t + 1)
        <3>1. t \notin ts
            BY <1>2, <1>3, <2>1, <2>3
        <3>2. t \in Covered
            BY <1>10, <3>1
        <3>3. PICK c \in Covered : now - Window < c
            BY <1>12, <3>2
        <3>4. t < c
            BY <1>2, <1>9, <2>1, <2>3, <3>3
        <3> QED BY <1>10, <1>11, <3>2, <3>3, <3>4 DEF NoHole
    <2> QED BY <2>2, <2>3
<1>14. StoredUpward'
    <2> SUFFICES ASSUME NEW i \in 1 .. Len(job), NEW t \in Stored',
                        job[i].from <= t, t <= job[i].to
                 PROVE  t + 1 \in Stored'
        BY <1>1 DEF StoredUpward
    <2>1. CASE t \in Stored
        BY <1>5, <1>11, <2>1 DEF StoredUpward
    <2>2. CASE t \in ts
        <3>1. job[i].to \in Nat /\ job[i].to < now
            BY SpanNumbers DEF CandleInv, JobInv
        <3>2. t + 1 \in ts
            BY <1>2, <1>3, <2>2, <3>1
        <3> QED BY <1>5, <3>2
    <2> QED BY <1>5, <2>1, <2>2
<1>15. OneForming'
    <2> SUFFICES ASSUME NEW t \in Stored', store'[t] = "forming"
                 PROVE  \/ \A u \in Covered' : u <= t
                        \/ \E i \in 1 .. Len(job) : job[i].from = t + 1
        BY <1>1 DEF OneForming
    <2>1. CASE t \in ts /\ t = now
        BY <1>3, <1>9, <1>10, <2>1
    <2>2. CASE t \in Stored \ ts /\ store[t] = "forming"
        <3>1. ~(now - Window < t) /\ t \in Covered
            BY <1>3, <1>6, <1>9, <2>2 DEF Covered
        <3>2. PICK c \in Covered : now - Window < c
            BY <1>12, <3>1
        <3>3. ~(c <= t)
            BY <1>2, <1>9, <3>1, <3>2
        <3> QED BY <1>11, <2>2, <3>2, <3>3 DEF OneForming
    <2> QED BY <1>5, <2>1, <2>2
<1> QED BY <1>13, <1>14, <1>15

\* A turn that finds nothing there: the exchange remembers none of the chunk.
LEMMA CandlesProbe ==
    ASSUME CandleInv, job # <<>>, NoneServed(job), job' = Rest(job, job[1].from + Probe),
           task' = task
    PROVE  CandleInv'
<1> DEFINE n == job[1].from + Probe
<1>1. /\ UNCHANGED <<now, store>> /\ disturbed' = (disturbed \/ Overtaken(job[1]))
      /\ Served(job[1].from, ChunkEnd(job[1])) = {}
    BY DEF NoneServed
<1>2. /\ now \in Nat /\ now <= MaxNow /\ MaxNow \in Nat /\ Reach \in Nat
      /\ Chunk \in Nat /\ Chunk >= 1 /\ Probe \in Nat /\ Probe >= 1
    BY CandleAssumption DEF CandleInv, JobInv, Times
<1>3. /\ job[1].from \in Nat /\ job[1].to \in Nat
      /\ job[1].from <= job[1].to /\ job[1].to < now
    BY SpanNumbers DEF CandleInv, JobInv
<1>4. n \in Nat /\ job[1].from < n
    BY <1>2, <1>3
<1>5. now - job[1].from > Reach
    <2>1. job[1].from <= ChunkEnd(job[1])
        BY <1>2, <1>3 DEF ChunkEnd
    <2>2. job[1].from \notin Served(job[1].from, ChunkEnd(job[1]))
        BY <1>1
    <2> QED BY <1>2, <1>3, <2>1, <2>2 DEF Served, Times
<1>6. Stored' = Stored
    BY <1>1 DEF Stored
<1>7. ~disturbed' => ~disturbed /\ \A t \in Stored : ~(t < job[1].from)
    BY <1>1, <1>5 DEF Overtaken
<1>8. \A t \in Stored : t \in Nat
    BY <1>2 DEF Stored, Times
<1>9. ~disturbed' => \A t \in Stored : job[1].from <= t
    BY <1>3, <1>7, <1>8
<1>10. disturbed' \in BOOLEAN /\ store' \in [Times -> {"none", "forming", "final"}]
    BY <1>1 DEF CandleInv, JobInv
<1> HIDE DEF n
<1>11. job' = Rest(job, n)
    BY DEF n
<1> QED BY <1>1, <1>4, <1>6, <1>7, <1>9, <1>10, <1>11, FetchTurn

\* A turn that saves what there is of the chunk.
LEMMA CandlesChunk ==
    ASSUME CandleInv, job # <<>>, SaveChunk(job), job' = Rest(job, ChunkEnd(job[1]) + 1),
           task' = task
    PROVE  CandleInv'
<1> DEFINE n == ChunkEnd(job[1]) + 1
           ts == Served(job[1].from, ChunkEnd(job[1]))
<1>1. /\ store' = Upsert(ts) /\ now' = now
      /\ disturbed' = (disturbed \/ Overtaken(job[1]) \/ Frozen(job[1]))
    BY DEF SaveChunk
<1>2. /\ now \in Nat /\ now <= MaxNow /\ MaxNow \in Nat /\ Reach \in Nat
      /\ Chunk \in Nat /\ Chunk >= 1
    BY CandleAssumption DEF CandleInv, JobInv, Times
<1>3. /\ job[1].from \in Nat /\ job[1].to \in Nat
      /\ job[1].from <= job[1].to /\ job[1].to < now
    BY SpanNumbers DEF CandleInv, JobInv
<1>4. /\ ChunkEnd(job[1]) \in Nat
      /\ job[1].from <= ChunkEnd(job[1]) /\ ChunkEnd(job[1]) <= job[1].to
    BY <1>2, <1>3 DEF ChunkEnd
<1>14. n \in Nat /\ job[1].from < n /\ n <= job[1].to + 1
    BY <1>3, <1>4
<1>5. \A t : t \in ts <=> t \in Nat /\ job[1].from <= t /\ t < n /\ now - t <= Reach
    <2> SUFFICES ASSUME NEW t
                 PROVE  t \in ts <=> t \in Nat /\ job[1].from <= t /\ t < n /\ now - t <= Reach
        OBVIOUS
    <2>1. t \in ts <=> /\ t \in 0 .. MaxNow /\ job[1].from <= t /\ t <= ChunkEnd(job[1])
                      /\ t <= now /\ now - t <= Reach
        BY DEF Served, Times
    <2>2. ASSUME t \in Nat PROVE t < n <=> t <= ChunkEnd(job[1])
        BY <1>4, <2>2
    <2> QED BY <1>2, <1>3, <1>4, <2>1, <2>2
<1>6. ts \subseteq Times
    BY DEF Served
<1>7. job' = Rest(job, n)
    OBVIOUS
<1> HIDE DEF n, ts
<1>8. /\ store' \in [Times -> {"none", "forming", "final"}]
      /\ Stored' = Stored \cup ts
      /\ \A t \in Stored' : store'[t] = "forming" =>
            (t \in ts /\ t = now) \/ (t \in Stored \ ts /\ store[t] = "forming")
    BY <1>1, <1>6, AfterUpsert
<1>9. \A t \in Stored' : t \in Stored \/ (/\ job[1].from <= t /\ t <= job[1].to /\ t < n
                                          /\ t + 1 < n /\ t < job[1].to => t + 1 \in Stored')
    <2> SUFFICES ASSUME NEW t \in ts
                 PROVE  /\ job[1].from <= t /\ t <= job[1].to /\ t < n
                        /\ t + 1 < n => t + 1 \in ts
        BY <1>8
    <2> QED BY <1>2, <1>3, <1>14, <1>5
<1>10. \A t \in Stored' : store'[t] = "forming" => t \in Stored /\ store[t] = "forming"
    <2>1. now \notin ts
        BY <1>2, <1>3, <1>14, <1>5
    <2> QED BY <1>8, <2>1
<1>11. ~disturbed' => ~disturbed /\ \A t \in Stored : t < job[1].from => store[t] # "forming"
    BY <1>1 DEF Frozen
<1>12. ~disturbed' => \/ \A t \in Times :
                            job[1].from <= t /\ t <= job[1].to /\ t < n => t \in Stored'
                      \/ \A t \in Stored : job[1].from <= t
    <2> SUFFICES ASSUME ~disturbed'
                 PROVE  \/ \A t \in Times :
                            job[1].from <= t /\ t <= job[1].to /\ t < n => t \in Stored'
                        \/ \A t \in Stored : job[1].from <= t
        OBVIOUS
    <2>1. CASE now - job[1].from > Reach
        <3>1. \A t \in Stored : ~(t < job[1].from)
            BY <1>1, <2>1 DEF Overtaken
        <3>2. \A t \in Stored : t \in Nat
            BY <1>2 DEF Stored, Times
        <3>3. \A t \in Stored : job[1].from <= t
            BY <1>3, <3>1, <3>2
        <3> QED BY <3>3
    <2>2. CASE ~(now - job[1].from > Reach)
        <3>1. \A t \in Times : job[1].from <= t /\ t < n => t \in ts
            BY <1>2, <1>3, <1>5, <2>2 DEF Times
        <3> QED BY <1>8, <3>1
    <2> QED BY <2>1, <2>2
<1>13. disturbed' \in BOOLEAN
    BY <1>1 DEF CandleInv, JobInv
<1> QED BY <1>1, <1>14, <1>7, <1>8, <1>9, <1>10, <1>11, <1>12, <1>13, FetchTurn

\* A span given up: the rest of the plan stays as it was.
LEMMA CandlesCut ==
    ASSUME CandleInv, CutShort, job' \in Seq(SpanType),
           \A i \in 1 .. Len(job') : job'[i].from <= job'[i].to /\ job'[i].to < now,
           \A i, j \in 1 .. Len(job') : i < j => job'[i].to < job'[j].from,
           job' # <<>> => task' = "extend"
    PROVE  CandleInv'
<1>1. disturbed' = TRUE /\ UNCHANGED <<now, store>>
    BY DEF CutShort
<1>2. Stored' = Stored
    BY <1>1 DEF Stored
<1>3. disturbed' \in BOOLEAN
    BY <1>1
<1> QED BY <1>1, <1>2, <1>3 DEF CandleInv, JobInv

\* The tool plans: the spans adjoin what is stored.
LEMMA CandlesPlan ==
    ASSUME CandleInv, job = <<>>, job' = Spans, task' = "extend", UNCHANGED candles
    PROVE  CandleInv'
<1> DEFINE from == IF now > Days THEN now - Days ELSE 0
           old == Span(from, Oldest - 1)
           new == Span(Newest + 1, now - 1)
           all == Span(from, now - 1)
<1>1. UNCHANGED <<now, store, disturbed>> /\ now \in Nat /\ from \in Nat
    BY CandleAssumption DEF candles, CandleInv, JobInv, Times
<1>2. Stored' = Stored /\ \A t \in Stored : t \in Nat /\ t <= now
    BY <1>1, CandleAssumption DEF Stored, Times, CandleInv, JobInv
<1>3. Planned(job) = {} /\ Covered = Stored
    BY DEF Planned, Covered
<1> HIDE DEF from
<1>4. ASSUME NEW lo \in Int, NEW hi \in Int
      PROVE  /\ lo <= hi => Span(lo, hi) = <<[from |-> lo, to |-> hi]>>
             /\ ~(lo <= hi) => Span(lo, hi) = <<>>
    BY DEF Span
<1>5. CASE Stored = {}
    <2>1. job' = all
        BY <1>5 DEF Spans, from
    <2>2. CASE from <= now - 1
        <3> DEFINE s == [from |-> from, to |-> now - 1]
        <3>1. job' = <<s>>
            BY <1>1, <1>4, <2>1, <2>2
        <3>2. s \in SpanType /\ s.from = from /\ s.to = now - 1
            BY <1>1, <2>2 DEF SpanType
        <3> HIDE DEF s
        <3>3. job' \in Seq(SpanType) /\ Len(job') = 1 /\ job'[1] = s
            BY <3>1, <3>2
        <3>4. JobInv'
            BY <1>1, <1>2, <2>2, <3>2, <3>3 DEF CandleInv, JobInv
        <3>5. Covered' = from .. now - 1
            <4>1. Planned(job)' = UNION {job'[i].from .. job'[i].to : i \in {1}}
                BY <3>3 DEF Planned
            <4> QED BY <1>2, <1>5, <3>2, <3>3, <4>1 DEF Covered
        <3>6. NoHole'
            BY <1>1, <3>5 DEF NoHole
        <3> QED BY <1>2, <1>5, <3>4, <3>6 DEF CandleInv, StoredUpward, OneForming
    <2>3. CASE ~(from <= now - 1)
        <3>1. job' = <<>>
            BY <1>1, <1>4, <2>1, <2>3
        <3>2. CandleInv'
            BY <3>1, CandlesQuiet
        <3> QED BY <3>2
    <2> QED BY <2>2, <2>3
<1>6. CASE Stored # {}
    <2>1. job' = old \o new
        BY <1>6 DEF Spans, from
    <2>2. /\ Newest \in Stored /\ (\A u \in Stored : u <= Newest)
          /\ Oldest \in Stored /\ (\A u \in Stored : Oldest <= u)
          /\ Newest \in Nat /\ Oldest \in Nat /\ Oldest <= Newest /\ Newest <= now
        BY <1>2, <1>6, StoreBounds
    <2> DEFINE o == [from |-> from, to |-> Oldest - 1]
               w == [from |-> Newest + 1, to |-> now - 1]
    <2>3. /\ from <= Oldest - 1 => old = <<o>> /\ o \in SpanType
          /\ ~(from <= Oldest - 1) => old = <<>>
          /\ Newest + 1 <= now - 1 => new = <<w>> /\ w \in SpanType
          /\ ~(Newest + 1 <= now - 1) => new = <<>>
        <3>1. from <= Oldest - 1 => o \in SpanType
            BY <1>1, <2>2 DEF SpanType
        <3>2. Newest + 1 <= now - 1 => w \in SpanType
            BY <1>1, <2>2 DEF SpanType
        <3> QED BY <1>1, <1>4, <2>2, <3>1, <3>2
    <2>4. o.from = from /\ o.to = Oldest - 1 /\ w.from = Newest + 1 /\ w.to = now - 1
        OBVIOUS
    <2> HIDE DEF old, new, o, w
    <2>5. /\ job' \in Seq(SpanType)
          /\ \A i \in 1 .. Len(job') : \/ job'[i] = o /\ from <= Oldest - 1
                                       \/ job'[i] = w /\ Newest + 1 <= now - 1
          /\ \A i, j \in 1 .. Len(job') : i < j => job'[i] = o /\ job'[j] = w
          /\ Newest + 1 <= now - 1 => \E i \in 1 .. Len(job') : job'[i] = w
        <3>1. CASE from <= Oldest - 1 /\ Newest + 1 <= now - 1
            <4>1. job' = <<o>> \o <<w>> /\ o \in SpanType /\ w \in SpanType
                BY <2>1, <2>3, <3>1
            <4>2. job' \in Seq(SpanType) /\ Len(job') = 2 /\ job'[1] = o /\ job'[2] = w
                BY <4>1
            <4> QED BY <3>1, <4>2
        <3>2. CASE from <= Oldest - 1 /\ ~(Newest + 1 <= now - 1)
            <4>1. job' = <<o>> \o <<>> /\ o \in SpanType
                BY <2>1, <2>3, <3>2
            <4>2. job' \in Seq(SpanType) /\ Len(job') = 1 /\ job'[1] = o
                BY <4>1
            <4> QED BY <3>2, <4>2
        <3>3. CASE ~(from <= Oldest - 1) /\ Newest + 1 <= now - 1
            <4>1. job' = <<>> \o <<w>> /\ w \in SpanType
                BY <2>1, <2>3, <3>3
            <4>2. job' \in Seq(SpanType) /\ Len(job') = 1 /\ job'[1] = w
                BY <4>1
            <4> QED BY <3>3, <4>2
        <3>4. CASE ~(from <= Oldest - 1) /\ ~(Newest + 1 <= now - 1)
            <4>1. job' \in Seq(SpanType) /\ Len(job') = 0
                BY <2>1, <2>3, <3>4
            <4> QED BY <3>4, <4>1
        <3> QED BY <3>1, <3>2, <3>3, <3>4
    <2>6. JobInv'
        <3>1. \A i \in 1 .. Len(job') : job'[i].from <= job'[i].to /\ job'[i].to < now
            BY <1>1, <2>2, <2>4, <2>5
        <3>2. \A i, j \in 1 .. Len(job') : i < j => job'[i].to < job'[j].from
            <4> SUFFICES ASSUME NEW i \in 1 .. Len(job'), NEW j \in 1 .. Len(job'), i < j
                         PROVE  job'[i].to < job'[j].from
                OBVIOUS
            <4>1. job'[i].to = Oldest - 1 /\ job'[j].from = Newest + 1
                BY <2>4, <2>5
            <4> QED BY <2>2, <4>1
        <3> QED BY <1>1, <1>2, <2>5, <3>1, <3>2 DEF CandleInv, JobInv
    <2>7. \A t \in Covered' : \/ t \in Stored
                              \/ t \in Nat /\ t < Oldest
                              \/ t \in Nat /\ Newest < t /\ Newest + 1 <= now - 1 /\ t <= now - 1
        <3> SUFFICES ASSUME NEW i \in 1 .. Len(job'), NEW t \in job'[i].from .. job'[i].to
                     PROVE  \/ t \in Nat /\ t < Oldest
                            \/ t \in Nat /\ Newest < t /\ Newest + 1 <= now - 1 /\ t <= now - 1
            BY <1>2 DEF Covered, Planned
        <3>1. CASE job'[i] = o
            BY <1>1, <2>2, <2>4, <3>1
        <3>2. CASE job'[i] = w /\ Newest + 1 <= now - 1
            BY <1>1, <2>2, <2>4, <3>2
        <3> QED BY <2>5, <3>1, <3>2
    <2>8. ASSUME ~disturbed PROVE NoHole'
        <3>1. NoHole
            BY <2>8 DEF CandleInv
        <3> SUFFICES ASSUME NEW t \in Covered', NEW u \in Covered', t < u PROVE t + 1 \in Covered'
            BY DEF NoHole
        <3>2. t \in Nat /\ u \in Nat
            BY <1>2, <2>7
        <3>3. CASE t \in Stored
            <4>1. CASE t < Newest
                <5>1. t + 1 \in Stored
                    BY <1>3, <2>2, <3>1, <3>3, <4>1 DEF NoHole
                <5> QED BY <1>2, <5>1 DEF Covered
            <4>2. CASE ~(t < Newest)
                <5>1. t = Newest
                    BY <2>2, <3>2, <3>3, <4>2
                <5>2. Newest + 1 <= now - 1
                    BY <2>2, <2>7, <3>2, <5>1
                <5>3. PICK i \in 1 .. Len(job') : job'[i] = w
                    BY <2>5, <5>2
                <5>4. t + 1 \in job'[i].from .. job'[i].to
                    BY <1>1, <2>2, <2>4, <5>1, <5>2, <5>3
                <5> QED BY <5>3, <5>4 DEF Covered, Planned
            <4> QED BY <4>1, <4>2
        <3>4. CASE t \notin Stored
            <4>1. PICK i \in 1 .. Len(job') : t \in job'[i].from .. job'[i].to
                BY <1>2, <3>4 DEF Covered, Planned
            <4>2. CASE job'[i] = o
                <5>1. CASE t + 1 = Oldest
                    BY <1>2, <2>2, <5>1 DEF Covered
                <5>2. CASE t + 1 # Oldest
                    <6>1. t + 1 \in job'[i].from .. job'[i].to
                        BY <1>1, <2>2, <2>4, <3>2, <4>1, <4>2, <5>2
                    <6> QED BY <6>1 DEF Covered, Planned
                <5> QED BY <5>1, <5>2
            <4>3. CASE job'[i] = w
                <5>1. Newest < t
                    BY <2>2, <2>4, <4>1, <4>3
                <5>2. u <= now - 1 \/ u \in Stored
                    BY <1>1, <2>2, <2>7, <3>2, <5>1
                <5>3. u <= now - 1
                    BY <2>2, <3>2, <5>1, <5>2
                <5>4. t + 1 \in job'[i].from .. job'[i].to
                    BY <1>1, <2>2, <2>4, <3>2, <4>1, <4>3, <5>3
                <5> QED BY <5>4 DEF Covered, Planned
            <4> QED BY <2>5, <4>2, <4>3
        <3> QED BY <3>3, <3>4
    <2>9. StoredUpward'
        <3> SUFFICES ASSUME NEW i \in 1 .. Len(job'), NEW t \in Stored,
                            job'[i].from <= t, t <= job'[i].to
                     PROVE  FALSE
            BY <1>2 DEF StoredUpward
        <3>1. Oldest <= t /\ t <= Newest /\ t \in Nat
            BY <1>2, <2>2
        <3> QED BY <1>1, <2>2, <2>4, <2>5, <3>1
    <2>10. ASSUME ~disturbed PROVE OneForming'
        <3> SUFFICES ASSUME NEW t \in Stored, store[t] = "forming"
                     PROVE  \/ \A u \in Covered' : u <= t
                            \/ \E i \in 1 .. Len(job') : job'[i].from = t + 1
            BY <1>1, <1>2 DEF OneForming
        <3>1. \A u \in Stored : u <= t
            BY <1>3, <2>10 DEF CandleInv, OneForming
        <3>2. t = Newest
            BY <1>2, <2>2, <3>1
        <3>3. CASE Newest + 1 <= now - 1
            BY <2>4, <2>5, <3>2, <3>3
        <3>4. CASE ~(Newest + 1 <= now - 1)
            <4>1. \A u \in Covered' : u \in Stored \/ (u \in Nat /\ u < Oldest)
                BY <2>7, <3>4
            <4>2. ASSUME NEW u \in Covered' PROVE u <= Newest
                <5>1. CASE u \in Stored
                    BY <2>2, <5>1
                <5>2. CASE u \in Nat /\ u < Oldest
                    <6>1. Oldest \in Nat /\ Newest \in Nat /\ Oldest <= Newest
                        BY <2>2
                    <6> QED BY <5>2, <6>1
                <5> QED BY <4>1, <5>1, <5>2
            <4> QED BY <3>2, <4>2
        <3> QED BY <3>3, <3>4
    <2> QED BY <1>1, <2>6, <2>8, <2>9, <2>10 DEF CandleInv
<1> QED BY <1>5, <1>6

LEMMA CandleStep == CandleInv /\ [Next]_vars => CandleInv'
<1> SUFFICES ASSUME CandleInv, [Next]_vars PROVE CandleInv'
    OBVIOUS
<1>1. CASE UNCHANGED vars
    BY <1>1, CandlesQuiet DEF vars
<1>2. CASE Boot \/ Terminate \/ Enable \/ Kill
    BY <1>2, CandlesQuiet DEF Boot, Terminate, Enable, Kill, Dies
<1>3. CASE Daemon
    BY <1>3, CandlesQuiet DEF Daemon, LoopTop, EngineRaises, OpenRaises, Backoff, End, Dies
<1>4. CASE EngineOpens \/ StartRun \/ Top \/ Fetch \/ Act \/ Alert \/ Sleep
    BY <1>4, CandlesQuiet DEF EngineOpens, StartRun, Top, Fetch, Act, Alert, Sleep
<1>5. CASE Save
    BY <1>5, CandlesLive DEF Save
<1>6. CASE ToolOpens \/ ToolEnds
    <2>1. task # "extend" \/ job = <<>>
        BY <1>6 DEF ToolOpens, ToolEnds
    <2>2. job = <<>> /\ UNCHANGED <<candles, job>>
        BY <1>6, <2>1 DEF ToolOpens, ToolEnds, CandleInv, JobInv
    <2> QED BY <2>2, CandlesQuiet
<1>7. CASE ToolPlans
    <2>1. job = <<>>
        BY <1>7 DEF ToolPlans, CandleInv, JobInv
    <2> QED BY <1>7, <2>1, CandlesPlan DEF ToolPlans
<1>8. CASE ToolFetches
    <2>1. CASE NoneServed(job) /\ job' = Rest(job, job[1].from + Probe)
        BY <1>8, <2>1, CandlesProbe DEF ToolFetches
    <2>2. CASE SaveChunk(job) /\ job' = Rest(job, ChunkEnd(job[1]) + 1)
        BY <1>8, <2>2, CandlesChunk DEF ToolFetches
    <2>3. CASE CutShort /\ job' = Tail(job)
        <3>1. job # <<>> /\ task = "extend" /\ task' = "extend" /\ job \in Seq(SpanType)
            BY <1>8 DEF ToolFetches, CandleInv, JobInv
        <3>2. /\ job' \in Seq(SpanType) /\ Len(job') = Len(job) - 1
              /\ \A i \in 1 .. Len(job') : i + 1 \in 1 .. Len(job) /\ job'[i] = job[i + 1]
            BY <2>3, <3>1
        <3>3. \A i \in 1 .. Len(job') : job'[i].from <= job'[i].to /\ job'[i].to < now
            BY <3>2 DEF CandleInv, JobInv
        <3>4. \A i, j \in 1 .. Len(job') : i < j => job'[i].to < job'[j].from
            BY <3>2 DEF CandleInv, JobInv
        <3> QED BY <2>3, <3>1, <3>2, <3>3, <3>4, CandlesCut
    <2> QED BY <1>8, <2>1, <2>2, <2>3 DEF ToolFetches
<1>9. CASE ToolDies
    <2>1. job' = <<>>
        BY <1>9 DEF ToolDies
    <2>2. CASE job = <<>>
        BY <1>9, <2>1, <2>2, CandlesQuiet DEF ToolDies
    <2>3. CASE job # <<>>
        <3>1. job' \in Seq(SpanType) /\ Len(job') = 0
            BY <2>1
        <3> QED BY <1>9, <2>1, <2>3, <3>1, CandlesCut DEF ToolDies
    <2> QED BY <2>2, <2>3
<1>10. CASE Clock
    BY <1>10, CandlesPass DEF Clock
<1> QED
    BY <1>1, <1>2, <1>3, <1>4, <1>5, <1>6, <1>7, <1>8, <1>9, <1>10 DEF Next, Engine, Tool

\* Two writers and one store: whatever the engine's ticks, its restarts and the tool's
\* chunks interleave to, what is stored is complete and final between its bounds, unless an
\* outage, the exchange's memory, a failed fetch or a candle saved while it formed and left
\* there has made that impossible (history.py:13-50, engine.py:495).
THEOREM CandlesStayComplete == Spec => []CandlesComplete
<1>1. Init => CandleInv
    <2> SUFFICES ASSUME Init PROVE CandleInv
        OBVIOUS
    <2>1. /\ now = Start /\ store = [t \in Times |-> "none"] /\ disturbed = FALSE /\ job = <<>>
        BY DEF Init, CandleInit
    <2>2. Stored = {} /\ Planned(job) = {}
        BY <2>1 DEF Stored, Planned
    <2>3. now \in Times /\ disturbed \in BOOLEAN
        BY <2>1, CandleAssumption DEF Times
    <2> QED BY <2>1, <2>2, <2>3
            DEF CandleInv, JobInv, NoHole, StoredUpward, OneForming, Covered
<1>2. CandleInv => CandlesComplete
    <2> SUFFICES ASSUME CandleInv, ~disturbed, task # "extend", NEW t \in Stored, t < Newest
                 PROVE  store[t] = "final" /\ store[t + 1] # "none"
        BY DEF CandlesComplete, StoreComplete
    <2>1. job = <<>> /\ NoHole /\ OneForming
        BY DEF CandleInv, JobInv
    <2>2. Covered = Stored
        BY <2>1 DEF Covered, Planned
    <2>3. Newest \in Stored
        BY StoreBounds
    <2>4. t + 1 \in Stored
        BY <2>1, <2>2, <2>3 DEF NoHole
    <2>5. t \in Nat /\ Newest \in Nat
        BY <2>3, CandleAssumption DEF Stored, Times
    <2>6. store[t] # "forming"
        BY <2>1, <2>2, <2>3, <2>5 DEF OneForming
    <2> QED BY <2>4, <2>6 DEF Stored, CandleInv, JobInv
<1> QED BY <1>1, <1>2, CandleStep, PTL DEF Spec
==============================================================================
