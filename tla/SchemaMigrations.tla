--------------------------- MODULE SchemaMigrations ---------------------------
(***************************************************************************)
(* Database.__init__: every connection to the ledger first creates the     *)
(* base tables and then brings the schema up to date, one transaction per  *)
(* version.  The version is read before the first transaction and not      *)
(* looked at again.  Several programs open the ledger: the engine, the     *)
(* web server's requests, the command line tools.  SQLite gives one writer *)
(* at a time; a transaction that began as a reader cannot become the       *)
(* writer once another has committed.                                      *)
(***************************************************************************)
EXTENDS Integers, Sequences, FiniteSets

CONSTANTS
    Openers,        \* the programs that open the ledger
    SchemaVersion   \* the newest version released

\* SCHEMA: tables, created if they do not exist.
Base == {"state", "other base tables"}

\* MIGRATIONS, v1 to v9: what each version creates if it does not exist, and the columns
\* it adds (an error where they exist); the columns a version adds to a table are one name.
ReleasedToV9 ==
    << [creates |-> {"indexes of v1"}, adds |-> {}],
       [creates |-> {"risk_events"},
        adds |-> {"decision_log.v2", "llm_responses.v2", "trades.v2"}],
       [creates |-> {"regimes"}, adds |-> {}],
       [creates |-> {"trade_outcomes"}, adds |-> {}],
       [creates |-> {}, adds |-> {"trades.v5"}],
       [creates |-> {}, adds |-> {"trades.v6"}],
       [creates |-> {"reflections", "playbooks"}, adds |-> {}],
       [creates |-> {"proposals"}, adds |-> {}],
       [creates |-> {}, adds |-> {"proposals.v9"}] >>

\* v10 to v14: one new table each.
ReleasedAfterV9 ==
    LET table(name) == [creates |-> {name}, adds |-> {}]
    IN << table("cost_ledger"), table("signal_cache"), table("experiments"),
          table("backtest_results"), table("self_mod_prs") >>

Migrations == ReleasedToV9 \o ReleasedAfterV9

ASSUME MigrationsAssumption == SchemaVersion \in 1 .. Len(Migrations)

Adds(v) == Migrations[v].adds
Objects(v) == Migrations[v].creates \cup Adds(v)
Everything == Base \cup UNION {Objects(v) : v \in 1 .. SchemaVersion}

VARIABLES
    objects,    \* tables, indexes and columns that exist
    version,    \* state['schema_version'], 0 before there is one
    conn,       \* by opener: where its constructor is
    raced       \* history: two openers migrated at the same time

schema == <<objects, version, conn, raced>>

\* ver: the version under way; fresh: nobody has committed since its transaction began;
\* new: what its transaction has created; writer: it holds the write lock.
Closed == [at |-> "closed", ver |-> 0, fresh |-> FALSE, new |-> {}, writer |-> FALSE]

SchemaInit ==
    /\ objects = {} /\ version = 0 /\ raced = FALSE
    /\ conn = [o \in Openers |-> Closed]

Locked == \E o \in Openers : conn[o].writer
Migrating(o) == conn[o].at \in {"begin", "bump", "commit"}

\* o goes on to c, and a commit of its makes the others' transactions stale.
Goto(o, c) == conn' = [conn EXCEPT ![o] = c]
CommitAndGoto(o, c) ==
    conn' = [p \in Openers |-> IF p = o THEN c ELSE [conn[p] EXCEPT !.fresh = FALSE]]

\* ROLLBACK and raise: the constructor gives no connection.
Fails(o) == Goto(o, [Closed EXCEPT !.at = "failed"]) /\ UNCHANGED <<objects, version, raced>>

Open(o) ==
    /\ conn[o].at = "closed"
    /\ Goto(o, [Closed EXCEPT !.at = "schema"])
    /\ UNCHANGED <<objects, version, raced>>

\* executescript(SCHEMA): each missing table in a transaction of its own.
CreateBase(o) ==
    /\ conn[o].at = "schema"
    /\ IF Base \subseteq objects
       THEN Goto(o, [conn[o] EXCEPT !.at = "read"]) /\ UNCHANGED objects
       ELSE /\ ~Locked
            /\ \E t \in Base \ objects : objects' = objects \cup {t}
            /\ CommitAndGoto(o, conn[o])
    /\ UNCHANGED <<version, raced>>

\* mutant: one version short
ReadVersionShort(o) ==
    /\ conn[o].at = "read"
    /\ IF version + 1 >= SchemaVersion
       THEN Goto(o, [Closed EXCEPT !.at = "ready"]) /\ UNCHANGED raced
       ELSE /\ Goto(o, [conn[o] EXCEPT !.at = "begin", !.ver = version + 1])
            /\ raced' = (raced \/ \E p \in Openers : Migrating(p))
    /\ UNCHANGED <<objects, version>>
\* current: read once, outside any transaction.
ReadVersion(o) ==
    /\ conn[o].at = "read"
    /\ IF version >= SchemaVersion
       THEN Goto(o, [Closed EXCEPT !.at = "ready"]) /\ UNCHANGED raced
       ELSE /\ Goto(o, [conn[o] EXCEPT !.at = "begin", !.ver = version + 1])
            /\ raced' = (raced \/ \E p \in Openers : Migrating(p))
    /\ UNCHANGED <<objects, version>>

\* BEGIN and the statements of a version: the write lock is taken by the first that
\* changes something; a column that is there already is an error.
RunStatements(o) ==
    /\ conn[o].at = "begin"
    /\ LET missing == Objects(conn[o].ver) \ objects IN
       IF Adds(conn[o].ver) \cap objects # {} THEN Fails(o)
       ELSE /\ missing # {} => ~Locked
            /\ Goto(o, [conn[o] EXCEPT !.at = "bump", !.fresh = TRUE,
                                       !.new = missing, !.writer = missing # {}])
            /\ UNCHANGED <<objects, version, raced>>

\* mutant: the version is stamped as soon as the lock is there, outside the transaction
BumpAtOnce(o) ==
    /\ conn[o].at = "bump"
    /\ IF conn[o].writer \/ (conn[o].fresh /\ ~Locked)
       THEN /\ Goto(o, [conn[o] EXCEPT !.at = "commit", !.writer = TRUE])
            /\ version' = conn[o].ver
            /\ UNCHANGED <<objects, raced>>
       ELSE Fails(o)
\* The upsert of schema_version: a transaction that has only read so far must become the
\* writer, and is refused at once if another holds the lock or has committed.
Bump(o) ==
    /\ conn[o].at = "bump"
    /\ IF conn[o].writer \/ (conn[o].fresh /\ ~Locked)
       THEN /\ Goto(o, [conn[o] EXCEPT !.at = "commit", !.writer = TRUE])
            /\ UNCHANGED <<objects, version, raced>>
       ELSE Fails(o)

\* mutant: the version is not stamped
CommitUnstamped(o) ==
    /\ conn[o].at = "commit"
    /\ objects' = objects \cup conn[o].new
    /\ CommitAndGoto(o, IF conn[o].ver = SchemaVersion THEN [Closed EXCEPT !.at = "ready"]
                        ELSE [Closed EXCEPT !.at = "begin", !.ver = conn[o].ver + 1])
    /\ UNCHANGED <<version, raced>>
\* COMMIT: the version's objects and its number, whatever number is there by now; then the
\* next one.
Commit(o) ==
    /\ conn[o].at = "commit"
    /\ objects' = objects \cup conn[o].new
    /\ version' = conn[o].ver
    /\ CommitAndGoto(o, IF conn[o].ver = SchemaVersion THEN [Closed EXCEPT !.at = "ready"]
                        ELSE [Closed EXCEPT !.at = "begin", !.ver = conn[o].ver + 1])
    /\ UNCHANGED raced

\* A statement that waits for the lock gives up after the busy timeout.
GiveUp(o) ==
    /\ Locked /\ ~conn[o].writer
    /\ \/ conn[o].at = "schema" /\ ~(Base \subseteq objects)
       \/ conn[o].at = "begin" /\ ~(Objects(conn[o].ver) \subseteq objects)
    /\ Fails(o)

\* The connection is closed, or its process is gone: whatever was not committed is undone.
Close(o) == Goto(o, Closed) /\ UNCHANGED <<objects, version, raced>>

Migrate(o) ==
    \/ CreateBase(o) \/ ReadVersion(o) \/ RunStatements(o)
    \/ Bump(o) \/ Commit(o) \/ GiveUp(o)

SchemaNext ==
    \E o \in Openers : Open(o) \/ Migrate(o) \/ (conn[o].at # "closed" /\ Close(o))

SchemaSpec == SchemaInit /\ [][SchemaNext]_schema

------------------------------------------------------------------------------
(* Properties *)

\* A connection that comes out of the constructor has a complete schema under it,
\* whoever else migrated at the time and whatever crashed.
ReadyMeansComplete ==
    \A o \in Openers : conn[o].at = "ready" => Everything \subseteq objects

\* Nothing is skipped: whatever the recorded version stands for is there.
NothingSkipped == \A v \in 1 .. version : Objects(v) \subseteq objects

\* db.py:98: "The `ver > current` guard guarantees each version runs exactly once per DB",
\* which makes ADD COLUMN safe: no version beyond the recorded one has left a column.
OnceOnly == \A v \in version + 1 .. SchemaVersion : Adds(v) \cap objects = {}

\* It does as long as one opener migrates at a time.
OnceOnlyInTurn == ~raced => OnceOnly

\* Whatever happened on the way: a complete schema for whoever uses it, a version that does
\* not lie, and nothing run twice while openers take turns.
SchemaSound == ReadyMeansComplete /\ NothingSkipped /\ OnceOnlyInTurn
==============================================================================
