------------------------------ MODULE Migrations ------------------------------
(***************************************************************************)
(* The schema migration runner (scripts/postgres-migrations.mjs): several  *)
(* runners, started from checkouts whose migration directories may differ, *)
(* bring one database up to date under a session advisory lock.  Each      *)
(* migration runs in a transaction of its own together with the insertion  *)
(* of its row in schema_migrations.  A connection can be lost at any       *)
(* point: the transaction is rolled back (or was just committed) and the   *)
(* advisory lock dies with the session.                                    *)
(***************************************************************************)
EXTENDS Naturals, Sequences, FiniteSets

CONSTANTS
    Runners,        \* the processes that may run applyMigrations at once
    Checkouts,      \* the migration directories they may be started from
    MaxStarts,      \* bound: how many times a runner is started
    NoSession

VARIABLES
    lockHolder,     \* the session that holds the advisory lock, or NoSession
    rows,           \* schema_migrations: a set of [filename, checksum]
    executed,       \* the checksums of the SQL the schema has been through, in order
    runner          \* per runner: its checkout, progress and open transaction

migVars == <<lockHolder, rows, executed, runner>>

\* migration filenames are their four-digit numbers; checksums name the SQL
Migration == [filename : Nat, checksum : Nat]

IdleRunner == [pc |-> "idle", migrations |-> <<>>, at |-> 0, inTx |-> FALSE, starts |-> 0]

\* validateMigrationSources: unique and strictly ordered filenames
validSources(migrations) ==
    \A i \in 1..Len(migrations) - 1 : migrations[i].filename < migrations[i + 1].filename

\* migrationHistory: SELECT ... ORDER BY filename
migrationHistory ==
    LET places == 1..Cardinality(rows) IN
    CHOOSE history \in [places -> rows] :
        \A i, j \in places : i < j => history[i].filename < history[j].filename

\* validateMigrationHistory: the recorded history is a checked-in prefix,
\* file by file and checksum by checksum
validHistory(applied, migrations) ==
    /\ Len(applied) <= Len(migrations)
    /\ \A i \in 1..Len(applied) :
          /\ applied[i].filename = migrations[i].filename
          /\ applied[i].checksum = migrations[i].checksum

-------------------------------------------------------------------------------

MigInit ==
    /\ lockHolder = NoSession
    /\ rows = {}
    /\ executed = <<>>
    /\ runner = [r \in Runners |-> IdleRunner]

\* applyMigrations is called on a checkout; bad sources throw before the lock
Start(r) ==
    /\ runner[r].pc = "idle"
    /\ runner[r].starts < MaxStarts
    /\ \E migrations \in Checkouts :
          runner' = [runner EXCEPT ![r] =
              [IdleRunner EXCEPT !.pc = IF validSources(migrations) THEN "locking" ELSE "idle",
                                 !.migrations = migrations,
                                 !.starts = runner[r].starts + 1]]
    /\ UNCHANGED <<lockHolder, rows, executed>>

\* pg_advisory_lock returns
Lock(r) ==
    /\ runner[r].pc = "locking"
    /\ lockHolder = NoSession
    /\ lockHolder' = r
    /\ runner' = [runner EXCEPT ![r].pc = "reading"]
    /\ UNCHANGED <<rows, executed>>

\* the finally block of applyMigrations: unlock, then return or throw
Unlock(r) ==
    /\ lockHolder' = IF lockHolder = r THEN NoSession ELSE lockHolder
    /\ runner' = [runner EXCEPT ![r].pc = "idle", ![r].inTx = FALSE]

\* the table is ensured, the history read under the lock and compared with
\* the sources; the runner goes on with the migrations after the prefix
ReadHistory(r) ==
    /\ runner[r].pc = "reading"
    /\ IF validHistory(migrationHistory, runner[r].migrations)
       THEN /\ runner' = [runner EXCEPT ![r].pc = "applying", ![r].at = Cardinality(rows) + 1]
            /\ UNCHANGED lockHolder
       ELSE Unlock(r)
    /\ UNCHANGED <<rows, executed>>

\* BEGIN and the migration's SQL
RunSql(r) ==
    /\ runner[r].pc = "applying"
    /\ ~runner[r].inTx
    /\ runner[r].at <= Len(runner[r].migrations)
    /\ runner' = [runner EXCEPT ![r].inTx = TRUE]
    /\ UNCHANGED <<lockHolder, rows, executed>>

\* the row goes in with the SQL's effect, unless the primary key refuses it
Committed(r) ==
    LET migration == runner[r].migrations[runner[r].at] IN
    /\ \A row \in rows : row.filename # migration.filename
    /\ rows' = rows \cup {migration}
    /\ executed' = Append(executed, migration.checksum)

\* INSERT INTO schema_migrations and COMMIT
RecordAndCommit(r) ==
    /\ runner[r].inTx
    /\ Committed(r)
    /\ runner' = [runner EXCEPT ![r].at = @ + 1, ![r].inTx = FALSE]
    /\ UNCHANGED lockHolder

\* Mutant of MigrationFails: no ROLLBACK.
MigrationFailsHalfway(r) ==
    /\ runner[r].inTx
    /\ Unlock(r)
    /\ executed' = Append(executed, runner[r].migrations[runner[r].at].checksum)
    /\ UNCHANGED rows

\* the SQL or the insertion fails: ROLLBACK, unlock and throw
MigrationFails(r) ==
    /\ runner[r].inTx
    /\ Unlock(r)
    /\ UNCHANGED <<rows, executed>>

Finish(r) ==
    /\ runner[r].pc = "applying"
    /\ ~runner[r].inTx
    /\ runner[r].at > Len(runner[r].migrations)
    /\ Unlock(r)
    /\ UNCHANGED <<rows, executed>>

\* the session ends: nothing uncommitted survives and the lock is free; the
\* COMMIT itself may have reached the server before the connection was lost
ConnectionLost(r) ==
    /\ runner[r].pc # "idle"
    /\ \/ UNCHANGED <<rows, executed>>
       \/ runner[r].inTx /\ Committed(r)
    /\ Unlock(r)

MigNext == \E r \in Runners :
    \/ Start(r) \/ Lock(r) \/ ReadHistory(r) \/ RunSql(r) \/ RecordAndCommit(r)
    \/ MigrationFails(r) \/ Finish(r) \/ ConnectionLost(r)

MigSpec == MigInit /\ [][MigNext]_migVars

-------------------------------------------------------------------------------

\* The schema's variables hold values of their types.
MigTypeOK ==
    /\ lockHolder \in Runners \cup {NoSession}
    /\ rows \subseteq Migration
    /\ executed \in Seq(Nat)
    /\ \A r \in Runners : runner[r].pc \in {"idle", "locking", "reading", "applying"}

\* What schema_migrations records, read in filename order, is what the schema
\* has been through, in that order: no SQL ran unrecorded, twice, or before a
\* file that sorts ahead of it.
HistoryIsWhatRan ==
    executed = [i \in 1..Cardinality(rows) |-> migrationHistory[i].checksum]

\* However many checkouts were tried, the schema is a prefix of one of them:
\* two branches that number their migrations differently are never interleaved.
OneLineage == \E migrations \in Checkouts : validHistory(migrationHistory, migrations)

\* the runner's safety
MigrationsSafe == HistoryIsWhatRan /\ OneLineage
===============================================================================
