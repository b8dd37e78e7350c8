----------------------------- MODULE Connection -----------------------------
(***************************************************************************)
(* The one SQLite connection of IO-Server, as its users see it through     *)
(* SQLiteDB: a statement is atomic and commits by itself, it may fail, and *)
(* the connection remembers the row id of the latest insert, whichever     *)
(* thread it came from.                                                    *)
(***************************************************************************)
EXTENDS Integers

CONSTANTS
    StatementsMayFail,   \* whether the disk may fail a statement
    None

ASSUME ConnectionAssumption == StatementsMayFail \in BOOLEAN

VARIABLE last   \* what sqlite3_last_insert_rowid returns, and (history) who inserted it

NoInsert == [id |-> 0, by |-> None]

\* user inserted the row whose key is id.
Inserts(user, id) == last' = [id |-> id, by |-> user]
=============================================================================
