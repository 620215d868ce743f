--------------------------- MODULE CheckpointStore ---------------------------
(***************************************************************************)
(* The statements of both drivers on the checkpoint table: GetCheckpoint   *)
(* and SaveCheckpoint (a row per consumer), and the older                  *)
(* GetWriterCheckpoint and SaveWriterCheckpoint (a row per consumer and    *)
(* writer).  The program never creates the table; the documents, the lab   *)
(* and version 1 create different ones.                                    *)
(*                                                                         *)
(* A client is a consumer with a writer_type and the pair of methods it    *)
(* uses (older).  A row has a position for last_event_id and what comes    *)
(* with it; its writer is Default where nothing sets it.                   *)
(***************************************************************************)
EXTENDS FiniteSets

Default == "default"

(* TECH_DOC.md:246, SETUP.md:135, lab/init-db.sql and init-sqlite.sql, and  *)
(* the table before migration 003 (TECH_DOC.md:264).                        *)
Common == {"consumer_id", "last_event_id", "last_event_timestamp",
           "total_events_processed", "updated_at"}

ColumnsOf(table) ==
    CASE table = "techdoc" -> Common \cup {"processing_node", "created_at"}
      [] table = "setup"   -> Common
      [] table \in {"lab", "v1"} ->
            Common \cup {"processing_node", "created_at", "writer_type"}

KeyOf(table) ==
    IF table = "v1" THEN {"consumer_id", "writer_type"} ELSE {"consumer_id"}

-----------------------------------------------------------------------------
(* The columns all four statements name, and those of the older pair.      *)
Columns(older) ==
    Common \cup {"processing_node", "created_at"}
    \cup IF older THEN {"writer_type"} ELSE {}

(* ON CONFLICT (...): there must be a key of exactly these columns.        *)
ConflictTarget(older) ==
    IF older THEN {"consumer_id", "writer_type"} ELSE {"consumer_id"}

LoadAccepted(table, older) == Columns(older) \subseteq ColumnsOf(table)

SaveAccepted(table, older) ==
    LoadAccepted(table, older) /\ ConflictTarget(older) = KeyOf(table)

(* WHERE consumer_id = $1 [AND writer_type = $2]                           *)
Selects_ByConsumer(c, r) == r.consumer = c.consumer
Selects(c, r) == r.consumer = c.consumer /\ (c.older => r.writer = c.writer)

(* The positions Get[Writer]Checkpoint may return; none is a fresh start.  *)
Found(c, rows) == { r.position : r \in { s \in rows : Selects(c, s) } }

SameKey(table, r, s) ==
    r.consumer = s.consumer /\ ("writer_type" \in KeyOf(table) => r.writer = s.writer)

(* Save[Writer]Checkpoint.  DO UPDATE keeps the columns it does not name,  *)
(* the writer among them.                                                  *)
RowOf(c, position) ==
    [ consumer |-> c.consumer,
      writer   |-> IF c.older THEN c.writer ELSE Default,
      position |-> position ]

Upserted(table, rows, row) ==
    IF \E r \in rows : SameKey(table, r, row)
    THEN { IF SameKey(table, r, row) THEN [r EXCEPT !.position = row.position]
           ELSE r : r \in rows }
    ELSE rows \cup {row}
=============================================================================
