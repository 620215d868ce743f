------------------------------- MODULE MCStore ------------------------------
(* Every small checkpoint table, and one save to it.                       *)
EXTENDS Integers, CheckpointStore

CONSTANTS
    Layouts,                          \* names that ColumnsOf knows
    Consumers, Writers, MaxPosition

VARIABLES
    layout, stored,    \* how the table was created, and its rows
    saving,            \* {} or {who saves which position}
    rowsAfter,         \* the rows after the save
    refused            \* the database has refused the statement

store == <<layout, stored, saving, rowsAfter, refused>>

Clients == [consumer : Consumers, writer : Writers, older : BOOLEAN]

(* Rows of one table: its key is unique, and without a column for it there *)
(* is no writer.                                                           *)
IsTable(t, rows) ==
    /\ \A r, s \in rows : SameKey(t, r, s) => r = s
    /\ "writer_type" \notin ColumnsOf(t) => \A r \in rows : r.writer = Default

NoSave ==
    /\ layout = "techdoc" /\ stored = {} /\ saving = {}
    /\ rowsAfter = {} /\ refused = FALSE

SomeSave ==
    /\ layout \in Layouts
    /\ stored \in { rows \in SUBSET [ consumer : Consumers,
                                      writer   : Writers \cup {Default},
                                      position : 1..MaxPosition ] :
                      IsTable(layout, rows) }
    /\ saving \in { {s} : s \in [client : Clients, position : 1..MaxPosition] }
    /\ rowsAfter = {}
    /\ refused = FALSE

Save ==
    /\ rowsAfter = {} /\ ~refused
    /\ \E s \in saving :
          IF SaveAccepted(layout, s.client.older)
          THEN /\ rowsAfter' = Upserted(layout, stored, RowOf(s.client, s.position))
               /\ UNCHANGED refused
          ELSE refused' = TRUE /\ UNCHANGED rowsAfter
    /\ UNCHANGED <<layout, stored, saving>>

(***************************************************************************)
(* What a client saves is what its next load finds, and nothing else is    *)
(* found: the key that ON CONFLICT meets is the one WHERE selects by       *)
(* (postgres_reader.go:310-311 and 358, 397-398 and 442).                  *)
(***************************************************************************)
SavedIsFound ==
    rowsAfter # {} => \A s \in saving : Found(s.client, rowsAfter) = {s.position}

(***************************************************************************)
(* A save changes what its own client finds and nobody else: neither       *)
(* another consumer nor, before migration 003, another writer of the same  *)
(* consumer.                                                               *)
(***************************************************************************)
OthersKeepTheirs ==
    rowsAfter # {} =>
        \A s \in saving, c \in Clients :
            /\ c.older = s.client.older
            /\ c.consumer = s.client.consumer => c.older /\ c.writer # s.client.writer
            => Found(c, rowsAfter) = Found(c, stored)

(***************************************************************************)
(* The older pair of methods works on the table before migration 003, the  *)
(* current pair on the ones of TECH_DOC and the lab.                       *)
(***************************************************************************)
OwnVersionServed ==
    refused => \A s \in saving : s.client.older # (layout = "v1")

(***************************************************************************)
(* The lab's table is compatible with the older pair: "writer_type kept    *)
(* for legacy compatibility" (lab/init-db.sql:7).                          *)
(***************************************************************************)
LegacyServed == refused => layout # "lab"

(***************************************************************************)
(* The checkpoint table serves all its clients: each finds what it saved,  *)
(* keeps it while others save, and is served by the table of its version   *)
(* (postgres_reader.go:304-461).                                           *)
(***************************************************************************)
RowsServeTheirOwners == SavedIsFound /\ OthersKeepTheirs /\ OwnVersionServed
=============================================================================
