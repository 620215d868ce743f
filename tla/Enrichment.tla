----------------------------- MODULE Enrichment -----------------------------
(***************************************************************************)
(* The email columns of GetEvents: which user tables the query joins, what *)
(* COALESCE makes of their columns, and the decryption of the result.      *)
(*                                                                         *)
(* A nullable column, or an option that may be unset, is a set with at     *)
(* most one element.  A value is a text and the key it is sealed with, if  *)
(* any.  A database is a function from the names of the tables that exist  *)
(* to their rows.                                                          *)
(***************************************************************************)
EXTENDS Integers, FiniteSets, Sequences

Plain(text) == [text |-> text, sealed |-> {}]

-----------------------------------------------------------------------------
(* The configuration.                                                      *)

GetSource(conf) == IF conf.Enabled THEN conf.Source ELSE "none"

(* conf.NetbirdConfigPath and conf.NetbirdEncryptionKey are unset, {}, or   *)
(* set to what reading or decoding them gives: {{}} is an error, {{k}} a   *)
(* key.  The path goes first, also when it cannot be read; without a key   *)
(* the reader has no decryptor.                                            *)
(*                                                                         *)
(* (An operator whose name ends in an underscore and a word is a plausible *)
(* mistake in the operator that follows it.)                               *)
Decryptor_KeyOnly(conf) == UNION conf.NetbirdEncryptionKey
Decryptor(conf) ==
    UNION IF conf.NetbirdConfigPath # {} THEN conf.NetbirdConfigPath
          ELSE conf.NetbirdEncryptionKey

-----------------------------------------------------------------------------
(* buildEmailEnrichmentQuery: the columns COALESCE tries before the id.    *)

Okta == << [table |-> "okta_users", column |-> "email"] >>
Custom == << [table |-> "custom", column |-> "email"] >>
Users == << [table |-> "users", column |-> "email"],
            [table |-> "users", column |-> "name"] >>

PostgresLookups ==
    [ idp_okta_users |-> Okta, netbird_users |-> Users, custom |-> Custom,
      auto |-> Okta \o Users, none |-> <<>> ]

SQLiteLookups_EmailOnly ==
    [ netbird_users |-> SubSeq(Users, 1, 1), auto |-> SubSeq(Users, 1, 1) ]
SQLiteLookups == [ netbird_users |-> Users, auto |-> Users ]

(* An unknown source is auto for PostgreSQL; SQLite has no schemas and     *)
(* takes every other source for none.                                      *)
Lookups(driver, source) ==
    IF driver = "postgres"
    THEN PostgresLookups[IF source \in DOMAIN PostgresLookups THEN source
                         ELSE "auto"]
    ELSE IF source \in DOMAIN SQLiteLookups THEN SQLiteLookups[source] ELSE <<>>

Joined(driver, source) ==
    LET L == Lookups(driver, source)
    IN  { L[i].table : i \in DOMAIN L }

(* The database refuses a query that joins a table it does not have.       *)
QueryFails(driver, source, tables) ==
    ~ (Joined(driver, source) \subseteq DOMAIN tables)

-----------------------------------------------------------------------------
(* The rows of the query.                                                  *)

Unmatched == [id |-> "", email |-> {}, name |-> {}]

(* LEFT JOIN ... ON user = u.id; NULL equals nothing.                      *)
Matched_Inner(rows, user) == { r \in rows : user = {r.id} }
Matched(rows, user) ==
    LET found == { r \in rows : user = {r.id} }
    IN  IF found = {} THEN {Unmatched} ELSE found

(* One choice of a row in each joined table.                               *)
Joins(driver, source, tables, user) ==
    LET J == Joined(driver, source)
    IN  { f \in [J -> UNION { Matched(tables[t], user) : t \in J }] :
             \A t \in J : f[t] \in Matched(tables[t], user) }

(* COALESCE: the first column that is not NULL.                            *)
Coalesce(columns) ==
    UNION { columns[i] :
              i \in { k \in DOMAIN columns : \A j \in 1..(k - 1) : columns[j] = {} } }

EmailColumn(driver, source, f, user) ==
    LET L == Lookups(driver, source)
    IN  Coalesce([ i \in 1..Len(L) |-> f[L[i].table][L[i].column] ]
                     \o << { Plain(u) : u \in user } >>)

(* sql.NullString: NULL leaves the empty string in the event.              *)
Scanned(column) == IF column = {} THEN Plain("") ELSE CHOOSE v \in column : TRUE

(* A value that is not sealed with our key is returned as it is.           *)
Decrypt_Blank(keys, v) ==
    IF keys = {} THEN v
    ELSE IF v.sealed = keys THEN Plain(v.text) ELSE Plain("")
Decrypt(keys, v) == IF v.sealed = keys THEN Plain(v.text) ELSE v

(***************************************************************************)
(* What GetEvents returns for the row e of the events table: an event for  *)
(* each way the joins match.                                               *)
(***************************************************************************)
EnrichedRows(conf, driver, tables, e) ==
    LET source == GetSource(conf)
        Email(f, user) ==
            Decrypt(Decryptor(conf), Scanned(EmailColumn(driver, source, f, user)))
    IN  { [ joined |-> <<f, g>>,
            event  |-> [ initiator_email |-> Email(f, e.initiator_id),
                         target_email    |-> Email(g, e.target_id) ] ] :
            f \in Joins(driver, source, tables, e.initiator_id),
            g \in Joins(driver, source, tables, e.target_id) }
=============================================================================
