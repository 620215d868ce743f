----------------------------- MODULE MCReaders ------------------------------
(***************************************************************************)
(* What the parts without a state of their own make of every small input.  *)
(* In one part of the initial states a table and options are picked, then  *)
(* a page is read and the rows are counted; in the second one event, a     *)
(* configuration and user tables are picked, then the event is enriched;   *)
(* the third prints a line (MCLines), the last saves a checkpoint          *)
(* (MCStore).                                                              *)
(***************************************************************************)
EXTENDS EventQuery, Enrichment, MCLines, MCStore

CONSTANTS Accounts, Activities, MaxEventID, MaxTime, Keys

VARIABLES
    rows, opts, page, count,                \* GetEvents, GetEventCount
    driver, conf, tables, event, enriched, failed   \* the email columns

inputs == <<rows, opts, driver, conf, tables, event>>
reading == <<inputs, page, count, enriched, failed>>

Optional(S) == { {} } \cup { {x} : x \in S }

-----------------------------------------------------------------------------
(* Pages and counts.                                                       *)

Row == [ id : 1..MaxEventID, timestamp : 1..MaxTime,
         account_id : Accounts, activity : Activities ]

(* id is the primary key.                                                  *)
Tables == { t \in SUBSET Row : \A e, f \in t : e.id = f.id => e = f }

Options == [ Limit : 0..2, Offset : 0..1, OrderAsc : BOOLEAN,
             AccountID : Optional(Accounts), Activity : Optional(Activities),
             StartTime : Optional({2}), EndTime : Optional({2}),
             MinEventID : Optional({1}) ]

-----------------------------------------------------------------------------
(* Users.  NetBird leaves an email NULL or empty, or seals it; a table     *)
(* made for eventsproc has plain emails.  id is the key of each table.     *)

Sealed == { [text |-> "address", sealed |-> {k}] : k \in Keys }

NetbirdUsers ==
    [ id : {"user"}, email : Optional(Sealed \cup {Plain("")}),
      name : Optional(Sealed) ]

OwnUsers == [ id : {"user"}, email : Optional({Plain("mail")}), name : { {} } ]

(* Which tables exist, and a user in them or not.                          *)
Databases ==
    UNION { { t \in [ D -> { {} } \cup { {u} : u \in NetbirdUsers \cup OwnUsers } ] :
                \A d \in D : t[d] \subseteq IF d = "users" THEN NetbirdUsers
                                            ELSE OwnUsers } :
            D \in SUBSET {"okta_users", "users", "custom"} }

Configs ==
    [ Enabled : BOOLEAN,
      Source : {"auto", "idp_okta_users", "netbird_users", "custom", "none", "other"},
      NetbirdConfigPath : Optional({ {} } \cup { {k} : k \in Keys }),
      NetbirdEncryptionKey : Optional({ {} } \cup { {k} : k \in Keys }) ]

EventRow == [ initiator_id : Optional({"user"}), target_id : Optional({"user", "peer"}) ]

-----------------------------------------------------------------------------
NoConfig == [ Enabled |-> FALSE, Source |-> "none",
              NetbirdConfigPath |-> {}, NetbirdEncryptionKey |-> {} ]

NoOptions == [ Limit |-> 0, Offset |-> 0, OrderAsc |-> TRUE, AccountID |-> {},
               Activity |-> {}, StartTime |-> {}, EndTime |-> {}, MinEventID |-> {} ]

NoPage == rows = {} /\ opts = NoOptions

SomePage == rows \in Tables /\ opts \in Options

NoEmail == driver = "postgres" /\ conf = NoConfig /\ tables = << >> /\ event = {}

SomeEmail ==
    /\ driver \in {"postgres", "sqlite"}
    /\ conf \in Configs
    /\ tables \in Databases
    /\ event \in { {e} : e \in EventRow }

Init ==
    /\ \/ SomePage /\ NoEmail /\ NoLine /\ NoSave
       \/ NoPage /\ SomeEmail /\ NoLine /\ NoSave
       \/ NoPage /\ NoEmail /\ SomeLine /\ NoSave
       \/ NoPage /\ NoEmail /\ NoLine /\ SomeSave
    /\ page = <<>>
    /\ count = -1
    /\ enriched = {}
    /\ failed = FALSE

others == <<subject, line, store>>

Get ==
    /\ rows # {} /\ page = <<>>
    /\ page' \in GetEvents(rows, opts)
    /\ UNCHANGED <<inputs, count, enriched, failed, others>>

Count ==
    /\ rows # {} /\ count = -1
    /\ count' = GetEventCount(rows, opts)
    /\ UNCHANGED <<inputs, page, enriched, failed, others>>

Enrich ==
    /\ enriched = {} /\ ~failed
    /\ \E e \in event :
          IF QueryFails(driver, GetSource(conf), tables)
          THEN failed' = TRUE /\ UNCHANGED enriched
          ELSE /\ enriched' = EnrichedRows(conf, driver, tables, e)
               /\ UNCHANGED failed
    /\ UNCHANGED <<inputs, page, count, others>>

Next ==
    \/ Get \/ Count \/ Enrich
    \/ Emit /\ UNCHANGED <<reading, store>>
    \/ Save /\ UNCHANGED <<reading, subject, line>>

Spec == Init /\ [][Next]_<<reading, others>>

-----------------------------------------------------------------------------
InPage(e) == \E i \in 1..Len(page) : page[i] = e

(* A page holds rows that match, each once, in the order asked for, and no *)
(* more than the limit (1000 when the limit is 0).                         *)
PageIsSound ==
    /\ Len(page) <= EffectiveLimit(opts)
    /\ \A i \in 1..Len(page) : page[i] \in Matching(rows, opts)
    /\ \A i, j \in 1..Len(page) :
          i < j => page[i] # page[j] /\ InOrder(page[i], page[j], opts.OrderAsc)

(***************************************************************************)
(* What a non-empty page leaves out is either one of the Offset rows       *)
(* before it or comes after all of it, and then the page is full: reading  *)
(* on from the last row of a page misses nothing.                          *)
(***************************************************************************)
PageLeavesNoHole ==
    page # <<>> =>
        LET missing == { e \in Matching(rows, opts) : ~InPage(e) }
            after   == { e \in missing : \A i \in 1..Len(page) :
                              InOrder(page[i], e, opts.OrderAsc) }
        IN  /\ Cardinality(missing \ after) <= opts.Offset
            /\ \A e \in missing \ after : \A i \in 1..Len(page) :
                  InOrder(e, page[i], opts.OrderAsc)
            /\ Cardinality(missing) > opts.Offset =>
                  Len(page) = EffectiveLimit(opts)

(* The count is the number of rows a caller can read, as long as it sets   *)
(* no MinEventID: GetEventCount ignores that filter.                       *)
CountIsReadable ==
    count # -1 /\ opts.MinEventID = {} =>
        count = Cardinality(Matching(rows, opts))

-----------------------------------------------------------------------------
(***************************************************************************)
(* Enrichment neither drops nor multiplies an event, whatever the source:  *)
(* a user who is in no table, or NULL, does not cost the event             *)
(* (postgres_reader.go:41-128).  The pages above stay what they are.       *)
(***************************************************************************)
EnrichmentKeepsEvents ==
    \A e \in event :
        ~QueryFails(driver, GetSource(conf), tables)
            => Cardinality(EnrichedRows(conf, driver, tables, e)) = 1

Blank == ""

(* What the tables that the source asks have of a user.                    *)
ValuesOf(user) ==
    LET J == Joined(driver, GetSource(conf))
    IN  UNION { r.email \cup r.name :
                  r \in { x \in UNION { tables[t] : t \in J } : user = {x.id} } }

Identifies(user, shown) ==
    shown.text \in user \cup ({ v.text : v \in ValuesOf(user) } \ {Blank})

NoneEmpty(user) == \A v \in ValuesOf(user) : v.text # Blank

(***************************************************************************)
(* The email shown for a user is one that a table which the source asks    *)
(* has for this very user, the user's name, or the id: NULLs, a user in no *)
(* table and a value that our key does not open all end in a text that     *)
(* says who it was, and never in the other user of the event               *)
(* (README.md:317).  Unless a column of the user is empty but not NULL,    *)
(* which COALESCE takes for an email.                                      *)
(***************************************************************************)
EmailIdentifies ==
    \A r \in enriched, e \in event :
        /\ e.initiator_id # {} /\ NoneEmpty(e.initiator_id) =>
              Identifies(e.initiator_id, r.event.initiator_email)
        /\ e.target_id # {} /\ NoneEmpty(e.target_id) =>
              Identifies(e.target_id, r.event.target_email)

(***************************************************************************)
(* "When ... no email is found, the initiator_email and target_email       *)
(* fields contain the user_id instead" (README.md:317), also when the      *)
(* email found is empty.                                                   *)
(***************************************************************************)
AlwaysIdentifies ==
    \A r \in enriched, e \in event :
        /\ e.initiator_id # {} => Identifies(e.initiator_id, r.event.initiator_email)
        /\ e.target_id # {} => Identifies(e.target_id, r.event.target_email)

(***************************************************************************)
(* When the key of the database is configured, in either of the two ways,  *)
(* nothing sealed with it is printed (config.go:36-42): the file goes      *)
(* first, the direct key counts when there is no file.                     *)
(***************************************************************************)
KeyIsUsed ==
    \A k \in Keys, r \in enriched :
        \/ conf.NetbirdConfigPath = {{k}}
        \/ conf.NetbirdConfigPath = {} /\ conf.NetbirdEncryptionKey = {{k}}
        => r.event.initiator_email.sealed # {k} /\ r.event.target_email.sealed # {k}

(***************************************************************************)
(* The two readers are written twice but show the same for the sources     *)
(* that both have, auto included when okta_users has nobody.               *)
(***************************************************************************)
DriversAgree ==
    \A e \in event :
        /\ GetSource(conf) \in {"netbird_users", "none", "auto"}
        /\ "users" \in DOMAIN tables
        /\ "okta_users" \in DOMAIN tables /\ tables["okta_users"] = {}
        => { r.event : r \in EnrichedRows(conf, "postgres", tables, e) }
           = { r.event : r \in EnrichedRows(conf, "sqlite", tables, e) }

(***************************************************************************)
(* Source auto works on every NetBird database (config.yaml.example:156,   *)
(* "okta_users table (if exists ...)", and :202, "Works everywhere").      *)
(***************************************************************************)
AutoWorksEverywhere ==
    failed => GetSource(conf) # "auto" \/ "users" \notin DOMAIN tables
=============================================================================
