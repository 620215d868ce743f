------------------------------ MODULE JsonLine ------------------------------
(***************************************************************************)
(* eventToJSON of pkg/stdout: the fields of the line printed for an event. *)
(* A line is a function from field names to values.  Names are strings,    *)
(* because the question is whether two of them can be equal; values stand  *)
(* for what is printed.                                                    *)
(*                                                                         *)
(* The Meta column is {} when empty, otherwise one record: its kind, which *)
(* is "object" for a JSON object, "null" for that text, and "other" for    *)
(* all else; the members an object lists in order (a name may come twice); *)
(* and its text.                                                           *)
(***************************************************************************)
EXTENDS Integers, Sequences

(* Two functions as one, the first deciding where both are defined: data,  *)
(* and the assignments data[...] = ... that came before.                   *)
Overlay(fields, earlier) ==
    [name \in DOMAIN fields \cup DOMAIN earlier |->
        IF name \in DOMAIN fields THEN fields[name] ELSE earlier[name]]

Classification ==
    [level |-> "info", log_type |-> "application", event_source |-> "netbird"]

EventFields(event) ==
    [event_id      |-> event.ID,           timestamp     |-> event.Timestamp,
     activity      |-> event.Activity,     activity_name |-> event.ActivityName,
     activity_code |-> event.ActivityCode, account_id    |-> event.AccountID]

OptionalNames == {"initiator_id", "initiator_email", "target_id", "target_email"}

UserField(event, name) ==
    CASE name = "initiator_id"    -> event.InitiatorID
      [] name = "initiator_email" -> event.InitiatorEmail
      [] name = "target_id"       -> event.TargetID
      [] name = "target_email"    -> event.TargetEmail

UserFields(event) ==
    [name \in { f \in OptionalNames : UserField(event, f) # "" }
        |-> UserField(event, name)]

MetaName_Bare(key) == key
MetaName(key) == "meta_" \o key

(* A number becomes a float64.  One that no float64 equals, for example    *)
(* 2^53 + 1, is rounded; other values stay what they are.                  *)
Rounded == [number \in {"9007199254740993"} |-> "9007199254740992"]

Decoded(value) == IF value \in DOMAIN Rounded THEN Rounded[value] ELSE value

(* json.Unmarshal into a map keeps the last member of a name.              *)
Member(members, key) ==
    members[CHOOSE k \in DOMAIN members :
              /\ members[k].key = key
              /\ \A l \in DOMAIN members : members[l].key = key => l <= k].value

NoFields == [name \in {} |-> ""]

(* Unmarshal makes an empty map of null, without an error.                 *)
MetaFields(meta) ==
    LET keys == { meta.members[k].key : k \in DOMAIN meta.members }
    IN  CASE meta.kind = "object" ->
               [name \in { MetaName(key) : key \in keys } |->
                  Decoded(Member(meta.members,
                                 CHOOSE key \in keys : MetaName(key) = name))]
          [] meta.kind = "null"  -> NoFields
          [] meta.kind = "other" -> [meta_unparsable |-> meta.text]

Line(event) ==
    Overlay(IF event.Meta = {} THEN NoFields
            ELSE MetaFields(CHOOSE meta \in event.Meta : TRUE),
            Overlay(UserFields(event), Overlay(EventFields(event), Classification)))
=============================================================================
