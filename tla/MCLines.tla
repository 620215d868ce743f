------------------------------ MODULE MCLines -------------------------------
(* Every small event, and the line printed for it.                         *)
EXTENDS JsonLine

CONSTANTS MetaKeys, Values     \* strings; Values contains the empty one

(***************************************************************************)
(* The name a member is to be found under, and the names of the event and  *)
(* its users.  That no member has one of those, and no two members the     *)
(* same, is a fact about strings: it holds of any keys.                    *)
(***************************************************************************)
Prefixed(key) == "meta_" \o key

OwnNames ==
    {"level", "log_type", "event_source", "event_id", "timestamp", "activity",
     "activity_name", "activity_code", "account_id"} \cup OptionalNames

ASSUME PrefixAssumption ==
    /\ \A key \in MetaKeys : Prefixed(key) \notin OwnNames
    /\ \A key, other \in MetaKeys : Prefixed(key) = Prefixed(other) => key = other

VARIABLES
    subject,    \* {} or {the event to print}
    line

Members == [key : MetaKeys, value : Values \cup DOMAIN Rounded]

Metas ==
    [ kind    : {"object"},
      members : UNION { [1..k -> Members] : k \in 0..2 },
      text    : {"{...}"} ]
    \cup [kind : {"null"}, members : {<<>>}, text : {"null"}]
    \cup [kind : {"other"}, members : {<<>>}, text : {"[...]"}]

Subjects ==
    [ ID : {"1", "2"}, Timestamp : {"t"}, Activity : {"0"},
      ActivityName : {"name"}, ActivityCode : {"code"},
      AccountID : Values, InitiatorID : Values, InitiatorEmail : Values,
      TargetID : Values, TargetEmail : Values,
      Meta : {{}} \cup { {meta} : meta \in Metas } ]

NoLine == subject = {} /\ line = NoFields

SomeLine == subject \in { {e} : e \in Subjects } /\ line = NoFields

Emit ==
    /\ line = NoFields
    /\ \E event \in subject : line' = Line(event)
    /\ UNCHANGED subject

Printed == IF line = NoFields THEN {} ELSE subject

(***************************************************************************)
(* The fields of the event itself are always there and never overwritten   *)
(* by a member of its metadata, whatever that is called                    *)
(* (stdout/writer.go:88-92).                                               *)
(***************************************************************************)
EventSurvivesMeta ==
    \A event \in Printed :
        LET fields == Overlay(EventFields(event), Classification)
        IN  \A name \in DOMAIN fields :
                name \in DOMAIN line /\ line[name] = fields[name]

(***************************************************************************)
(* A user field is printed exactly when it is known, with the user's       *)
(* value: no member of the metadata stands in for it.                      *)
(***************************************************************************)
UserFieldsAreTheEvents ==
    \A event \in Printed, name \in OptionalNames :
        IF UserField(event, name) = "" THEN name \notin DOMAIN line
        ELSE name \in DOMAIN line /\ line[name] = UserField(event, name)

(***************************************************************************)
(* Metadata is found on the line: each member under its own name with the  *)
(* value it has last, as long as a float64 can hold it, and a text that is *)
(* neither an object nor null as it is (TECH_DOC 3.3.3).                   *)
(***************************************************************************)
MetaIsKept ==
    \A meta \in UNION { event.Meta : event \in Printed } :
        /\ meta.kind = "object" =>
              \A k \in DOMAIN meta.members :
                 LET name == Prefixed(meta.members[k].key)
                 IN  \/ \E l \in DOMAIN meta.members :
                           l > k /\ meta.members[l].key = meta.members[k].key
                     \/ /\ name \in DOMAIN line
                        /\ \/ meta.members[k].value \in DOMAIN Rounded
                           \/ line[name] = meta.members[k].value
        /\ meta.kind = "other" => \E name \in DOMAIN line : line[name] = meta.text

(***************************************************************************)
(* A line keeps what it shows apart: the event's own fields, those of its  *)
(* users and the metadata each have the values of their owner              *)
(* (stdout/writer.go:52-93).                                               *)
(***************************************************************************)
LineKeepsOwners == EventSurvivesMeta /\ UserFieldsAreTheEvents /\ MetaIsKept

(***************************************************************************)
(* The metadata of an event is an object in a field "meta" of its line     *)
(* (README.md:295, :313).                                                  *)
(***************************************************************************)
MetaIsNested ==
    \A event \in Printed : event.Meta # {} => "meta" \in DOMAIN line

(***************************************************************************)
(* Whatever metadata there is, its values can be read from the line        *)
(* ("querying specific metadata fields", TECH_DOC.md:286).                 *)
(***************************************************************************)
MetaIsWhole ==
    \A meta \in UNION { event.Meta : event \in Printed } :
        /\ \A k \in DOMAIN meta.members :
              \/ \E l \in DOMAIN meta.members :
                    l > k /\ meta.members[l].key = meta.members[k].key
              \/ \E name \in DOMAIN line : line[name] = meta.members[k].value
        /\ meta.kind # "object" => \E name \in DOMAIN line : line[name] = meta.text
=============================================================================
