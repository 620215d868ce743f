----------------------------- MODULE EventQuery -----------------------------
(***************************************************************************)
(* What the two event readers (PostgresEventReader, SQLiteEventReader) ask *)
(* of the events table.  A row carries the columns the filters look at; an *)
(* EventQueryOptions value is a record with the fields of the Go struct.   *)
(* A Go pointer (or an empty account id) that may be nil is a set with at  *)
(* most one element: {} is nil, {v} points to v.                           *)
(*                                                                         *)
(* Both drivers build the same conditions, the same ORDER BY and the same  *)
(* LIMIT/OFFSET; only the placeholders differ.                             *)
(***************************************************************************)
EXTENDS Integers, FiniteSets, Sequences

CONSTANT DefaultLimit     \* the limit used when opts.Limit is 0 (1000)

ASSUME DefaultLimitAssumption == DefaultLimit \in Nat \ {0}

-----------------------------------------------------------------------------
(* The conjunction appended to the query as its WHERE clause.  (An operator *)
(* whose name ends in an underscore and a word is a plausible mistake in   *)
(* the operator that follows it: the properties are checked to notice it.) *)
Matches_Inclusive(e, opts) ==
    /\ \A a \in opts.AccountID  : e.account_id = a
    /\ \A t \in opts.StartTime  : e.timestamp >= t
    /\ \A t \in opts.EndTime    : e.timestamp <= t
    /\ \A a \in opts.Activity   : e.activity = a
    /\ \A i \in opts.MinEventID : e.id >= i

Matches(e, opts) ==
    /\ \A a \in opts.AccountID  : e.account_id = a
    /\ \A t \in opts.StartTime  : e.timestamp >= t
    /\ \A t \in opts.EndTime    : e.timestamp <= t
    /\ \A a \in opts.Activity   : e.activity = a
    /\ \A i \in opts.MinEventID : e.id > i

Matching(rows, opts) == { e \in rows : Matches(e, opts) }

(***************************************************************************)
(* ORDER BY e.timestamp ASC | DESC.  There is no second sort key, so rows  *)
(* with equal timestamps come back in any order.                           *)
(***************************************************************************)
InOrder_Swapped(e, f, asc) ==
    IF asc THEN e.timestamp >= f.timestamp ELSE e.timestamp <= f.timestamp

InOrder(e, f, asc) ==
    IF asc THEN e.timestamp <= f.timestamp ELSE e.timestamp >= f.timestamp

Orderings(S, asc) ==
    { f \in [1..Cardinality(S) -> S] :
        /\ \A e \in S : \E i \in 1..Cardinality(S) : f[i] = e
        /\ \A i, j \in 1..Cardinality(S) : i < j => InOrder(f[i], f[j], asc) }

EffectiveLimit(opts) == IF opts.Limit = 0 THEN DefaultLimit ELSE opts.Limit

(* LIMIT and OFFSET cut a slice out of one of the orderings.               *)
PageOf_OneMore(f, n, opts) ==
    LET last == opts.Offset + EffectiveLimit(opts) + 1
    IN  SubSeq(f, opts.Offset + 1, IF last < n THEN last ELSE n)

PageOf_SkipOne(f, n, opts) ==
    LET last == opts.Offset + EffectiveLimit(opts)
    IN  SubSeq(f, opts.Offset + 2, IF last < n THEN last ELSE n)

PageOf(f, n, opts) ==
    LET last == opts.Offset + EffectiveLimit(opts)
    IN  SubSeq(f, opts.Offset + 1, IF last < n THEN last ELSE n)

(* The pages a call of GetEvents may return.                               *)
GetEvents(rows, opts) ==
    LET found == Matching(rows, opts)
    IN  { PageOf(f, Cardinality(found), opts) :
            f \in Orderings(found, opts.OrderAsc) }

(***************************************************************************)
(* GetEventCount: COUNT( * ) under the account, time and activity filters. *)
(* The code appends no condition for opts.MinEventID.                      *)
(***************************************************************************)
CountMatches_OpenEnd(e, opts) ==
    /\ \A a \in opts.AccountID : e.account_id = a
    /\ \A t \in opts.StartTime : e.timestamp >= t
    /\ \A t \in opts.EndTime   : e.timestamp < t
    /\ \A a \in opts.Activity  : e.activity = a

CountMatches(e, opts) ==
    /\ \A a \in opts.AccountID : e.account_id = a
    /\ \A t \in opts.StartTime : e.timestamp >= t
    /\ \A t \in opts.EndTime   : e.timestamp <= t
    /\ \A a \in opts.Activity  : e.activity = a

GetEventCount(rows, opts) == Cardinality({ e \in rows : CountMatches(e, opts) })
=============================================================================
