----------------------------- MODULE AuditFeed ------------------------------
(***************************************************************************)
(* What a reader of the journal and an operator of the checkpoint table    *)
(* may rely on, with no word about batches, memory, contexts or crashes.   *)
(* Events are stored in the order of their ids and times.  The feed prints *)
(* stored events above its position, as often as it likes, and moves its   *)
(* position up to a stored event when everything in between was printed;   *)
(* only the first position may leave out what is older than the lookback   *)
(* window.                                                                 *)
(***************************************************************************)
EXTENDS Integers

CONSTANTS
    Rows,        \* the possible events, records with an id and a timestamp
    Lookback     \* hours; 0: events never expire

VARIABLES
    stored,      \* the events NetBird has committed
    printed,     \* how often each event id was printed
    position,    \* the durable position
    now

feed == <<stored, printed, position, now>>

Ids == { e.id : e \in Rows }

Expired(e) == Lookback > 0 /\ e.timestamp < now - Lookback

Init ==
    /\ stored = {}
    /\ printed = [i \in Ids |-> 0]
    /\ position = 0
    /\ now = 0

Store ==
    /\ \E e \in Rows :
          /\ e.timestamp <= now
          /\ \A f \in stored : f.id < e.id /\ f.timestamp < e.timestamp
          /\ stored' = stored \cup {e}
    /\ UNCHANGED <<printed, position, now>>

Deliver ==
    /\ \E e \in stored :
          /\ e.id > position
          /\ printed' = [printed EXCEPT ![e.id] = @ + 1]
    /\ UNCHANGED <<stored, position, now>>

Commit ==
    /\ \E e \in stored :
          /\ e.id > position
          /\ \A f \in stored :
                position < f.id /\ f.id <= e.id =>
                    printed[f.id] > 0 \/ (position = 0 /\ Expired(f))
          /\ position' = e.id
    /\ UNCHANGED <<stored, printed, now>>

Hour ==
    /\ now' = now + 1
    /\ UNCHANGED <<stored, printed, position>>

Next == Store \/ Deliver \/ Commit \/ Hour

Spec == Init /\ [][Next]_feed
=============================================================================
