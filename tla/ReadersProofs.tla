---------------------------- MODULE ReadersProofs ----------------------------
(***************************************************************************)
(* Proofs about MCReaders: what the readers and the checkpoint statements  *)
(* make of every input, for tables, users and options of any size.         *)
(***************************************************************************)
EXTENDS MCReaders, FiniteSetTheorems, SequenceTheorems,
        WellFoundedInduction, TLAPS

-----------------------------------------------------------------------------
(* The checkpoint table.                                                   *)

StoredRows ==
    [ consumer : Consumers, writer : Writers \cup {Default},
      position : 1..MaxPosition ]

(* What is given never changes, and a save that was not refused is one of  *)
(* the version the table is for.                                           *)
StoreInv ==
    /\ layout \in {"techdoc", "lab", "v1"}
    /\ stored \subseteq StoredRows
    /\ \A s \in saving : s \in [client : Clients, position : 1..MaxPosition]
    /\ \A s, t \in saving : s = t
    /\ rowsAfter # {} =>
          \A s \in saving :
              /\ SaveAccepted(layout, s.client.older)
              /\ rowsAfter = Upserted(layout, stored, RowOf(s.client, s.position))
    /\ refused => \A s \in saving : ~SaveAccepted(layout, s.client.older)

(* The older pair works on the table of version 1 and nowhere else.        *)
LEMMA AcceptedByVersion ==
    ASSUME NEW t \in {"techdoc", "lab", "v1"}, NEW older \in BOOLEAN
    PROVE  SaveAccepted(t, older) <=> (older <=> t = "v1")
BY DEF SaveAccepted, LoadAccepted, Columns, ColumnsOf, Common, ConflictTarget, KeyOf

(* The rows a client's statements select are those ON CONFLICT meets.      *)
LEMMA KeySelects ==
    ASSUME NEW t \in {"techdoc", "lab", "v1"}, NEW c \in Clients,
           c.older <=> t = "v1", NEW position, NEW r
    PROVE  SameKey(t, r, RowOf(c, position)) <=> Selects(c, r)
BY DEF SameKey, KeyOf, RowOf, Selects

LEMMA SaveIsFound ==
    ASSUME NEW t \in {"techdoc", "lab", "v1"}, NEW c \in Clients,
           c.older <=> t = "v1", NEW given \in SUBSET StoredRows,
           NEW position \in 1..MaxPosition
    PROVE  Found(c, Upserted(t, given, RowOf(c, position))) = {position}
<1> DEFINE row == RowOf(c, position)
           new == [r \in given |-> [r EXCEPT !.position = position]]
<1>1. row.position = position /\ Selects(c, row)
  BY DEF RowOf, Selects
<1>2. \A r \in given : SameKey(t, r, row) <=> Selects(c, r)
  BY KeySelects
<1>3. ASSUME NEW r \in given
      PROVE  /\ new[r].position = position
             /\ Selects(c, new[r]) <=> Selects(c, r)
  <2>1. r \in StoredRows
    OBVIOUS
  <2> QED
    BY <2>1 DEF StoredRows, Selects
<1>4. CASE \E r \in given : Selects(c, r)
  <2>1. Upserted(t, given, row) = { IF Selects(c, r) THEN new[r] ELSE r : r \in given }
    BY <1>1, <1>2, <1>4 DEF Upserted
  <2>2. \A r \in Upserted(t, given, row) : Selects(c, r) => r.position = position
    BY <1>3, <2>1
  <2>3. PICK r \in given : Selects(c, r)
    BY <1>4
  <2>4. new[r] \in Upserted(t, given, row)
    BY <2>1, <2>3
  <2> QED
    BY <1>3, <2>2, <2>3, <2>4 DEF Found
<1>5. CASE ~ \E r \in given : Selects(c, r)
  <2>1. Upserted(t, given, row) = given \cup {row}
    BY <1>2, <1>5 DEF Upserted
  <2> HIDE DEF row
  <2> QED
    BY <1>1, <1>5, <2>1 DEF Found, row
<1> QED
  BY <1>4, <1>5

LEMMA SaveKeepsOthers ==
    ASSUME NEW t \in {"techdoc", "lab", "v1"}, NEW c \in Clients,
           c.older <=> t = "v1", NEW given \in SUBSET StoredRows,
           NEW position \in 1..MaxPosition,
           NEW d, d.older = c.older,
           d.consumer = c.consumer => d.older /\ d.writer # c.writer
    PROVE  Found(d, Upserted(t, given, RowOf(c, position))) = Found(d, given)
<1> DEFINE row == RowOf(c, position)
           new == [r \in given |-> [r EXCEPT !.position = position]]
<1>1. \A r : Selects(d, r) => ~Selects(c, r)
  BY DEF Selects
<1>2. \A r \in given : SameKey(t, r, row) <=> Selects(c, r)
  BY KeySelects
<1>3. ASSUME NEW r \in given PROVE Selects(c, new[r]) <=> Selects(c, r)
  <2>1. r \in StoredRows
    OBVIOUS
  <2> QED
    BY <2>1 DEF StoredRows, Selects
<1>4. CASE \E r \in given : Selects(c, r)
  <2>1. Upserted(t, given, row) = { IF Selects(c, r) THEN new[r] ELSE r : r \in given }
    BY <1>2, <1>4 DEF Upserted, RowOf
  <2>2. \A r : Selects(d, r) => (r \in Upserted(t, given, row) <=> r \in given)
    BY <1>1, <1>3, <2>1
  <2> QED
    BY <2>2 DEF Found
<1>5. CASE ~ \E r \in given : Selects(c, r)
  <2>1. Upserted(t, given, row) = given \cup {row}
    BY <1>2, <1>5 DEF Upserted
  <2>2. Selects(c, row)
    BY DEF RowOf, Selects
  <2> HIDE DEF row
  <2> QED
    BY <1>1, <2>1, <2>2 DEF Found, row
<1> QED
  BY <1>4, <1>5

LEMMA StoreInit ==
    ASSUME Layouts \subseteq {"techdoc", "lab", "v1"}
    PROVE  Init => StoreInv
BY DEF Init, NoSave, SomeSave, StoreInv, StoredRows

LEMMA StoreNext == StoreInv /\ [Next]_<<reading, others>> => StoreInv'
<1> SUFFICES ASSUME StoreInv, [Next]_<<reading, others>> PROVE StoreInv'
  OBVIOUS
<1>1. CASE Save
  <2>1. UNCHANGED <<layout, stored, saving>>
    BY <1>1 DEF Save
  <2>2. PICK s \in saving :
            IF SaveAccepted(layout, s.client.older)
            THEN /\ rowsAfter' = Upserted(layout, stored, RowOf(s.client, s.position))
                 /\ UNCHANGED refused
            ELSE refused' = TRUE /\ UNCHANGED rowsAfter
    BY <1>1 DEF Save
  <2>3. rowsAfter = {} /\ ~refused /\ \A t \in saving : t = s
    BY <1>1 DEF Save, StoreInv
  <2> QED
    BY <2>1, <2>2, <2>3 DEF StoreInv
<1>2. CASE UNCHANGED store
  BY <1>2 DEF StoreInv, store
<1>3. Save \/ UNCHANGED store
  BY DEF Next, Get, Count, Enrich, others
<1> QED
  BY <1>1, <1>2, <1>3

(***************************************************************************)
(* The checkpoint table serves all its clients: each finds what it saved   *)
(* and keeps it while others save, and is refused only on a table of the   *)
(* other version - for every table of the layouts the program was made     *)
(* for, whoever wrote its rows.                                            *)
(***************************************************************************)
THEOREM StoreServesItsClients ==
    ASSUME Layouts \subseteq {"techdoc", "lab", "v1"}
    PROVE  Spec => []RowsServeTheirOwners
<1>1. StoreInv => RowsServeTheirOwners
  <2> SUFFICES ASSUME StoreInv PROVE RowsServeTheirOwners
    OBVIOUS
  <2>1. ASSUME NEW s \in saving
        PROVE  /\ s.client \in Clients /\ s.client.older \in BOOLEAN
               /\ s.position \in 1..MaxPosition
    BY DEF StoreInv, Clients
  <2>2. SavedIsFound
    <3>1. ASSUME rowsAfter # {}, NEW s \in saving
          PROVE  Found(s.client, rowsAfter) = {s.position}
      BY <2>1, <3>1, AcceptedByVersion, SaveIsFound DEF StoreInv
    <3> QED
      BY <3>1 DEF SavedIsFound
  <2>3. OthersKeepTheirs
    <3>1. ASSUME rowsAfter # {}, NEW s \in saving, NEW c \in Clients,
                 c.older = s.client.older,
                 c.consumer = s.client.consumer =>
                     c.older /\ c.writer # s.client.writer
          PROVE  Found(c, rowsAfter) = Found(c, stored)
      BY <2>1, <3>1, AcceptedByVersion, SaveKeepsOthers DEF StoreInv
    <3> QED
      BY <3>1 DEF OthersKeepTheirs
  <2>4. OwnVersionServed
    BY <2>1, AcceptedByVersion DEF StoreInv, OwnVersionServed
  <2> QED
    BY <2>2, <2>3, <2>4 DEF RowsServeTheirOwners
<1> QED
  BY StoreInit, StoreNext, <1>1, PTL DEF Spec

-----------------------------------------------------------------------------
(* Pages and counts.                                                       *)

(* b is the slice of the ordering f of the n matching rows that ends with  *)
(* the row at last.                                                        *)
IsSlice(b, t, o, n, f, last) ==
    /\ n \in Nat /\ last \in 0..n /\ f \in [1..n -> Matching(t, o)]
    /\ \A e \in Matching(t, o) : \E i \in 1..n : f[i] = e
    /\ \A i, j \in 1..n :
          i < j => f[i] # f[j] /\ InOrder(f[i], f[j], o.OrderAsc)
    /\ Len(b) = IF o.Offset < last THEN last - o.Offset ELSE 0
    /\ \A i \in 1..Len(b) : o.Offset + i \in 1..n /\ b[i] = f[o.Offset + i]
    /\ Len(b) \in Nat /\ Len(b) <= EffectiveLimit(o)
    /\ last < n => last = o.Offset + EffectiveLimit(o)

(* The rows of a page are a slice of an ordering: those before the slice   *)
(* are the Offset first ones, those after it are there only when the page  *)
(* is full.                                                                *)
LEMMA PageIsSlice ==
    ASSUME NEW t, IsFiniteSet(t), NEW o, o.Limit \in Nat, o.Offset \in Nat,
           NEW b \in GetEvents(t, o)
    PROVE  \E n, f, last : IsSlice(b, t, o, n, f, last)
<1> DEFINE S == Matching(t, o)
           n == Cardinality(S)
           limit == EffectiveLimit(o)
           first == o.Offset
           last == IF first + limit < n THEN first + limit ELSE n
<1>1. IsFiniteSet(S) /\ n \in Nat
  <2>1. S \subseteq t
    BY DEF Matching
  <2> QED
    BY <2>1, FS_Subset, FS_CardinalityType
<1>2. limit \in Nat \ {0}
  BY DefaultLimitAssumption DEF EffectiveLimit
<1>3. PICK f \in Orderings(S, o.OrderAsc) : b = PageOf(f, n, o)
  BY DEF GetEvents
<1>4. /\ f \in [1..n -> S]
      /\ \A e \in S : \E i \in 1..n : f[i] = e
      /\ \A i, j \in 1..n : i < j => InOrder(f[i], f[j], o.OrderAsc)
  BY <1>3 DEF Orderings
<1>5. b = SubSeq(f, first + 1, last)
  BY <1>3 DEF PageOf
<1>6. /\ last \in 0..n
      /\ last <= first + limit
      /\ last < n => last = first + limit
  BY <1>1, <1>2
<1>7. \A i, j \in 1..n : f[i] = f[j] => i = j
  <2>1. IsFiniteSet(1..n) /\ Cardinality(1..n) = n
    BY <1>1, FS_Interval
  <2>2. f \in Surjection(1..n, S)
    BY <1>4 DEF Surjection
  <2>3. f \in Injection(1..n, S)
    BY <1>1, <2>1, <2>2, FS_SurjSameCardinalityImpliesInj
  <2> QED
    BY <2>3 DEF Injection, IsInjective
<1> HIDE DEF S, n, limit, last
<1>8. first \in Nat
  OBVIOUS
<1> HIDE DEF first
<1>9. /\ Len(b) = IF first < last THEN last - first ELSE 0
      /\ \A i \in 1..Len(b) : b[i] = f[first + i]
  <2>1. \A i \in (first + 1)..last : f[i] \in S
    BY <1>1, <1>4, <1>6, <1>8
  <2>2. /\ Len(SubSeq(f, first + 1, last)) =
               IF first + 1 <= last THEN last - (first + 1) + 1 ELSE 0
        /\ \A i \in 1..(last - (first + 1) + 1) :
               SubSeq(f, first + 1, last)[i] = f[first + 1 + i - 1]
    BY <1>1, <1>6, <1>8, <2>1, SubSeqProperties
  <2>3. CASE first < last
    <3>1. /\ first + 1 <= last
          /\ last - (first + 1) + 1 = last - first
      BY <1>6, <1>8, <2>3
    <3>2. Len(b) = last - first /\ \A i \in 1..(last - first) : b[i] = f[first + 1 + i - 1]
      BY <1>5, <2>2, <3>1
    <3>3. \A i \in 1..(last - first) : first + 1 + i - 1 = first + i
      BY <1>6, <1>8
    <3> QED
      BY <2>3, <3>2, <3>3
  <2>4. CASE ~ (first < last)
    <3>1. ~ (first + 1 <= last)
      BY <1>6, <1>8, <2>4
    <3>2. Len(b) = 0
      BY <1>5, <2>2, <3>1
    <3> QED
      BY <2>4, <3>2
  <2> QED
    BY <2>3, <2>4
<1>10. Len(b) \in Nat /\ Len(b) <= limit
  BY <1>1, <1>2, <1>6, <1>8, <1>9
<1>11. \A i \in 1..Len(b) : first + i \in 1..n
  BY <1>1, <1>6, <1>8, <1>9
<1>12. \A i, j \in 1..n : i < j => f[i] # f[j] /\ InOrder(f[i], f[j], o.OrderAsc)
  BY <1>1, <1>4, <1>7
<1> QED
  <2>1. IsSlice(b, t, o, n, f, last)
    BY <1>1, <1>4, <1>6, <1>9, <1>10, <1>11, <1>12 DEF S, limit, first, IsSlice
  <2> QED
    BY <2>1

(* What was read is what a query of the rows returns.                      *)
PageInv ==
    /\ IsFiniteSet(rows)
    /\ opts.Limit \in Nat /\ opts.Offset \in Nat
    /\ page # <<>> => page \in GetEvents(rows, opts)
    /\ count # -1 => count = GetEventCount(rows, opts)

LEMMA TablesFinite ==
    ASSUME MaxEventID \in Nat, NEW t \in Tables
    PROVE  IsFiniteSet(t)
<1> DEFINE id == [e \in t |-> e.id]
<1>1. \A e \in t : e.id \in 1..MaxEventID
  BY DEF Tables, Row
<1>2. id \in Injection(t, 1..MaxEventID)
  BY <1>1 DEF Injection, IsInjective, Tables
<1>3. IsFiniteSet(1..MaxEventID)
  BY FS_Interval
<1> QED
  BY <1>2, <1>3, FS_Injection

LEMMA PageInit == ASSUME MaxEventID \in Nat PROVE Init => PageInv
<1>1. IsFiniteSet({})
  BY FS_EmptySet
<1>2. SomePage => IsFiniteSet(rows) /\ opts.Limit \in Nat /\ opts.Offset \in Nat
  BY TablesFinite DEF SomePage, Options
<1>3. NoPage => IsFiniteSet(rows) /\ opts.Limit \in Nat /\ opts.Offset \in Nat
  BY <1>1 DEF NoPage, NoOptions
<1> QED
  BY <1>2, <1>3 DEF Init, PageInv

LEMMA PageNext == PageInv /\ [Next]_<<reading, others>> => PageInv'
<1> SUFFICES ASSUME PageInv, [Next]_<<reading, others>> PROVE PageInv'
  OBVIOUS
<1>1. CASE Get
  BY <1>1 DEF Get, PageInv, inputs
<1>2. CASE Count
  BY <1>2 DEF Count, PageInv, inputs
<1>3. CASE Enrich
  BY <1>3 DEF Enrich, PageInv, inputs
<1>4. CASE UNCHANGED reading
  BY <1>4 DEF reading, PageInv, inputs
<1> QED
  BY <1>1, <1>2, <1>3, <1>4 DEF Next

(***************************************************************************)
(* GetEvents returns rows that match, each once, in the order asked for,   *)
(* and no more than the limit, whatever limit, offset and filters are      *)
(* asked for.                                                              *)
(***************************************************************************)
THEOREM PagesAreSound ==
    ASSUME MaxEventID \in Nat
    PROVE  Spec => []PageIsSound
<1>1. PageInv => PageIsSound
  <2> SUFFICES ASSUME PageInv PROVE PageIsSound
    OBVIOUS
  <2>1. EffectiveLimit(opts) \in Nat
    BY DefaultLimitAssumption DEF EffectiveLimit, PageInv
  <2>2. CASE page = <<>>
    BY <2>1, <2>2 DEF PageIsSound
  <2>3. CASE page # <<>>
    <3>1. PICK n, f, last : IsSlice(page, rows, opts, n, f, last)
      BY <2>3, PageIsSlice DEF PageInv
    <3>2. opts.Offset \in Nat
      BY DEF PageInv
    <3> DEFINE first == opts.Offset
    <3>3. \A i \in 1..Len(page) : page[i] \in Matching(rows, opts)
      BY <3>1 DEF IsSlice
    <3>4. ASSUME NEW i \in 1..Len(page), NEW j \in 1..Len(page), i < j
          PROVE  page[i] # page[j] /\ InOrder(page[i], page[j], opts.OrderAsc)
      <4>1. /\ first + i \in 1..n /\ page[i] = f[first + i]
            /\ first + j \in 1..n /\ page[j] = f[first + j]
        BY <3>1 DEF IsSlice
      <4>2. first + i < first + j
        BY <3>1, <3>2, <3>4 DEF IsSlice
      <4> QED
        BY <3>1, <4>1, <4>2 DEF IsSlice
    <3> QED
      BY <3>1, <3>3, <3>4 DEF PageIsSound, IsSlice
  <2> QED
    BY <2>2, <2>3
<1> QED
  BY PageInit, PageNext, <1>1, PTL DEF Spec

(* What is neither on a page nor after it is among the Offset first rows.  *)
LEMMA BeforeThePage ==
    ASSUME NEW n \in Nat, NEW S, NEW f \in [1..n -> S], NEW k \in Nat,
           NEW T, \A e \in T : \E i \in 1..n : i <= k /\ f[i] = e
    PROVE  IsFiniteSet(T) /\ Cardinality(T) <= k
<1> DEFINE m == IF k < n THEN k ELSE n
           I == {i \in 1..m : f[i] \in T}
           g == [i \in I |-> f[i]]
<1>1. m \in Nat /\ m <= k /\ m <= n
  OBVIOUS
<1>2. IsFiniteSet(1..m) /\ Cardinality(1..m) = m
  BY <1>1, FS_Interval
<1>3. I \in SUBSET (1..m)
  OBVIOUS
<1>4. IsFiniteSet(I) /\ Cardinality(I) <= m /\ Cardinality(I) \in Nat
  BY <1>2, <1>3, FS_Subset, FS_CardinalityType
<1>5. g \in Surjection(I, T)
  <2>1. \A e \in T : \E i \in I : f[i] = e
    OBVIOUS
  <2> QED
    BY <2>1 DEF Surjection
<1>6. IsFiniteSet(T) /\ Cardinality(T) <= Cardinality(I)
  BY <1>4, <1>5, FS_Surjection
<1>7. Cardinality(T) \in Nat
  BY <1>6, FS_CardinalityType
<1> HIDE DEF m, I
<1> QED
  BY <1>1, <1>4, <1>6, <1>7

(***************************************************************************)
(* Reading on from the last row of a page misses nothing: what a page      *)
(* leaves out is one of the Offset rows before it or comes after all of    *)
(* it, and then the page is full.                                          *)
(***************************************************************************)
THEOREM PagesLeaveNoHole ==
    ASSUME MaxEventID \in Nat
    PROVE  Spec => []PageLeavesNoHole
<1>1. PageInv => PageLeavesNoHole
  <2> SUFFICES ASSUME PageInv, page # <<>> PROVE PageLeavesNoHole
    BY DEF PageLeavesNoHole
  <2> DEFINE missing == { e \in Matching(rows, opts) : ~InPage(e) }
             after == { e \in missing : \A i \in 1..Len(page) :
                            InOrder(page[i], e, opts.OrderAsc) }
             first == opts.Offset
  <2>1. PICK n, f, last : IsSlice(page, rows, opts, n, f, last)
    BY PageIsSlice DEF PageInv
  <2>2. first \in Nat /\ EffectiveLimit(opts) \in Nat
    BY DefaultLimitAssumption DEF EffectiveLimit, PageInv
  <2>3. ASSUME NEW e \in missing, NEW i \in 1..n, f[i] = e
        PROVE  i <= first \/ i > last
    <3>1. CASE first < i /\ i <= last
      <4>1. i - first \in 1..Len(page)
        BY <2>1, <2>2, <3>1 DEF IsSlice
      <4>2. page[i - first] = e
        BY <2>1, <2>2, <2>3, <4>1 DEF IsSlice
      <4> QED
        BY <4>1, <4>2 DEF InPage
    <3> QED
      BY <2>1, <2>2, <3>1 DEF IsSlice
  <2>4. ASSUME NEW e \in missing, NEW i \in 1..n, f[i] = e, i > last
        PROVE  e \in after
    BY <2>1, <2>2, <2>4 DEF IsSlice
  <2>5. \A e \in missing \ after : \E i \in 1..n : i <= first /\ f[i] = e
    BY <2>1, <2>3, <2>4 DEF IsSlice
  <2>6. ASSUME NEW T, \A e \in T : \E i \in 1..n : i <= first /\ f[i] = e
        PROVE  Cardinality(T) <= first
    <3>1. n \in Nat /\ f \in [1..n -> Matching(rows, opts)]
      BY <2>1 DEF IsSlice
    <3>2. first \in Nat
      BY <2>2
    <3> HIDE DEF first
    <3>3. IsFiniteSet(T) /\ Cardinality(T) <= first
      BY <2>6, <3>1, <3>2, BeforeThePage, Zenon
    <3> QED
      BY <3>3
  <2>7. Cardinality(missing \ after) <= first
    <3> HIDE DEF missing, after, first
    <3> QED
      BY <2>5, <2>6
  <2>8. \A e \in missing \ after : \A i \in 1..Len(page) :
            InOrder(e, page[i], opts.OrderAsc)
    <3> SUFFICES ASSUME NEW e \in missing \ after, NEW i \in 1..Len(page)
                 PROVE  InOrder(e, page[i], opts.OrderAsc)
      OBVIOUS
    <3>2. PICK k \in 1..n : k <= first /\ f[k] = e
      BY <2>5
    <3>3. first + i \in 1..n /\ page[i] = f[first + i] /\ Len(page) \in Nat
      BY <2>1 DEF IsSlice
    <3>4. k < first + i
      BY <2>1, <2>2, <3>2, <3>3 DEF IsSlice
    <3> QED
      BY <2>1, <3>2, <3>3, <3>4 DEF IsSlice
  <2>9. ASSUME Len(page) # EffectiveLimit(opts)
        PROVE  Cardinality(missing) <= first
    <3>1. CASE last = n
      <4>1. \A e \in missing : \E i \in 1..n : i <= first /\ f[i] = e
        BY <2>1, <2>3, <3>1 DEF IsSlice
      <4> HIDE DEF missing, first
      <4> QED
        BY <2>6, <4>1
    <3>2. CASE last < n
      BY <2>1, <2>2, <2>9, <3>2 DEF IsSlice
    <3> QED
      BY <2>1, <3>1, <3>2 DEF IsSlice
  <2>10. IsFiniteSet(missing) /\ Cardinality(missing) \in Nat
    <3>1. missing \subseteq rows
      BY DEF Matching
    <3> QED
      BY <3>1, FS_Subset, FS_CardinalityType DEF PageInv
  <2>11. Cardinality(missing) > first => Len(page) = EffectiveLimit(opts)
    BY <2>2, <2>9, <2>10
  <2> QED
    BY <2>7, <2>8, <2>11 DEF PageLeavesNoHole
<1> QED
  BY PageInit, PageNext, <1>1, PTL DEF Spec

(***************************************************************************)
(* GetEventCount is the number of rows a caller can read, as long as it    *)
(* sets no MinEventID.                                                     *)
(***************************************************************************)
THEOREM CountsAreReadable ==
    ASSUME MaxEventID \in Nat
    PROVE  Spec => []CountIsReadable
<1>1. PageInv => CountIsReadable
  <2>1. opts.MinEventID = {} =>
            \A e : CountMatches(e, opts) <=> Matches(e, opts)
    BY DEF CountMatches, Matches
  <2> QED
    BY <2>1 DEF PageInv, CountIsReadable, GetEventCount, Matching
<1> QED
  BY PageInit, PageNext, <1>1, PTL DEF Spec

-----------------------------------------------------------------------------
(* The email columns.                                                      *)

(* The id is the key of every user table.                                  *)
KeyedTables(t) ==
    \A d \in DOMAIN t : \A r, s \in t[d] : r.id = s.id => r = s

(* S has the one element x.                                                *)
Only(S, x) == S = {x}

(* A LEFT JOIN on the key yields one row, the user's or an unmatched one.  *)
LEMMA OneMatch ==
    ASSUME NEW t, KeyedTables(t), NEW d \in DOMAIN t, NEW user
    PROVE  \E r : /\ Only(Matched(t[d], user), r)
                  /\ r = Unmatched \/ (r \in t[d] /\ user = {r.id})
<1> DEFINE found == { r \in t[d] : user = {r.id} }
<1>1. CASE found = {}
  BY <1>1 DEF Matched, Only
<1>2. CASE found # {}
  <2>1. PICK r \in t[d] : user = {r.id}
    BY <1>2
  <2>2. \A s \in found : s.id = r.id
    BY <2>1
  <2>3. found = {r}
    BY <2>1, <2>2 DEF KeyedTables
  <2> QED
    BY <1>2, <2>1, <2>3 DEF Matched, Only
<1> QED
  BY <1>1, <1>2

(* So there is one way to join a user's rows.                              *)
LEMMA OneJoin ==
    ASSUME NEW t, KeyedTables(t), NEW user, NEW d, NEW source,
           Joined(d, source) \subseteq DOMAIN t
    PROVE  \E f : /\ Only(Joins(d, source, t, user), f)
                  /\ \A x \in Joined(d, source) : Only(Matched(t[x], user), f[x])
<1> DEFINE J == Joined(d, source)
           f == [ x \in J |-> CHOOSE r : r \in Matched(t[x], user) ]
           R == UNION { Matched(t[x], user) : x \in J }
<1>1. ASSUME NEW x \in J PROVE Only(Matched(t[x], user), f[x])
  <2>1. PICK r : Only(Matched(t[x], user), r)
    BY <1>1, OneMatch
  <2> QED
    BY <2>1 DEF Only
<1>2. f \in [J -> R]
  <2>1. \A x \in J : f[x] \in R
    BY <1>1 DEF Only
  <2> QED
    BY <2>1
<1> HIDE DEF R
<1>3. \A g \in [J -> R] : (\A x \in J : g[x] \in Matched(t[x], user)) => g = f
  BY <1>1, <1>2 DEF Only
<1>4. Joins(d, source, t, user) =
          { g \in [J -> R] : \A x \in J : g[x] \in Matched(t[x], user) }
  BY DEF Joins, R
<1>5. Only(Joins(d, source, t, user), f)
  BY <1>1, <1>2, <1>3, <1>4 DEF Only
<1> QED
  BY <1>1, <1>5

(* What is shown for a user whose rows are f.                              *)
Shown(c, d, f, user) ==
    Decrypt(Decryptor(c), Scanned(EmailColumn(d, GetSource(c), f, user)))

OneRow(c, d, f, g, e) ==
    [ joined |-> <<f, g>>,
      event  |-> [ initiator_email |-> Shown(c, d, f, e.initiator_id),
                   target_email    |-> Shown(c, d, g, e.target_id) ] ]

LEMMA OneEvent ==
    ASSUME NEW t, KeyedTables(t), NEW c, NEW d,
           ~QueryFails(d, GetSource(c), t), NEW e
    PROVE  \E f, g :
              /\ Only(EnrichedRows(c, d, t, e), OneRow(c, d, f, g, e))
              /\ \A x \in Joined(d, GetSource(c)) :
                    /\ Only(Matched(t[x], e.initiator_id), f[x])
                    /\ Only(Matched(t[x], e.target_id), g[x])
<1> DEFINE source == GetSource(c)
<1>1. Joined(d, source) \subseteq DOMAIN t
  BY DEF QueryFails
<1>2. PICK f : /\ Only(Joins(d, source, t, e.initiator_id), f)
               /\ \A x \in Joined(d, source) : Only(Matched(t[x], e.initiator_id), f[x])
  BY <1>1, OneJoin
<1>3. PICK g : /\ Only(Joins(d, source, t, e.target_id), g)
               /\ \A x \in Joined(d, source) : Only(Matched(t[x], e.target_id), g[x])
  BY <1>1, OneJoin
<1>4. Only(EnrichedRows(c, d, t, e), OneRow(c, d, f, g, e))
  BY <1>2, <1>3 DEF Only, EnrichedRows, OneRow, Shown
<1> QED
  BY <1>2, <1>3, <1>4

(* An event is enriched from tables whose id is their key, and what was    *)
(* made of it is what the query returns.                                   *)
EmailInv ==
    /\ KeyedTables(tables)
    /\ \A e, f \in event : e = f
    /\ enriched # {} =>
          /\ ~QueryFails(driver, GetSource(conf), tables)
          /\ \E e \in event : enriched = EnrichedRows(conf, driver, tables, e)

LEMMA EmailInit == Init => EmailInv
<1>1. NoEmail => KeyedTables(tables) /\ \A e, f \in event : e = f
  BY DEF NoEmail, KeyedTables
<1>2. SomeEmail => KeyedTables(tables) /\ \A e, f \in event : e = f
  <2> SUFFICES ASSUME SomeEmail
               PROVE  KeyedTables(tables) /\ \A e, f \in event : e = f
    OBVIOUS
  <2>1. \A e, f \in event : e = f
    BY DEF SomeEmail
  <2>2. PICK D : tables \in
            [ D -> { {} } \cup { {u} : u \in NetbirdUsers \cup OwnUsers } ]
    BY DEF SomeEmail, Databases
  <2> QED
    BY <2>1, <2>2 DEF KeyedTables
<1> QED
  BY <1>1, <1>2 DEF Init, EmailInv

LEMMA EmailNext == EmailInv /\ [Next]_<<reading, others>> => EmailInv'
<1> SUFFICES ASSUME EmailInv, [Next]_<<reading, others>> PROVE EmailInv'
  OBVIOUS
<1>1. CASE Get
  BY <1>1 DEF Get, EmailInv, inputs
<1>2. CASE Count
  BY <1>2 DEF Count, EmailInv, inputs
<1>3. CASE Enrich
  BY <1>3 DEF Enrich, EmailInv, inputs
<1>4. CASE UNCHANGED reading
  BY <1>4 DEF reading, EmailInv, inputs
<1> QED
  BY <1>1, <1>2, <1>3, <1>4 DEF Next

(***************************************************************************)
(* Enrichment neither drops nor multiplies an event, whatever the source   *)
(* and whoever is in the user tables.                                      *)
(***************************************************************************)
THEOREM EveryEventIsKept == Spec => []EnrichmentKeepsEvents
<1>1. EmailInv => EnrichmentKeepsEvents
  <2> SUFFICES ASSUME EmailInv, NEW e \in event,
                      ~QueryFails(driver, GetSource(conf), tables)
               PROVE  Cardinality(EnrichedRows(conf, driver, tables, e)) = 1
    BY DEF EnrichmentKeepsEvents
  <2>1. PICK r : Only(EnrichedRows(conf, driver, tables, e), r)
    BY OneEvent DEF EmailInv
  <2> QED
    BY <2>1, FS_Singleton DEF Only
<1> QED
  BY EmailInit, EmailNext, <1>1, PTL DEF Spec

(***************************************************************************)
(* What is sealed with the configured key is never shown, in whichever of  *)
(* the two ways the key is configured.                                     *)
(***************************************************************************)
THEOREM ConfiguredKeyIsUsed == Spec => []KeyIsUsed
<1>1. ASSUME NEW keys, NEW v PROVE Decrypt(keys, v).sealed # keys \/ keys = {}
  BY DEF Decrypt, Plain
<1>2. EmailInv => KeyIsUsed
  <2> SUFFICES ASSUME EmailInv, NEW k \in Keys, NEW r \in enriched,
                      \/ conf.NetbirdConfigPath = {{k}}
                      \/ /\ conf.NetbirdConfigPath = {}
                         /\ conf.NetbirdEncryptionKey = {{k}}
               PROVE  /\ r.event.initiator_email.sealed # {k}
                      /\ r.event.target_email.sealed # {k}
    BY DEF KeyIsUsed
  <2>1. Decryptor(conf) = {k}
    BY DEF Decryptor
  <2>2. PICK e \in event : r \in EnrichedRows(conf, driver, tables, e)
    BY DEF EmailInv
  <2>3. PICK f, g : r = OneRow(conf, driver, f, g, e)
    BY <2>2, OneEvent DEF EmailInv, Only
  <2> QED
    BY <1>1, <2>1, <2>3 DEF OneRow, Shown
<1> QED
  BY EmailInit, EmailNext, <1>2, PTL DEF Spec

(* COALESCE is NULL only when all its columns are.                         *)
LEMMA CoalesceFinds ==
    ASSUME NEW n \in Nat, NEW c, DOMAIN c = 1..n, NEW k \in 1..n, c[k] # {}
    PROVE  Coalesce(c) # {}
<1> DEFINE T == { i \in 1..n : c[i] # {} }
<1>1. T \subseteq Nat /\ T # {}
  OBVIOUS
<1>2. PICK i \in T : \A j \in T : <<j, i>> \notin OpToRel(<, Nat)
  BY <1>1, NatLessThanWellFounded, WFMin
<1>3. \A j \in T : ~ (j < i)
  BY <1>1, <1>2 DEF OpToRel
<1>4. \A j \in 1..(i - 1) : c[j] = {}
  BY <1>3
<1>5. c[i] \subseteq Coalesce(c) /\ c[i] # {}
  BY <1>2, <1>4 DEF Coalesce
<1> QED
  BY <1>5

(* The tables a source looks into are those it joins.                      *)
LEMMA LookupsAreJoined ==
    ASSUME NEW d, NEW source
    PROVE  /\ Len(Lookups(d, source)) \in Nat
           /\ \A i \in 1..Len(Lookups(d, source)) :
                 /\ Lookups(d, source)[i].table \in Joined(d, source)
                 /\ Lookups(d, source)[i].column \in {"email", "name"}
<1> DEFINE L == Lookups(d, source)
           okta == [table |-> "okta_users", column |-> "email"]
           custom == [table |-> "custom", column |-> "email"]
           email == [table |-> "users", column |-> "email"]
           name == [table |-> "users", column |-> "name"]
           S == {okta, custom, email, name}
<1>1. \A l \in S : l.column \in {"email", "name"}
  OBVIOUS
<1>2. /\ Okta = <<okta>> /\ Custom = <<custom>> /\ Users = <<email, name>>
  BY DEF Okta, Custom, Users
<1>3. L \in Seq(S)
  <2> HIDE DEF okta, custom, email, name
  <2>1. /\ Okta \in Seq(S) /\ Users \in Seq(S)
        /\ Custom \in Seq(S) /\ <<>> \in Seq(S)
    BY <1>2
  <2> HIDE DEF S
  <2>2. Okta \o Users \in Seq(S)
    BY <2>1, ConcatProperties
  <2>3. L \in {Okta, Users, Custom, <<>>, Okta \o Users}
    BY DEF Lookups, PostgresLookups, SQLiteLookups
  <2> QED
    BY <2>1, <2>2, <2>3
<1> HIDE DEF S, L
<1>4. Len(L) \in Nat /\ DOMAIN L = 1..Len(L) /\ \A i \in 1..Len(L) : L[i] \in S
  BY <1>3
<1>5. \A i \in 1..Len(L) : L[i].table \in Joined(d, source)
  BY <1>4 DEF Joined, L
<1> QED
  BY <1>1, <1>4, <1>5 DEF L

(* The columns c of a user, the id at their end.                           *)
UserColumns(c, L, f, user) ==
    /\ DOMAIN c = 1..(Len(L) + 1)
    /\ \A i \in 1..Len(L) : c[i] = f[L[i].table][L[i].column]
    /\ c[Len(L) + 1] = { Plain(u) : u \in user }

LEMMA ColumnsOfUser ==
    ASSUME NEW d, NEW source, NEW f, NEW user
    PROVE  \E c : /\ UserColumns(c, Lookups(d, source), f, user)
                  /\ EmailColumn(d, source, f, user) = Coalesce(c)
<1> DEFINE L == Lookups(d, source)
           n == Len(L)
           M == [ i \in 1..n |-> f[L[i].table][L[i].column] ]
           id == { Plain(u) : u \in user }
           S == { M[i] : i \in 1..n } \cup {id}
           c == M \o <<id>>
<1>1. n \in Nat
  BY LookupsAreJoined
<1> HIDE DEF id, L, n
<1>2. M \in Seq(S) /\ <<id>> \in Seq(S) /\ Len(M) = n /\ Len(<<id>>) = 1
  BY <1>1
<1>3. /\ c \in Seq(S)
      /\ Len(c) = n + 1
      /\ \A i \in 1..(n + 1) : c[i] = IF i <= n THEN M[i] ELSE <<id>>[i - n]
  <2> HIDE DEF M, S
  <2> QED
    BY <1>2, ConcatProperties
<1>4. DOMAIN c = 1..(n + 1)
  <2> HIDE DEF M, S, c
  <2> QED
    BY <1>1, <1>3
<1>5. \A i \in 1..n : c[i] = f[L[i].table][L[i].column]
  <2> HIDE DEF S, c
  <2> QED
    BY <1>1, <1>3
<1>6. c[n + 1] = id
  <2> HIDE DEF M, S, c
  <2> QED
    BY <1>1, <1>3
<1>7. EmailColumn(d, source, f, user) = Coalesce(c)
  BY DEF EmailColumn, id, L, n
<1> HIDE DEF c
<1> QED
  BY <1>4, <1>5, <1>6, <1>7 DEF UserColumns, id, L, n

(* What is shown is in one of the user's columns.                          *)
LEMMA ShownIsFound ==
    ASSUME NEW c, NEW d, NEW f, NEW user, user # {}
    PROVE  LET L == Lookups(d, GetSource(c))
           IN  \/ \E u \in user : Shown(c, d, f, user).text = u
               \/ \E i \in 1..Len(L) : \E v \in f[L[i].table][L[i].column] :
                     Shown(c, d, f, user).text = v.text
<1> DEFINE source == GetSource(c)
           L == Lookups(d, source)
           n == Len(L)
           column == EmailColumn(d, source, f, user)
<1>1. PICK k : /\ DOMAIN k = 1..(n + 1)
               /\ \A i \in 1..n : k[i] = f[L[i].table][L[i].column]
               /\ k[n + 1] = { Plain(u) : u \in user }
               /\ column = Coalesce(k)
  BY ColumnsOfUser DEF UserColumns
<1>2. n \in Nat
  BY LookupsAreJoined
<1> HIDE DEF n, L, column
<1>3. column # {}
  BY <1>1, <1>2, CoalesceFinds
<1>4. PICK v \in column : Scanned(column) = v
  BY <1>3 DEF Scanned
<1>5. PICK i \in 1..(n + 1) : v \in k[i]
  BY <1>1, <1>4 DEF Coalesce
<1>6. Shown(c, d, f, user).text = v.text
  BY <1>4 DEF Shown, Decrypt, Plain, column
<1>7. CASE i = n + 1
  <2>1. PICK u \in user : v = Plain(u)
    BY <1>1, <1>5, <1>7
  <2>2. v.text = u
    BY <2>1 DEF Plain
  <2> QED
    BY <1>6, <2>2
<1>8. CASE i # n + 1
  <2>1. i \in 1..n
    BY <1>2, <1>8
  <2> QED
    BY <1>1, <1>5, <1>6, <2>1 DEF L, n
<1> QED
  BY <1>7, <1>8

(***************************************************************************)
(* The email shown is one that a table which the source asks has for this  *)
(* very user, a name, or the user's id, unless a column of the user is     *)
(* empty.                                                                  *)
(***************************************************************************)
THEOREM EmailsIdentify == Spec => []EmailIdentifies
<1>1. ASSUME EmailInv, ~QueryFails(driver, GetSource(conf), tables),
             NEW f, NEW user, user # {}, NoneEmpty(user),
             \A x \in Joined(driver, GetSource(conf)) :
                 Only(Matched(tables[x], user), f[x])
      PROVE  Identifies(user, Shown(conf, driver, f, user))
  <2> DEFINE J == Joined(driver, GetSource(conf))
             L == Lookups(driver, GetSource(conf))
             text == Shown(conf, driver, f, user).text
             found == { x \in UNION { tables[t] : t \in J } : user = {x.id} }
  <2>1. ValuesOf(user) = UNION { x.email \cup x.name : x \in found }
    BY DEF ValuesOf
  <2> SUFFICES \/ \E u \in user : text = u
               \/ \E v \in ValuesOf(user) : text = v.text
    <3> HIDE DEF text
    <3>1. \A v \in ValuesOf(user) : v.text # Blank
      BY <1>1 DEF NoneEmpty
    <3>2. Identifies(user, Shown(conf, driver, f, user)) =
            (text \in user \cup ({ v.text : v \in ValuesOf(user) } \ {Blank}))
      BY DEF Identifies, text
    <3> QED
      BY <3>1, <3>2
  <2> HIDE DEF found, text, L, J
  <2>2. CASE \E u \in user : text = u
    BY <2>2
  <2>3. ASSUME NEW i \in 1..Len(L), NEW v \in f[L[i].table][L[i].column],
               text = v.text
        PROVE  v \in ValuesOf(user)
    <3> DEFINE t == L[i].table
               r == f[t]
    <3>1. /\ t \in Joined(driver, GetSource(conf)) /\ t \in DOMAIN tables
          /\ L[i].column \in {"email", "name"}
      BY <1>1, LookupsAreJoined DEF QueryFails, L
    <3>2. r = Unmatched \/ (r \in tables[t] /\ user = {r.id})
      <4>1. Only(Matched(tables[t], user), r)
        BY <1>1, <3>1
      <4>2. \E x : /\ Only(Matched(tables[t], user), x)
                   /\ x = Unmatched \/ (x \in tables[t] /\ user = {x.id})
        BY <1>1, <3>1, OneMatch DEF EmailInv
      <4> QED
        BY <4>1, <4>2 DEF Only
    <3> HIDE DEF t, r
    <3>3. v \in r.email \cup r.name
      BY <2>3, <3>1 DEF t, r
    <3>4. Unmatched.email = {} /\ Unmatched.name = {}
      BY DEF Unmatched
    <3>5. r \in found
      BY <3>1, <3>2, <3>3, <3>4 DEF found, J
    <3> QED
      BY <2>1, <3>3, <3>5
  <2> QED
    BY <1>1, <2>2, <2>3, ShownIsFound DEF L, text
<1>2. EmailInv => EmailIdentifies
  <2> SUFFICES ASSUME EmailInv, NEW r \in enriched, NEW e \in event
               PROVE  /\ e.initiator_id # {} /\ NoneEmpty(e.initiator_id) =>
                            Identifies(e.initiator_id, r.event.initiator_email)
                      /\ e.target_id # {} /\ NoneEmpty(e.target_id) =>
                            Identifies(e.target_id, r.event.target_email)
    BY DEF EmailIdentifies
  <2>1. /\ ~QueryFails(driver, GetSource(conf), tables)
        /\ r \in EnrichedRows(conf, driver, tables, e)
    BY DEF EmailInv
  <2>2. PICK f, g : /\ r = OneRow(conf, driver, f, g, e)
                    /\ \A x \in Joined(driver, GetSource(conf)) :
                          /\ Only(Matched(tables[x], e.initiator_id), f[x])
                          /\ Only(Matched(tables[x], e.target_id), g[x])
    BY <2>1, OneEvent DEF EmailInv, Only
  <2>3. /\ r.event.initiator_email = Shown(conf, driver, f, e.initiator_id)
        /\ r.event.target_email = Shown(conf, driver, g, e.target_id)
    BY <2>2 DEF OneRow
  <2> QED
    BY <1>1, <2>1, <2>2, <2>3
<1> QED
  BY EmailInit, EmailNext, <1>2, PTL DEF Spec

(* NULL columns in front change nothing.                                   *)
LEMMA CoalesceSkipsNulls ==
    ASSUME NEW n \in Nat, NEW k \in Nat, NEW c, NEW d,
           DOMAIN c = 1..n, DOMAIN d = 1..(k + n),
           \A i \in 1..k : d[i] = {}, \A i \in 1..n : d[k + i] = c[i]
    PROVE  Coalesce(d) = Coalesce(c)
<1>1. ASSUME NEW v \in Coalesce(c) PROVE v \in Coalesce(d)
  <2>1. PICK i \in 1..n : v \in c[i] /\ \A j \in 1..(i - 1) : c[j] = {}
    BY <1>1 DEF Coalesce
  <2>2. k + i \in 1..(k + n) /\ v \in d[k + i]
    BY <2>1
  <2>3. ASSUME NEW j \in 1..(k + i - 1) PROVE d[j] = {}
    <3>1. CASE j <= k
      BY <3>1
    <3>2. CASE j > k
      <4>1. j - k \in 1..(i - 1) /\ j - k \in 1..n /\ k + (j - k) = j
        BY <3>2
      <4> QED
        BY <2>1, <4>1
    <3> QED
      BY <3>1, <3>2
  <2> QED
    BY <2>2, <2>3 DEF Coalesce
<1>2. ASSUME NEW v \in Coalesce(d) PROVE v \in Coalesce(c)
  <2>1. PICK i \in 1..(k + n) : v \in d[i] /\ \A j \in 1..(i - 1) : d[j] = {}
    BY <1>2 DEF Coalesce
  <2>2. i > k
    BY <2>1
  <2> DEFINE m == i - k
  <2>3. m \in 1..n /\ k + m = i
    BY <2>2
  <2>4. v \in c[m]
    BY <2>1, <2>3
  <2>5. ASSUME NEW j \in 1..(m - 1) PROVE c[j] = {}
    <3>1. j \in 1..n /\ k + j \in 1..(i - 1)
      BY <2>3
    <3> QED
      BY <2>1, <3>1
  <2> HIDE DEF m
  <2> QED
    BY <2>3, <2>4, <2>5 DEF Coalesce
<1> QED
  BY <1>1, <1>2

(* PostgreSQL may look into okta_users first, then both look into the same *)
(* columns.                                                                *)
OktaThen(P, L) ==
    \E k \in Nat : /\ Len(P) = k + Len(L)
                   /\ \A i \in 1..k : P[i].table = "okta_users"
                   /\ \A i \in 1..Len(L) : P[k + i] = L[i]

Tabled(L) == \A i \in DOMAIN L : L[i].table \in {"okta_users", "users"}

LEMMA SharedLookups ==
    ASSUME NEW source \in {"netbird_users", "none", "auto"}
    PROVE  /\ Joined("postgres", source) \subseteq {"okta_users", "users"}
           /\ Joined("sqlite", source) \subseteq {"okta_users", "users"}
           /\ OktaThen(Lookups("postgres", source), Lookups("sqlite", source))
<1> DEFINE okta == [table |-> "okta_users", column |-> "email"]
           email == [table |-> "users", column |-> "email"]
           name == [table |-> "users", column |-> "name"]
           S == {okta, email, name}
<1>1. okta.table = "okta_users" /\ email.table = "users" /\ name.table = "users"
  OBVIOUS
<1>2. Okta = <<okta>> /\ Users = <<email, name>>
  BY DEF Okta, Users
<1> HIDE DEF okta, email, name
<1>3. /\ Okta \in Seq(S) /\ Len(Okta) = 1 /\ Okta[1] = okta
      /\ Users \in Seq(S) /\ Len(Users) = 2 /\ Users[1] = email /\ Users[2] = name
      /\ Tabled(Users)
  BY <1>1, <1>2 DEF Tabled
<1>4. Tabled(<<>>) /\ Len(<<>>) = 0
  BY DEF Tabled
<1>5. CASE source = "auto"
  <2> DEFINE P == Okta \o Users
  <2>1. /\ Lookups("postgres", source) = P
        /\ Lookups("sqlite", source) = Users
    BY <1>5 DEF Lookups, PostgresLookups, SQLiteLookups
  <2>2. /\ P \in Seq(S) /\ Len(P) = Len(Okta) + Len(Users)
        /\ \A i \in 1..Len(Okta) + Len(Users) :
              P[i] = IF i <= Len(Okta) THEN Okta[i] ELSE Users[i - Len(Okta)]
    <3> HIDE DEF S
    <3> QED
      BY <1>3, ConcatProperties
  <2> HIDE DEF P
  <2>3. /\ Len(P) = 3 /\ DOMAIN P = 1..3
        /\ P[1] = okta /\ P[2] = email /\ P[3] = name
    BY <1>3, <2>2
  <2>4. Tabled(P)
    BY <1>1, <2>3 DEF Tabled
  <2>5. OktaThen(P, Users)
    <3>1. /\ 1 \in Nat /\ Len(P) = 1 + Len(Users)
          /\ \A i \in 1..1 : P[i].table = "okta_users"
          /\ \A i \in 1..Len(Users) : P[1 + i] = Users[i]
      BY <1>1, <1>3, <2>3
    <3> QED
      BY <3>1 DEF OktaThen
  <2> QED
    BY <1>3, <2>1, <2>4, <2>5 DEF Joined, Tabled
<1>6. CASE source \in {"netbird_users", "none"}
  <2> DEFINE L == Lookups("sqlite", source)
  <2>1. Lookups("postgres", source) = L /\ (L = Users \/ L = <<>>)
    BY <1>6 DEF Lookups, PostgresLookups, SQLiteLookups
  <2> HIDE DEF L
  <2>2. Tabled(L) /\ Len(L) \in Nat
    BY <1>3, <1>4, <2>1
  <2>3. OktaThen(L, L)
    <3>1. /\ 0 \in Nat /\ Len(L) = 0 + Len(L)
          /\ \A i \in 1..0 : L[i].table = "okta_users"
          /\ \A i \in 1..Len(L) : L[0 + i] = L[i]
      BY <2>2
    <3> QED
      BY <3>1 DEF OktaThen
  <2> QED
    BY <2>1, <2>2, <2>3 DEF Joined, Tabled, L
<1> QED
  BY <1>5, <1>6

(* Both readers show the same for the same rows.                           *)
LEMMA ShownAgree ==
    ASSUME NEW c, GetSource(c) \in {"netbird_users", "none", "auto"},
           NEW t, KeyedTables(t), "users" \in DOMAIN t,
           "okta_users" \in DOMAIN t, t["okta_users"] = {},
           NEW user, NEW f, NEW g,
           \A x \in Joined("postgres", GetSource(c)) : Only(Matched(t[x], user), f[x]),
           \A x \in Joined("sqlite", GetSource(c)) : Only(Matched(t[x], user), g[x])
    PROVE  Shown(c, "postgres", f, user) = Shown(c, "sqlite", g, user)
<1> DEFINE source == GetSource(c)
           P == Lookups("postgres", source)
           L == Lookups("sqlite", source)
           n == Len(L)
           id == { Plain(u) : u \in user }
<1> HIDE DEF P, L, n, id
<1>1. PICK k \in Nat : /\ Len(P) = k + n
                       /\ \A i \in 1..k : P[i].table = "okta_users"
                       /\ \A i \in 1..n : P[k + i] = L[i]
  BY SharedLookups DEF OktaThen, P, L, n
<1>2. PICK p : /\ UserColumns(p, P, f, user)
               /\ EmailColumn("postgres", source, f, user) = Coalesce(p)
  BY ColumnsOfUser DEF P
<1>3. PICK l : /\ UserColumns(l, L, g, user)
               /\ EmailColumn("sqlite", source, g, user) = Coalesce(l)
  BY ColumnsOfUser DEF L
<1>4. /\ n \in Nat
      /\ \A i \in 1..n : L[i].table \in Joined("sqlite", source)
      /\ \A i \in 1..Len(P) : /\ P[i].table \in Joined("postgres", source)
                              /\ P[i].column \in {"email", "name"}
  BY LookupsAreJoined DEF P, L, n
<1>5. ASSUME NEW i \in 1..k PROVE p[i] = {}
  <2>1. i \in 1..Len(P) /\ P[i].table = "okta_users"
    BY <1>1, <1>4
  <2>2. Only(Matched({}, user), f["okta_users"])
    BY <1>4, <2>1
  <2>3. f["okta_users"] = Unmatched
    BY <2>2 DEF Only, Matched
  <2>4. Unmatched["email"] = {} /\ Unmatched["name"] = {}
    BY DEF Unmatched
  <2> QED
    BY <1>2, <1>4, <2>1, <2>3, <2>4 DEF UserColumns
<1>6. ASSUME NEW i \in 1..n PROVE p[k + i] = l[i]
  <2>1. k + i \in 1..Len(P) /\ P[k + i] = L[i]
    BY <1>1, <1>4
  <2>2. /\ L[i].table \in Joined("sqlite", source)
        /\ L[i].table \in Joined("postgres", source)
    BY <1>4, <2>1
  <2>3. f[L[i].table] = g[L[i].table]
    BY <2>2 DEF Only
  <2> QED
    BY <1>2, <1>3, <2>1, <2>3 DEF UserColumns, n
<1>7. Coalesce(p) = Coalesce(l)
  <2> DEFINE N == n + 1
  <2>1. N \in Nat /\ DOMAIN p = 1..(k + N) /\ DOMAIN l = 1..N
    BY <1>1, <1>2, <1>3, <1>4 DEF UserColumns, n
  <2>2. p[k + N] = l[N]
    BY <1>1, <1>2, <1>3, <1>4 DEF UserColumns, n
  <2>3. \A i \in 1..N : p[k + i] = l[i]
    BY <1>4, <1>6, <2>2
  <2> HIDE DEF N
  <2> QED
    BY <1>5, <2>1, <2>3, CoalesceSkipsNulls
<1> QED
  BY <1>2, <1>3, <1>7 DEF Shown

(***************************************************************************)
(* The two readers, written twice, show the same for the sources that both *)
(* have, auto included when okta_users has nobody.                         *)
(***************************************************************************)
THEOREM DriversShowTheSame == Spec => []DriversAgree
<1>1. EmailInv => DriversAgree
  <2> SUFFICES ASSUME EmailInv, NEW e \in event,
                      GetSource(conf) \in {"netbird_users", "none", "auto"},
                      "users" \in DOMAIN tables, "okta_users" \in DOMAIN tables,
                      tables["okta_users"] = {}
               PROVE  { r.event : r \in EnrichedRows(conf, "postgres", tables, e) }
                      = { r.event : r \in EnrichedRows(conf, "sqlite", tables, e) }
    BY DEF DriversAgree
  <2>1. /\ ~QueryFails("postgres", GetSource(conf), tables)
        /\ ~QueryFails("sqlite", GetSource(conf), tables)
    BY SharedLookups DEF QueryFails
  <2>2. PICK f, g :
            /\ Only(EnrichedRows(conf, "postgres", tables, e),
                    OneRow(conf, "postgres", f, g, e))
            /\ \A x \in Joined("postgres", GetSource(conf)) :
                  /\ Only(Matched(tables[x], e.initiator_id), f[x])
                  /\ Only(Matched(tables[x], e.target_id), g[x])
    BY <2>1, OneEvent DEF EmailInv
  <2>3. PICK h, k :
            /\ Only(EnrichedRows(conf, "sqlite", tables, e),
                    OneRow(conf, "sqlite", h, k, e))
            /\ \A x \in Joined("sqlite", GetSource(conf)) :
                  /\ Only(Matched(tables[x], e.initiator_id), h[x])
                  /\ Only(Matched(tables[x], e.target_id), k[x])
    BY <2>1, OneEvent DEF EmailInv
  <2>4. /\ Shown(conf, "postgres", f, e.initiator_id) =
               Shown(conf, "sqlite", h, e.initiator_id)
        /\ Shown(conf, "postgres", g, e.target_id) =
               Shown(conf, "sqlite", k, e.target_id)
    BY <2>2, <2>3, ShownAgree DEF EmailInv
  <2>5. OneRow(conf, "postgres", f, g, e).event = OneRow(conf, "sqlite", h, k, e).event
    BY <2>4 DEF OneRow
  <2> QED
    BY <2>2, <2>3, <2>5 DEF Only
<1> QED
  BY EmailInit, EmailNext, <1>1, PTL DEF Spec
-----------------------------------------------------------------------------
(* The printed line.                                                       *)

(* Member k of the metadata is on the line, unless a later one replaces it. *)
Kept(fields, meta, k) ==
    LET name == Prefixed(meta.members[k].key)
    IN  \/ \E l \in DOMAIN meta.members :
              l > k /\ meta.members[l].key = meta.members[k].key
        \/ /\ name \in DOMAIN fields
           /\ \/ meta.members[k].value \in DOMAIN Rounded
              \/ fields[name] = meta.members[k].value

(* What is printed of the event itself and its users.                      *)
OwnFields(e) ==
    Overlay(UserFields(e), Overlay(EventFields(e), Classification))

(* What is printed of its metadata.                                        *)
MetaOf(e) ==
    IF e.Meta = {} THEN NoFields ELSE MetaFields(CHOOSE meta \in e.Meta : TRUE)

(* The line is that of the event given.                                    *)
LineInv ==
    /\ subject \subseteq Subjects
    /\ \A e, f \in subject : e = f
    /\ line = NoFields \/ \E e \in subject : line = Line(e)

LEMMA LineInit == Init => LineInv
BY DEF Init, NoLine, SomeLine, LineInv

LEMMA LineNext == LineInv /\ [Next]_<<reading, others>> => LineInv'
<1> SUFFICES ASSUME LineInv, [Next]_<<reading, others>> PROVE LineInv'
  OBVIOUS
<1>1. CASE Emit
  BY <1>1 DEF Emit, LineInv
<1>2. CASE UNCHANGED <<subject, line>>
  BY <1>2 DEF LineInv
<1> QED
  BY <1>1, <1>2 DEF Next, Get, Count, Enrich, others

(* Where two functions are laid over each other, the first one decides.    *)
LEMMA OverlayFields ==
    ASSUME NEW f, NEW g
    PROVE  /\ DOMAIN Overlay(f, g) = DOMAIN f \cup DOMAIN g
           /\ \A name \in DOMAIN f : Overlay(f, g)[name] = f[name]
           /\ \A name \in DOMAIN g \ DOMAIN f : Overlay(f, g)[name] = g[name]
BY DEF Overlay

(* An object without metadata prints none, another prints that of its      *)
(* only Meta column.                                                       *)
LEMMA OneMeta ==
    ASSUME NEW e \in Subjects
    PROVE  \/ e.Meta = {} /\ MetaOf(e) = NoFields
           \/ \E meta \in Metas : Only(e.Meta, meta) /\ MetaOf(e) = MetaFields(meta)
<1>1. e.Meta = {} \/ \E meta \in Metas : e.Meta = {meta}
  BY DEF Subjects
<1>2. ASSUME NEW meta \in Metas, e.Meta = {meta}
      PROVE  Only(e.Meta, meta) /\ MetaOf(e) = MetaFields(meta)
  <2>1. (CHOOSE m \in e.Meta : TRUE) = meta
    BY <1>2
  <2> QED
    BY <1>2, <2>1 DEF Only, MetaOf
<1> QED
  BY <1>1, <1>2 DEF MetaOf

(* The members of metadata have the keys they may have, and their values   *)
(* are found under the names promised.                                     *)
LEMMA MetaMembers ==
    ASSUME NEW meta \in Metas
    PROVE  \A k \in DOMAIN meta.members :
               /\ k \in Nat
               /\ meta.members[k] \in Members
               /\ meta.members[k].key \in MetaKeys
<1>1. \/ meta.members = <<>>
      \/ meta.members \in UNION { [1..n -> Members] : n \in 0..2 }
  BY Zenon DEF Metas
<1>2. PICK n \in Nat : meta.members \in [1..n -> Members]
  <2>1. CASE meta.members = <<>>
    <3>1. meta.members \in [1..0 -> Members]
      BY <2>1
    <3> QED
      BY <3>1
  <2>2. CASE meta.members \in UNION { [1..n -> Members] : n \in 0..2 }
    <3>1. \E n \in 0..2 : meta.members \in [1..n -> Members]
      BY <2>2, Zenon
    <3> QED
      BY <3>1
  <2> QED
    BY <1>1, <2>1, <2>2
<1> QED
  BY <1>2 DEF Members

LEMMA NameIsPrefixed == ASSUME NEW key PROVE MetaName(key) = Prefixed(key)
BY DEF MetaName, Prefixed

LEMMA MetaKinds == \A meta \in Metas : meta.kind \in {"object", "null", "other"}
BY DEF Metas

(* No field of the metadata has a name of the event or its users.          *)
LEMMA MetaIsApart ==
    ASSUME NEW e \in Subjects PROVE DOMAIN MetaOf(e) \cap OwnNames = {}
<1>1. CASE MetaOf(e) = NoFields
  BY <1>1 DEF NoFields
<1>2. ASSUME NEW meta \in Metas, MetaOf(e) = MetaFields(meta)
      PROVE  DOMAIN MetaOf(e) \cap OwnNames = {}
  <2>1. CASE meta.kind = "object"
    <3> DEFINE keys == { meta.members[k].key : k \in DOMAIN meta.members }
    <3>1. keys \subseteq MetaKeys
      BY MetaMembers
    <3>2. DOMAIN MetaOf(e) = { MetaName(key) : key \in keys }
      BY <1>2, <2>1 DEF MetaFields
    <3> HIDE DEF keys
    <3> QED
      BY <3>1, <3>2, NameIsPrefixed, PrefixAssumption
  <2>2. CASE meta.kind = "other"
    <3>1. DOMAIN MetaOf(e) = {"meta_unparsable"}
      BY <1>2, <2>2 DEF MetaFields
    <3> QED
      BY <3>1 DEF OwnNames, OptionalNames
  <2>3. CASE meta.kind = "null"
    <3>1. MetaOf(e) = NoFields
      BY <1>2, <2>3 DEF MetaFields
    <3> QED
      BY <1>1, <3>1
  <2> QED
    BY <2>1, <2>2, <2>3, MetaKinds
<1> QED
  BY <1>1, <1>2, OneMeta

(* What the program keeps of a name given several times is its last value. *)
LEMMA LastMember ==
    ASSUME NEW meta \in Metas, NEW k \in DOMAIN meta.members,
           \A l \in DOMAIN meta.members :
               l > k => meta.members[l].key # meta.members[k].key
    PROVE  Member(meta.members, meta.members[k].key) = meta.members[k].value
<1> DEFINE key == meta.members[k].key
           IsLast(j) == /\ meta.members[j].key = key
                        /\ \A l \in DOMAIN meta.members :
                              meta.members[l].key = key => l <= j
<1>1. IsLast(k)
  BY MetaMembers
<1>2. \A j \in DOMAIN meta.members : IsLast(j) => j = k
  BY MetaMembers
<1>3. (CHOOSE j \in DOMAIN meta.members : IsLast(j)) = k
  BY <1>1, <1>2
<1> QED
  BY <1>3 DEF Member

(* A member is found under its own name.                                   *)
LEMMA MemberIsFound ==
    ASSUME NEW meta \in Metas, meta.kind = "object", NEW k \in DOMAIN meta.members,
           \A l \in DOMAIN meta.members :
               l > k => meta.members[l].key # meta.members[k].key
    PROVE  /\ Prefixed(meta.members[k].key) \in DOMAIN MetaFields(meta)
           /\ MetaFields(meta)[Prefixed(meta.members[k].key)]
                 = Decoded(meta.members[k].value)
<1> DEFINE keys == { meta.members[l].key : l \in DOMAIN meta.members }
           mine == meta.members[k].key
<1>1. keys \subseteq MetaKeys /\ mine \in keys
  BY MetaMembers
<1>2. (CHOOSE key \in keys : MetaName(key) = Prefixed(mine)) = mine
  <2>1. \A key \in keys : MetaName(key) = Prefixed(mine) <=> key = mine
    BY <1>1, NameIsPrefixed, PrefixAssumption
  <2> HIDE DEF keys, mine
  <2> QED
    BY <1>1, <2>1
<1>3. MetaFields(meta) =
        [name \in { MetaName(key) : key \in keys } |->
            Decoded(Member(meta.members, CHOOSE key \in keys : MetaName(key) = name))]
  BY DEF MetaFields
<1>4. Prefixed(mine) \in { MetaName(key) : key \in keys }
  BY <1>1, NameIsPrefixed
<1>5. Member(meta.members, mine) = meta.members[k].value
  BY LastMember
<1> HIDE DEF keys, mine
<1>6. /\ Prefixed(mine) \in DOMAIN MetaFields(meta)
      /\ MetaFields(meta)[Prefixed(mine)] = Decoded(meta.members[k].value)
  BY <1>2, <1>3, <1>4, <1>5
<1> QED
  BY <1>6 DEF mine

(* A user field is known when it is not empty.                             *)
Known(e, name) == UserField(e, name) # ""

LEMMA KnownUserFields ==
    ASSUME NEW e
    PROVE  UserFields(e) =
             [name \in { f \in OptionalNames : Known(e, f) } |-> UserField(e, name)]
BY Zenon DEF UserFields, Known

(* The fields of the event and its users, before its metadata.             *)
LEMMA OwnFieldsAreOwn ==
    ASSUME NEW e
    PROVE  /\ DOMAIN OwnFields(e) \subseteq OwnNames
           /\ \A name \in DOMAIN Overlay(EventFields(e), Classification) :
                 /\ name \in DOMAIN OwnFields(e)
                 /\ OwnFields(e)[name] = Overlay(EventFields(e), Classification)[name]
           /\ \A name \in OptionalNames :
                 IF Known(e, name)
                 THEN /\ name \in DOMAIN OwnFields(e)
                      /\ OwnFields(e)[name] = UserField(e, name)
                 ELSE name \notin DOMAIN OwnFields(e)
<1> DEFINE plain == Overlay(EventFields(e), Classification)
           names == { f \in OptionalNames : Known(e, f) }
           users == UserFields(e)
<1>1. DOMAIN plain \subseteq OwnNames /\ DOMAIN plain \cap OptionalNames = {}
  <2>1. DOMAIN plain = DOMAIN EventFields(e) \cup DOMAIN Classification
    BY OverlayFields
  <2> QED
    BY <2>1 DEF EventFields, Classification, OwnNames, OptionalNames
<1>2. DOMAIN users = names /\ \A name \in names : users[name] = UserField(e, name)
  BY KnownUserFields
<1>3. OwnFields(e) = Overlay(users, plain)
  BY DEF OwnFields
<1>4. /\ names \subseteq OptionalNames
      /\ \A name \in OptionalNames : name \in names <=> Known(e, name)
      /\ OptionalNames \subseteq OwnNames
  BY DEF OwnNames
<1> HIDE DEF plain, names, users
<1>5. /\ DOMAIN OwnFields(e) = names \cup DOMAIN plain
      /\ \A name \in names : OwnFields(e)[name] = UserField(e, name)
      /\ \A name \in DOMAIN plain \ names : OwnFields(e)[name] = plain[name]
  BY <1>2, <1>3 DEF Overlay
<1>6. /\ DOMAIN OwnFields(e) \subseteq OwnNames
      /\ \A name \in DOMAIN plain :
            name \in DOMAIN OwnFields(e) /\ OwnFields(e)[name] = plain[name]
      /\ \A name \in OptionalNames :
            IF Known(e, name)
            THEN name \in DOMAIN OwnFields(e) /\ OwnFields(e)[name] = UserField(e, name)
            ELSE name \notin DOMAIN OwnFields(e)
  BY <1>1, <1>4, <1>5
<1> QED
  BY <1>6 DEF plain

(***************************************************************************)
(* A printed line keeps the event, its users and its metadata apart, for   *)
(* every event, whatever the names in its metadata, and metadata that      *)
(* names a member several times, is null or is no object.                  *)
(***************************************************************************)
THEOREM LinesKeepOwners == Spec => []LineKeepsOwners
<1>1. LineInv => LineKeepsOwners
  <2> SUFFICES ASSUME LineInv, line # NoFields PROVE LineKeepsOwners
    <3>1. CASE line = NoFields
      <4>1. Printed = {}
        BY <3>1 DEF Printed
      <4> QED
        BY <4>1, Zenon DEF LineKeepsOwners, EventSurvivesMeta, UserFieldsAreTheEvents,
                           MetaIsKept
    <3> QED
      BY <3>1
  <2>1. PICK e \in Subjects : Only(subject, e) /\ line = Line(e)
    BY DEF LineInv, Only
  <2>2. Printed = {e}
    BY <2>1 DEF Printed, Only
  <2>3. /\ DOMAIN line = DOMAIN MetaOf(e) \cup DOMAIN OwnFields(e)
        /\ \A name \in DOMAIN MetaOf(e) : line[name] = MetaOf(e)[name]
        /\ \A name \in DOMAIN OwnFields(e) \ DOMAIN MetaOf(e) :
              line[name] = OwnFields(e)[name]
    <3>1. line = Overlay(MetaOf(e), OwnFields(e))
      BY <2>1 DEF Line, MetaOf, OwnFields
    <3> QED
      BY <3>1 DEF Overlay
  <2>4. \A name \in OwnNames :
            /\ name \in DOMAIN line <=> name \in DOMAIN OwnFields(e)
            /\ name \in DOMAIN line => line[name] = OwnFields(e)[name]
    BY <2>3, MetaIsApart
  <2>5. EventSurvivesMeta
    BY <2>2, <2>4, OwnFieldsAreOwn DEF EventSurvivesMeta
  <2>6. UserFieldsAreTheEvents
    <3>1. OptionalNames \subseteq OwnNames
      BY DEF OwnNames
    <3>2. \A name \in OptionalNames :
              IF Known(e, name)
              THEN name \in DOMAIN line /\ line[name] = UserField(e, name)
              ELSE name \notin DOMAIN line
      BY <2>4, <3>1, OwnFieldsAreOwn
    <3> QED
      BY <2>2, <3>2, Zenon DEF UserFieldsAreTheEvents, Known
  <2>7. MetaIsKept
    <3> SUFFICES ASSUME NEW meta \in e.Meta
                 PROVE  /\ meta.kind = "object" =>
                              \A k \in DOMAIN meta.members : Kept(line, meta, k)
                        /\ meta.kind = "other" =>
                              \E name \in DOMAIN line : line[name] = meta.text
      BY <2>2 DEF MetaIsKept, Kept
    <3>1. meta \in Metas /\ MetaOf(e) = MetaFields(meta)
      BY OneMeta DEF Only
    <3>2. ASSUME meta.kind = "object", NEW k \in DOMAIN meta.members
          PROVE  Kept(line, meta, k)
      <4> DEFINE name == Prefixed(meta.members[k].key)
      <4> SUFFICES ASSUME \A l \in DOMAIN meta.members :
                              l > k => meta.members[l].key # meta.members[k].key
                   PROVE  Kept(line, meta, k)
        BY DEF Kept
      <4>1. /\ name \in DOMAIN MetaOf(e)
            /\ MetaOf(e)[name] = Decoded(meta.members[k].value)
        BY <3>1, <3>2, MemberIsFound
      <4>2. name \in DOMAIN line /\ line[name] = Decoded(meta.members[k].value)
        BY <2>3, <4>1
      <4> QED
        BY <4>2 DEF Kept, Decoded
    <3>3. CASE meta.kind = "other"
      <4>1. MetaOf(e) = [meta_unparsable |-> meta.text]
        BY <3>1, <3>3 DEF MetaFields
      <4> QED
        BY <2>3, <3>3, <4>1
    <3> QED
      BY <3>2, <3>3
  <2> QED
    BY <2>5, <2>6, <2>7 DEF LineKeepsOwners
<1> QED
  BY LineInit, LineNext, <1>1, PTL DEF Spec
=============================================================================
