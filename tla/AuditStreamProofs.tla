-------------------------- MODULE AuditStreamProofs --------------------------
(***************************************************************************)
(* Proofs about the event stream, for any number of rows, any LIMIT and    *)
(* any number of broken connections.                                       *)
(***************************************************************************)
EXTENDS AuditStream, FiniteSetTheorems, TLAPS

(* What the sequence has not given is free.                                 *)
Unwritten == \A i \in Ids : i > serial => trail[i] = "free"

(* Without a connection nothing is under way.                               *)
Silent == ~open => rows = {} /\ cursor = 0 /\ wire = <<>>

(* The wire carries rising ids, beyond the last received and not beyond the *)
(* handler's cursor.                                                        *)
WireRises == \A m, n \in 1 .. Len(wire) : m < n => wire[m] < wire[n]
WireAhead == \A m \in 1 .. Len(wire) : last < wire[m] /\ wire[m] <= cursor
CursorAhead == open => last <= cursor

(* The rows in hand are visible and beyond the cursor.                      *)
RowsBeyond == \A i \in rows : trail[i] = "visible" /\ cursor < i

OnWire(i) == \E m \in 1 .. Len(wire) : wire[m] = i

(* Whatever the stream has passed is received, on the wire, in hand or late. *)
SentCovered == \A i \in Ids :
    trail[i] = "visible" /\ last < i /\ i <= cursor => OnWire(i) \/ i \in late
RowsCovered == \A i \in Ids, j \in rows :
    trail[i] = "visible" /\ cursor < i /\ i < j => i \in rows \/ i \in late

Order == WireRises /\ WireAhead /\ CursorAhead

Inv == /\ TypeOK /\ Unwritten /\ Silent /\ Order
       /\ RowsBeyond /\ SentCovered /\ RowsCovered /\ MissedOnlyLate

-----------------------------------------------------------------------------
(* LIMIT keeps everything below what it keeps. *)
LEMMA FirstOfIsBelow ==
    ASSUME NEW S \in SUBSET Ids, NEW j \in FirstOf(S), NEW i \in S, i < j
    PROVE  i \in FirstOf(S)
<1> DEFINE below(k) == {n \in S : n < k}
<1>1. IsFiniteSet(Ids)
    BY StreamAssumption, FS_Interval DEF Ids
<1>2. IsFiniteSet(below(j))
    BY <1>1, FS_Subset
<1>3. below(i) \subseteq below(j)
    <2>1. j \in Nat /\ \A n \in S : n \in Nat
        BY StreamAssumption DEF Ids, FirstOf
    <2>2. \A n \in S : n < i => n < j
        BY <2>1
    <2>3. QED
        BY <2>2
<1>4. /\ Cardinality(below(i)) <= Cardinality(below(j))
      /\ Cardinality(below(i)) \in Nat /\ Cardinality(below(j)) \in Nat
    BY <1>2, <1>3, FS_Subset, FS_CardinalityType
<1>5. Cardinality(below(j)) < Limit
    BY DEF FirstOf
<1>6. Cardinality(below(i)) < Limit
    BY <1>4, <1>5, StreamAssumption
<1>7. QED
    BY <1>6 DEF FirstOf

LEMMA InvInit == Init => Inv
<1> SUFFICES ASSUME Init
             PROVE  Inv
    OBVIOUS
<1> USE StreamAssumption DEF Init, Ids
<1>1. wire \in Seq(Ids) /\ Len(wire) = 0
    BY DEF Init
<1>2. TypeOK
    <2>1. /\ trail \in [Ids -> {"free", "writing", "visible", "failed"}]
          /\ serial \in 0 .. MaxId /\ cursor \in 0 .. MaxId /\ last \in 0 .. MaxId
          /\ faults \in 0 .. MaxFaults
        OBVIOUS
    <2>2. open \in BOOLEAN /\ rows \subseteq Ids /\ got \subseteq Ids /\ late \subseteq Ids
        OBVIOUS
    <2>3. QED
        BY ONLY <1>1, <2>1, <2>2 DEF TypeOK
<1>3. Order
    BY <1>1 DEF Order, WireRises, WireAhead, CursorAhead
<1>4. Unwritten /\ Silent /\ RowsBeyond /\ SentCovered /\ RowsCovered /\ MissedOnlyLate
    BY DEF Unwritten, Silent, RowsBeyond, SentCovered, RowsCovered, MissedOnlyLate
<1>5. QED
    BY <1>2, <1>3, <1>4 DEF Inv

(* Rows are added, committed and lost.                                      *)
LEMMA TrailStep ==
    ASSUME Inv, AddAudit \/ \E i \in Ids : Commit(i) \/ Fail(i)
    PROVE  Inv'
<1> USE StreamAssumption DEF Inv, TypeOK, Ids
<1>1. UNCHANGED <<handler, wire, page>>
    BY DEF AddAudit, Commit, Fail
<1>2. Silent' /\ Order'
    BY <1>1 DEF Silent, Order, WireRises, WireAhead, CursorAhead, handler, page
<1>3. /\ serial' \in 0 .. MaxId /\ serial <= serial'
      /\ trail' \in [Ids -> {"free", "writing", "visible", "failed"}]
      /\ late' \subseteq Ids /\ late \subseteq late'
    <2>1. CASE AddAudit
        BY <2>1 DEF AddAudit
    <2>2. CASE \E i \in Ids : Commit(i)
        BY <2>2 DEF Commit
    <2>3. CASE \E i \in Ids : Fail(i)
        BY <2>3 DEF Fail
    <2>4. QED
        BY <2>1, <2>2, <2>3
<1>4. TypeOK'
    <2>1. faults' \in 0 .. MaxFaults
        BY DEF AddAudit, Commit, Fail, Fault
    <2>2. QED
        BY <1>1, <1>3, <2>1 DEF handler, page
<1>5. Unwritten'
    BY DEF AddAudit, Commit, Fail, Unwritten
<1>6. \A i \in Ids : trail[i] = "visible" => trail'[i] = "visible"
    BY DEF AddAudit, Commit, Fail, Unwritten
<1>7. \A i \in Ids : trail'[i] = "visible" /\ trail[i] # "visible" /\ Passed(i) => i \in late'
    BY DEF AddAudit, Commit, Fail
<1>8. RowsBeyond'
    BY <1>1, <1>6 DEF RowsBeyond, handler
<1>9. MissedOnlyLate'
    BY <1>1, <1>2, <1>3, <1>7 DEF MissedOnlyLate, Passed, Order, CursorAhead, handler, page
<1>10. SentCovered'
    BY <1>1, <1>3, <1>7 DEF SentCovered, Passed, OnWire, Silent, handler, page
<1>11. RowsCovered'
    BY <1>1, <1>3, <1>7 DEF RowsCovered, Passed, Silent, handler, page
<1>12. QED
    BY <1>2, <1>4, <1>5, <1>8, <1>9, <1>10, <1>11

LEMMA QueryStep ==
    ASSUME Inv, Connect \/ Query \/ RowsEnd
    PROVE  Inv'
<1> USE StreamAssumption DEF Inv, TypeOK, Ids
<1>1. UNCHANGED <<trail, serial, wire, page, late>>
    BY DEF Connect, Query, RowsEnd
<1>2. CASE Connect
    <2>1. open' = TRUE /\ cursor' = last /\ rows' = rows /\ faults' = faults
        BY <1>2 DEF Connect, LastEventID
    <2>2. rows = {} /\ wire = <<>>
        BY <1>2 DEF Connect, Silent
    <2>3. QED
        BY <1>1, <2>1, <2>2 DEF Unwritten, Silent, Order, WireRises, WireAhead, CursorAhead,
                            RowsBeyond, SentCovered, RowsCovered, MissedOnlyLate, page
<1>3. CASE Query
    <2>1. open' = open /\ open /\ cursor' = cursor /\ rows' = FirstOf(Beyond) /\ faults' = faults
        BY <1>3 DEF Query
    <2>2. rows' \subseteq Beyond /\ Beyond \subseteq Ids
        BY <2>1 DEF FirstOf, Beyond
    <2>3. RowsBeyond'
        BY <1>1, <2>1, <2>2 DEF RowsBeyond, Beyond
    <2>4. RowsCovered'
        <3>1. \A i \in Ids, j \in FirstOf(Beyond) : i \in Beyond /\ i < j => i \in FirstOf(Beyond)
            BY <2>2, FirstOfIsBelow
        <3>2. QED
            BY <1>1, <2>1, <3>1 DEF RowsCovered, Beyond
    <2>5. SentCovered'
        BY <1>1, <2>1 DEF SentCovered, OnWire, page
    <2>6. QED
        BY <1>1, <2>1, <2>2, <2>3, <2>4, <2>5
           DEF Unwritten, Silent, Order, WireRises, WireAhead, CursorAhead, MissedOnlyLate, page
<1>4. CASE RowsEnd
    <2>1. open' = open /\ cursor' = cursor /\ rows' = {} /\ faults' \in 0 .. MaxFaults
        BY <1>4 DEF RowsEnd, Fault
    <2>2. SentCovered'
        BY <1>1, <2>1 DEF SentCovered, OnWire, page
    <2>3. QED
        BY <1>1, <2>1, <2>2 DEF Unwritten, Silent, Order, WireRises, WireAhead, CursorAhead,
                            RowsBeyond, RowsCovered, MissedOnlyLate, page
<1>5. QED
    BY <1>2, <1>3, <1>4

LEMMA SendStep ==
    ASSUME Inv, NEW i \in Ids, Send(i)
    PROVE  Inv'
<1> USE StreamAssumption DEF Inv, TypeOK, Ids
<1>1. /\ i \in rows /\ \A j \in rows : i <= j
      /\ cursor' = i
      /\ rows' = rows \ {i}
      /\ UNCHANGED <<trail, serial, open, last, got, late, faults>>
    BY DEF Send, page
<1>2. /\ wire' \in Seq(Ids)
      /\ Len(wire') = Len(wire) + 1
      /\ wire'[Len(wire) + 1] = i
      /\ \A m \in 1 .. Len(wire) : wire'[m] = wire[m]
    BY DEF Send
<1>3. open /\ cursor < i /\ last < i
    BY <1>1 DEF Silent, RowsBeyond, Order, CursorAhead
<1>4. Len(wire) \in Nat /\ \A m \in 1 .. Len(wire) : wire[m] \in Ids
    OBVIOUS
<1>5. \A m \in 1 .. Len(wire) : wire[m] < i
    BY <1>3, <1>4 DEF Order, WireAhead
<1>6. WireRises'
    <2> SUFFICES ASSUME NEW m \in 1 .. Len(wire) + 1, NEW n \in 1 .. Len(wire) + 1, m < n
                 PROVE  wire'[m] < wire'[n]
        BY <1>2 DEF WireRises
    <2>1. m \in 1 .. Len(wire) /\ wire'[m] = wire[m]
        BY <1>2, <1>4
    <2>2. CASE n = Len(wire) + 1
        BY <2>1, <2>2, <1>2, <1>5
    <2>3. CASE n \in 1 .. Len(wire)
        BY <2>1, <2>3, <1>2 DEF Order, WireRises
    <2>4. QED
        BY <2>2, <2>3, <1>4
<1>7. WireAhead' /\ CursorAhead'
    <2> SUFFICES ASSUME NEW m \in 1 .. Len(wire) + 1
                 PROVE  last < wire'[m] /\ wire'[m] <= i
        BY <1>1, <1>2, <1>3 DEF WireAhead, CursorAhead
    <2>1. CASE m = Len(wire) + 1
        BY <2>1, <1>2, <1>3
    <2>2. CASE m \in 1 .. Len(wire)
        <3>1. wire'[m] = wire[m] /\ wire[m] < i /\ wire[m] \in Ids
            BY <2>2, <1>2, <1>4, <1>5
        <3>2. last < wire[m]
            BY <2>2 DEF Order, WireAhead
        <3>3. QED
            BY <3>1, <3>2
    <2>3. QED
        BY <2>1, <2>2, <1>4
<1>8. TypeOK' /\ Unwritten' /\ Silent' /\ MissedOnlyLate'
    BY <1>1, <1>2, <1>3 DEF Unwritten, Silent, MissedOnlyLate
<1>9. RowsBeyond'
    BY <1>1 DEF RowsBeyond
<1>10. RowsCovered'
    BY <1>1, <1>3 DEF RowsCovered
<1>11. SentCovered'
    <2> SUFFICES ASSUME NEW k \in Ids, trail[k] = "visible", last < k, k <= i, k \notin late
                 PROVE  OnWire(k)'
        BY <1>1 DEF SentCovered
    <2>1. CASE k <= cursor
        <3>1. PICK m \in 1 .. Len(wire) : wire[m] = k
            BY <2>1 DEF SentCovered, OnWire
        <3>2. m \in 1 .. Len(wire') /\ wire'[m] = k
            BY <3>1, <1>2, <1>4
        <3>3. QED
            BY <3>2 DEF OnWire
    <2>2. CASE cursor < k /\ k < i
        BY <2>2, <1>1 DEF RowsCovered
    <2>3. CASE k = i
        BY <2>3, <1>2, <1>4 DEF OnWire
    <2>4. QED
        BY <2>1, <2>2, <2>3
<1>12. QED
    BY <1>6, <1>7, <1>8, <1>9, <1>10, <1>11 DEF Order

LEMMA ReceiveStep ==
    ASSUME Inv, Receive
    PROVE  Inv' /\ Head(wire) > last
<1> USE StreamAssumption DEF Inv, TypeOK, Ids
<1>1. /\ wire # <<>> /\ last' = Head(wire) /\ got' = got \cup {Head(wire)}
      /\ UNCHANGED <<trail, serial, open, rows, cursor, late, faults>>
    BY DEF Receive, handler
<1>2. /\ Len(wire) \in Nat /\ Len(wire) >= 1
      /\ Head(wire) = wire[1] /\ wire[1] \in Ids
      /\ \A m \in 1 .. Len(wire) : wire[m] \in Ids
    BY <1>1
<1>3. /\ wire' \in Seq(Ids)
      /\ Len(wire') = Len(wire) - 1
      /\ \A m \in 1 .. Len(wire) - 1 : wire'[m] = wire[m + 1]
    BY <1>1 DEF Receive
<1>4. last < wire[1] /\ wire[1] <= cursor /\ open
    BY <1>1, <1>2 DEF Order, WireAhead, Silent
<1>5. \A m \in 1 .. Len(wire) : m > 1 => wire[1] < wire[m]
    BY <1>2 DEF Order, WireRises
<1>6. \A m \in 1 .. Len(wire') : m + 1 \in 1 .. Len(wire) /\ wire'[m] = wire[m + 1]
    BY <1>2, <1>3
<1>7. Order'
    <2>1. WireRises'
        <3> SUFFICES ASSUME NEW m \in 1 .. Len(wire'), NEW n \in 1 .. Len(wire'), m < n
                     PROVE  wire'[m] < wire'[n]
            BY DEF WireRises
        <3>1. m + 1 < n + 1
            BY <1>2, <1>3
        <3>2. wire[m + 1] < wire[n + 1]
            BY <3>1, <1>6 DEF Order, WireRises
        <3>3. QED
            BY <3>2, <1>6
    <2>2. WireAhead'
        <3> SUFFICES ASSUME NEW m \in 1 .. Len(wire')
                     PROVE  wire[1] < wire[m + 1] /\ wire[m + 1] <= cursor
            BY <1>1, <1>2, <1>6 DEF WireAhead
        <3>1. m + 1 > 1
            BY <1>2, <1>3
        <3>2. QED
            BY <3>1, <1>5, <1>6 DEF Order, WireAhead
    <2>3. CursorAhead'
        BY <1>1, <1>2, <1>4 DEF CursorAhead
    <2>4. QED
        BY <2>1, <2>2, <2>3 DEF Order
<1>8. TypeOK' /\ Unwritten' /\ Silent' /\ RowsBeyond' /\ RowsCovered'
    <2>1. TypeOK'
        <3>1. Head(wire) \in Ids
            BY <1>2
        <3>2. last' \in 0 .. MaxId
            BY <1>1, <3>1
        <3>3. got' \subseteq Ids
            BY <1>1, <3>1
        <3>4. QED
            BY <1>1, <1>3, <3>2, <3>3
    <2>2. Silent'
        BY <1>1, <1>4 DEF Silent
    <2>3. Unwritten' /\ RowsBeyond' /\ RowsCovered'
        BY <1>1 DEF Unwritten, RowsBeyond, RowsCovered
    <2>4. QED
        BY <2>1, <2>2, <2>3
<1>9. \A k \in Ids : last < k /\ OnWire(k) => wire[1] <= k
    BY <1>2, <1>5 DEF OnWire
<1>10. MissedOnlyLate'
    <2> SUFFICES ASSUME NEW k \in Ids, trail[k] = "visible", k <= wire[1], k \notin late
                 PROVE  k \in got \/ k = wire[1]
        BY <1>1, <1>2 DEF MissedOnlyLate
    <2>1. CASE k <= last
        BY <2>1 DEF MissedOnlyLate
    <2>2. CASE last < k
        <3>1. k <= cursor
            BY <1>2, <1>4
        <3>2. OnWire(k)
            BY <2>2, <3>1 DEF SentCovered
        <3>3. wire[1] <= k
            BY <2>2, <3>2, <1>9
        <3>4. QED
            BY <3>3, <1>2
    <2>3. QED
        BY <2>1, <2>2
<1>11. SentCovered'
    <2> SUFFICES ASSUME NEW k \in Ids, trail[k] = "visible", wire[1] < k, k <= cursor,
                        k \notin late
                 PROVE  OnWire(k)'
        BY <1>1, <1>2 DEF SentCovered
    <2>1. PICK m \in 1 .. Len(wire) : wire[m] = k
        <3>1. last < k
            BY <1>2, <1>4
        <3>2. OnWire(k)
            BY <3>1 DEF SentCovered
        <3>3. QED
            BY <3>2 DEF OnWire
    <2>2. m > 1 /\ m - 1 \in 1 .. Len(wire')
        BY <2>1, <1>2, <1>3
    <2>3. wire'[m - 1] = k
        BY <2>1, <2>2, <1>3
    <2>4. QED
        BY <2>2, <2>3 DEF OnWire
<1>12. QED
    BY <1>1, <1>2, <1>4, <1>7, <1>8, <1>10, <1>11

LEMMA CloseStep ==
    ASSUME Inv, Break \/ Reload
    PROVE  Inv'
<1> USE StreamAssumption DEF Inv, TypeOK, Ids
<1>1. /\ open' = FALSE /\ rows' = {} /\ cursor' = 0 /\ wire' = <<>>
      /\ UNCHANGED <<trail, serial>>
    BY DEF Break, Reload, Closed
<1>2. \/ last' = last /\ got' = got /\ late' = late
      \/ last' = 0 /\ got' = {} /\ late' = {}
    BY DEF Break, Reload, page
<1>3. wire' \in Seq(Ids) /\ Len(wire') = 0
    BY <1>1
<1>4. TypeOK'
    <2>1. faults' \in 0 .. MaxFaults
        BY DEF Break, Reload, Fault
    <2>2. last' \in 0 .. MaxId /\ got' \subseteq Ids /\ late' \subseteq Ids
        <3>1. CASE last' = last /\ got' = got /\ late' = late
            BY <3>1
        <3>2. CASE last' = 0 /\ got' = {} /\ late' = {}
            BY <3>2
        <3>3. QED
            BY <3>1, <3>2, <1>2
    <2>3. rows' \subseteq Ids /\ cursor' \in 0 .. MaxId
        BY <1>1
    <2>4. open' \in BOOLEAN
        BY <1>1
    <2>5. QED
        BY <1>1, <1>3, <2>1, <2>2, <2>3, <2>4
<1>5. Order'
    BY <1>1, <1>3 DEF Order, WireRises, WireAhead, CursorAhead
<1>6. Unwritten' /\ Silent' /\ RowsBeyond' /\ RowsCovered'
    BY <1>1 DEF Unwritten, Silent, RowsBeyond, RowsCovered
<1>7. SentCovered'
    BY <1>1, <1>2 DEF SentCovered
<1>8. MissedOnlyLate'
    BY <1>1, <1>2 DEF MissedOnlyLate
<1>9. QED
    BY <1>4, <1>5, <1>6, <1>7, <1>8

LEMMA InvStep == Inv /\ [Next]_vars => Inv'
<1> SUFFICES ASSUME Inv, [Next]_vars
             PROVE  Inv'
    OBVIOUS
<1>1. CASE Next
    BY <1>1, TrailStep, QueryStep, SendStep, ReceiveStep, CloseStep DEF Next, Stream
<1>2. CASE UNCHANGED vars
    BY <1>2 DEF vars, handler, page, Inv, TypeOK, Unwritten, Silent, Order, WireRises,
                WireAhead, CursorAhead, RowsBeyond, SentCovered, RowsCovered, MissedOnlyLate,
                OnWire
<1>3. QED
    BY <1>1, <1>2

LEMMA Invariant == Spec => []Inv
BY InvInit, InvStep, PTL DEF Spec

(* Every variable stays in its type.                                        *)
THEOREM TypesHold == Spec => []TypeOK
<1>1. Inv => TypeOK
    BY DEF Inv
<1>2. QED
    BY <1>1, Invariant, PTL

(* The stream misses nothing but what became visible behind its cursor, for *)
(* any LIMIT and whatever breaks.                                           *)
THEOREM NothingElseMissed == Spec => []MissedOnlyLate
<1>1. Inv => MissedOnlyLate
    BY DEF Inv
<1>2. QED
    BY <1>1, Invariant, PTL

(* A page receives rising ids, across any number of connections.            *)
THEOREM RisingIds == Spec => ReceivedInOrder
<1>1. Inv /\ [Next]_vars => [Receive => Head(wire) > last]_vars
    BY ReceiveStep
<1>2. QED
    BY <1>1, Invariant, PTL DEF Spec, ReceivedInOrder
=============================================================================
