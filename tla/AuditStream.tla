----------------------------- MODULE AuditStream -----------------------------
(***************************************************************************)
(* The audit trail and its event stream: AddAudit                          *)
(* (internal/database/helpers.go), which any process may be running, and   *)
(* events (internal/api/server.go), which once a second sends one page of  *)
(* the dashboard the rows beyond the last id it has sent.                  *)
(*                                                                         *)
(* An id is given when an INSERT starts, the row is visible when it        *)
(* commits, and a failed INSERT leaves a gap.  The browser connects again  *)
(* by itself and names the last event it has received; a page that is      *)
(* loaded again names none.                                                *)
(***************************************************************************)
EXTENDS Naturals, Sequences, FiniteSets

CONSTANTS MaxId,        \* bound on the rows of audit_events
          Limit,        \* LIMIT 100
          MaxFaults     \* bound on failed statements, broken connections, reloads

ASSUME StreamAssumption == MaxId \in Nat /\ Limit \in Nat \ {0} /\ MaxFaults \in Nat

Ids == 1 .. MaxId

VARIABLES trail,        \* trail[i] : "free", "writing", "visible" or "failed"
          serial,       \* the last id the sequence has given
          open,         \* whether the page has a connection
          rows,         \* what the handler's query has returned and it has not sent
          cursor,       \* lastID of the handler
          wire,         \* what is sent and not received
          last,         \* the id of the last event received
          got,          \* the events the page has received
          late,         \* history: rows that became visible behind the cursor
          faults

page == <<last, got>>
handler == <<open, rows, cursor>>
vars == <<trail, serial, handler, wire, page, late, faults>>

TypeOK == /\ trail \in [Ids -> {"free", "writing", "visible", "failed"}]
          /\ serial \in 0 .. MaxId
          /\ open \in BOOLEAN
          /\ rows \subseteq Ids
          /\ cursor \in 0 .. MaxId
          /\ wire \in Seq(Ids)
          /\ last \in 0 .. MaxId
          /\ got \subseteq Ids
          /\ late \subseteq Ids
          /\ faults \in 0 .. MaxFaults

Init == /\ trail = [i \in Ids |-> "free"]
        /\ serial = 0
        /\ open = FALSE
        /\ rows = {}
        /\ cursor = 0
        /\ wire = <<>>
        /\ last = 0
        /\ got = {}
        /\ late = {}
        /\ faults = 0

Fault == faults < MaxFaults /\ faults' = faults + 1

-----------------------------------------------------------------------------
(* AddAudit *)

AddAudit ==
    /\ serial < MaxId
    /\ serial' = serial + 1
    /\ trail' = [trail EXCEPT ![serial + 1] = "writing"]
    /\ UNCHANGED <<handler, wire, page, late, faults>>

\* What the handler, or the browser when there is none, has left behind.
Passed(i) == IF open THEN i <= cursor \/ \E j \in rows : i < j ELSE i <= last

Commit(i) ==
    /\ trail[i] = "writing"
    /\ trail' = [trail EXCEPT ![i] = "visible"]
    /\ late' = IF Passed(i) THEN late \cup {i} ELSE late
    /\ UNCHANGED <<serial, handler, wire, page, faults>>

\* The callers ignore the error.
Fail(i) ==
    /\ trail[i] = "writing"
    /\ Fault
    /\ trail' = [trail EXCEPT ![i] = "failed"]
    /\ UNCHANGED <<serial, handler, wire, page, late>>

-----------------------------------------------------------------------------
(* events *)

\* Mutant: the handler goes back to the beginning of the trail.
FromStart == 0

LastEventID == last

Connect ==
    /\ ~open
    /\ open' = TRUE
    /\ cursor' = LastEventID
    /\ UNCHANGED <<trail, serial, rows, wire, page, late, faults>>

\* Mutant: ORDER BY id DESC, as the audit page has it.
NewestOf(S) == {i \in S : Cardinality({j \in S : j > i}) < Limit}

FirstOf(S) == {i \in S : Cardinality({j \in S : j < i}) < Limit}

\* Mutant: id > lastID + 1.
SkippingOne == {i \in Ids : trail[i] = "visible" /\ i > cursor + 1}

Beyond == {i \in Ids : trail[i] = "visible" /\ i > cursor}

Query ==
    /\ open
    /\ rows = {}
    /\ Beyond # {}
    /\ rows' = FirstOf(Beyond)
    /\ UNCHANGED <<trail, serial, open, cursor, wire, page, late, faults>>

\* Mutant: the cursor is the next id to ask for, and the query asks beyond it.
SendPast(i) ==
    /\ i \in rows
    /\ \A j \in rows : i <= j
    /\ wire' = Append(wire, i)
    /\ cursor' = i + 1
    /\ rows' = rows \ {i}
    /\ UNCHANGED <<trail, serial, open, page, late, faults>>

Send(i) ==
    /\ i \in rows
    /\ \A j \in rows : i <= j
    /\ wire' = Append(wire, i)
    /\ cursor' = i
    /\ rows' = rows \ {i}
    /\ UNCHANGED <<trail, serial, open, page, late, faults>>

\* The result breaks off: the loop over it ends, the next tick asks again.
RowsEnd ==
    /\ rows # {}
    /\ Fault
    /\ rows' = {}
    /\ UNCHANGED <<trail, serial, open, cursor, wire, page, late>>

Receive ==
    /\ wire # <<>>
    /\ wire' = Tail(wire)
    /\ last' = Head(wire)
    /\ got' = got \cup {Head(wire)}
    /\ UNCHANGED <<trail, serial, handler, late, faults>>

\* The connection or the server goes away with what is on the wire.
Closed == open' = FALSE /\ rows' = {} /\ cursor' = 0 /\ wire' = <<>>

Break ==
    /\ open
    /\ Fault
    /\ Closed
    /\ UNCHANGED <<trail, serial, page, late>>

Reload ==
    /\ Fault
    /\ Closed
    /\ last' = 0
    /\ got' = {}
    /\ late' = {}
    /\ UNCHANGED <<trail, serial>>

-----------------------------------------------------------------------------
Stream == Query \/ \E i \in Ids : Send(i)

Next == \/ AddAudit
        \/ \E i \in Ids : Commit(i) \/ Fail(i)
        \/ Connect \/ Stream \/ RowsEnd
        \/ Receive \/ Break \/ Reload

Spec == Init /\ [][Next]_vars

\* The handler's ticker goes on, the network delivers, the browser reconnects.
FairSpec == Spec /\ WF_vars(Connect) /\ WF_vars(Stream) /\ WF_vars(Receive)

-----------------------------------------------------------------------------
(* Properties *)

\* A page receives events in the order of their ids and none of them twice,
\* however often its connection breaks and whatever was on the wire.
ReceivedInOrder == [][Receive => Head(wire) > last]_vars

\* What a page has passed without receiving it is only what became visible
\* behind the cursor: no LIMIT, gap, broken result or connection loses a row.
MissedOnlyLate ==
    \A i \in Ids : trail[i] = "visible" /\ i <= last => i \in got \cup late

\* A row that became visible ahead of the cursor reaches the page in the end.
EventsArrive ==
    \A i \in Ids : (trail[i] = "visible" /\ i \notin late) ~> (i \in got)
=============================================================================
