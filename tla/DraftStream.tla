---------------------------- MODULE DraftStream ----------------------------
(***************************************************************************)
(* A policy drafted by the model: the provider's stream (llm/client.go),   *)
(* the handler that passes it on and saves what it decodes to              *)
(* (streamDraftPolicy and savePolicyDraft, api/server.go), the response on *)
(* its way, and the page that reads it (streamPolicyDraft, web/src/api.ts).*)
(*                                                                         *)
(* Attempts overlap: two people draft, or one leaves the page and comes    *)
(* back while the old request goes on.  A connection that breaks is        *)
(* noticed by either side at any time: until then the handler goes on, and *)
(* its statements, made with the request's context, end with an error      *)
(* after that.  draftPolicy, which no page calls, is the same without      *)
(* deltas.                                                                 *)
(***************************************************************************)
EXTENDS Naturals, Sequences, FiniteSetsExt

CONSTANTS Attempts,     \* requests to draft a policy
          Whole,        \* the deltas of a whole answer
          MaxFaults     \* bound on breaks, crashes and failed statements

ASSUME DraftAssumption == Whole \in Nat \ {0} /\ MaxFaults \in Nat

VARIABLES srv,          \* the step of each handler
          size,         \* deltas it has from the provider
          closes,       \* deltas after which the first object of the answer is closed, or 0:
                        \* it never is, does not decode or does not pass Validate
          ver,          \* the version it has read
          row,          \* policy_versions: the version saved, or 0
          wire,         \* what the server has sent and the page not read
          conn,         \* the connection
          page,         \* what the page shows
          got,          \* the deltas in its preview
          faults
answer == <<size, closes>>
handler == <<srv, answer, ver>>
browser == <<page, got>>
vars == <<handler, row, wire, conn, browser, faults>>

Events == {"delta", "complete", "error", "end"}

TypeOK ==
    /\ srv \in [Attempts -> {"none", "generating", "decoded", "insert", "saved", "closed"}]
    /\ size \in [Attempts -> 0 .. Whole]
    /\ closes \in [Attempts -> 0 .. Whole]
    /\ ver \in [Attempts -> Nat]
    /\ row \in [Attempts -> Nat]
    /\ wire \in [Attempts -> Seq(Events)]
    /\ conn \in [Attempts -> {"up", "cut"}]
    /\ page \in [Attempts -> {"idle", "streaming", "completed", "shown", "rejected"}]
    /\ got \in [Attempts -> 0 .. Whole]
    /\ faults \in 0 .. MaxFaults

Init ==
    /\ srv = [a \in Attempts |-> "none"]
    /\ size = [a \in Attempts |-> 0]
    /\ closes \in [Attempts -> 0 .. Whole]
    /\ ver = [a \in Attempts |-> 0]
    /\ row = [a \in Attempts |-> 0]
    /\ wire = [a \in Attempts |-> <<>>]
    /\ conn = [a \in Attempts |-> "up"]
    /\ page = [a \in Attempts |-> "idle"]
    /\ got = [a \in Attempts |-> 0]
    /\ faults = 0

Fault == faults < MaxFaults /\ faults' = faults + 1

-----------------------------------------------------------------------------
(* The handler *)

To(a, step) == srv' = [srv EXCEPT ![a] = step]

\* What is written to a broken connection is lost.
Send(a, events) == wire' = IF conn[a] = "up" THEN [wire EXCEPT ![a] = @ \o events] ELSE wire

\* writeEvent of the error, and return.
Refuse(a) == To(a, "closed") /\ Send(a, <<"error", "end">>)

\* The button, and the handler's first event.
Generate(a) ==
    /\ srv[a] = "none"
    /\ To(a, "generating")
    /\ page' = [page EXCEPT ![a] = "streaming"]
    /\ UNCHANGED <<answer, ver, row, wire, conn, got, faults>>

\* Mutant: the provider's last chunk is not the end.
DeltaOn(a) ==
    /\ srv[a] = "generating"
    /\ size[a] <= Whole
    /\ size' = [size EXCEPT ![a] = @ + 1]
    /\ Send(a, <<"delta">>)
    /\ UNCHANGED <<srv, closes, ver, row, conn, browser, faults>>

Delta(a) ==
    /\ srv[a] = "generating"
    /\ size[a] < Whole
    /\ size' = [size EXCEPT ![a] = @ + 1]
    /\ Send(a, <<"delta">>)
    /\ UNCHANGED <<srv, closes, ver, row, conn, browser, faults>>

\* Mutant: asks the provider again, and again.
RejectRetries(a) == srv[a] = "generating" /\ UNCHANGED vars

\* The provider refuses, fails, times out, breaks off or ends too early, the
\* answer does not decode or is not safe, or the delta cannot be written.
Reject(a) ==
    /\ srv[a] = "generating"
    /\ Refuse(a)
    /\ UNCHANGED <<answer, ver, row, conn, browser, faults>>

\* The provider's stream ends, with [DONE] or without it, and decodeDraft reads
\* the first object of what has come: what follows it is not looked at.
Accept(a) ==
    /\ srv[a] = "generating"
    /\ closes[a] # 0 /\ size[a] >= closes[a]
    /\ To(a, "decoded")
    /\ UNCHANGED <<answer, ver, row, wire, conn, browser, faults>>

\* The seeded policy has version 1.
Versions == {1} \cup {row[a] : a \in {b \in Attempts : row[b] # 0}}

ReadVersion(a) ==
    /\ srv[a] = "decoded"
    /\ ver' = [ver EXCEPT ![a] = Max(Versions) + 1]
    /\ To(a, "insert")
    /\ UNCHANGED <<answer, row, wire, conn, browser, faults>>

\* UNIQUE (tenant_id, version)
Taken(version) == version \in Versions

Insert(a) ==
    /\ srv[a] = "insert"
    /\ \/ Taken(ver[a]) /\ Refuse(a) /\ UNCHANGED row
       \/ /\ ~Taken(ver[a])
          /\ row' = [row EXCEPT ![a] = ver[a]]
          /\ To(a, "saved") /\ UNCHANGED wire
    /\ UNCHANGED <<answer, ver, conn, browser, faults>>

\* Mutant: the error of savePolicyDraft is dropped.
StatementIgnored(a) ==
    /\ srv[a] \in {"decoded", "insert"}
    /\ IF conn[a] = "cut" THEN UNCHANGED faults ELSE Fault
    /\ To(a, "saved")
    /\ UNCHANGED <<answer, ver, row, wire, conn, browser>>

\* A statement ends with an error: the request is cancelled, or the database is
\* not there.  The INSERT may have been committed.
StatementFails(a) ==
    /\ \/ srv[a] \in {"decoded", "insert"} /\ UNCHANGED row
       \/ srv[a] = "insert" /\ ~Taken(ver[a]) /\ row' = [row EXCEPT ![a] = ver[a]]
    /\ IF conn[a] = "cut" THEN UNCHANGED faults ELSE Fault
    /\ Refuse(a)
    /\ UNCHANGED <<answer, ver, conn, browser>>

\* Mutant: the stream ends without the event.
ReplyNothing(a) ==
    /\ srv[a] = "saved"
    /\ To(a, "closed") /\ Send(a, <<"end">>)
    /\ UNCHANGED <<answer, ver, row, conn, browser, faults>>

Reply(a) ==
    /\ srv[a] = "saved"
    /\ To(a, "closed") /\ Send(a, <<"complete", "end">>)
    /\ UNCHANGED <<answer, ver, row, conn, browser, faults>>

\* The server dies, with every handler in it.
Crash ==
    LET open == {a \in Attempts : srv[a] \notin {"none", "closed"}}
    IN  /\ open # {}
        /\ Fault
        /\ srv' = [a \in Attempts |-> IF a \in open THEN "closed" ELSE srv[a]]
        /\ conn' = [a \in Attempts |-> IF a \in open THEN "cut" ELSE conn[a]]
        /\ UNCHANGED <<answer, ver, row, wire, browser>>

-----------------------------------------------------------------------------
(* The page *)

Reading(a) == page[a] \in {"streaming", "completed"}

Break(a) ==
    /\ Reading(a) /\ conn[a] = "up"
    /\ Fault
    /\ conn' = [conn EXCEPT ![a] = "cut"]
    /\ UNCHANGED <<handler, row, wire, browser>>

\* The stream is over: a result is there, or streamPolicyDraft throws.
AtEnd(a) == page' = [page EXCEPT ![a] = IF @ = "completed" THEN "shown" ELSE "rejected"]

\* processLine
Receive(a) ==
    /\ Reading(a) /\ wire[a] # <<>>
    /\ LET event == Head(wire[a])
       IN  \/ /\ event = "delta"
              /\ got' = [got EXCEPT ![a] = @ + 1]
              /\ UNCHANGED page
           \/ /\ event = "complete"
              /\ page' = [page EXCEPT ![a] = "completed"]
              /\ UNCHANGED got
           \/ /\ event = "error"
              /\ page' = [page EXCEPT ![a] = "rejected"]
              /\ UNCHANGED got
           \/ event = "end" /\ AtEnd(a) /\ UNCHANGED got
    /\ wire' = [wire EXCEPT ![a] = Tail(@)]
    /\ UNCHANGED <<handler, row, conn, faults>>

\* reader.read() rejects; a result that has been read is forgotten.
SeesBreak(a) ==
    /\ Reading(a) /\ conn[a] = "cut"
    /\ page' = [page EXCEPT ![a] = "rejected"]
    /\ wire' = [wire EXCEPT ![a] = <<>>]
    /\ UNCHANGED <<handler, row, conn, got, faults>>

Handle(a) == \/ Delta(a) \/ Reject(a) \/ Accept(a) \/ ReadVersion(a)
             \/ Insert(a) \/ StatementFails(a) \/ Reply(a)
Browse(a) == Receive(a) \/ SeesBreak(a)

Next == \/ \E a \in Attempts : Generate(a) \/ Handle(a) \/ Break(a) \/ Browse(a)
        \/ Crash

\* A handler goes on (the client of the provider has a timeout), and a page
\* reads on and is told of a broken connection.  Nobody has to press the button.
Fairness == \A a \in Attempts : WF_vars(Handle(a)) /\ WF_vars(Browse(a))

Spec == Init /\ [][Next]_vars
FairSpec == Spec /\ Fairness

-----------------------------------------------------------------------------
(* Properties *)

\* A page that says "Validated and saved as a draft" has received all of the text
\* that the handler has, down to the end of a safe policy, and that policy is in
\* the table under a version that no other attempt's has, whatever broke on the
\* way (App.tsx:93, streamPolicyDraft).
ShownIsSaved == \A a \in Attempts : page[a] = "shown" =>
    /\ row[a] # 0 /\ row[a] = ver[a]
    /\ got[a] = size[a] /\ got[a] >= closes[a] /\ closes[a] # 0
    /\ \A b \in Attempts \ {a} : row[b] # row[a]

\* As long as nothing breaks, a page that says "Draft rejected" is right: also
\* when two attempts read the same version and one of them loses.  A connection
\* that breaks around the INSERT makes it wrong.
RejectedNotSaved == faults = 0 => \A a \in Attempts : page[a] = "rejected" => row[a] = 0

\* A page does not stay at "Generating..." and no handler hangs: every attempt
\* ends on both sides.
StreamEnds == \A a \in Attempts :
    /\ (srv[a] = "generating") ~> (srv[a] = "closed")
    /\ (page[a] = "streaming") ~> (page[a] \in {"shown", "rejected"})
=============================================================================
