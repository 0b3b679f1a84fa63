-------------------------- MODULE DraftStreamProofs --------------------------
(***************************************************************************)
(* Proofs about streamed policy drafts, for any attempts, any length of    *)
(* the answer and any number of breaks, crashes and failed statements.     *)
(***************************************************************************)
EXTENDS DraftStream, TLAPS

(* What may be on the wire: deltas, or deltas and what ends the stream.     *)
AllDeltas(s) == \A i \in 1 .. Len(s) : s[i] = "delta"

EndsWith(s, event) == /\ Len(s) >= 2
                      /\ s[Len(s)] = "end" /\ s[Len(s) - 1] = event
                      /\ \A i \in 1 .. Len(s) - 2 : s[i] = "delta"

OnlyEnd(s) == Len(s) = 1 /\ s[1] = "end"

(* The text that the handler has holds a safe policy.                       *)
Safe(a) == closes[a] # 0 /\ size[a] >= closes[a]

(* The handler has a safe policy before it writes a row, and the row it     *)
(* writes is the version it has read.                                       *)
Handled(a) ==
    /\ srv[a] = "none" => size[a] = 0
    /\ srv[a] = "none" <=> page[a] = "idle"
    /\ srv[a] \in {"none", "generating", "decoded", "insert"} => row[a] = 0
    /\ srv[a] \in {"decoded", "insert", "saved"} => Safe(a)
    /\ srv[a] = "insert" => ver[a] # 0
    /\ srv[a] = "saved" => row[a] # 0
    /\ row[a] # 0 => row[a] = ver[a] /\ Safe(a)

(* What the page has and what it can still read are what was sent: all of   *)
(* the answer and how it ended, all of it so far, or the part of it that    *)
(* was sent before the connection broke.                                    *)
Ended(a) == /\ srv[a] = "closed"
            /\ got[a] + Len(wire[a]) = size[a] + 2
            /\ \/ EndsWith(wire[a], "error")
               \/ EndsWith(wire[a], "complete") /\ row[a] # 0

Underway(a) == /\ AllDeltas(wire[a])
               /\ srv[a] # "closed"
               /\ got[a] + Len(wire[a]) = size[a]

CutOff(a) == /\ AllDeltas(wire[a])
             /\ conn[a] = "cut"
             /\ got[a] + Len(wire[a]) <= size[a]

Carried(a) ==
    /\ got[a] <= size[a]
    /\ page[a] = "idle" => wire[a] = <<>> /\ got[a] = 0
    /\ page[a] = "streaming" => Ended(a) \/ Underway(a) \/ CutOff(a)
    /\ page[a] = "completed" => OnlyEnd(wire[a])
    /\ page[a] \in {"completed", "shown"} => got[a] = size[a] /\ row[a] # 0 /\ srv[a] = "closed"

(* Until something breaks, an error is sent only by a handler without a row. *)
Honest(a) ==
    faults = 0 => /\ conn[a] = "up"
                  /\ page[a] = "rejected" => row[a] = 0 /\ srv[a] = "closed"
                  /\ page[a] = "streaming" /\ EndsWith(wire[a], "error") => row[a] = 0

Attempt(a) == Handled(a) /\ Carried(a) /\ Honest(a)

(* There is a newest version: SELECT MAX(version) finds one.                *)
HasNewest == \E m \in Versions : \A v \in Versions : v <= m

OwnVersions == \A a, b \in Attempts : row[a] # 0 /\ row[a] = row[b] => a = b

Inv == TypeOK /\ HasNewest /\ OwnVersions /\ \A a \in Attempts : Attempt(a)

-----------------------------------------------------------------------------
(* Sequences of events *)

LEMMA OneMoreDelta ==
    ASSUME NEW s \in Seq(Events), AllDeltas(s)
    PROVE  AllDeltas(s \o <<"delta">>) /\ Len(s \o <<"delta">>) = Len(s) + 1
<1>1. /\ Len(s) \in Nat
      /\ Len(s \o <<"delta">>) = Len(s) + 1
      /\ (s \o <<"delta">>)[Len(s) + 1] = "delta"
      /\ \A i \in 1 .. Len(s) : (s \o <<"delta">>)[i] = s[i]
    OBVIOUS
<1>2. QED
    BY <1>1 DEF AllDeltas

LEMMA EndAdded ==
    ASSUME NEW s \in Seq(Events), AllDeltas(s), NEW event \in {"complete", "error"}
    PROVE  EndsWith(s \o <<event, "end">>, event) /\ Len(s \o <<event, "end">>) = Len(s) + 2
<1>1. /\ Len(s) \in Nat
      /\ Len(s \o <<event, "end">>) = Len(s) + 2
      /\ (s \o <<event, "end">>)[Len(s) + 1] = event
      /\ (s \o <<event, "end">>)[Len(s) + 2] = "end"
      /\ \A i \in 1 .. Len(s) : (s \o <<event, "end">>)[i] = s[i]
    OBVIOUS
<1>2. QED
    BY <1>1 DEF AllDeltas, EndsWith

LEMMA TailKeepsDeltas ==
    ASSUME NEW s \in Seq(Events), s # <<>>, AllDeltas(s)
    PROVE  Head(s) = "delta" /\ AllDeltas(Tail(s)) /\ Len(Tail(s)) = Len(s) - 1
<1>1. /\ Len(s) \in Nat /\ Len(s) >= 1 /\ Head(s) = s[1]
      /\ Len(Tail(s)) = Len(s) - 1
      /\ \A i \in 1 .. Len(s) - 1 : Tail(s)[i] = s[i + 1]
    OBVIOUS
<1>2. QED
    BY <1>1 DEF AllDeltas

LEMMA TailKeepsEnd ==
    ASSUME NEW s \in Seq(Events), NEW event \in {"complete", "error"}, EndsWith(s, event)
    PROVE  /\ Len(Tail(s)) = Len(s) - 1
           /\ \/ Head(s) = "delta" /\ EndsWith(Tail(s), event)
              \/ Head(s) = event /\ OnlyEnd(Tail(s)) /\ Len(s) = 2
<1>1. /\ Len(s) \in Nat /\ Len(s) >= 2 /\ Head(s) = s[1]
      /\ Tail(s) \in Seq(Events)
      /\ Len(Tail(s)) = Len(s) - 1
      /\ \A i \in 1 .. Len(s) - 1 : Tail(s)[i] = s[i + 1]
    BY DEF EndsWith
<1>2. CASE Len(s) = 2
    <2>1. s[2] = "end" /\ s[1] = event
        <3>1. Len(s) - 1 = 1
            BY <1>2
        <3>2. QED
            BY <1>2, <3>1 DEF EndsWith
    <2>2. Len(Tail(s)) = 1 /\ Tail(s)[1] = s[2]
        <3>1. 1 \in 1 .. Len(s) - 1 /\ 1 + 1 = 2
            BY <1>2
        <3>2. QED
            BY <1>1, <1>2, <3>1
    <2>3. QED
        BY <1>1, <1>2, <2>1, <2>2 DEF OnlyEnd
<1>3. CASE Len(s) > 2
    <2>1. Head(s) = "delta"
        BY <1>1, <1>3 DEF EndsWith
    <2>2. Tail(s)[Len(s) - 1] = "end" /\ Tail(s)[Len(s) - 2] = event
        BY <1>1, <1>3 DEF EndsWith
    <2>3. \A i \in 1 .. Len(s) - 3 : Tail(s)[i] = "delta"
        BY <1>1, <1>3 DEF EndsWith
    <2>4. QED
        BY <1>1, <1>3, <2>1, <2>2, <2>3 DEF EndsWith
<1>4. QED
    BY <1>1, <1>2, <1>3

LEMMA DeltasDoNotEnd ==
    ASSUME NEW s \in Seq(Events), AllDeltas(s), NEW event
    PROVE  ~EndsWith(s, event)
BY DEF AllDeltas, EndsWith

-----------------------------------------------------------------------------
(* A step of one attempt *)

Others(a) ==
    \A b \in Attempts \ {a} :
       /\ srv'[b] = srv[b] /\ size'[b] = size[b] /\ closes'[b] = closes[b] /\ ver'[b] = ver[b]
       /\ row'[b] = row[b] /\ wire'[b] = wire[b] /\ conn'[b] = conn[b]
       /\ page'[b] = page[b] /\ got'[b] = got[b]

(* INSERT of the version read, if no row has it.                            *)
Saves(a) == /\ row[a] = 0 /\ ver[a] # 0 /\ ~Taken(ver[a])
            /\ row' = [row EXCEPT ![a] = ver[a]]

LEMMA SavesRow ==
    ASSUME Inv, NEW a \in Attempts, Saves(a)
    PROVE  /\ HasNewest'
           /\ \A b \in Attempts \ {a} : row'[b] # row'[a]
<1> USE DEF Inv, TypeOK, Saves
<1>1. ver[a] \in Nat /\ row'[a] = ver[a] /\ \A b \in Attempts \ {a} : row'[b] = row[b]
    OBVIOUS
<1>2. Versions' = Versions \cup {ver[a]}
    BY <1>1 DEF Versions
<1>3. Versions \subseteq Nat
    BY DEF Versions
<1>4. PICK m \in Versions : \A v \in Versions : v <= m
    BY DEF HasNewest
<1>5. HasNewest'
    <2>1. CASE ver[a] <= m
        BY <1>2, <1>4, <2>1 DEF HasNewest
    <2>2. CASE m < ver[a]
        <3>1. \A v \in Versions : v <= ver[a]
            BY <1>1, <1>3, <1>4, <2>2
        <3>2. QED
            BY <1>1, <1>2, <3>1 DEF HasNewest
    <2>3. QED
        BY <1>1, <1>3, <2>1, <2>2
<1>6. \A b \in Attempts \ {a} : row'[b] # row'[a]
    BY <1>1 DEF Taken, Versions
<1>7. QED
    BY <1>5, <1>6

LEMMA OneAttempt ==
    ASSUME Inv, NEW a \in Attempts, Others(a), TypeOK', Attempt(a)',
           row' = row \/ Saves(a),
           faults' = 0 => faults = 0
    PROVE  Inv'
<1>1. \A b \in Attempts : Attempt(b)'
    <2> SUFFICES ASSUME NEW b \in Attempts, b # a
                 PROVE  Attempt(b)'
        OBVIOUS
    <2>1. Attempt(b)
        BY DEF Inv
    <2>2. Handled(b)'
        BY <2>1 DEF Attempt, Handled, Safe, Others
    <2>3. Carried(b)'
        BY <2>1 DEF Attempt, Carried, Ended, Underway, CutOff, Others
    <2>4. Honest(b)'
        BY <2>1 DEF Attempt, Honest, Others
    <2>5. QED
        BY <2>2, <2>3, <2>4 DEF Attempt
<1>2. OwnVersions'
    <2>1. CASE row' = row
        BY <2>1 DEF Inv, OwnVersions
    <2>2. CASE Saves(a)
        BY <2>2, SavesRow DEF Inv, OwnVersions, Others
    <2>3. QED
        BY <2>1, <2>2
<1>3. HasNewest'
    BY SavesRow DEF Inv, HasNewest, Versions
<1>4. QED
    BY <1>1, <1>2, <1>3 DEF Inv

LEMMA SendsDelta ==
    ASSUME TypeOK, NEW a \in Attempts, Send(a, <<"delta">>)
    PROVE  /\ wire' \in [Attempts -> Seq(Events)]
           /\ \A b \in Attempts \ {a} : wire'[b] = wire[b]
           /\ conn[a] = "cut" => wire'[a] = wire[a]
           /\ conn[a] = "up" /\ AllDeltas(wire[a])
              => AllDeltas(wire'[a]) /\ Len(wire'[a]) = Len(wire[a]) + 1
<1>1. wire[a] \o <<"delta">> \in Seq(Events) /\ wire[a] \in Seq(Events)
    BY DEF TypeOK, Events
<1>2. QED
    BY <1>1, OneMoreDelta DEF TypeOK, Send

LEMMA SendsEnd ==
    ASSUME TypeOK, NEW a \in Attempts, NEW event \in {"complete", "error"},
           Send(a, <<event, "end">>)
    PROVE  /\ wire' \in [Attempts -> Seq(Events)]
           /\ \A b \in Attempts \ {a} : wire'[b] = wire[b]
           /\ conn[a] = "cut" => wire'[a] = wire[a]
           /\ conn[a] = "up" /\ AllDeltas(wire[a])
              => EndsWith(wire'[a], event) /\ Len(wire'[a]) = Len(wire[a]) + 2
<1>1. wire[a] \o <<event, "end">> \in Seq(Events) /\ wire[a] \in Seq(Events)
    BY DEF TypeOK, Events
<1>2. QED
    BY <1>1, EndAdded DEF TypeOK, Send

(* As long as the handler goes on, the page reads along or was cut off.     *)
LEMMA WhileOpen ==
    ASSUME Inv, NEW a \in Attempts, srv[a] \notin {"none", "closed"}
    PROVE  /\ page[a] \in {"streaming", "rejected"}
           /\ page[a] = "streaming" => Underway(a) \/ CutOff(a)
           /\ page[a] = "rejected" => faults # 0
BY DEF Inv, TypeOK, Attempt, Handled, Safe, Carried, Honest, Ended

-----------------------------------------------------------------------------
(* The handler *)

LEMMA GenerateInv ==
    ASSUME Inv, NEW a \in Attempts, Generate(a)
    PROVE  Inv'
<1> USE DEF Generate, To, answer
<1>1. Others(a) /\ TypeOK' /\ row' = row /\ faults' = faults
    BY DEF Inv, TypeOK, Others
<1>2. /\ srv[a] = "none" /\ srv'[a] = "generating" /\ page'[a] = "streaming"
      /\ page[a] = "idle" /\ size[a] = 0 /\ got[a] = 0 /\ wire[a] = <<>> /\ row[a] = 0
    BY DEF Inv, TypeOK, Attempt, Handled, Safe, Carried
<1>3. AllDeltas(wire[a]) /\ Len(wire[a]) = 0
    BY <1>2 DEF AllDeltas
<1>4. Handled(a)' /\ Carried(a)'
    BY <1>2, <1>3 DEF Handled, Safe, Carried, Underway
<1>5. Honest(a)'
    BY <1>2 DEF Inv, Attempt, Honest
<1>6. QED
    BY <1>1, <1>4, <1>5, OneAttempt DEF Attempt

LEMMA DeltaInv ==
    ASSUME Inv, NEW a \in Attempts, Delta(a)
    PROVE  Inv'
<1> USE DEF Delta, browser
<1>1. /\ srv[a] = "generating" /\ size'[a] = size[a] + 1
      /\ Others(a) /\ TypeOK'
    BY SendsDelta, DraftAssumption DEF Inv, TypeOK, Others
<1>2. page[a] = "streaming" => Underway(a)' \/ CutOff(a)'
    <2>1. size[a] \in Nat /\ got[a] \in Nat /\ Len(wire[a]) \in Nat
        BY DEF Inv, TypeOK
    <2>2. CASE conn[a] = "up" /\ page[a] = "streaming"
        <3>1. AllDeltas(wire[a]) /\ got[a] + Len(wire[a]) = size[a]
            BY <1>1, <2>2, WhileOpen DEF Underway, CutOff
        <3>2. AllDeltas(wire'[a]) /\ Len(wire'[a]) = Len(wire[a]) + 1
            BY <2>2, <3>1, SendsDelta DEF Inv
        <3>3. got'[a] + Len(wire'[a]) = size'[a]
            BY <1>1, <2>1, <3>1, <3>2
        <3>4. QED
            BY <1>1, <3>2, <3>3 DEF Underway
    <2>3. CASE conn[a] = "cut" /\ page[a] = "streaming"
        BY <1>1, <2>1, <2>3, WhileOpen, SendsDelta DEF Inv, Underway, CutOff
    <2>4. QED
        BY <2>2, <2>3 DEF Inv, TypeOK
<1>3. page[a] \in {"streaming", "rejected"} /\ (page[a] = "rejected" => faults # 0)
    BY <1>1, WhileOpen
<1>4. Handled(a)'
    BY <1>1, <1>3 DEF Inv, Attempt, Handled, Safe
<1>5. Carried(a)'
    BY <1>1, <1>2, <1>3 DEF Inv, TypeOK, Attempt, Carried
<1>6. Honest(a)'
    BY <1>1, <1>3 DEF Inv, Attempt, Honest, Handled, Safe
<1>7. QED
    BY <1>1, <1>4, <1>5, <1>6, OneAttempt DEF Attempt

(* Steps that send nothing.                                                 *)
LEMMA SilentInv ==
    ASSUME Inv, NEW a \in Attempts,
           srv[a] \notin {"none", "closed"}, NEW step \in {"decoded", "insert", "saved"},
           To(a, step), ver' \in [Attempts -> Nat], row' = row \/ Saves(a),
           \A b \in Attempts \ {a} : ver'[b] = ver[b],
           Handled(a)',
           UNCHANGED <<answer, wire, conn, browser, faults>>
    PROVE  Inv'
<1> USE DEF To, answer, browser
<1>1. row' \in [Attempts -> Nat] /\ \A b \in Attempts \ {a} : row'[b] = row[b]
    BY DEF Inv, TypeOK, Saves
<1>2. Others(a) /\ TypeOK' /\ srv'[a] = step
    BY <1>1 DEF Inv, TypeOK, Others
<1>3. /\ page[a] \in {"streaming", "rejected"} /\ (page[a] = "rejected" => faults # 0)
      /\ page[a] = "streaming" => Underway(a) \/ CutOff(a)
    BY WhileOpen
<1>4. Carried(a)'
    BY <1>2, <1>3 DEF Inv, Attempt, Carried, Underway, CutOff
<1>5. Honest(a)'
    <2>1. page[a] = "streaming" => ~EndsWith(wire[a], "error")
        BY <1>3, DeltasDoNotEnd DEF Inv, TypeOK, Underway, CutOff
    <2>2. QED
        BY <1>3, <2>1 DEF Inv, Attempt, Honest
<1>6. QED
    BY <1>2, <1>4, <1>5, OneAttempt DEF Attempt

LEMMA NewestFound == Inv => Max(Versions) \in Nat
<1> SUFFICES ASSUME Inv
             PROVE  Max(Versions) \in Nat
    OBVIOUS
<1>1. Versions \subseteq Nat
    BY DEF Inv, TypeOK, Versions
<1>2. \E m \in Versions : \A v \in Versions : m >= v
    BY <1>1 DEF Inv, HasNewest
<1>3. Max(Versions) \in Versions
    BY <1>2 DEF Max
<1>4. QED
    BY <1>1, <1>3

LEMMA SavingInv ==
    ASSUME Inv, NEW a \in Attempts,
           \/ Accept(a) \/ ReadVersion(a)
           \/ Insert(a) /\ ~Taken(ver[a])
    PROVE  Inv'
<1>1. CASE Accept(a)
    <2>1. Handled(a)'
        BY <1>1 DEF Accept, To, answer, browser, Inv, TypeOK, Attempt, Handled, Safe
    <2>2. QED
        BY <1>1, <2>1, SilentInv DEF Accept, Inv, TypeOK
<1>2. CASE ReadVersion(a)
    <2>1. /\ ver' \in [Attempts -> Nat] /\ ver'[a] # 0
          /\ \A b \in Attempts \ {a} : ver'[b] = ver[b]
        BY <1>2, NewestFound DEF ReadVersion, Inv, TypeOK
    <2>2. Handled(a)'
        BY <1>2, <2>1 DEF ReadVersion, To, answer, browser, Inv, TypeOK, Attempt, Handled, Safe
    <2>3. QED
        BY <1>2, <2>1, <2>2, SilentInv DEF ReadVersion
<1>3. CASE Insert(a) /\ ~Taken(ver[a])
    <2>1. /\ srv[a] = "insert" /\ To(a, "saved") /\ row' = [row EXCEPT ![a] = ver[a]]
          /\ UNCHANGED <<answer, ver, wire, conn, browser, faults>>
        BY <1>3 DEF Insert
    <2>2. Saves(a)
        BY <1>3, <2>1 DEF Saves, Inv, Attempt, Handled, Safe
    <2>3. Handled(a)'
        BY <2>1, <2>2 DEF Saves, To, answer, browser, Inv, TypeOK, Attempt, Handled, Safe
    <2>4. QED
        BY <2>1, <2>2, <2>3, SilentInv DEF Inv, TypeOK
<1>4. QED
    BY <1>1, <1>2, <1>3

(* The end of a handler: an error, if nothing has broken, only without a row. *)
LEMMA EndingInv ==
    ASSUME Inv, NEW a \in Attempts, srv[a] \notin {"none", "closed"},
           NEW event \in {"complete", "error"},
           To(a, "closed"), Send(a, <<event, "end">>),
           UNCHANGED <<answer, ver, conn, browser>>,
           row' = row \/ (srv[a] = "insert" /\ Saves(a)),
           event = "complete" => row'[a] # 0,
           event = "error" => faults' # 0 \/ row'[a] = 0,
           faults' \in 0 .. MaxFaults, faults' = 0 => faults = 0
    PROVE  Inv'
<1> USE DEF To, answer, browser
<1>1. row' \in [Attempts -> Nat] /\ \A b \in Attempts \ {a} : row'[b] = row[b]
    BY DEF Inv, TypeOK, Saves
<1>2. Others(a) /\ TypeOK' /\ srv'[a] = "closed"
    BY <1>1, SendsEnd DEF Inv, TypeOK, Others
<1>3. /\ page[a] \in {"streaming", "rejected"} /\ (page[a] = "rejected" => faults # 0)
      /\ page[a] = "streaming" => Underway(a) \/ CutOff(a)
    BY WhileOpen
<1>4. Handled(a)'
    BY <1>2, <1>3 DEF Inv, TypeOK, Attempt, Handled, Safe, Saves
<1>5. CASE conn[a] = "up"
    <2>1. page[a] = "streaming"
          => EndsWith(wire'[a], event) /\ got[a] + Len(wire'[a]) = size[a] + 2
        <3>1. size[a] \in Nat /\ got[a] \in Nat /\ Len(wire[a]) \in Nat
            BY DEF Inv, TypeOK
        <3>2. SUFFICES ASSUME page[a] = "streaming"
                       PROVE  /\ EndsWith(wire'[a], event)
                              /\ got[a] + Len(wire'[a]) = size[a] + 2
            OBVIOUS
        <3>3. AllDeltas(wire[a]) /\ got[a] + Len(wire[a]) = size[a]
            BY <1>3, <1>5, <3>2 DEF Underway, CutOff
        <3>4. EndsWith(wire'[a], event) /\ Len(wire'[a]) = Len(wire[a]) + 2
            BY <1>5, <3>3, SendsEnd DEF Inv
        <3>5. QED
            BY <3>1, <3>3, <3>4
    <2>2. Carried(a)'
        BY <1>2, <1>3, <2>1 DEF Inv, Attempt, Carried, Ended
    <2>3. event = "complete" => ~EndsWith(wire'[a], "error") \/ page[a] # "streaming"
        BY <2>1 DEF EndsWith
    <2>4. Honest(a)'
        BY <1>2, <1>3, <2>3 DEF Inv, Attempt, Honest
    <2>5. QED
        BY <1>1, <1>2, <1>4, <2>2, <2>4, OneAttempt DEF Attempt
<1>6. CASE conn[a] = "cut"
    <2>1. wire'[a] = wire[a]
        BY <1>6, SendsEnd DEF Inv
    <2>2. page[a] = "streaming" => CutOff(a)'
        BY <1>3, <1>6, <2>1 DEF Inv, TypeOK, Underway, CutOff
    <2>3. Carried(a)'
        BY <1>2, <1>3, <2>1, <2>2 DEF Inv, Attempt, Carried
    <2>4. Honest(a)'
        BY <1>6 DEF Inv, Attempt, Honest
    <2>5. QED
        BY <1>1, <1>2, <1>4, <2>3, <2>4, OneAttempt DEF Attempt
<1>7. QED
    BY <1>5, <1>6 DEF Inv, TypeOK

LEMMA ClosingInv ==
    ASSUME Inv, NEW a \in Attempts,
           \/ Reject(a) \/ Reply(a) \/ StatementFails(a)
           \/ Insert(a) /\ Taken(ver[a])
    PROVE  Inv'
<1>1. CASE Reply(a)
    BY <1>1, EndingInv DEF Reply, Inv, TypeOK, Attempt, Handled, Safe
<1>2. CASE Reject(a) \/ (Insert(a) /\ Taken(ver[a]))
    <2>1. /\ srv[a] \in {"generating", "insert"} /\ row' = row /\ Refuse(a)
          /\ UNCHANGED <<answer, ver, conn, browser, faults>>
        BY <1>2 DEF Reject, Insert
    <2>2. row[a] = 0
        BY <2>1 DEF Inv, Attempt, Handled, Safe
    <2>3. QED
        BY <2>1, <2>2, EndingInv DEF Refuse, Inv, TypeOK
<1>3. CASE StatementFails(a)
    <2>1. /\ srv[a] \in {"decoded", "insert"} /\ Refuse(a)
          /\ UNCHANGED <<answer, ver, conn, browser>>
        BY <1>3 DEF StatementFails
    <2>2. row' = row \/ (srv[a] = "insert" /\ Saves(a))
        BY <1>3 DEF StatementFails, Saves, Inv, Attempt, Handled, Safe
    <2>3. faults' \in 0 .. MaxFaults /\ faults' # 0
        <3>1. CASE conn[a] = "cut"
            BY <1>3, <3>1 DEF StatementFails, Inv, TypeOK, Attempt, Honest
        <3>2. CASE conn[a] # "cut"
            BY <1>3, <3>2, DraftAssumption DEF StatementFails, Fault, Inv, TypeOK
        <3>3. QED
            BY <3>1, <3>2
    <2>4. QED
        BY <2>1, <2>2, <2>3, EndingInv DEF Refuse
<1>4. QED
    BY <1>1, <1>2, <1>3

(* The server dies: its handlers have sent part of an answer at most.       *)
LEMMA CrashInv ==
    ASSUME Inv, Crash
    PROVE  Inv'
<1> DEFINE open == {a \in Attempts : srv[a] \notin {"none", "closed"}}
<1> USE DEF answer, browser
<1>1. /\ srv' = [a \in Attempts |-> IF a \in open THEN "closed" ELSE srv[a]]
      /\ conn' = [a \in Attempts |-> IF a \in open THEN "cut" ELSE conn[a]]
      /\ UNCHANGED <<size, closes, ver, row, wire, page, got>>
      /\ Fault
    BY DEF Crash
<1>2. faults' \in 0 .. MaxFaults /\ faults' # 0
    BY <1>1, DraftAssumption DEF Fault, Inv, TypeOK
<1>3. TypeOK'
    BY <1>1, <1>2 DEF Inv, TypeOK
<1>4. HasNewest' /\ OwnVersions'
    BY <1>1 DEF Inv, HasNewest, Versions, OwnVersions
<1>5. ASSUME NEW a \in Attempts
      PROVE  Attempt(a)'
    <2>1. Attempt(a) /\ srv[a] \in {"none", "generating", "decoded", "insert", "saved", "closed"}
        BY DEF Inv, TypeOK
    <2>2. srv'[a] = srv[a] \/ (srv[a] \notin {"none", "closed"} /\ srv'[a] = "closed")
        BY <1>1
    <2>3. Handled(a)'
        BY <1>1, <2>1, <2>2 DEF Attempt, Handled, Safe
    <2>4. Carried(a)'
        <3>1. CASE a \in open
            <4>1. page[a] = "streaming" => CutOff(a)'
                BY <1>1, <3>1, WhileOpen DEF Underway, CutOff, Inv, TypeOK
            <4>2. QED
                BY <1>1, <2>1, <3>1, <4>1 DEF Attempt, Carried
        <3>2. CASE a \notin open
            BY <1>1, <2>1, <3>2 DEF Attempt, Carried, Ended, Underway, CutOff
        <3>3. QED
            BY <3>1, <3>2
    <2>5. Honest(a)'
        BY <1>2 DEF Honest
    <2>6. QED
        BY <2>3, <2>4, <2>5 DEF Attempt
<1>6. QED
    BY <1>3, <1>4, <1>5 DEF Inv

-----------------------------------------------------------------------------
(* The page *)

LEMMA BreakInv ==
    ASSUME Inv, NEW a \in Attempts, Break(a)
    PROVE  Inv'
<1> USE DEF Break, handler, answer, browser
<1>1. faults' \in 0 .. MaxFaults /\ faults' # 0
    BY DraftAssumption DEF Fault, Inv, TypeOK
<1>2. Others(a) /\ TypeOK' /\ conn'[a] = "cut"
    BY <1>1 DEF Inv, TypeOK, Others
<1>3. Handled(a)'
    BY DEF Inv, Attempt, Handled, Safe
<1>4. Carried(a)'
    BY <1>2 DEF Inv, TypeOK, Attempt, Carried, Ended, Underway, CutOff
<1>5. Honest(a)'
    BY <1>1 DEF Honest
<1>6. QED
    BY <1>1, <1>2, <1>3, <1>4, <1>5, OneAttempt DEF Attempt

LEMMA SeesBreakInv ==
    ASSUME Inv, NEW a \in Attempts, SeesBreak(a)
    PROVE  Inv'
<1> USE DEF SeesBreak, handler, answer
<1>1. /\ Others(a) /\ TypeOK' /\ page'[a] = "rejected"
      /\ page[a] # "idle" /\ conn[a] = "cut"
    BY DEF Inv, TypeOK, Others, Reading
<1>2. Handled(a)' /\ Carried(a)'
    BY <1>1 DEF Inv, Attempt, Handled, Safe, Carried
<1>3. Honest(a)'
    BY <1>1 DEF Inv, Attempt, Honest
<1>4. QED
    BY <1>1, <1>2, <1>3, OneAttempt DEF Attempt

LEMMA ReceiveInv ==
    ASSUME Inv, NEW a \in Attempts, Receive(a)
    PROVE  Inv'
<1> USE DEF Receive, handler, answer, AtEnd
<1>1. /\ wire[a] \in Seq(Events) /\ wire[a] # <<>> /\ wire'[a] = Tail(wire[a])
      /\ Len(wire[a]) \in Nat /\ got[a] \in Nat /\ size[a] \in 0 .. Whole
      /\ Attempt(a) /\ page[a] \in {"streaming", "completed"}
      /\ \A b \in Attempts \ {a} : /\ wire'[b] = wire[b] /\ page'[b] = page[b]
                                   /\ got'[b] = got[b]
    BY DEF Inv, TypeOK, Reading
<1>2. wire' \in [Attempts -> Seq(Events)]
    BY <1>1 DEF Inv, TypeOK
<1>3. /\ srv'[a] = srv[a] /\ size'[a] = size[a] /\ row'[a] = row[a] /\ conn'[a] = conn[a]
      /\ faults' = faults
    OBVIOUS
<1>4. /\ Carried(a)' /\ Honest(a)'
      /\ got' \in [Attempts -> 0 .. Whole]
      /\ page' \in [Attempts -> {"idle", "streaming", "completed", "shown", "rejected"}]
      /\ page'[a] # "idle"
    <2>1. CASE page[a] = "completed"
        <3>1. Head(wire[a]) = "end"
            BY <1>1, <2>1 DEF Attempt, Carried, OnlyEnd
        <3>2. /\ page'[a] = "shown" /\ got' = got
              /\ page' = [page EXCEPT ![a] = "shown"]
            BY <1>1, <2>1, <3>1 DEF Inv, TypeOK
        <3>3. QED
            BY <1>1, <1>3, <2>1, <3>2 DEF Inv, TypeOK, Attempt, Carried, Honest
    <2>2. CASE page[a] = "streaming" /\ (Underway(a) \/ CutOff(a))
        <3>1. AllDeltas(wire[a])
            BY <2>2 DEF Underway, CutOff
        <3>2. /\ Head(wire[a]) = "delta" /\ AllDeltas(wire'[a])
              /\ Len(wire'[a]) = Len(wire[a]) - 1
            BY <1>1, <3>1, TailKeepsDeltas
        <3>3. page' = page /\ got' = [got EXCEPT ![a] = @ + 1] /\ got'[a] = got[a] + 1
            BY <3>2 DEF Inv, TypeOK
        <3>4. Len(wire[a]) >= 1
            BY <1>1
        <3>5. got[a] + 1 <= size[a]
            BY <1>1, <2>2, <3>4 DEF Underway, CutOff
        <3>6. got' \in [Attempts -> 0 .. Whole]
            BY <1>1, <3>3, <3>5, DraftAssumption DEF Inv, TypeOK
        <3>7. Underway(a)' \/ CutOff(a)'
            BY <1>1, <1>3, <2>2, <3>2, <3>3 DEF Underway, CutOff
        <3>8. Carried(a)'
            BY <1>3, <2>2, <3>3, <3>5, <3>7 DEF Carried
        <3>9. Honest(a)'
            BY <1>1, <1>2, <1>3, <2>2, <3>2, <3>3, DeltasDoNotEnd DEF Attempt, Honest
        <3>10. QED
            BY <2>2, <3>3, <3>6, <3>8, <3>9 DEF Inv, TypeOK
    <2>3. CASE page[a] = "streaming" /\ Ended(a)
        <3>1. PICK event \in {"complete", "error"} :
                 /\ EndsWith(wire[a], event)
                 /\ event = "complete" => row[a] # 0
            BY <2>3 DEF Ended
        <3>2. /\ srv[a] = "closed" /\ got[a] + Len(wire[a]) = size[a] + 2
            BY <2>3 DEF Ended
        <3>3. /\ Len(wire'[a]) = Len(wire[a]) - 1
              /\ \/ Head(wire[a]) = "delta" /\ EndsWith(wire'[a], event)
                 \/ Head(wire[a]) = event /\ OnlyEnd(wire'[a]) /\ Len(wire[a]) = 2
            <4>1. wire[a] \in Seq(Events) /\ wire'[a] = Tail(wire[a])
                BY <1>1
            <4>2. event \in {"complete", "error"} /\ EndsWith(wire[a], event)
                BY <3>1
            <4>3. /\ Len(Tail(wire[a])) = Len(wire[a]) - 1
                  /\ \/ Head(wire[a]) = "delta" /\ EndsWith(Tail(wire[a]), event)
                     \/ Head(wire[a]) = event /\ OnlyEnd(Tail(wire[a])) /\ Len(wire[a]) = 2
                BY <4>1, <4>2, TailKeepsEnd
            <4>4. QED
                BY <4>1, <4>3
        <3>4. CASE Head(wire[a]) = "delta" /\ EndsWith(wire'[a], event)
            <4>1. page' = page /\ got' = [got EXCEPT ![a] = @ + 1] /\ got'[a] = got[a] + 1
                BY <3>4 DEF Inv, TypeOK
            <4>2. Len(wire[a]) >= 3
                BY <1>1, <1>2, <3>3, <3>4 DEF EndsWith
            <4>3. got[a] + 1 <= size[a] /\ got'[a] + Len(wire'[a]) = size[a] + 2
                <5>1. Len(wire[a]) \in Nat /\ got[a] \in Nat /\ size[a] \in Nat
                    BY <1>1
                <5>2. QED
                    BY <3>2, <3>3, <4>1, <4>2, <5>1
            <4>4. got' \in [Attempts -> 0 .. Whole]
                <5>1. got[a] + 1 \in 0 .. Whole
                    BY <1>1, <4>3, DraftAssumption
                <5>2. QED
                    BY <4>1, <5>1 DEF Inv, TypeOK
            <4>5. Carried(a)'
                BY <1>3, <2>3, <3>1, <3>2, <3>4, <4>1, <4>3 DEF Carried, Ended
            <4>6. EndsWith(wire'[a], "error") => EndsWith(wire[a], "error")
                BY <3>1, <3>4 DEF EndsWith
            <4>7. Honest(a)'
                BY <1>1, <1>3, <2>3, <4>1, <4>6 DEF Attempt, Honest
            <4>8. QED
                BY <2>3, <4>1, <4>4, <4>5, <4>7 DEF Inv, TypeOK
        <3>5. CASE Head(wire[a]) = event /\ OnlyEnd(wire'[a]) /\ Len(wire[a]) = 2
            <4>1. got[a] = size[a] /\ got' = got
                BY <1>1, <3>2, <3>5
            <4>2. CASE event = "complete"
                <5>1. page' = [page EXCEPT ![a] = "completed"] /\ page'[a] = "completed"
                    BY <3>5, <4>2 DEF Inv, TypeOK
                <5>2. QED
                    BY <1>1, <1>3, <3>1, <3>2, <3>5, <4>1, <4>2, <5>1
                       DEF Inv, TypeOK, Attempt, Carried, Honest
            <4>3. CASE event = "error"
                <5>1. page' = [page EXCEPT ![a] = "rejected"] /\ page'[a] = "rejected"
                    BY <3>5, <4>3 DEF Inv, TypeOK
                <5>2. QED
                    BY <1>1, <1>3, <2>3, <3>1, <3>2, <3>5, <4>1, <4>3, <5>1
                       DEF Inv, TypeOK, Attempt, Carried, Honest
            <4>4. QED
                BY <4>2, <4>3
        <3>6. QED
            BY <3>3, <3>4, <3>5
    <2>4. QED
        BY <1>1, <2>1, <2>2, <2>3 DEF Attempt, Carried
<1>5. Others(a) /\ TypeOK'
    BY <1>1, <1>2, <1>4 DEF Inv, TypeOK, Others
<1>6. Handled(a)'
    BY <1>1, <1>4 DEF Attempt, Handled, Safe
<1>7. QED
    BY <1>4, <1>5, <1>6, OneAttempt DEF Attempt

-----------------------------------------------------------------------------
LEMMA InvInit == Init => Inv
<1> SUFFICES ASSUME Init
             PROVE  Inv
    OBVIOUS
<1>1. TypeOK
    BY DraftAssumption DEF Init, TypeOK
<1>2. Versions = {1}
    BY DEF Init, Versions
<1>3. HasNewest /\ OwnVersions
    BY <1>2 DEF Init, HasNewest, OwnVersions
<1>4. \A a \in Attempts : Attempt(a)
    BY DEF Init, Attempt, Handled, Safe, Carried, Honest
<1>5. QED
    BY <1>1, <1>3, <1>4 DEF Inv

LEMMA InvStep == Inv /\ [Next]_vars => Inv'
<1> SUFFICES ASSUME Inv, [Next]_vars
             PROVE  Inv'
    OBVIOUS
<1>1. ASSUME NEW a \in Attempts, Generate(a) \/ Handle(a) \/ Break(a) \/ Browse(a)
      PROVE  Inv'
    <2>1. CASE Insert(a)
        BY <2>1, SavingInv, ClosingInv
    <2>2. QED
        BY <1>1, <2>1, GenerateInv, DeltaInv, SavingInv, ClosingInv, BreakInv, SeesBreakInv,
           ReceiveInv DEF Handle, Browse
<1>2. CASE UNCHANGED vars
    <2> USE <1>2 DEF vars, handler, answer, browser, Inv
    <2>1. TypeOK'
        BY DEF TypeOK
    <2>2. HasNewest' /\ OwnVersions'
        BY DEF HasNewest, Versions, OwnVersions
    <2>3. ASSUME NEW a \in Attempts
          PROVE  Attempt(a)'
        BY DEF Attempt, Handled, Safe, Carried, Ended, Underway, CutOff, Honest
    <2>4. QED
        BY <2>1, <2>2, <2>3
<1>3. QED
    BY <1>1, <1>2, CrashInv DEF Next

THEOREM DraftInvariant == Spec => []Inv
BY InvInit, InvStep, PTL DEF Spec

(* Every variable stays in its type: no page shows more deltas than the     *)
(* answer has.                                                              *)
THEOREM TypesHold == Spec => []TypeOK
<1>1. Inv => TypeOK
    BY DEF Inv
<1>2. QED
    BY <1>1, DraftInvariant, PTL

(* A page that says that its draft was saved has received all the text that *)
(* the handler has, with a safe policy in it, which is in the table under a *)
(* version of its own, whatever broke.                                      *)
THEOREM SavedIsShown == Spec => []ShownIsSaved
<1>1. Inv => ShownIsSaved
    BY DEF Inv, ShownIsSaved, OwnVersions, Attempt, Handled, Carried, Safe
<1>2. QED
    BY <1>1, DraftInvariant, PTL

(* Until something breaks, a draft that a page calls rejected is not saved. *)
THEOREM RejectedIsNotSaved == Spec => []RejectedNotSaved
<1>1. Inv => RejectedNotSaved
    BY DEF Inv, RejectedNotSaved, Attempt, Honest
<1>2. QED
    BY <1>1, DraftInvariant, PTL
=============================================================================
