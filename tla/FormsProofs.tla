----------------------------- MODULE FormsProofs -----------------------------
(***************************************************************************)
(* Proofs about Forms, for every set of submissions and addresses and      *)
(* every limit: what an address got through since a reset is on its        *)
(* counter or was dropped with it by others, and what the table has beyond *)
(* its limit is due to submissions that dropped none.                      *)
(***************************************************************************)
EXTENDS Forms, FiniteSetTheorems, TLAPS

\* The submissions that added an entry and dropped none are finitely many, since
\* each was started by a step, and account for the table beyond its limit.
TableAccounted ==
    \A f \in Forms : /\ IsFiniteSet(Undropped(f))
                     /\ Len(order[f]) <= MaxEntries + Cardinality(Undropped(f))

\* What an address got through since the reset is on its counter, but for one
\* full counter at most for each time another's success dropped its entry.  Both
\* histories are finite, since a step adds one submission to them.
DayAccounted ==
    /\ \A f \in Forms : \A a \in Addresses :
          /\ IsFiniteSet(Today(f, a)) /\ IsFiniteSet(Droppers(f, a))
          /\ Cardinality(Today(f, a))
                <= MaxPerAddress * Cardinality(Droppers(f, a)) + count[f][a]
    /\ \A q \in Requests : /\ req[q].phase = "new" => ~req[q].today
                           /\ req[q].phase # "sent" => req[q].dropped = {}

IInv == TypeOK /\ TableAccounted /\ DayAccounted

-----------------------------------------------------------------------------

\* A table that is full has an oldest entry.
LEMMA OldestOf ==
    ASSUME TypeOK, NEW f \in Forms, Len(order[f]) >= MaxEntries
    PROVE  order[f] # <<>> /\ Head(order[f]) \in Addresses
<1>1. order[f] \in Seq(Addresses)
  BY DEF TypeOK
<1>2. order[f] # <<>>
  BY MaxAssumption
<1> QED BY <1>1, <1>2

\* Submissions stay submissions and keep their addresses.
LEMMA RequestTypes ==
    ASSUME TypeOK, [Next]_vars
    PROVE  /\ req' \in [Requests -> Request]
           /\ \A q \in Requests : req'[q].address = req[q].address
<1> USE DEF TypeOK, Request, Phases
<1>1. ASSUME NEW q \in Requests, NEW phase \in Phases, NEW today \in BOOLEAN,
             req' = [req EXCEPT ![q].phase = phase, ![q].today = today]
      PROVE  /\ req' \in [Requests -> Request]
             /\ \A r \in Requests : req'[r].address = req[r].address
  BY <1>1
<1>2. ASSUME NEW q \in Requests, NEW phase \in Phases,
             req' = [req EXCEPT ![q].phase = phase]
      PROVE  /\ req' \in [Requests -> Request]
             /\ \A r \in Requests : req'[r].address = req[r].address
  BY <1>2
<1>3. ASSUME NEW q \in Requests, Submit(q)
      PROVE  /\ req' \in [Requests -> Request]
             /\ \A r \in Requests : req'[r].address = req[r].address
  BY <1>1, <1>2, <1>3 DEF Submit
<1>4. ASSUME NEW q \in Requests, Sent(q)
      PROVE  /\ req' \in [Requests -> Request]
             /\ \A r \in Requests : req'[r].address = req[r].address
  <2>1. ASSUME NEW phase \in {"sent", "kept"}, req' = [req EXCEPT ![q].phase = phase]
        PROVE  /\ req' \in [Requests -> Request]
               /\ \A r \in Requests : req'[r].address = req[r].address
    BY <1>2, <2>1
  <2>2. ASSUME NEW a \in Addresses,
               req' = [req EXCEPT ![q].phase = "sent", ![q].dropped = {a}]
        PROVE  /\ req' \in [Requests -> Request]
               /\ \A r \in Requests : req'[r].address = req[r].address
    BY <2>2
  <2>3. FormOf[q] \in Forms
    BY FormAssumption
  <2> QED BY <1>4, <2>1, <2>2, <2>3, OldestOf DEF Sent
<1>5. ASSUME NEW f \in Forms, Clear(f)
      PROVE  /\ req' \in [Requests -> Request]
             /\ \A r \in Requests : req'[r].address = req[r].address
  BY <1>5 DEF Clear
<1>6. ASSUME NEW q \in Requests, Reject(q) \/ Failed(q)
      PROVE  /\ req' \in [Requests -> Request]
             /\ \A r \in Requests : req'[r].address = req[r].address
  BY <1>2, <1>6 DEF Reject, Failed
<1>7. CASE UNCHANGED vars
  BY <1>7 DEF vars
<1> QED
  BY <1>3, <1>4, <1>5, <1>6, <1>7
     DEF Next, PostContact, PostTicket, ContactAnswers, TicketAnswers

\* The histories of an address stay if no submission of its form changes in them.
LEMMA DayUnchanged ==
    ASSUME NEW f \in Forms, NEW a \in Addresses,
           \A q \in Requests : FormOf[q] = f =>
              /\ req'[q].address = req[q].address
              /\ req[q].address = a => req'[q].today = req[q].today
              /\ (req'[q].phase = "sent" /\ a \in req'[q].dropped)
                   <=> (req[q].phase = "sent" /\ a \in req[q].dropped)
    PROVE  Today(f, a)' = Today(f, a) /\ Droppers(f, a)' = Droppers(f, a)
BY DEF Today, Droppers

\* What Submit does when the address has submissions left, and when it has not.
LEMMA Submits ==
    ASSUME TypeOK, NEW q \in Requests, Submit(q)
    PROVE  LET f == FormOf[q]
               a == req[q].address
           IN /\ f \in Forms /\ a \in Addresses
              /\ req[q].phase = "new"
              /\ \/ /\ req' = [req EXCEPT ![q].phase = "refused"]
                    /\ UNCHANGED <<count, order>>
                 \/ /\ count[f][a] + 1 \in 0..MaxPerAddress
                    /\ count' = [count EXCEPT ![f][a] = @ + 1]
                    /\ \/ order' = [order EXCEPT ![f] = Append(@, a)]
                       \/ order' = order
                    /\ req' = [req EXCEPT ![q].phase = "sending", ![q].today = TRUE]
<1>1. FormOf[q] \in Forms /\ req[q].address \in Addresses
  BY FormAssumption DEF TypeOK, Request
<1>2. CASE count[FormOf[q]][req[q].address] + 1 > MaxPerAddress
  BY <1>1, <1>2 DEF Submit
<1>3. CASE ~(count[FormOf[q]][req[q].address] + 1 > MaxPerAddress)
  <2>1. count[FormOf[q]][req[q].address] + 1 \in 0..MaxPerAddress
    BY <1>1, <1>3, MaxAssumption DEF TypeOK
  <2>2. \/ order' = [order EXCEPT ![FormOf[q]] = Append(@, req[q].address)]
        \/ order' = order
    <3>1. CASE count[FormOf[q]][req[q].address] = 0
      BY <1>1, <1>3, <3>1 DEF Submit
    <3>2. CASE count[FormOf[q]][req[q].address] # 0
      <4>1. order' = [order EXCEPT ![FormOf[q]] = @]
        BY <1>1, <1>3, <3>2 DEF Submit
      <4> QED BY <4>1 DEF TypeOK
    <3> QED BY <3>1, <3>2
  <2> QED BY <1>1, <1>3, <2>1, <2>2 DEF Submit
<1> QED BY <1>2, <1>3

\* The counters and what they counted stay; or q drops the entry of a.
CountsKept == /\ UNCHANGED count
              /\ \A r \in Requests : /\ req'[r].today = req[r].today
                                     /\ req'[r].dropped = req[r].dropped

Drops(q, a) ==
    /\ a \notin {req[q].address, Blank}
    /\ count' = [count EXCEPT ![FormOf[q]][a] = 0]
    /\ \A r \in Requests :
          /\ req'[r].today = req[r].today
          /\ req'[r].dropped = IF r = q THEN {a} ELSE req[r].dropped

\* What Sent does: nothing but finish, or drop the entry that is the oldest.
LEMMA Sends ==
    ASSUME TypeOK, NEW q \in Requests, Sent(q)
    PROVE  LET f == FormOf[q] IN
           /\ f \in Forms
           /\ req[q].phase = "sending"
           /\ \E phase \in {"sent", "kept"} :
                 /\ \A r \in Requests :
                       /\ req'[r].phase = IF r = q THEN phase ELSE req[r].phase
                       /\ req'[r].address = req[r].address
                 /\ \/ /\ UNCHANGED order
                       /\ phase = "sent" => Len(order[f]) < MaxEntries
                       /\ CountsKept
                    \/ /\ order[f] # <<>>
                       /\ order' = [order EXCEPT ![f] = Tail(@)]
                       /\ phase = "sent"
                       /\ \E a \in Addresses : Drops(q, a)
<1> DEFINE Done(phase) == [req EXCEPT ![q].phase = phase]
           full == Len(order[FormOf[q]]) >= MaxEntries
           oldest == Head(order[FormOf[q]])
<1>1. /\ FormOf[q] \in Forms /\ order[FormOf[q]] \in Seq(Addresses)
      /\ Len(order[FormOf[q]]) \in Nat
  BY FormAssumption DEF TypeOK
<1>2. ASSUME NEW phase \in {"sent", "kept"}
      PROVE  \A r \in Requests :
                /\ Done(phase)[r] \in Request
                /\ Done(phase)[r].phase = IF r = q THEN phase ELSE req[r].phase
                /\ Done(phase)[r].address = req[r].address
                /\ Done(phase)[r].today = req[r].today
                /\ Done(phase)[r].dropped = req[r].dropped
  BY DEF TypeOK, Request, Phases
<1>3. /\ req[q].phase = "sending"
      /\ \/ /\ full /\ oldest \notin {req[q].address, Blank}
            /\ order' = [order EXCEPT ![FormOf[q]] = Tail(@)]
            /\ count' = [count EXCEPT ![FormOf[q]][oldest] = 0]
            /\ req' = [req EXCEPT ![q].phase = "sent", ![q].dropped = {oldest}]
         \/ /\ req' = Done(IF full THEN "kept" ELSE "sent")
            /\ UNCHANGED <<count, order>>
  BY DEF Sent
<1> HIDE DEF Done
<1>4. CASE /\ req' = Done(IF full THEN "kept" ELSE "sent")
           /\ UNCHANGED <<count, order>>
  <2>1. CASE full
    <3>1. req' = Done("kept")
      BY <1>4, <2>1
    <3>2. \A r \in Requests :
             /\ req'[r].phase = IF r = q THEN "kept" ELSE req[r].phase
             /\ req'[r].address = req[r].address
             /\ req'[r].today = req[r].today
             /\ req'[r].dropped = req[r].dropped
      BY <1>2, <3>1
    <3> HIDE DEF full, oldest
    <3>3. CountsKept
      BY <1>4, <3>2 DEF CountsKept
    <3> QED BY <1>1, <1>3, <1>4, <3>2, <3>3
  <2>2. CASE ~full
    <3>1. req' = Done("sent")
      BY <1>4, <2>2
    <3>2. Len(order[FormOf[q]]) < MaxEntries
      BY <1>1, <2>2, MaxAssumption
    <3>3. \A r \in Requests :
             /\ req'[r].phase = IF r = q THEN "sent" ELSE req[r].phase
             /\ req'[r].address = req[r].address
             /\ req'[r].today = req[r].today
             /\ req'[r].dropped = req[r].dropped
      BY <1>2, <3>1
    <3> HIDE DEF full, oldest
    <3>4. CountsKept
      BY <1>4, <3>3 DEF CountsKept
    <3> QED BY <1>1, <1>3, <1>4, <3>2, <3>3, <3>4
  <2> QED BY <2>1, <2>2
<1>5. CASE /\ full /\ oldest \notin {req[q].address, Blank}
           /\ order' = [order EXCEPT ![FormOf[q]] = Tail(@)]
           /\ count' = [count EXCEPT ![FormOf[q]][oldest] = 0]
           /\ req' = [req EXCEPT ![q].phase = "sent", ![q].dropped = {oldest}]
  <2>1. order[FormOf[q]] # <<>> /\ oldest \in Addresses
    BY <1>1, <1>5, OldestOf
  <2>2. PICK a \in Addresses : a = oldest
    BY <2>1
  <2>3. /\ a \notin {req[q].address, Blank}
        /\ order' = [order EXCEPT ![FormOf[q]] = Tail(@)]
        /\ count' = [count EXCEPT ![FormOf[q]][a] = 0]
        /\ req' = [req EXCEPT ![q].phase = "sent", ![q].dropped = {a}]
    BY <1>5, <2>2
  <2> HIDE DEF oldest, full
  <2>4. \A r \in Requests :
           /\ req'[r].phase = IF r = q THEN "sent" ELSE req[r].phase
           /\ req'[r].address = req[r].address
           /\ req'[r].today = req[r].today
           /\ req'[r].dropped = IF r = q THEN {a} ELSE req[r].dropped
    BY <2>3 DEF TypeOK, Request
  <2>5. Drops(q, a)
    BY <2>3, <2>4 DEF Drops
  <2> QED BY <1>1, <1>3, <2>1, <2>3, <2>4, <2>5
<1> QED BY <1>3, <1>4, <1>5

\* What Reject and Failed do: the phase changes, the counter stays.
LEMMA Ends ==
    ASSUME TypeOK, NEW q \in Requests, Reject(q) \/ Failed(q)
    PROVE  /\ UNCHANGED <<count, order>>
           /\ \A r \in Requests :
                 /\ req'[r].phase \in {"sending", "failed", "kept"}
                       <=> req[r].phase \in {"sending", "failed", "kept"}
                 /\ req'[r].phase = "new" => req[r].phase = "new"
                 /\ req'[r].address = req[r].address
                 /\ req'[r].phase = "sent" <=> req[r].phase = "sent"
                 /\ req'[r].today = req[r].today
                 /\ req'[r].dropped = req[r].dropped
<1>1. CASE Reject(q)
  BY <1>1 DEF Reject, TypeOK, Request, Phases
<1>2. CASE Failed(q)
  BY <1>2 DEF Failed, TypeOK, Request, Phases
<1> QED BY <1>1, <1>2

\* A table stays accounted for if it does not change and no submission leaves
\* those that dropped nothing; more of them only make room.
LEMMA TableUnchanged ==
    ASSUME TypeOK, TableAccounted, NEW f \in Forms, order'[f] = order[f],
           \A r \in Requests :
               FormOf[r] = f =>
                   ((req'[r].today /\ req'[r].phase \in {"sending", "failed", "kept"})
                      <=> (req[r].today /\ req[r].phase \in {"sending", "failed", "kept"}))
    PROVE  /\ IsFiniteSet(Undropped(f)')
           /\ Len(order'[f]) <= MaxEntries + Cardinality(Undropped(f)')
<1>1. Undropped(f)' = Undropped(f)
  BY DEF Undropped
<1> QED BY <1>1 DEF TableAccounted

\* Every step keeps the tables accounted for: a submission that adds an entry
\* joins those that dropped nothing, and leaves them with an entry, at a table
\* that has room, or with the table.
LEMMA TableInvariance ==
    TypeOK /\ TableAccounted /\ [Next]_vars => TableAccounted'
<1> SUFFICES ASSUME TypeOK, TableAccounted, [Next]_vars,
                    NEW f \in Forms
             PROVE  /\ IsFiniteSet(Undropped(f)')
                    /\ Len(order'[f]) <= MaxEntries + Cardinality(Undropped(f)')
  BY DEF TableAccounted
<1>1. /\ IsFiniteSet(Undropped(f)) /\ Cardinality(Undropped(f)) \in Nat
      /\ order[f] \in Seq(Addresses) /\ Len(order[f]) \in Nat
      /\ Len(order[f]) <= MaxEntries + Cardinality(Undropped(f))
  BY FS_CardinalityType DEF TableAccounted, TypeOK
<1>2. ASSUME NEW q \in Requests, Submit(q)
      PROVE  /\ IsFiniteSet(Undropped(f)')
             /\ Len(order'[f]) <= MaxEntries + Cardinality(Undropped(f)')
  <2> DEFINE a == req[q].address
  <2>1. a \in Addresses /\ req[q].phase = "new" /\ FormOf[q] \in Forms
    BY <1>2, Submits
  <2>2. CASE req' = [req EXCEPT ![q].phase = "refused"] /\ order' = order
    BY <2>1, <2>2, TableUnchanged DEF TypeOK, Request, Phases
  <2>3. CASE /\ req' = [req EXCEPT ![q].phase = "sending", ![q].today = TRUE]
             /\ \/ order' = [order EXCEPT ![FormOf[q]] = Append(@, a)]
                \/ order' = order
    <3>1. \A r \in Requests :
             /\ req'[r].phase = IF r = q THEN "sending" ELSE req[r].phase
             /\ req'[r].today = IF r = q THEN TRUE ELSE req[r].today
      BY <2>3 DEF TypeOK, Request, Phases
    <3>2. CASE FormOf[q] = f
      <4>1. q \notin Undropped(f)
        BY <2>1 DEF Undropped
      <4>2. Undropped(f)' = Undropped(f) \cup {q}
        BY <3>1, <3>2 DEF Undropped
      <4>3. /\ IsFiniteSet(Undropped(f)')
            /\ Cardinality(Undropped(f)') = Cardinality(Undropped(f)) + 1
        BY <1>1, <4>1, <4>2, FS_AddElement
      <4>4. order'[f] \in {order[f], Append(order[f], a)}
        BY <2>3, <3>2 DEF TypeOK
      <4>5. Len(order'[f]) \in {Len(order[f]), Len(order[f]) + 1}
        BY <1>1, <2>1, <4>4
      <4> QED BY <1>1, <4>3, <4>5, MaxAssumption
    <3>3. CASE FormOf[q] # f
      <4>1. order'[f] = order[f]
        BY <2>3, <3>3 DEF TypeOK
      <4>2. \A r \in Requests : FormOf[r] = f => /\ req'[r].phase = req[r].phase
                                                /\ req'[r].today = req[r].today
        BY <3>1, <3>3
      <4> QED BY <4>1, <4>2, TableUnchanged
    <3> QED BY <3>2, <3>3
  <2> QED BY <1>2, <2>2, <2>3, Submits
<1>3. ASSUME NEW q \in Requests, Sent(q)
      PROVE  /\ IsFiniteSet(Undropped(f)')
             /\ Len(order'[f]) <= MaxEntries + Cardinality(Undropped(f)')
  <2>1. PICK phase \in {"sent", "kept"} :
           /\ \A r \in Requests :
                 /\ req'[r].phase = IF r = q THEN phase ELSE req[r].phase
                 /\ req'[r].today = req[r].today
           /\ \/ /\ order' = order
                 /\ phase = "sent" => Len(order[FormOf[q]]) < MaxEntries
              \/ /\ order[FormOf[q]] # <<>>
                 /\ order' = [order EXCEPT ![FormOf[q]] = Tail(@)]
    BY <1>3, Sends DEF CountsKept, Drops
  <2>2. FormOf[q] \in Forms /\ req[q].phase = "sending"
    BY <1>3, Sends
  <2>3. CASE FormOf[q] # f
    <3>1. order'[f] = order[f]
      BY <2>1, <2>3 DEF TypeOK
    <3>2. \A r \in Requests : FormOf[r] = f => /\ req'[r].phase = req[r].phase
                                              /\ req'[r].today = req[r].today
      BY <2>1, <2>3
    <3> QED BY <3>1, <3>2, TableUnchanged
  <2>4. CASE FormOf[q] = f /\ (phase = "kept" \/ ~req[q].today)
    <3>1. Undropped(f)' = Undropped(f)
      BY <2>1, <2>2, <2>4 DEF Undropped
    <3>2. Len(order'[f]) <= Len(order[f])
      <4>1. CASE order' = order
        BY <1>1, <4>1
      <4>2. CASE order[f] # <<>> /\ order' = [order EXCEPT ![f] = Tail(@)]
        <5>1. order'[f] = Tail(order[f])
          BY <4>2 DEF TypeOK
        <5> QED BY <1>1, <4>2, <5>1
      <4> QED BY <2>1, <2>4, <4>1, <4>2
    <3>3. Len(order'[f]) \in Nat
      <4>1. CASE order' = order
        BY <1>1, <4>1
      <4>2. CASE order[f] # <<>> /\ order' = [order EXCEPT ![f] = Tail(@)]
        <5>1. order'[f] = Tail(order[f])
          BY <4>2 DEF TypeOK
        <5> QED BY <1>1, <4>2, <5>1
      <4> QED BY <2>1, <2>4, <4>1, <4>2
    <3> QED BY <1>1, <3>1, <3>2, <3>3, MaxAssumption
  <2>5. CASE FormOf[q] = f /\ phase = "sent" /\ req[q].today
    <3>1. q \in Undropped(f) /\ Undropped(f)' = Undropped(f) \ {q}
      BY <2>1, <2>2, <2>5 DEF Undropped
    <3>2. /\ IsFiniteSet(Undropped(f)')
          /\ Cardinality(Undropped(f)') = Cardinality(Undropped(f)) - 1
      BY <1>1, <3>1, FS_RemoveElement
    <3>3. Cardinality(Undropped(f)') \in Nat
      BY <3>2, FS_CardinalityType
    <3>4. CASE order' = order /\ Len(order[f]) < MaxEntries
      BY <1>1, <3>2, <3>3, <3>4, MaxAssumption
    <3>5. CASE order[f] # <<>> /\ order' = [order EXCEPT ![f] = Tail(@)]
      <4>1. order'[f] = Tail(order[f])
        BY <3>5 DEF TypeOK
      <4>2. order[f] # <<>>
        BY <3>5
      <4>3. Len(Tail(order[f])) = Len(order[f]) - 1
        BY <1>1, <4>2
      <4> QED BY <1>1, <3>2, <3>3, <4>1, <4>3, MaxAssumption
    <3> QED BY <2>1, <2>5, <3>4, <3>5
  <2> QED BY <2>1, <2>3, <2>4, <2>5
<1>4. ASSUME NEW q \in Requests, Reject(q) \/ Failed(q)
      PROVE  /\ IsFiniteSet(Undropped(f)')
             /\ Len(order'[f]) <= MaxEntries + Cardinality(Undropped(f)')
  BY <1>4, Ends, TableUnchanged
<1>5. ASSUME NEW g \in Forms, Clear(g)
      PROVE  /\ IsFiniteSet(Undropped(f)')
             /\ Len(order'[f]) <= MaxEntries + Cardinality(Undropped(f)')
  <2>1. \A r \in Requests :
           /\ req'[r].phase = req[r].phase
           /\ req'[r].today = IF FormOf[r] = g THEN FALSE ELSE req[r].today
    BY <1>5 DEF Clear, TypeOK, Request
  <2>2. order' = [order EXCEPT ![g] = <<>>]
    BY <1>5 DEF Clear
  <2>3. CASE f = g
    <3>1. Undropped(f)' = {} /\ order'[f] = <<>>
      BY <2>1, <2>2, <2>3 DEF Undropped, TypeOK
    <3> QED BY <3>1, FS_EmptySet, MaxAssumption
  <2>4. CASE f # g
    <3>1. order'[f] = order[f]
      BY <2>2, <2>4 DEF TypeOK
    <3> QED BY <2>1, <2>4, <3>1, TableUnchanged
  <2> QED BY <2>3, <2>4
<1>6. CASE UNCHANGED vars
  BY <1>6, TableUnchanged DEF vars
<1> QED
  BY <1>2, <1>3, <1>4, <1>5, <1>6
     DEF Next, PostContact, PostTicket, ContactAnswers, TicketAnswers

\* Every step keeps the types.
LEMMA TypeInvariance == TypeOK /\ [Next]_vars => TypeOK'
<1> SUFFICES ASSUME TypeOK, [Next]_vars PROVE TypeOK'
  OBVIOUS
<1>1. req' \in [Requests -> Request]
  BY RequestTypes
<1>2. ASSUME NEW q \in Requests, Submit(q) PROVE TypeOK'
  <2> DEFINE f == FormOf[q]
             a == req[q].address
  <2>1. f \in Forms /\ a \in Addresses
    BY <1>2, Submits
  <2>2. CASE UNCHANGED <<count, order>>
    BY <1>1, <2>2 DEF TypeOK
  <2>3. CASE /\ count[f][a] + 1 \in 0..MaxPerAddress
             /\ count' = [count EXCEPT ![f][a] = @ + 1]
             /\ \/ order' = [order EXCEPT ![f] = Append(@, a)]
                \/ order' = order
    <3>1. order' \in [Forms -> Seq(Addresses)]
      <4>1. order[f] \in Seq(Addresses)
        BY <2>1 DEF TypeOK
      <4>2. Append(order[f], a) \in Seq(Addresses)
        BY <2>1, <4>1
      <4> QED BY <2>1, <2>3, <4>2 DEF TypeOK
    <3>2. count' \in [Forms -> [Addresses -> 0..MaxPerAddress]]
      BY <2>1, <2>3 DEF TypeOK
    <3> QED BY <1>1, <3>1, <3>2 DEF TypeOK
  <2> QED BY <1>2, <2>2, <2>3, Submits
<1>3. ASSUME NEW q \in Requests, Sent(q) PROVE TypeOK'
  <2> DEFINE f == FormOf[q]
  <2>1. f \in Forms
    BY <1>3, Sends
  <2>2. CASE UNCHANGED <<count, order>>
    BY <1>1, <2>1, <2>2 DEF TypeOK
  <2>3. ASSUME NEW a \in Addresses, order[f] # <<>>,
               order' = [order EXCEPT ![f] = Tail(@)],
               count' = [count EXCEPT ![f][a] = 0]
        PROVE  TypeOK'
    <3>1. order[f] \in Seq(Addresses)
      BY <2>1 DEF TypeOK
    <3>2. Tail(order[f]) \in Seq(Addresses)
      BY <2>3, <3>1
    <3>3. order' \in [Forms -> Seq(Addresses)]
      BY <2>1, <2>3, <3>2 DEF TypeOK
    <3>4. count' \in [Forms -> [Addresses -> 0..MaxPerAddress]]
      BY <2>1, <2>3, MaxAssumption DEF TypeOK
    <3> QED BY <1>1, <2>1, <3>3, <3>4 DEF TypeOK
  <2>4. \/ UNCHANGED order /\ CountsKept
        \/ /\ order[f] # <<>>
           /\ order' = [order EXCEPT ![f] = Tail(@)]
           /\ \E a \in Addresses : Drops(q, a)
    BY <1>3, Sends
  <2> QED BY <2>2, <2>3, <2>4 DEF CountsKept, Drops
<1>4. ASSUME NEW f \in Forms, Clear(f) PROVE TypeOK'
  <2>1. /\ order' = [order EXCEPT ![f] = <<>>]
        /\ count' = [count EXCEPT ![f] = [a \in Addresses |-> 0]]
    BY <1>4 DEF Clear
  <2>2. order' \in [Forms -> Seq(Addresses)]
    <3>1. <<>> \in Seq(Addresses)
      OBVIOUS
    <3> QED BY <2>1, <3>1 DEF TypeOK
  <2>3. count' \in [Forms -> [Addresses -> 0..MaxPerAddress]]
    <3>1. [a \in Addresses |-> 0] \in [Addresses -> 0..MaxPerAddress]
      BY MaxAssumption
    <3> QED BY <2>1, <3>1 DEF TypeOK
  <2> QED BY <1>1, <2>2, <2>3 DEF TypeOK
<1>5. CASE UNCHANGED <<count, order>>
  BY <1>1, <1>5 DEF TypeOK
<1> QED
  BY <1>2, <1>3, <1>4, <1>5
     DEF Next, PostContact, PostTicket, ContactAnswers, TicketAnswers, Reject,
         Failed, vars

\* The account of an address stays right if its histories and its counter do.
LEMMA AccountUnchanged ==
    ASSUME DayAccounted, NEW f \in Forms, NEW a \in Addresses,
           Today(f, a)' = Today(f, a), Droppers(f, a)' = Droppers(f, a),
           count'[f][a] = count[f][a]
    PROVE  /\ IsFiniteSet(Today(f, a)') /\ IsFiniteSet(Droppers(f, a)')
           /\ Cardinality(Today(f, a)')
                 <= MaxPerAddress * Cardinality(Droppers(f, a)') + count'[f][a]
BY DEF DayAccounted

\* Every step keeps what an address got through accounted for: a submission that
\* is let through is counted, and a counter is lost only by a reset, which begins
\* the histories anew, or to another's success, which joins the droppers.
LEMMA DayInvariance ==
    TypeOK /\ DayAccounted /\ [Next]_vars => DayAccounted'
<1> SUFFICES ASSUME TypeOK, DayAccounted, [Next]_vars PROVE DayAccounted'
  OBVIOUS
<1> DEFINE Account(f, a) ==
              /\ IsFiniteSet(Today(f, a)) /\ IsFiniteSet(Droppers(f, a))
              /\ Cardinality(Today(f, a))
                    <= MaxPerAddress * Cardinality(Droppers(f, a)) + count[f][a]
           Clean == \A q \in Requests :
                       /\ req[q].phase = "new" => ~req[q].today
                       /\ req[q].phase # "sent" => req[q].dropped = {}
<1>1. ASSUME NEW q \in Requests, Submit(q) PROVE DayAccounted'
  <2> DEFINE g == FormOf[q]
  <2>1. CASE req' = [req EXCEPT ![q].phase = "refused"] /\ count' = count
    <3>0. req[q].phase = "new"
      BY <1>1, Submits
    <3>1. \A r \in Requests :
             /\ req'[r].phase = IF r = q THEN "refused" ELSE req[r].phase
             /\ req'[r].address = req[r].address
             /\ req'[r].today = req[r].today
             /\ req'[r].dropped = req[r].dropped
      BY <2>1 DEF TypeOK, Request
    <3>2. ASSUME NEW f \in Forms, NEW a \in Addresses PROVE Account(f, a)'
      <4>1. Today(f, a)' = Today(f, a) /\ Droppers(f, a)' = Droppers(f, a)
        BY <3>0, <3>1, DayUnchanged
      <4> QED BY <2>1, <4>1, AccountUnchanged
    <3>3. Clean'
      BY <3>0, <3>1 DEF DayAccounted
    <3> QED BY <3>2, <3>3 DEF DayAccounted
  <2>2. ASSUME NEW b \in Addresses, b = req[q].address,
               count' = [count EXCEPT ![g][b] = @ + 1],
               req' = [req EXCEPT ![q].phase = "sending", ![q].today = TRUE]
        PROVE  DayAccounted'
    <3>1. g \in Forms /\ req[q].phase = "new"
      BY <1>1, Submits
    <3>2. \A r \in Requests :
             /\ req'[r].phase = IF r = q THEN "sending" ELSE req[r].phase
             /\ req'[r].address = req[r].address
             /\ req'[r].today = IF r = q THEN TRUE ELSE req[r].today
             /\ req'[r].dropped = req[r].dropped
      BY <2>2 DEF TypeOK, Request
    <3>3. ASSUME NEW f \in Forms, NEW a \in Addresses, f # g \/ a # b
          PROVE  Account(f, a)'
      <4>1. Today(f, a)' = Today(f, a) /\ Droppers(f, a)' = Droppers(f, a)
        <5>1. ASSUME NEW r \in Requests, FormOf[r] = f
              PROVE  /\ req'[r].address = req[r].address
                     /\ req[r].address = a => req'[r].today = req[r].today
                     /\ (req'[r].phase = "sent" /\ a \in req'[r].dropped)
                          <=> (req[r].phase = "sent" /\ a \in req[r].dropped)
          <6>1. CASE r = q
            <7>1. req[q].address # a
              BY <2>2, <3>3, <5>1, <6>1
            <7>2. /\ req[q].phase = "new" /\ req'[q].phase = "sending"
                  /\ req'[q].address = req[q].address
              BY <3>1, <3>2
            <7> QED BY <6>1, <7>1, <7>2
          <6>2. CASE r # q
            BY <3>2, <6>2
          <6> QED BY <6>1, <6>2
        <5> HIDE DEF g
        <5> QED BY <5>1, DayUnchanged
      <4>2. count'[f][a] = count[f][a]
        BY <2>2, <3>1, <3>3 DEF TypeOK
      <4> QED BY <4>1, <4>2, AccountUnchanged
    <3>4. Account(g, b)'
      <4>1. q \notin Today(g, b)
        BY <3>1 DEF DayAccounted, Today
      <4>2. Today(g, b)' = Today(g, b) \cup {q}
        <5>1. \A r \in Requests : (FormOf[r] = g /\ req'[r].address = b /\ req'[r].today)
                 <=> ((FormOf[r] = g /\ req[r].address = b /\ req[r].today) \/ r = q)
          BY <2>2, <3>2
        <5> HIDE DEF g
        <5> QED BY <5>1 DEF Today
      <4>3. Droppers(g, b)' = Droppers(g, b)
        BY <3>1, <3>2 DEF Droppers
      <4>4. IsFiniteSet(Today(g, b)) /\ IsFiniteSet(Droppers(g, b))
        BY <3>1 DEF DayAccounted
      <4>5. /\ IsFiniteSet(Today(g, b)')
            /\ Cardinality(Today(g, b)') = Cardinality(Today(g, b)) + 1
        BY <4>1, <4>2, <4>4, FS_AddElement
      <4>6. count'[g][b] = count[g][b] + 1
        BY <2>2, <3>1 DEF TypeOK
      <4> DEFINE given == MaxPerAddress * Cardinality(Droppers(g, b))
      <4>7. Cardinality(Today(g, b)) <= given + count[g][b]
        BY <3>1 DEF DayAccounted
      <4>8. given \in Nat /\ count[g][b] \in Nat /\ Cardinality(Today(g, b)) \in Nat
        BY <3>1, <4>4, FS_CardinalityType, MaxAssumption DEF TypeOK
      <4>9. Cardinality(Today(g, b)') <= given + count'[g][b]
        <5> HIDE DEF given
        <5> QED BY <4>5, <4>6, <4>7, <4>8
      <4> QED BY <4>3, <4>4, <4>5, <4>9
    <3>5. Clean'
      BY <3>1, <3>2 DEF DayAccounted
    <3> QED BY <3>3, <3>4, <3>5 DEF DayAccounted
  <2> QED BY <1>1, <2>1, <2>2, Submits
<1>2. ASSUME NEW q \in Requests, Sent(q) PROVE DayAccounted'
  <2> DEFINE g == FormOf[q]
  <2>1. PICK phase \in {"sent", "kept"} :
           /\ \A r \in Requests :
                 /\ req'[r].phase = IF r = q THEN phase ELSE req[r].phase
                 /\ req'[r].address = req[r].address
           /\ \/ CountsKept
              \/ phase = "sent" /\ \E a \in Addresses : Drops(q, a)
    BY <1>2, Sends
  <2>2. /\ g \in Forms /\ req[q].phase = "sending"
        /\ req[q].dropped = {}
    BY <1>2, Sends DEF DayAccounted
  <2>3. CASE CountsKept
    <3>1. ASSUME NEW f \in Forms, NEW a \in Addresses PROVE Account(f, a)'
      <4>1. Today(f, a)' = Today(f, a) /\ Droppers(f, a)' = Droppers(f, a)
        BY <2>1, <2>2, <2>3, DayUnchanged DEF CountsKept
      <4> QED BY <2>3, <4>1, AccountUnchanged DEF CountsKept
    <3>2. Clean'
      BY <2>1, <2>2, <2>3 DEF DayAccounted, CountsKept
    <3> QED BY <3>1, <3>2 DEF DayAccounted
  <2>4. ASSUME NEW b \in Addresses, phase = "sent", Drops(q, b)
        PROVE  DayAccounted'
    <3>1. /\ b \notin {req[q].address, Blank}
          /\ count' = [count EXCEPT ![g][b] = 0]
          /\ \A r \in Requests :
                /\ req'[r].today = req[r].today
                /\ req'[r].dropped = IF r = q THEN {b} ELSE req[r].dropped
      BY <2>4 DEF Drops
    <3>2. ASSUME NEW f \in Forms, NEW a \in Addresses, f # g \/ a # b
          PROVE  Account(f, a)'
      <4>1. Today(f, a)' = Today(f, a) /\ Droppers(f, a)' = Droppers(f, a)
        BY <2>1, <2>2, <3>1, <3>2, DayUnchanged
      <4>2. count'[f][a] = count[f][a]
        BY <2>2, <3>1, <3>2 DEF TypeOK
      <4> QED BY <4>1, <4>2, AccountUnchanged
    <3>3. Account(g, b)'
      <4>1. q \notin Droppers(g, b)
        BY <2>2 DEF Droppers
      <4>2. Droppers(g, b)' = Droppers(g, b) \cup {q}
        BY <2>1, <2>4, <3>1 DEF Droppers
      <4>3. Today(g, b)' = Today(g, b)
        BY <2>1, <3>1 DEF Today
      <4>4. IsFiniteSet(Today(g, b)) /\ IsFiniteSet(Droppers(g, b))
        BY <2>2 DEF DayAccounted
      <4>5. /\ IsFiniteSet(Droppers(g, b)')
            /\ Cardinality(Droppers(g, b)') = Cardinality(Droppers(g, b)) + 1
        BY <4>1, <4>2, <4>4, FS_AddElement
      <4>6. count'[g][b] = 0 /\ count[g][b] \in 0..MaxPerAddress
        BY <2>2, <3>1 DEF TypeOK
      <4> DEFINE n == Cardinality(Droppers(g, b))
                 m == Cardinality(Today(g, b))
      <4>7. n \in Nat /\ m \in Nat
        BY <4>4, FS_CardinalityType
      <4>8. m <= MaxPerAddress * n + count[g][b]
        BY <2>2 DEF DayAccounted
      <4>9. m <= MaxPerAddress * (n + 1)
        <5> HIDE DEF n, m
        <5>1. MaxPerAddress * (n + 1) = MaxPerAddress * n + MaxPerAddress
          BY <4>7, MaxAssumption
        <5>2. MaxPerAddress * n \in Nat
          BY <4>7, MaxAssumption
        <5> QED BY <4>6, <4>7, <4>8, <5>1, <5>2, MaxAssumption
      <4>10. MaxPerAddress * (n + 1) + 0 = MaxPerAddress * (n + 1)
        BY <4>7, MaxAssumption
      <4> QED BY <4>3, <4>4, <4>5, <4>6, <4>9, <4>10
    <3>4. Clean'
      BY <2>1, <2>2, <2>4, <3>1 DEF DayAccounted
    <3> QED BY <3>2, <3>3, <3>4 DEF DayAccounted
  <2> HIDE DEF g
  <2> QED BY <2>1, <2>3, <2>4
<1>3. ASSUME NEW g \in Forms, Clear(g) PROVE DayAccounted'
  <2>1. \A r \in Requests :
           /\ req'[r].phase = req[r].phase
           /\ req'[r].address = req[r].address
           /\ req'[r].today = IF FormOf[r] = g THEN FALSE ELSE req[r].today
           /\ req'[r].dropped = IF FormOf[r] = g THEN {} ELSE req[r].dropped
    BY <1>3 DEF Clear, TypeOK, Request
  <2>2. ASSUME NEW f \in Forms, NEW a \in Addresses, f # g PROVE Account(f, a)'
    <3>1. Today(f, a)' = Today(f, a) /\ Droppers(f, a)' = Droppers(f, a)
      BY <2>1, <2>2, DayUnchanged
    <3>2. count'[f][a] = count[f][a]
      BY <1>3, <2>2 DEF Clear, TypeOK
    <3> QED BY <3>1, <3>2, AccountUnchanged
  <2>3. ASSUME NEW a \in Addresses PROVE Account(g, a)'
    <3>1. Today(g, a)' = {} /\ Droppers(g, a)' = {}
      BY <2>1 DEF Today, Droppers
    <3>2. count'[g][a] = 0
      BY <1>3 DEF Clear, TypeOK
    <3>3. 0 <= MaxPerAddress * 0 + 0
      BY MaxAssumption
    <3> QED BY <3>1, <3>2, <3>3, FS_EmptySet
  <2>4. Clean'
    BY <2>1 DEF DayAccounted
  <2> QED BY <2>2, <2>3, <2>4 DEF DayAccounted
<1>4. ASSUME NEW q \in Requests, Reject(q) \/ Failed(q) PROVE DayAccounted'
  <2>1. /\ count' = count
        /\ \A r \in Requests : /\ req'[r].address = req[r].address
                               /\ req'[r].today = req[r].today
                               /\ req'[r].dropped = req[r].dropped
                               /\ req'[r].phase = "sent" <=> req[r].phase = "sent"
                               /\ req'[r].phase = "new" => req[r].phase = "new"
    BY <1>4, Ends
  <2>2. ASSUME NEW f \in Forms, NEW a \in Addresses PROVE Account(f, a)'
    <3>1. Today(f, a)' = Today(f, a) /\ Droppers(f, a)' = Droppers(f, a)
      BY <2>1, DayUnchanged
    <3> QED BY <2>1, <3>1, AccountUnchanged
  <2>3. Clean'
    BY <2>1 DEF DayAccounted
  <2> QED BY <2>2, <2>3 DEF DayAccounted
<1>5. CASE UNCHANGED vars
  BY <1>5 DEF vars, DayAccounted, Today, Droppers
<1> QED
  BY <1>1, <1>2, <1>3, <1>4, <1>5
     DEF Next, PostContact, PostTicket, ContactAnswers, TicketAnswers

-----------------------------------------------------------------------------

\* The inductive invariant of the forms' counters and tables.
THEOREM Invariance == Spec => []IInv
<1>1. Init => IInv
  <2> SUFFICES ASSUME Init PROVE IInv
    OBVIOUS
  <2>1. TypeOK
    <3>1. req \in [Requests -> Request]
      BY DEF Init, Request, Phases
    <3>2. count \in [Forms -> [Addresses -> 0..MaxPerAddress]]
      BY MaxAssumption DEF Init
    <3>3. order \in [Forms -> Seq(Addresses)]
      BY DEF Init
    <3> QED BY <3>1, <3>2, <3>3 DEF TypeOK
  <2>2. ASSUME NEW f \in Forms
        PROVE  /\ IsFiniteSet(Undropped(f))
               /\ Len(order[f]) <= MaxEntries + Cardinality(Undropped(f))
    <3>1. Undropped(f) = {} /\ order[f] = <<>>
      BY DEF Init, Undropped
    <3> QED BY <3>1, FS_EmptySet, MaxAssumption
  <2>3. DayAccounted
    <3>1. ASSUME NEW f \in Forms, NEW a \in Addresses
          PROVE  Today(f, a) = {} /\ Droppers(f, a) = {} /\ count[f][a] = 0
      BY DEF Init, Today, Droppers
    <3>2. 0 <= MaxPerAddress * 0 + 0
      BY MaxAssumption
    <3> QED BY <3>1, <3>2, FS_EmptySet DEF DayAccounted, Init
  <2> QED BY <2>1, <2>2, <2>3 DEF IInv, TableAccounted
<1>2. IInv /\ [Next]_vars => IInv'
  BY TypeInvariance, TableInvariance, DayInvariance DEF IInv
<1> QED BY <1>1, <1>2, PTL DEF Spec

\* postContact and postTicket: between two resets no interleaving of submissions,
\* answers and dropped entries lets an address have more than its submissions,
\* and as many again for each time another's success dropped its entry.
THEOREM SubmissionsBounded == Spec => []AcceptedBounded
<1>1. IInv => AcceptedBounded
  <2> SUFFICES ASSUME IInv, NEW f \in Forms, NEW a \in Addresses
               PROVE  Cardinality(Today(f, a))
                         <= MaxPerAddress * (1 + Cardinality(Droppers(f, a)))
    BY DEF AcceptedBounded
  <2> DEFINE n == Cardinality(Droppers(f, a))
             m == Cardinality(Today(f, a))
  <2>1. n \in Nat /\ m \in Nat /\ m <= MaxPerAddress * n + count[f][a]
    BY FS_CardinalityType DEF IInv, DayAccounted
  <2>2. count[f][a] \in 0..MaxPerAddress
    BY DEF IInv, TypeOK
  <2> HIDE DEF n, m
  <2>3. /\ MaxPerAddress * (1 + n) = MaxPerAddress * n + MaxPerAddress
        /\ MaxPerAddress * n \in Nat
    BY <2>1, MaxAssumption
  <2>4. m <= MaxPerAddress * (1 + n)
    BY <2>1, <2>2, <2>3, MaxAssumption
  <2> QED BY <2>4 DEF n, m
<1> QED BY <1>1, Invariance, PTL

\* postContact and postTicket: a table is larger than its limit only by what is
\* under way, failed, or found its own or the empty entry the oldest.
THEOREM TablesBounded == Spec => []TableBounded
<1>1. IInv => TableBounded
  BY DEF IInv, TableAccounted, TableBounded
<1> QED BY <1>1, Invariance, PTL

=============================================================================
