------------------------------- MODULE Forms -------------------------------
(***************************************************************************)
(* The contact and ticket forms.  Each counts the submissions of an        *)
(* address in a Map of its own, which keeps its entries in the order of    *)
(* their first insertion, before it hands the submission to a mail server  *)
(* or to Freshdesk and waits.  The oldest entry is dropped only after a    *)
(* success; all are dropped once a day.                                    *)
(***************************************************************************)
EXTENDS Naturals, Sequences, FiniteSets

CONSTANTS
    Requests,       \* submissions
    FormOf,         \* the form of each submission
    Addresses,      \* client addresses, as the headers give them
    Blank,          \* the address that is the empty string, if the headers give it
    MaxPerAddress,  \* submissions of an address between two resets (10)
    MaxEntries      \* MAX_IP_ENTRIES (10000)

Forms == {"contact", "ticket"}

ASSUME FormAssumption == FormOf \in [Requests -> Forms]
ASSUME MaxAssumption == MaxPerAddress \in Nat \ {0} /\ MaxEntries \in Nat \ {0}

VARIABLES
    count,   \* count[f][a]: submissions of address a to form f, 0 if no entry
    order,   \* order[f]: the addresses with an entry, oldest first
    req

vars == <<count, order, req>>

\* sending: counted, and waiting for the service
\* kept:    sent, at a table that was full and dropped nothing
Phases == {"new", "invalid", "refused", "sending", "sent", "kept", "failed"}

\* today:   history: the submission was counted since the last reset
\* dropped: history: the address whose entry its success dropped since then
Request == [phase: Phases, address: Addresses, today: BOOLEAN,
            dropped: SUBSET Addresses]

TypeOK ==
    /\ count \in [Forms -> [Addresses -> 0..MaxPerAddress]]
    /\ order \in [Forms -> Seq(Addresses)]
    /\ req \in [Requests -> Request]

Init ==
    /\ count = [f \in Forms |-> [a \in Addresses |-> 0]]
    /\ order = [f \in Forms |-> <<>>]
    /\ req \in [Requests -> [phase: {"new"}, address: Addresses, today: {FALSE},
                             dropped: {{}}]]

-----------------------------------------------------------------------------

\* A field or the challenge header is missing or malformed.
Reject(q) ==
    /\ req[q].phase = "new"
    /\ req' = [req EXCEPT ![q].phase = "invalid"]
    /\ UNCHANGED <<count, order>>

\* Mutant: an address is counted when its submission has been sent.
SubmitUncounted(q) ==
    /\ req[q].phase = "new"
    /\ IF count[FormOf[q]][req[q].address] + 1 > MaxPerAddress
         THEN req' = [req EXCEPT ![q].phase = "refused"]
         ELSE req' = [req EXCEPT ![q].phase = "sending", ![q].today = TRUE]
    /\ UNCHANGED <<count, order>>

\* "atomic increment": counted and handed to the service, or refused.
Submit(q) ==
    LET f == FormOf[q]
        a == req[q].address
    IN
    /\ req[q].phase = "new"
    /\ IF count[f][a] + 1 > MaxPerAddress
         THEN /\ req' = [req EXCEPT ![q].phase = "refused"]
              /\ UNCHANGED <<count, order>>
         ELSE /\ count' = [count EXCEPT ![f][a] = @ + 1]
              /\ order' = [order EXCEPT ![f] = IF count[f][a] = 0 THEN Append(@, a) ELSE @]
              /\ req' = [req EXCEPT ![q].phase = "sending", ![q].today = TRUE]

\* Mutant: nothing is dropped.
SentUnbounded(q) ==
    /\ req[q].phase = "sending"
    /\ req' = [req EXCEPT ![q].phase = "sent"]
    /\ UNCHANGED <<count, order>>

\* The service is done: at the limit the oldest entry goes, unless it is the
\* submission's own or that of the empty string, which is no key to the code.
Sent(q) ==
    LET f == FormOf[q]
        full == Len(order[f]) >= MaxEntries
        oldest == Head(order[f])
        dropped == full /\ oldest \notin {req[q].address, Blank}
    IN
    /\ req[q].phase = "sending"
    /\ \/ /\ dropped
          /\ order' = [order EXCEPT ![f] = Tail(@)]
          /\ count' = [count EXCEPT ![f][oldest] = 0]
          /\ req' = [req EXCEPT ![q].phase = "sent", ![q].dropped = {oldest}]
       \/ /\ ~dropped
          /\ req' = [req EXCEPT ![q].phase = IF full THEN "kept" ELSE "sent"]
          /\ UNCHANGED <<count, order>>

\* The service threw: the submission stays counted and no entry is dropped.
Failed(q) ==
    /\ req[q].phase = "sending"
    /\ req' = [req EXCEPT ![q].phase = "failed"]
    /\ UNCHANGED <<count, order>>

\* contactService.postContact: the mail is sent or that fails.
ContactAnswers(q) == FormOf[q] = "contact" /\ (Sent(q) \/ Failed(q))

\* ticketService.postTicket: the ticket is created, or that fails, or its
\* failure is one of reading an undefined answer, which is taken for a success.
TicketAnswers(q) == FormOf[q] = "ticket" /\ (Sent(q) \/ Failed(q))

\* The daily reset of one form.
Clear(f) ==
    /\ order' = [order EXCEPT ![f] = <<>>]
    /\ count' = [count EXCEPT ![f] = [a \in Addresses |-> 0]]
    /\ req' = [q \in Requests |->
                 IF FormOf[q] = f
                   THEN [req[q] EXCEPT !.today = FALSE, !.dropped = {}] ELSE req[q]]

PostContact(q) == FormOf[q] = "contact" /\ (Reject(q) \/ Submit(q))
PostTicket(q) == FormOf[q] = "ticket" /\ (Reject(q) \/ Submit(q))

Next ==
    \/ \E q \in Requests :
         PostContact(q) \/ ContactAnswers(q) \/ PostTicket(q) \/ TicketAnswers(q)
    \/ \E f \in Forms : Clear(f)

Spec == Init /\ [][Next]_vars

-----------------------------------------------------------------------------
(* Correctness *)

\* The submissions of address a that form f let through since its last reset.
Today(f, a) ==
    {q \in Requests : FormOf[q] = f /\ req[q].address = a /\ req[q].today}

\* The submissions of others that were sent at a full table since then and dropped
\* the entry of a.
Droppers(f, a) ==
    {q \in Requests : /\ FormOf[q] = f
                      /\ req[q].phase = "sent"
                      /\ a \in req[q].dropped
                      /\ a \notin {req[q].address, Blank}}

\* "max 10 submissions per IP per 24 hours (atomic increment)", as far as it is
\* true: between two resets an address gets through no more than the limit, and
\* as many again for each time that a success of another address dropped its
\* entry, which then starts from zero.  No burst, no failure and no success of its
\* own gets it more.
AcceptedBounded ==
    \A f \in Forms : \A a \in Addresses :
        Cardinality(Today(f, a)) <= MaxPerAddress * (1 + Cardinality(Droppers(f, a)))

\* The submissions to form f that added an entry at most since the last reset, and
\* dropped none.
Undropped(f) ==
    {q \in Requests : /\ FormOf[q] = f /\ req[q].today
                      /\ req[q].phase \in {"sending", "failed", "kept"}}

\* "Prevent unbounded memory growth by removing oldest entry when limit reached":
\* the table outgrows its limit by no more than the submissions since the last
\* reset that are under way, that failed, or that were sent but found their own
\* entry, or that of the empty string, the oldest of a full table.  Of the last
\* two there may be any number, each with a new address, until the daily reset.
TableBounded ==
    \A f \in Forms : Len(order[f]) <= MaxEntries + Cardinality(Undropped(f))

=============================================================================
