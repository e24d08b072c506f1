-------------------------------- MODULE Market --------------------------------
(***************************************************************************)
(* How a client asks a provider for its terms and proposes a deal          *)
(* (client.go, network.go), and what the provider does of it: the ask      *)
(* store, the query stream's handler, which Start and Stop set and take    *)
(* away, and the validation of proposals (askstore.go, provider.go,        *)
(* environments.go, validators.go).  What becomes of an accepted deal is   *)
(* in Retrieval.                                                           *)
(*                                                                         *)
(* A call is one Query of a user of a client node, and what the user then  *)
(* proposes: the terms of the answer or better ones, as the comment of     *)
(* Retrieve asks.                                                          *)
(***************************************************************************)
EXTENDS Integers, FiniteSets

CONSTANTS Calls,                     \* calls of Query
          Node,                      \* the client node of each of them
          Asks,                      \* asks and terms: [price, interval, increase]
          DefaultAsk,                \* the ask of NewAskStore
          maxStreamOpenAttempts,
          MaxDeals,                  \* bound on the deals of a call
          MaxStops,                  \* bound on the calls of Stop
          Faults,                    \* what may fail: "stream", "datastore", "multistore"
          Null

\* The terms of an ask, an answer or a proposal
Terms == [price : Nat, interval : Nat, increase : Nat]

ASSUME MarketAssumption == /\ DefaultAsk \in Asks /\ Asks \subseteq Terms
                           /\ maxStreamOpenAttempts \in Nat
                           /\ MaxDeals \in Nat /\ MaxStops \in Nat

VARIABLES ask,        \* the ask in memory
          stored,     \* the ask in the datastore
          receiver,   \* impl.receiver is set
          handler,    \* the host has a handler for the query protocol
          switching,  \* Start or Stop, between its two assignments
          stops,      \* calls of Stop
          crashed,    \* the provider's process ended in a nil dereference
          content,    \* where the payload is: "here", at the provider, or "nowhere"
          query,      \* each call of Query
          stream,     \* its stream
          serving,    \* the provider's goroutine for the stream
          next,       \* the stored counter of each client node
          deals       \* the deals proposed, with what became of them

providerVars == <<ask, stored, receiver, handler, switching, stops, crashed, content>>
queryVars == <<query, stream, serving>>
dealVars == <<next, deals>>
vars == <<providerVars, queryVars, dealVars>>

\* What a call keeps when it fails
NoQuery == [at |-> "idle", attempts |-> 0, answer |-> Null, stood |-> {}, tries |-> 0]
Failed == [NoQuery EXCEPT !.at = "failed"]

Nodes == {Node[c] : c \in Calls}
Ended(c) == query[c].at \in {"answered", "failed"}
Asking(c) == query[c].at \in {"opening", "writing", "reading"}
-----------------------------------------------------------------------------
(* The provider's operator *)

\* Mutant of saveAsk: the memory is changed first, and stays so when Put fails
SaveMemoryFirst(a, put) ==
    /\ ask' = a
    /\ stored' = IF put THEN a ELSE stored

\* saveAsk: the datastore first, then the memory
saveAsk(a, put) ==
    /\ stored' = IF put THEN a ELSE stored
    /\ ask' = IF put THEN a ELSE ask

\* GetAsk: a copy of the ask in memory
GetAsk == ask

\* SetAsk, with the lock held.  A query in progress may answer with any ask
\* that was stored since it began.
SetAsk(a, put) ==
    /\ ~crashed /\ (put \/ "datastore" \in Faults)
    /\ saveAsk(a, put)
    /\ query' = [c \in Calls |->
         IF Asking(c) THEN [query[c] EXCEPT !.stood = @ \cup {stored'}] ELSE query[c]]
    /\ UNCHANGED <<receiver, handler, switching, stops, crashed, content,
                   stream, serving, dealVars>>

\* AddFile and AddWebFile
AddFile ==
    /\ ~crashed /\ content = "nowhere"
    /\ content' = "here"
    /\ UNCHANGED <<ask, stored, receiver, handler, switching, stops, crashed,
                   queryVars, dealVars>>

\* Start: SetDelegate sets the receiver, then the handler
Start == /\ switching = "idle" /\ ~receiver
         /\ receiver' = TRUE /\ switching' = "starting"
         /\ UNCHANGED <<handler, stops>>

\* Stop: StopHandlingRequests unsets the receiver, then removes the handler
Stop == /\ switching = "idle" /\ receiver /\ stops < MaxStops
        /\ receiver' = FALSE /\ switching' = "stopping" /\ stops' = stops + 1
        /\ UNCHANGED handler

SetHandler == /\ switching # "idle"
              /\ handler' = (switching = "starting") /\ switching' = "idle"
              /\ UNCHANGED <<receiver, stops>>

StartStop == /\ ~crashed /\ (Start \/ Stop \/ SetHandler)
             /\ UNCHANGED <<ask, stored, crashed, content, queryVars, dealVars>>
-----------------------------------------------------------------------------
(* The client's Query *)

StartQuery(c) ==
    /\ query[c].at = "idle"
    /\ query' = [query EXCEPT ![c].at = "opening", ![c].stood = {stored}]
    /\ UNCHANGED <<providerVars, stream, serving, dealVars>>

Reachable == handler /\ ~crashed

NewStream == [up |-> TRUE, query |-> FALSE, closed |-> FALSE, answer |-> Null]

\* A NewStream of openStream that succeeds.  The provider's host runs
\* handleNewQueryStream.
OpenStream(c) ==
    /\ query[c].at = "opening" /\ Reachable
    /\ stream' = [stream EXCEPT ![c] = NewStream]
    /\ serving' = [serving EXCEPT ![c] = [at |-> "new", ask |-> Null]]
    /\ query' = [query EXCEPT ![c].at = "writing", ![c].attempts = 0]
    /\ UNCHANGED <<providerVars, dealVars>>

\* Mutant of Retry: one more attempt than the limit
RetryOnceMore(q) ==
    IF q.attempts > maxStreamOpenAttempts THEN Failed ELSE [q EXCEPT !.attempts = @ + 1]

\* A failed attempt: back off and try again, up to the limit
Retry(q) ==
    IF q.attempts = maxStreamOpenAttempts THEN Failed ELSE [q EXCEPT !.attempts = @ + 1]

FailToOpen(c) ==
    /\ query[c].at = "opening" /\ (~Reachable \/ "stream" \in Faults)
    /\ query' = [query EXCEPT ![c] = Retry(@)]
    /\ UNCHANGED <<providerVars, stream, serving, dealVars>>

\* WriteQuery.  An error returns, and the deferred Close with it.
WriteQuery(c) ==
    /\ query[c].at = "writing"
    /\ IF stream[c].up
       THEN /\ stream' = [stream EXCEPT ![c].query = TRUE]
            /\ query' = [query EXCEPT ![c].at = "reading"]
       ELSE /\ query' = [query EXCEPT ![c] = Failed]
            /\ UNCHANGED stream
    /\ UNCHANGED <<providerVars, serving, dealVars>>

\* ReadQueryResponse: an answer, or the end of the stream
ReadQueryResponse(c) ==
    /\ query[c].at = "reading"
    /\ LET s == stream[c]
       IN  \/ /\ s.up /\ s.answer # Null
              /\ query' = [query EXCEPT ![c].at = "answered", ![c].answer = s.answer]
           \/ /\ ~s.up \/ (s.closed /\ s.answer = Null)
              /\ query' = [query EXCEPT ![c] = Failed]
    /\ UNCHANGED <<providerVars, stream, serving, dealVars>>

\* The network resets a stream
BreakStream(c) ==
    /\ "stream" \in Faults /\ query[c].at \in {"writing", "reading"} /\ stream[c].up
    /\ stream' = [stream EXCEPT ![c].up = FALSE]
    /\ UNCHANGED <<providerVars, query, serving, dealVars>>
-----------------------------------------------------------------------------
(* The provider's side of the stream *)

Served(c) == serving' = [serving EXCEPT ![c] = Null]

\* Mutant of RefuseStream: the stream is not reset
ForgetStream(c) == Served(c) /\ UNCHANGED stream

\* handleNewQueryStream finds no receiver and resets the stream
RefuseStream(c) == Served(c) /\ stream' = [stream EXCEPT ![c].up = FALSE]

\* The check of impl.receiver in handleNewQueryStream
HandleNewQueryStream(c) ==
    /\ serving[c] # Null /\ serving[c].at = "new"
    /\ IF receiver THEN serving' = [serving EXCEPT ![c].at = "called"] /\ UNCHANGED stream
                   ELSE RefuseStream(c)
    /\ UNCHANGED crashed

\* Its call of impl.receiver, which is read again and may be nil by now.  With
\* the process all its streams end.
CallReceiver(c) ==
    /\ serving[c] # Null /\ serving[c].at = "called"
    /\ IF receiver
       THEN serving' = [serving EXCEPT ![c].at = "reading"] /\ UNCHANGED <<stream, crashed>>
       ELSE /\ crashed' = TRUE
            /\ serving' = [d \in Calls |-> Null]
            /\ stream' = [d \in Calls |-> IF stream[d] = Null THEN Null
                                          ELSE [stream[d] EXCEPT !.up = FALSE]]

\* ReadQuery and GetAsk; or an error, and the deferred Close
ReadQuery(c) ==
    /\ serving[c] # Null /\ serving[c].at = "reading"
    /\ \/ /\ stream[c].up /\ stream[c].query
          /\ serving' = [serving EXCEPT ![c] = [at |-> "answering", ask |-> GetAsk]]
          /\ UNCHANGED stream
       \/ /\ ~stream[c].up
          /\ Served(c) /\ stream' = [stream EXCEPT ![c].closed = TRUE]
    /\ UNCHANGED crashed

\* The terms of an answer.  Its status and size are left out: nothing in the library
\* depends on them.
QueryResponse(a) == [price |-> a.price, interval |-> a.interval, increase |-> a.increase]

\* GetSize, WriteQueryResponse and the deferred Close.  A payload that is not
\* here is looked for in the network, without a deadline.
WriteQueryResponse(c) ==
    /\ serving[c] # Null /\ serving[c].at = "answering" /\ content = "here"
    /\ stream' = [stream EXCEPT ![c].closed = TRUE,
         ![c].answer = IF stream[c].up THEN QueryResponse(serving[c].ask) ELSE Null]
    /\ Served(c) /\ UNCHANGED crashed

HandleQueryStream(c) ==
    /\ ~crashed
    /\ HandleNewQueryStream(c) \/ CallReceiver(c) \/ ReadQuery(c) \/ WriteQueryResponse(c)
    /\ UNCHANGED <<ask, stored, receiver, handler, switching, stops, content,
                   query, dealVars>>
-----------------------------------------------------------------------------
(* Proposals *)

\* CheckDealParams of terms against an ask
CheckDealParams(a, terms) ==
    /\ terms.price >= a.price
    /\ terms.interval <= a.interval
    /\ terms.increase <= a.increase

\* Retrieve: the next id is taken, also when the client's store then fails to
\* load; the machine begins, and opens the transfer.  The user's terms are the
\* answer's or better.
Retrieve(c) ==
    /\ query[c].at = "answered" /\ query[c].tries < MaxDeals
    /\ query' = [query EXCEPT ![c].tries = @ + 1]
    /\ next' = [next EXCEPT ![Node[c]] = @ + 1]
    /\ \/ \E terms \in Asks :
            /\ CheckDealParams(query[c].answer, terms)
            /\ deals' = deals \cup {[receiver |-> Node[c], id |-> next[Node[c]], terms |-> terms,
                                     call |-> c, status |-> "proposed"]}
       \/ "multistore" \in Faults /\ UNCHANGED deals
    /\ UNCHANGED <<providerVars, stream, serving>>

\* Mutant of Identifier: the deal's id alone
IdentifierByID(d) == <<d.id>>

\* ProviderDealState.Identifier, the key of the provider's machines
Identifier(d) == <<d.receiver, d.id>>

\* The response, or the error, that a proposal gets
Respond(d, status) == deals' = (deals \ {d}) \cup {[d EXCEPT !.status = status]}

\* BeginTracking is refused for an identifier that has a machine
BeginTracking(d) ==
    IF \E e \in deals : e.status = "Accepted" /\ Identifier(e) = Identifier(d)
    THEN "refused" ELSE "Accepted"

\* ValidatePull.  The outcome of CheckDealParams is overwritten, and there is
\* no decider.  When NextStoreID fails no machine begins.
ValidatePull(d) ==
    /\ ~crashed /\ d \in deals /\ d.status = "proposed"
    /\ \/ Respond(d, BeginTracking(d))
       \/ "multistore" \in Faults /\ Respond(d, "Errored")
    /\ UNCHANGED <<providerVars, queryVars, next>>
-----------------------------------------------------------------------------
\* NewAskStore has stored the default; SpawnNode has not called Start yet
Init ==
    /\ ask = DefaultAsk /\ stored = DefaultAsk
    /\ receiver = FALSE /\ handler = FALSE /\ switching = "idle" /\ stops = 0
    /\ crashed = FALSE /\ content \in {"here", "nowhere"}
    /\ query = [c \in Calls |-> NoQuery]
    /\ stream = [c \in Calls |-> Null] /\ serving = [c \in Calls |-> Null]
    /\ next = [n \in Nodes |-> 0] /\ deals = {}

Query(c) == OpenStream(c) \/ FailToOpen(c) \/ WriteQuery(c) \/ ReadQueryResponse(c)

Next ==
    \/ \E a \in Asks, put \in BOOLEAN : SetAsk(a, put)
    \/ AddFile \/ StartStop
    \/ \E c \in Calls : \/ StartQuery(c) \/ Query(c) \/ BreakStream(c)
                        \/ HandleQueryStream(c) \/ Retrieve(c)
    \/ \E d \in deals : ValidatePull(d)

\* A call of Query runs on and the provider's goroutines run.  Nobody need set
\* an ask, start or stop the provider, add a file or propose.
Fairness == \A c \in Calls : WF_vars(Query(c)) /\ WF_vars(HandleQueryStream(c))

Spec == Init /\ [][Next]_vars /\ Fairness
-----------------------------------------------------------------------------
CallState == [at : {"idle", "opening", "writing", "reading", "answered", "failed"},
              attempts : 0..maxStreamOpenAttempts, answer : Terms \cup {Null},
              stood : SUBSET Asks, tries : 0..MaxDeals]
Stream == [up : BOOLEAN, query : BOOLEAN, closed : BOOLEAN, answer : Terms \cup {Null}]
Serving == [at : {"new", "called", "reading"}, ask : {Null}] \cup [at : {"answering"}, ask : Asks]
Deal == [receiver : Nodes, id : Nat, terms : Asks, call : Calls,
         status : {"proposed", "Accepted", "Errored", "refused"}]

TypeOK ==
    /\ ask \in Asks /\ stored \in Asks
    /\ receiver \in BOOLEAN /\ handler \in BOOLEAN /\ crashed \in BOOLEAN
    /\ switching \in {"idle", "starting", "stopping"} /\ stops \in 0..MaxStops
    /\ content \in {"here", "nowhere"}
    /\ query \in [Calls -> CallState]
    /\ stream \in [Calls -> Stream \cup {Null}]
    /\ serving \in [Calls -> Serving \cup {Null}]
    /\ next \in [Nodes -> Nat]
    /\ deals \subseteq Deal

\* The terms a provider accepts from a user that keeps to the answer satisfy
\* CheckDealParams for an ask that was stored while the query ran, whatever
\* SetAsk did since and whichever of its writes failed, though ValidatePull
\* overwrites the outcome of the check (SetAsk, GetAsk, HandleQueryStream)
AcceptedTermsStood ==
    \A d \in deals : d.status = "Accepted" =>
        \E a \in query[d.call].stood : CheckDealParams(a, d.terms)

\* No proposal is refused because of another deal: clients count their deals
\* on their own, and so do their concurrent calls of Retrieve (Retrieve's
\* stored counter, ProviderDealState.Identifier, BeginTracking)
DealsDoNotCollide == \A d \in deals : d.status # "refused"

\* A Query returns, through retries, resets, Stop at any moment and the
\* provider's crash, once the payload is at the provider: without it the
\* provider looks for it for good (openStream, handleNewQueryStream, GetSize)
QueryEnds == \A c \in Calls : Asking(c) /\ content = "here" ~> Ended(c)
=============================================================================
