---------------------------- MODULE MarketProofs ----------------------------
(***************************************************************************)
(* Accepted terms stood while the client asked, and deals do not collide,  *)
(* for every set of calls, nodes and asks and every bound.  The first      *)
(* follows an ask from the datastore through the stream to the proposal;   *)
(* the second rests on the counters alone.                                 *)
(***************************************************************************)
EXTENDS Market, TLAPS

InUse(c) == query[c].at \in {"writing", "reading"}

\* A call that writes or reads, and a goroutine that serves, has a stream
StreamsInv ==
    \A c \in Calls : /\ InUse(c) => stream[c] \in Stream
                     /\ serving[c] # Null => stream[c] \in Stream

\* The way of an ask: from the store to the goroutine, to the stream, to the
\* answer and to the deals
AskInv == ask = stored /\ \A c \in Calls : Asking(c) => stored \in query[c].stood
Stood(c, terms) == \E a \in query[c].stood : terms = QueryResponse(a)
ServingInv ==
    \A c \in Calls : /\ InUse(c) /\ serving[c] # Null /\ serving[c].at = "answering"
                     => serving[c].ask \in query[c].stood
StreamInv == \A c \in Calls : InUse(c) /\ stream[c].answer # Null => Stood(c, stream[c].answer)
AnswerInv == \A c \in Calls : query[c].at = "answered" => Stood(c, query[c].answer)
ProposedStood ==
    \A d \in deals : /\ query[d.call].at = "answered"
                     /\ \E a \in query[d.call].stood : CheckDealParams(a, d.terms)

\* Ids are below their node's counter, and no two deals have the same
CountedInv == \A d \in deals : d.id < next[d.receiver]
IdentifierInv == \A d, e \in deals : Identifier(d) = Identifier(e) => d = e
-----------------------------------------------------------------------------
(* Types *)

LEMMA InitTyped == Init => TypeOK /\ StreamsInv
<1> SUFFICES ASSUME Init PROVE TypeOK /\ StreamsInv OBVIOUS
<1>1. NoQuery \in CallState BY MarketAssumption DEF NoQuery, CallState
<1>2. StreamsInv BY DEF Init, StreamsInv, InUse, NoQuery
<1>3. 0 \in 0..MaxStops BY MarketAssumption
<1>4. TypeOK BY <1>1, <1>3, MarketAssumption DEF Init, TypeOK
<1> QED BY <1>2, <1>4

\* A provider's step that is not the handler's leaves calls and streams alone,
\* but for what SetAsk adds to the asks that stood.
LEMMA ProviderTyped ==
    ASSUME TypeOK, StreamsInv,
           (\E a \in Asks, put \in BOOLEAN : SetAsk(a, put)) \/ AddFile \/ StartStop
    PROVE  TypeOK' /\ StreamsInv'
<1>1. CASE \E a \in Asks, put \in BOOLEAN : SetAsk(a, put)
  <2>1. PICK a \in Asks, put \in BOOLEAN : SetAsk(a, put) BY <1>1
  <2>2. ask' \in Asks /\ stored' \in Asks BY <2>1 DEF SetAsk, saveAsk, TypeOK
  <2>3. /\ query' \in [Calls -> CallState]
        /\ \A c \in Calls : query'[c].at = query[c].at
    <3>1. SUFFICES ASSUME NEW c \in Calls
                   PROVE  query'[c] \in CallState /\ query'[c].at = query[c].at
      BY <2>1 DEF SetAsk
    <3>2. query[c] \in CallState BY DEF TypeOK
    <3>3. query'[c] \in {query[c], [query[c] EXCEPT !.stood = @ \cup {stored'}]}
      BY <2>1 DEF SetAsk
    <3> QED BY <2>2, <3>2, <3>3 DEF CallState
  <2> QED BY <2>1, <2>2, <2>3 DEF SetAsk, TypeOK, StreamsInv, InUse, dealVars
<1>2. CASE AddFile
  BY <1>2 DEF AddFile, TypeOK, StreamsInv, InUse, queryVars, dealVars
<1>3. CASE StartStop
  <2>1. stops' \in 0..MaxStops
    BY <1>3, MarketAssumption DEF StartStop, Start, Stop, SetHandler, TypeOK
  <2> QED BY <1>3, <2>1
          DEF StartStop, Start, Stop, SetHandler, TypeOK, StreamsInv, InUse, queryVars, dealVars
<1> QED BY <1>1, <1>2, <1>3

\* One call's entries change at a time.
LEMMA QueryTyped ==
    ASSUME TypeOK, StreamsInv, NEW c \in Calls, StartQuery(c) \/ Query(c) \/ BreakStream(c)
    PROVE  TypeOK' /\ StreamsInv'
<1> query[c] \in CallState /\ stream[c] \in Stream \cup {Null} BY DEF TypeOK
<1> USE MarketAssumption
<1>1. CASE StartQuery(c)
  <2>1. query' = [query EXCEPT ![c] = [query[c] EXCEPT !.at = "opening", !.stood = {stored}]]
    BY <1>1 DEF StartQuery, TypeOK
  <2> QED BY <1>1, <2>1 DEF StartQuery, TypeOK, StreamsInv, InUse, CallState, providerVars, dealVars
<1>2. CASE OpenStream(c)
  <2>1. NewStream \in Stream /\ [at |-> "new", ask |-> Null] \in Serving
    BY DEF NewStream, Stream, Serving
  <2>2. query' = [query EXCEPT ![c] = [query[c] EXCEPT !.at = "writing", !.attempts = 0]]
    BY <1>2 DEF OpenStream, TypeOK
  <2> QED BY <1>2, <2>1, <2>2
          DEF OpenStream, TypeOK, StreamsInv, InUse, CallState, providerVars, dealVars
<1>3. CASE FailToOpen(c)
  <2>1. Retry(query[c]) \in CallState /\ Retry(query[c]).at \in {"opening", "failed"}
    BY <1>3 DEF FailToOpen, Retry, CallState, Failed, NoQuery
  <2> QED BY <1>3, <2>1 DEF FailToOpen, TypeOK, StreamsInv, InUse, providerVars, dealVars
<1>4. CASE WriteQuery(c)
  <2>1. stream[c] \in Stream BY <1>4 DEF WriteQuery, StreamsInv, InUse
  <2>2. Failed \in CallState BY DEF CallState, Failed, NoQuery
  <2>3. [query[c] EXCEPT !.at = "reading"] \in CallState BY DEF CallState
  <2>4. [stream[c] EXCEPT !.query = TRUE] \in Stream BY <2>1 DEF Stream
  <2> QED BY <1>4, <2>1, <2>2, <2>3, <2>4
          DEF WriteQuery, TypeOK, StreamsInv, InUse, Failed, NoQuery, providerVars, dealVars
<1>5. CASE ReadQueryResponse(c)
  <2>1. stream[c] \in Stream BY <1>5 DEF ReadQueryResponse, StreamsInv, InUse
  <2>2. Failed \in CallState BY DEF CallState, Failed, NoQuery
  <2>3. stream[c].answer \in Terms \cup {Null} BY <2>1 DEF Stream
  <2>4. [query[c] EXCEPT !.at = "answered", !.answer = stream[c].answer] \in CallState
    BY <2>3 DEF CallState
  <2> QED BY <1>5, <2>2, <2>4
          DEF ReadQueryResponse, TypeOK, StreamsInv, InUse, Failed, NoQuery, providerVars, dealVars
<1>6. CASE BreakStream(c)
  <2>1. stream[c] \in Stream BY <1>6 DEF BreakStream, StreamsInv, InUse
  <2>2. [stream[c] EXCEPT !.up = FALSE] \in Stream BY <2>1 DEF Stream
  <2> QED BY <1>6, <2>2 DEF BreakStream, TypeOK, StreamsInv, InUse, providerVars, dealVars
<1> QED BY <1>1, <1>2, <1>3, <1>4, <1>5, <1>6 DEF Query

LEMMA ServingTyped ==
    ASSUME TypeOK, StreamsInv, NEW c \in Calls, HandleQueryStream(c)
    PROVE  TypeOK' /\ StreamsInv'
<1>1. serving[c] # Null /\ serving[c] \in Serving /\ stream[c] \in Stream
  BY DEF HandleQueryStream, HandleNewQueryStream, CallReceiver, ReadQuery, WriteQueryResponse,
         TypeOK, StreamsInv
<1>2. /\ crashed' \in BOOLEAN
      /\ stream' \in [Calls -> Stream \cup {Null}]
      /\ serving' \in [Calls -> Serving \cup {Null}]
      /\ \A d \in Calls : stream[d] \in Stream => stream'[d] \in Stream
      /\ \A d \in Calls : serving'[d] # Null => serving[d] # Null
  <2>1. CASE HandleNewQueryStream(c)
    <3>1. [serving[c] EXCEPT !.at = "called"] \in Serving
      BY <1>1, <2>1 DEF HandleNewQueryStream, Serving
    <3>2. [stream[c] EXCEPT !.up = FALSE] \in Stream BY <1>1 DEF Stream
    <3> QED BY <1>1, <2>1, <3>1, <3>2 DEF HandleNewQueryStream, RefuseStream, Served, TypeOK
  <2>2. CASE CallReceiver(c)
    <3>1. CASE receiver
      BY <1>1, <2>2, <3>1 DEF CallReceiver, TypeOK, Serving
    <3>2. CASE ~receiver
      <4>1. \A d \in Calls : stream'[d] \in {stream[d], [stream[d] EXCEPT !.up = FALSE]}
                             /\ (stream[d] = Null => stream'[d] = Null)
        BY <2>2, <3>2 DEF CallReceiver
      <4>2. \A d \in Calls : stream[d] \in Stream => stream'[d] \in Stream
        BY <4>1 DEF Stream
      <4> QED BY <2>2, <3>2, <4>1, <4>2 DEF CallReceiver, TypeOK
    <3> QED BY <3>1, <3>2
  <2>3. CASE ReadQuery(c)
    <3>1. [at |-> "answering", ask |-> GetAsk] \in Serving BY DEF GetAsk, TypeOK, Serving
    <3>2. [stream[c] EXCEPT !.closed = TRUE] \in Stream BY <1>1 DEF Stream
    <3> QED BY <1>1, <2>3, <3>1, <3>2 DEF ReadQuery, Served, TypeOK
  <2>4. CASE WriteQueryResponse(c)
    <3>1. serving[c].ask \in Asks BY <1>1, <2>4 DEF WriteQueryResponse, Serving
    <3> DEFINE answer == IF stream[c].up THEN QueryResponse(serving[c].ask) ELSE Null
    <3>2. answer \in Terms \cup {Null} BY <3>1, MarketAssumption DEF QueryResponse, Terms
    <3>3. [stream[c] EXCEPT !.closed = TRUE, !.answer = answer] \in Stream
      BY <1>1, <3>2 DEF Stream
    <3>4. stream' = [stream EXCEPT ![c] = [stream[c] EXCEPT !.closed = TRUE, !.answer = answer]]
      BY <2>4 DEF WriteQueryResponse, TypeOK
    <3> QED BY <1>1, <2>4, <3>3, <3>4 DEF WriteQueryResponse, Served, TypeOK
  <2> QED BY <2>1, <2>2, <2>3, <2>4 DEF HandleQueryStream
<1> QED BY <1>2 DEF HandleQueryStream, TypeOK, StreamsInv, InUse, dealVars

LEMMA DealsTyped ==
    ASSUME TypeOK, StreamsInv,
           (\E c \in Calls : Retrieve(c)) \/ (\E d \in deals : ValidatePull(d))
    PROVE  TypeOK' /\ StreamsInv'
<1>1. ASSUME NEW c \in Calls, Retrieve(c) PROVE TypeOK' /\ StreamsInv'
  <2>1. query[c] \in CallState /\ Node[c] \in Nodes /\ next[Node[c]] \in Nat
    BY DEF TypeOK, Nodes
  <2>2. [query[c] EXCEPT !.tries = @ + 1] \in CallState
    BY <1>1, <2>1, MarketAssumption DEF Retrieve, CallState
  <2>3. deals' \subseteq Deal BY <1>1, <2>1 DEF Retrieve, TypeOK, Deal
  <2> QED BY <1>1, <2>1, <2>2, <2>3 DEF Retrieve, TypeOK, StreamsInv, InUse, providerVars
<1>2. ASSUME NEW d \in deals, ValidatePull(d) PROVE TypeOK' /\ StreamsInv'
  <2>1. deals' \subseteq Deal BY <1>2 DEF ValidatePull, Respond, BeginTracking, TypeOK, Deal
  <2> QED BY <1>2, <2>1 DEF ValidatePull, TypeOK, StreamsInv, InUse, providerVars, queryVars
<1> QED BY <1>1, <1>2

LEMMA StepTyped ==
    ASSUME TypeOK, StreamsInv, [Next]_vars
    PROVE  TypeOK' /\ StreamsInv'
<1>1. CASE UNCHANGED vars
  BY <1>1 DEF vars, providerVars, queryVars, dealVars, TypeOK, StreamsInv, InUse
<1> QED BY <1>1, ProviderTyped, QueryTyped, ServingTyped, DealsTyped DEF Next

\* Every variable keeps its type, whichever call, stream or store fails
THEOREM TypeCorrect == Spec => []TypeOK
<1>1. TypeOK /\ StreamsInv /\ [Next]_vars => (TypeOK /\ StreamsInv)' BY StepTyped
<1> QED BY InitTyped, <1>1, PTL DEF Spec
-----------------------------------------------------------------------------
(* Terms *)

TermsInv == TypeOK /\ StreamsInv /\ AskInv /\ ServingInv /\ StreamInv /\ AnswerInv /\ ProposedStood

LEMMA InitTerms == Init => TermsInv
BY InitTyped DEF Init, TermsInv, AskInv, ServingInv, StreamInv, AnswerInv, ProposedStood,
                 NoQuery, InUse, Asking

\* SetAsk keeps the two asks alike, whether its Put fails or not, and adds the
\* new one to what stood; the other steps of the provider change no ask.
LEMMA ProviderTerms ==
    ASSUME TermsInv,
           (\E a \in Asks, put \in BOOLEAN : SetAsk(a, put)) \/ AddFile \/ StartStop
    PROVE  AskInv' /\ ServingInv' /\ StreamInv' /\ AnswerInv' /\ ProposedStood'
<1>1. CASE \E a \in Asks, put \in BOOLEAN : SetAsk(a, put)
  <2>1. PICK a \in Asks, put \in BOOLEAN : SetAsk(a, put) BY <1>1
  <2>2. ask' = stored' BY <2>1 DEF SetAsk, saveAsk, TermsInv, AskInv
  <2>3. ASSUME NEW c \in Calls
        PROVE  /\ query'[c].at = query[c].at
               /\ query'[c].answer = query[c].answer
               /\ query[c].stood \subseteq query'[c].stood
               /\ Asking(c) => stored' \in query'[c].stood
    <3>1. query[c] \in CallState BY DEF TermsInv, TypeOK
    <3>2. query'[c] = IF Asking(c) THEN [query[c] EXCEPT !.stood = @ \cup {stored'}]
                                   ELSE query[c]
      BY <2>1 DEF SetAsk
    <3> QED BY <3>1, <3>2 DEF CallState
  <2>4. AskInv' BY <2>2, <2>3 DEF AskInv, Asking
  <2>5. UNCHANGED <<stream, serving, deals>> BY <2>1 DEF SetAsk, dealVars
  <2>6. ServingInv' BY <2>3, <2>5 DEF TermsInv, ServingInv, InUse
  <2>7. StreamInv' BY <2>3, <2>5 DEF TermsInv, StreamInv, Stood, InUse
  <2>8. AnswerInv' BY <2>3 DEF TermsInv, AnswerInv, Stood
  <2>9. \A d \in deals : d.call \in Calls BY DEF TermsInv, TypeOK, Deal
  <2>10. ProposedStood' BY <2>3, <2>5, <2>9 DEF TermsInv, ProposedStood
  <2> QED BY <2>4, <2>6, <2>7, <2>8, <2>10
<1>2. CASE AddFile \/ StartStop
  <2>1. UNCHANGED <<ask, stored, query, stream, serving, deals>>
    BY <1>2 DEF AddFile, StartStop, Start, Stop, SetHandler, queryVars, dealVars
  <2> QED BY <2>1 DEF TermsInv, AskInv, ServingInv, StreamInv, AnswerInv, ProposedStood,
                      InUse, Asking, Stood
<1> QED BY <1>1, <1>2

\* A deal's call was answered, and so it is none of these
LEMMA QueryKeepsDeals ==
    ASSUME TermsInv, NEW c \in Calls, query[c].at # "answered",
           \A d \in Calls : d # c => query'[d] = query[d], deals' = deals
    PROVE  ProposedStood'
<1>1. \A d \in deals : d.call \in Calls /\ d.call # c
  BY DEF TermsInv, TypeOK, Deal, ProposedStood
<1> QED BY <1>1 DEF TermsInv, ProposedStood

LEMMA QueryTerms ==
    ASSUME TermsInv, NEW c \in Calls, StartQuery(c) \/ Query(c) \/ BreakStream(c)
    PROVE  AskInv' /\ ServingInv' /\ StreamInv' /\ AnswerInv' /\ ProposedStood'
<1> query[c] \in CallState /\ query \in [Calls -> CallState]
  BY DEF TermsInv, TypeOK
<1> stream \in [Calls -> Stream \cup {Null}] /\ serving \in [Calls -> Serving \cup {Null}]
  BY DEF TermsInv, TypeOK
<1> USE DEF TermsInv
<1>1. CASE StartQuery(c)
  <2>1. query' = [query EXCEPT ![c] = [query[c] EXCEPT !.at = "opening", !.stood = {stored}]]
    BY <1>1 DEF StartQuery
  <2>2. query[c].at = "idle" /\ UNCHANGED <<ask, stored, stream, serving, deals>>
    BY <1>1 DEF StartQuery, providerVars, dealVars
  <2>3. ProposedStood' BY <2>1, <2>2, QueryKeepsDeals
  <2> QED BY <2>1, <2>2, <2>3
          DEF AskInv, ServingInv, StreamInv, AnswerInv, InUse, Asking, Stood, CallState
<1>2. CASE OpenStream(c)
  <2>1. query' = [query EXCEPT ![c] = [query[c] EXCEPT !.at = "writing", !.attempts = 0]]
    BY <1>2 DEF OpenStream
  <2>2. query[c].at = "opening" /\ UNCHANGED <<ask, stored, deals>>
    BY <1>2 DEF OpenStream, providerVars, dealVars
  <2>3. ProposedStood' BY <2>1, <2>2, QueryKeepsDeals
  <2>4. stream'[c].answer = Null /\ serving'[c].at = "new"
    BY <1>2 DEF OpenStream, NewStream
  <2>5. \A d \in Calls : d # c => stream'[d] = stream[d] /\ serving'[d] = serving[d]
    BY <1>2 DEF OpenStream
  <2> QED BY <2>1, <2>2, <2>3, <2>4, <2>5
          DEF AskInv, ServingInv, StreamInv, AnswerInv, InUse, Asking, Stood, CallState
<1>3. CASE FailToOpen(c)
  <2>1. /\ query' = [query EXCEPT ![c] = Retry(query[c])]
        /\ query[c].at = "opening" /\ UNCHANGED <<ask, stored, stream, serving, deals>>
    BY <1>3 DEF FailToOpen, providerVars, dealVars
  <2>2. \/ Retry(query[c]).at = "failed"
        \/ Retry(query[c]).at = "opening" /\ Retry(query[c]).stood = query[c].stood
    BY <2>1 DEF Retry, Failed, NoQuery, CallState
  <2>3. ProposedStood' BY <2>1, QueryKeepsDeals
  <2> QED BY <2>1, <2>2, <2>3
          DEF AskInv, ServingInv, StreamInv, AnswerInv, InUse, Asking, Stood
<1>4. CASE WriteQuery(c)
  <2>1. /\ query[c].at = "writing" /\ UNCHANGED <<ask, stored, serving, deals>>
        /\ \/ query' = [query EXCEPT ![c] = Failed] /\ UNCHANGED stream
           \/ /\ query' = [query EXCEPT ![c] = [query[c] EXCEPT !.at = "reading"]]
              /\ stream' = [stream EXCEPT ![c] = [stream[c] EXCEPT !.query = TRUE]]
    BY <1>4 DEF WriteQuery, providerVars, dealVars
  <2>2. ProposedStood' BY <2>1, QueryKeepsDeals
  <2>3. stream[c] \in Stream BY <2>1 DEF StreamsInv, InUse
  <2>4. [stream[c] EXCEPT !.query = TRUE].answer = stream[c].answer BY <2>3 DEF Stream
  <2>5. [query[c] EXCEPT !.at = "reading"].stood = query[c].stood
    BY DEF CallState
  <2>6. [query[c] EXCEPT !.at = "reading"].at = "reading" BY DEF CallState
  <2>7. Failed.at = "failed" BY DEF Failed, NoQuery
  <2>8. \A d \in Calls : stream'[d].answer = stream[d].answer BY <2>1, <2>4
  <2>9. \A d \in Calls : \/ query'[d].at = "failed"
                          \/ query'[d] = query[d]
                          \/ /\ query[d].at = "writing" /\ query'[d].at = "reading"
                             /\ query'[d].stood = query[d].stood
    BY <2>1, <2>5, <2>6, <2>7
  <2> QED BY <2>1, <2>2, <2>8, <2>9
          DEF AskInv, ServingInv, StreamInv, AnswerInv, InUse, Asking, Stood
<1>5. CASE ReadQueryResponse(c)
  <2>1. /\ query[c].at = "reading" /\ UNCHANGED <<ask, stored, stream, serving, deals>>
        /\ \/ query' = [query EXCEPT ![c] = Failed]
           \/ /\ stream[c].answer # Null
              /\ query' = [query EXCEPT ![c] =
                             [query[c] EXCEPT !.at = "answered", !.answer = stream[c].answer]]
    BY <1>5 DEF ReadQueryResponse, providerVars, dealVars
  <2>2. ProposedStood' BY <2>1, QueryKeepsDeals
  <2>3. Failed.at = "failed" BY DEF Failed, NoQuery
  <2>4. LET q == [query[c] EXCEPT !.at = "answered", !.answer = stream[c].answer]
        IN  q.at = "answered" /\ q.answer = stream[c].answer /\ q.stood = query[c].stood
    BY DEF CallState
  <2>5. stream[c].answer # Null => Stood(c, stream[c].answer) BY <2>1 DEF StreamInv, InUse
  <2> QED BY <2>1, <2>2, <2>3, <2>4, <2>5
          DEF AskInv, ServingInv, StreamInv, AnswerInv, InUse, Asking, Stood
<1>6. CASE BreakStream(c)
  <2>1. /\ query[c].at \in {"writing", "reading"} /\ UNCHANGED <<ask, stored, query, serving, deals>>
        /\ stream' = [stream EXCEPT ![c] = [stream[c] EXCEPT !.up = FALSE]]
    BY <1>6 DEF BreakStream, providerVars, dealVars
  <2>2. stream[c] \in Stream BY <2>1 DEF StreamsInv, InUse
  <2>3. \A d \in Calls : stream'[d].answer = stream[d].answer BY <2>1, <2>2 DEF Stream
  <2> QED BY <2>1, <2>3
          DEF AskInv, ServingInv, StreamInv, AnswerInv, ProposedStood, InUse, Asking, Stood
<1> QED BY <1>1, <1>2, <1>3, <1>4, <1>5, <1>6 DEF Query

\* The goroutine takes the ask that is stored now, and writes the one it took.
LEMMA ServingTerms ==
    ASSUME TermsInv, NEW c \in Calls, HandleQueryStream(c)
    PROVE  AskInv' /\ ServingInv' /\ StreamInv' /\ AnswerInv' /\ ProposedStood'
<1> stream \in [Calls -> Stream \cup {Null}] /\ serving \in [Calls -> Serving \cup {Null}]
  BY DEF TermsInv, TypeOK
<1>1. serving[c] # Null /\ serving[c] \in Serving /\ stream[c] \in Stream
  BY DEF HandleQueryStream, HandleNewQueryStream, CallReceiver, ReadQuery, WriteQueryResponse,
         TermsInv, StreamsInv
<1>2. UNCHANGED <<ask, stored, query, deals>> BY DEF HandleQueryStream, dealVars
<1>3. AskInv' /\ AnswerInv' /\ ProposedStood'
  BY <1>2 DEF TermsInv, AskInv, AnswerInv, ProposedStood, Asking, Stood
<1>4. \A d \in Calls : InUse(d) /\ serving'[d] # Null /\ serving'[d].at = "answering"
                       => serving'[d] = serving[d] \/ serving'[d].ask = ask
  BY <1>1 DEF HandleQueryStream, HandleNewQueryStream, RefuseStream, Served, CallReceiver,
              ReadQuery, GetAsk, WriteQueryResponse, Serving
<1>5. ServingInv'
  BY <1>2, <1>4 DEF TermsInv, ServingInv, AskInv, InUse, Asking
<1>6. ASSUME NEW d \in Calls, InUse(d), stream'[d].answer # Null
      PROVE  Stood(d, stream'[d].answer)
  <2>1. stream[d] \in Stream BY <1>6 DEF TermsInv, StreamsInv
  <2>2. CASE stream'[d].answer = stream[d].answer
    BY <1>6, <2>2 DEF TermsInv, StreamInv
  <2>3. CASE HandleNewQueryStream(c) \/ CallReceiver(c) \/ ReadQuery(c)
    BY <1>1, <2>1, <2>2, <2>3
       DEF HandleNewQueryStream, RefuseStream, Served, CallReceiver, ReadQuery, Stream
  <2>4. CASE WriteQueryResponse(c)
    <3>1. stream' = [stream EXCEPT ![c] = [stream[c] EXCEPT !.closed = TRUE,
            !.answer = IF stream[c].up THEN QueryResponse(serving[c].ask) ELSE Null]]
      BY <2>4 DEF WriteQueryResponse
    <3>2. CASE d = c
      <4>1. stream'[c].answer = QueryResponse(serving[c].ask)
        BY <1>1, <1>6, <3>1, <3>2 DEF Stream
      <4>2. serving[c].ask \in query[c].stood
        BY <1>6, <2>4, <3>2 DEF WriteQueryResponse, TermsInv, ServingInv
      <4> QED BY <3>2, <4>1, <4>2 DEF Stood
    <3>3. CASE d # c BY <2>2, <3>1, <3>3
    <3> QED BY <3>2, <3>3
  <2> QED BY <2>3, <2>4 DEF HandleQueryStream
<1>7. StreamInv' BY <1>2, <1>6 DEF StreamInv, InUse, Stood
<1> QED BY <1>3, <1>5, <1>7

\* What a user proposes is the answer's terms or better ones.
LEMMA DealTerms ==
    ASSUME TermsInv, (\E c \in Calls : Retrieve(c)) \/ (\E d \in deals : ValidatePull(d))
    PROVE  AskInv' /\ ServingInv' /\ StreamInv' /\ AnswerInv' /\ ProposedStood'
<1>1. ASSUME NEW c \in Calls, Retrieve(c)
      PROVE  AskInv' /\ ServingInv' /\ StreamInv' /\ AnswerInv' /\ ProposedStood'
  <2>1. \A d \in Calls : /\ query'[d].at = query[d].at /\ query'[d].stood = query[d].stood
                         /\ query'[d].answer = query[d].answer
    BY <1>1 DEF Retrieve, TermsInv, TypeOK, CallState
  <2>2. UNCHANGED <<ask, stored, stream, serving>> BY <1>1 DEF Retrieve, providerVars
  <2>3. AskInv' /\ ServingInv' /\ StreamInv' /\ AnswerInv'
    BY <2>1, <2>2 DEF TermsInv, AskInv, ServingInv, StreamInv, AnswerInv, Asking, InUse, Stood
  <2>4. ASSUME NEW d \in deals'
        PROVE  /\ query[d.call].at = "answered" /\ d.call \in Calls
               /\ \E a \in query[d.call].stood : CheckDealParams(a, d.terms)
    <3>1. CASE d \in deals BY <3>1 DEF TermsInv, TypeOK, Deal, ProposedStood
    <3>2. CASE d \notin deals
      <4>1. d.call = c /\ query[c].at = "answered" /\ CheckDealParams(query[c].answer, d.terms)
        BY <1>1, <3>2 DEF Retrieve
      <4>2. PICK a \in query[c].stood : query[c].answer = QueryResponse(a)
        BY <4>1 DEF TermsInv, AnswerInv, Stood
      <4>3. CheckDealParams(a, d.terms)
        BY <4>1, <4>2 DEF CheckDealParams, QueryResponse
      <4> QED BY <4>1, <4>2, <4>3
    <3> QED BY <3>1, <3>2
  <2>5. ProposedStood' BY <2>1, <2>4 DEF ProposedStood
  <2> QED BY <2>3, <2>5
<1>2. ASSUME NEW d \in deals, ValidatePull(d)
      PROVE  AskInv' /\ ServingInv' /\ StreamInv' /\ AnswerInv' /\ ProposedStood'
  <2>1. UNCHANGED <<ask, stored, query, stream, serving>>
    BY <1>2 DEF ValidatePull, providerVars, queryVars
  <2>2. \A e \in deals' : \E f \in deals : e.call = f.call /\ e.terms = f.terms
    BY <1>2 DEF ValidatePull, Respond, TermsInv, TypeOK, Deal
  <2> QED BY <2>1, <2>2 DEF TermsInv, AskInv, ServingInv, StreamInv, AnswerInv, ProposedStood,
                           InUse, Asking, Stood
<1> QED BY <1>1, <1>2

LEMMA StepTerms == TermsInv /\ [Next]_vars => TermsInv'
<1> SUFFICES ASSUME TermsInv, [Next]_vars PROVE TermsInv' OBVIOUS
<1>1. TypeOK' /\ StreamsInv' BY StepTyped DEF TermsInv
<1>2. AskInv' /\ ServingInv' /\ StreamInv' /\ AnswerInv' /\ ProposedStood'
  <2>1. CASE UNCHANGED vars
    BY <2>1 DEF vars, providerVars, queryVars, dealVars, TermsInv, AskInv, ServingInv,
                StreamInv, AnswerInv, ProposedStood, InUse, Asking, Stood
  <2> QED BY <2>1, ProviderTerms, QueryTerms, ServingTerms, DealTerms DEF Next
<1> QED BY <1>1, <1>2 DEF TermsInv

\* The terms of every accepted deal satisfy an ask that was stored while the
\* client's query ran, for any number of clients, asks and SetAsks (SetAsk,
\* HandleQueryStream, Retrieve)
THEOREM TermsStood == Spec => []AcceptedTermsStood
<1>1. TermsInv => AcceptedTermsStood BY DEF TermsInv, ProposedStood, AcceptedTermsStood
<1> QED BY InitTerms, StepTerms, <1>1, PTL DEF Spec
-----------------------------------------------------------------------------
(* Identifiers *)

DealsInv == TypeOK /\ StreamsInv /\ CountedInv /\ IdentifierInv /\ DealsDoNotCollide

LEMMA InitDeals == Init => DealsInv
BY InitTyped DEF Init, DealsInv, CountedInv, IdentifierInv, DealsDoNotCollide

\* A new deal takes the counter's value, which no deal of its node has.
LEMMA RetrieveDeals ==
    ASSUME DealsInv, NEW c \in Calls, Retrieve(c)
    PROVE  CountedInv' /\ IdentifierInv' /\ DealsDoNotCollide'
<1>1. /\ next \in [Nodes -> Nat] /\ Node[c] \in Nodes
      /\ \A d \in deals : d.receiver \in Nodes /\ d.id \in Nat
  BY DEF DealsInv, TypeOK, Deal, Nodes
<1>2. next' = [next EXCEPT ![Node[c]] = @ + 1] BY DEF Retrieve
<1>3. ASSUME NEW d \in deals'
      PROVE  \/ d \in deals
             \/ d.receiver = Node[c] /\ d.id = next[Node[c]] /\ d.status = "proposed"
  BY DEF Retrieve
<1>4. CountedInv' BY <1>1, <1>2, <1>3 DEF DealsInv, CountedInv
<1>5. DealsDoNotCollide' BY <1>3 DEF DealsInv, DealsDoNotCollide
<1>6. \A d, e \in deals' : d \notin deals /\ e \notin deals => d = e BY DEF Retrieve
<1>7. \A d \in deals : ~(d.receiver = Node[c] /\ d.id = next[Node[c]])
  BY <1>1 DEF DealsInv, CountedInv
<1>8. IdentifierInv' BY <1>3, <1>6, <1>7 DEF DealsInv, IdentifierInv, Identifier
<1> QED BY <1>4, <1>5, <1>8

\* A proposal is refused only for an accepted deal with its identifier, which
\* would be the proposal itself.
LEMMA ValidateDeals ==
    ASSUME DealsInv, NEW d \in deals, ValidatePull(d)
    PROVE  CountedInv' /\ IdentifierInv' /\ DealsDoNotCollide'
<1>1. PICK status \in {"Accepted", "Errored", "refused"} :
        /\ status = "refused" =>
             \E e \in deals : e.status = "Accepted" /\ Identifier(e) = Identifier(d)
        /\ deals' = (deals \ {d}) \cup {[d EXCEPT !.status = status]}
  BY DEF ValidatePull, Respond, BeginTracking
<1>2. d.status = "proposed" /\ next' = next BY DEF ValidatePull
<1> DEFINE validated == [d EXCEPT !.status = status]
<1>3. d \in Deal BY DEF DealsInv, TypeOK
<1>4. validated.id = d.id /\ validated.receiver = d.receiver /\ validated.status = status
  BY <1>3 DEF Deal
<1>5. status # "refused" BY <1>1, <1>2 DEF DealsInv, IdentifierInv
<1>6. DealsDoNotCollide' BY <1>1, <1>4, <1>5 DEF DealsInv, DealsDoNotCollide
<1>7. CountedInv' BY <1>1, <1>2, <1>4 DEF DealsInv, CountedInv
<1>8. \A e \in deals : Identifier(validated) = Identifier(e) => e = d
  <2>1. Identifier(validated) = Identifier(d) BY <1>4 DEF Identifier
  <2> QED BY <2>1 DEF DealsInv, IdentifierInv
<1>9. \A e \in deals' : e = validated \/ (e \in deals /\ e # d) BY <1>1
<1>10. \A e, f \in deals : Identifier(e) = Identifier(f) => e = f BY DEF DealsInv, IdentifierInv
<1> HIDE DEF validated
<1>11. ASSUME NEW e \in deals', NEW f \in deals', Identifier(e) = Identifier(f) PROVE e = f
  BY <1>8, <1>9, <1>10, <1>11
<1>12. IdentifierInv' BY <1>11 DEF IdentifierInv, Identifier
<1> QED BY <1>6, <1>7, <1>12

LEMMA StepDeals == DealsInv /\ [Next]_vars => DealsInv'
<1> SUFFICES ASSUME DealsInv, [Next]_vars PROVE DealsInv' OBVIOUS
<1>1. TypeOK' /\ StreamsInv' BY StepTyped DEF DealsInv
<1>2. CountedInv' /\ IdentifierInv' /\ DealsDoNotCollide'
  <2>1. CASE UNCHANGED dealVars
    BY <2>1 DEF dealVars, DealsInv, CountedInv, IdentifierInv, DealsDoNotCollide, Identifier
  <2>2. CASE \E c \in Calls : Retrieve(c) BY <2>2, RetrieveDeals
  <2>3. CASE \E d \in deals : ValidatePull(d) BY <2>3, ValidateDeals
  <2> QED BY <2>1, <2>2, <2>3
          DEF Next, vars, Query, SetAsk, AddFile, StartStop, StartQuery, OpenStream, FailToOpen,
              WriteQuery, ReadQueryResponse, BreakStream, HandleQueryStream
<1> QED BY <1>1, <1>2 DEF DealsInv

\* No proposal is refused for another's sake, for any number of nodes and of
\* concurrent calls on each (Retrieve's counter, ProviderDealState.Identifier)
THEOREM NoCollision == Spec => []DealsDoNotCollide
<1>1. DealsInv => DealsDoNotCollide BY DEF DealsInv
<1> QED BY InitDeals, StepDeals, <1>1, PTL DEF Spec
=============================================================================
