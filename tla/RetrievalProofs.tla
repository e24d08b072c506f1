--------------------------- MODULE RetrievalProofs ---------------------------
(***************************************************************************)
(* One retrieval, for a payload of any size, any prices and intervals:     *)
(* Retrieval's invariants and the refinement of FairExchange.              *)
(***************************************************************************)
EXTENDS Retrieval, ProviderSteps, SequenceTheorems

\* Queues: what is in one, and what may not stand before what
Queue(q) == {q[i] : i \in DOMAIN q}
Ordered(q, R) == \A i, j \in DOMAIN q : i < j => <<q[i], q[j]>> \notin R
-----------------------------------------------------------------------------
(* Queues *)

LEMMA NoQueue == Queue(<<>>) = {} /\ \A R : Ordered(<<>>, R)
<1>1. \A i \in DOMAIN <<>> : FALSE OBVIOUS
<1> QED BY <1>1 DEF Queue, Ordered

LEMMA InQueue ==
    ASSUME NEW S, NEW q \in Seq(S)
    PROVE  Queue(q) \subseteq S /\ (q # <<>> => Head(q) \in Queue(q)) /\ (Queue(q) = {} => q = <<>>)
<1>1. \A i \in DOMAIN q : q[i] \in S OBVIOUS
<1>2. q # <<>> => Head(q) = q[1] /\ 1 \in DOMAIN q BY TailOf
<1> QED BY <1>1, <1>2 DEF Queue

\* The head is taken
LEMMA QueueTaken ==
    ASSUME NEW S, NEW q \in Seq(S), q # <<>>
    PROVE  /\ Head(q) \in S /\ Tail(q) \in Seq(S)
           /\ Queue(q) = {Head(q)} \cup Queue(Tail(q))
<1> DEFINE t == Tail(q)
<1>1. /\ Head(q) = q[1] /\ 1 \in DOMAIN q /\ Head(q) \in S /\ t \in Seq(S)
      /\ \A i \in DOMAIN t : i + 1 \in DOMAIN q /\ t[i] = q[i + 1]
  BY TailOf
<1>2. ASSUME NEW i \in DOMAIN q, i # 1 PROVE i - 1 \in DOMAIN t /\ t[i - 1] = q[i]
  <2>1. DOMAIN q = 1..Len(q) /\ Len(q) \in Nat /\ Len(q) > 0 /\ DOMAIN t = 1..(Len(q) - 1) OBVIOUS
  <2>2. i - 1 \in DOMAIN t BY <1>2, <2>1
  <2> HIDE DEF t
  <2>3. t[i - 1] = q[(i - 1) + 1] /\ i \in Int BY <1>1, <2>1, <2>2
  <2>4. (i - 1) + 1 = i BY <2>3
  <2> QED BY <2>2, <2>3, <2>4
<1> HIDE DEF t
<1>3. Queue(q) = {Head(q)} \cup Queue(t)
  <2>1. ASSUME NEW e \in Queue(q) PROVE e = Head(q) \/ e \in Queue(t)
    <3>1. PICK i \in DOMAIN q : e = q[i] BY DEF Queue
    <3>2. CASE i = 1 BY <1>1, <3>1, <3>2
    <3>3. CASE i # 1 BY <1>2, <3>1, <3>3 DEF Queue
    <3> QED BY <3>2, <3>3
  <2>2. Head(q) \in Queue(q) BY <1>1 DEF Queue
  <2>3. \A e \in Queue(t) : e \in Queue(q) BY <1>1 DEF Queue
  <2> QED BY <2>1, <2>2, <2>3
<1> QED BY <1>1, <1>3 DEF t

LEMMA OrderTaken ==
    ASSUME NEW S, NEW q \in Seq(S), q # <<>>, NEW R, Ordered(q, R)
    PROVE  Ordered(Tail(q), R) /\ \A e \in Queue(Tail(q)) : <<Head(q), e>> \notin R
<1> DEFINE t == Tail(q)
<1>1. /\ Head(q) = q[1] /\ 1 \in DOMAIN q
      /\ \A i \in DOMAIN t : /\ i + 1 \in DOMAIN q /\ t[i] = q[i + 1]
                             /\ i \in Nat /\ 1 < i + 1
  BY TailOf
<1> HIDE DEF t
<1>2. ASSUME NEW i \in DOMAIN t, NEW j \in DOMAIN t, i < j PROVE <<t[i], t[j]>> \notin R
  <2>1. i + 1 < j + 1 BY <1>1, <1>2
  <2> QED BY <1>1, <2>1 DEF Ordered
<1>3. \A e \in Queue(t) : <<Head(q), e>> \notin R BY <1>1 DEF Queue, Ordered
<1> QED BY <1>2, <1>3 DEF t, Ordered

\* An element is added
LEMMA QueueAdded ==
    ASSUME NEW S, NEW q \in Seq(S), NEW x \in S
    PROVE  /\ Append(q, x) \in Seq(S) /\ Append(q, x) # <<>>
           /\ Queue(Append(q, x)) = Queue(q) \cup {x}
<1> DEFINE a == Append(q, x)
<1>1. /\ a \in Seq(S) /\ Len(q) \in Nat /\ DOMAIN q = 1..Len(q) /\ DOMAIN a = 1..(Len(q) + 1)
      /\ \A i \in DOMAIN q : a[i] = q[i]
      /\ a[Len(q) + 1] = x
  OBVIOUS
<1> HIDE DEF a
<1>2. a # <<>>
  <2>1. Len(q) + 1 \in DOMAIN a BY <1>1
  <2>2. \A i \in DOMAIN <<>> : FALSE OBVIOUS
  <2> QED BY <2>1, <2>2
<1>3. \A i \in DOMAIN a : i \in DOMAIN q \/ i = Len(q) + 1 BY <1>1
<1>4. DOMAIN q \subseteq DOMAIN a /\ Len(q) + 1 \in DOMAIN a BY <1>1
<1>5. Queue(a) = Queue(q) \cup {x} BY <1>1, <1>3, <1>4 DEF Queue
<1> QED BY <1>1, <1>2, <1>5 DEF a

LEMMA OrderAdded ==
    ASSUME NEW S, NEW q \in Seq(S), NEW x \in S, NEW R, Ordered(q, R),
           \A e \in Queue(q) : <<e, x>> \notin R
    PROVE  Ordered(Append(q, x), R)
<1> DEFINE a == Append(q, x)
<1>1. /\ Len(q) \in Nat /\ DOMAIN q = 1..Len(q) /\ DOMAIN a = 1..(Len(q) + 1)
      /\ \A i \in DOMAIN q : a[i] = q[i]
      /\ a[Len(q) + 1] = x
  OBVIOUS
<1> HIDE DEF a
<1>2. ASSUME NEW i \in DOMAIN a, NEW j \in DOMAIN a, i < j PROVE <<a[i], a[j]>> \notin R
  <2>1. i \in DOMAIN q BY <1>1, <1>2
  <2>2. j \in DOMAIN q \/ j = Len(q) + 1 BY <1>1
  <2> QED BY <1>1, <1>2, <2>1, <2>2 DEF Queue, Ordered
<1> QED BY <1>2 DEF Ordered, a

\* SendAll adds one event, or two
LEMMA AddedInARow ==
    ASSUME NEW S, NEW q \in Seq(S), NEW x \in S, NEW y \in S
    PROVE  /\ q \o <<x>> = Append(q, x) /\ q \o (<<x>> \o <<>>) = Append(q, x)
           /\ q \o (<<x>> \o <<y>>) = Append(Append(q, x), y)
           /\ q \o <<>> = q
<1>1. q \o <<>> = q /\ \A z \in S : <<z>> \in Seq(S) /\ q \o <<z>> = Append(q, z) OBVIOUS
<1>2. <<x>> \o <<>> = <<x>> OBVIOUS
<1>3. Append(q, x) \in Seq(S) OBVIOUS
<1>4. Append(Append(q, x), y) = (q \o <<x>>) \o <<y>>
  <2>1. \A p \in Seq(S) : p \o <<y>> = Append(p, y) OBVIOUS
  <2> QED BY <1>1, <1>3, <2>1
<1>5. (q \o <<x>>) \o <<y>> = q \o (<<x>> \o <<y>>)
  <2>1. <<x>> \in Seq(S) /\ <<y>> \in Seq(S) BY <1>1
  <2> QED BY <2>1, ConcatAssociative
<1> QED BY <1>1, <1>2, <1>4, <1>5
-----------------------------------------------------------------------------
(* The parts of the invariant: the client, the channel, the provider, and    *)
(* the turns the two take                                                    *)

Worth(n) == PricePerByte * n
WholeBytes(n) == \E k \in Nat : n = Worth(k)

Request(e) == e.name \in {"PaymentRequested", "LastPaymentRequested"}
Voucher(e) == e.name \in {"PaymentSent", "WriteDealPaymentErrored"}
Outcome(e) == e.name \in {"PaymentSent", "WriteDealPaymentErrored", "VoucherShortfall",
                          "BadPaymentRequested", "CreateVoucherFailed"}
Sunk == {"Failing", "Cancelling", "Errored", "Cancelled"}
SendStates == {"SendFunds", "SendFundsLastPayment"}
PayStates == SendStates \cup {"FundsNeeded", "FundsNeededLastPayment", "CheckFunds",
                              "PaymentChannelAddingFunds", "InsufficientFunds"}

\* A voucher was made and the deal does not know yet
Pending == stage = "sent" \/ \E e \in Queue(events) : Voucher(e)

\* The machine asking itself to look again at what was requested
Again(e) == Request(e) /\ e.n = 0
Misplaced == {p \in C!Event \X C!Event : Outcome(p[1]) /\ (Outcome(p[2]) \/ Again(p[2]))}

ClientTyped == /\ deal \in C!ClientDealState /\ events \in Seq(C!Event) /\ stage \in C!Stages
               /\ vouched \in Nat

PaymentInv ==
    /\ stage = "sent" => deal.status \in SendStates
    /\ deal.status \notin Sunk =>
        /\ deal.status \notin SendStates \/ stage \in {"handler", "sent"}
             => \A e \in Queue(events) : ~Outcome(e)
        /\ Ordered(events, Misplaced)
        /\ vouched = deal.fundsSpent + IF Pending THEN deal.paymentRequested ELSE 0
        /\ deal.status \in PayStates => deal.paymentRequested > 0
        /\ \A e \in Queue(events) : Again(e) => deal.paymentRequested > 0

BytesInv ==
    /\ deal.totalReceived <= received
    /\ WholeBytes(deal.paymentRequested)
    /\ \A e \in Queue(events) : /\ e.name = "BlocksReceived" => e.n <= received
                                /\ Request(e) => WholeBytes(e.n)
    /\ deal.fundsSpent = Worth(deal.bytesPaidFor)
    /\ vouched <= Worth(received)

\* The blocks under way lead from what is received to what was sent
AnswerNames == {"Accepted", "Errored", "Cancel", "Error", "Rejected", "Completed",
                "FundsNeeded", "FundsNeededLastPayment"}
Answer == [status : AnswerNames, owed : Nat]
Leads(f) == /\ f \in [0..Len(transit) -> 0..wire]
            /\ f[0] = received /\ f[Len(transit)] = wire
            /\ \A i \in 1..Len(transit) : f[i] = f[i - 1] + transit[i]
ChannelInv ==
    /\ transit \in Seq(Nat) /\ received \in Nat /\ \E f : Leads(f)
    /\ payments \in Seq(Nat) /\ finished \in BOOLEAN
    /\ answers \in Seq(Answer)
    /\ \A a \in Queue(answers) : Asks(a) => a.owed > 0 /\ WholeBytes(a.owed)

\* What is asked for and not yet vouched for, wherever the request is
Asking(e) == Request(e) /\ e.n > 0
TwoAnswers == {p \in Answer \X Answer : Asks(p[1]) /\ Asks(p[2])}
TwoRequests == {p \in C!Event \X C!Event : Asking(p[1]) /\ Asking(p[2])}
AnswersDue == {a.owed : a \in {b \in Queue(answers) : Asks(b)}}
RequestsDue == {e.n : e \in {r \in Queue(events) : Asking(r)}}
DealDue == IF deal.status \in Sunk \/ Pending THEN 0 ELSE deal.paymentRequested
ClientDues == RequestsDue \cup ({DealDue} \ {0})
Dues == AnswersDue \cup ClientDues

\* It is asked for once
OneRequest == Ordered(events, TwoRequests) /\ (RequestsDue # {} => DealDue = 0)
OneInv == OneRequest /\ Ordered(answers, TwoAnswers) /\ (AnswersDue # {} => ClientDues = {})

\* The client's interval, with the payment that is being made
NextInterval == IF Pending /\ deal.paymentRequested >= Worth(deal.currentInterval)
                  THEN deal.currentInterval + PaymentIntervalIncrease ELSE deal.currentInterval
ClientAt(k) == deal.status \notin Sunk => NextInterval = k

\* The vouchers on their way
Falling == {p \in Nat \X Nat : p[1] >= p[2]}
OrderInv ==
    /\ Ordered(payments, Falling)
    /\ \A a \in Queue(payments) : Best < a /\ a <= vouched /\ (reval.pc # "idle" => reval.n < a)
    /\ reval.pc # "idle" => Best < reval.n /\ reval.n <= vouched
    /\ Best <= vouched
-----------------------------------------------------------------------------
(* The provider's queue *)

Reports == {"BlockSent", "PaymentRequested", "BlocksCompleted"}
Has(S) == \E e \in Queue(pevents) : e.name \in S

TooEarly(a, b) ==
    \/ a.name \in Payments \cup {"SyncReval"} /\ b.name \in Reports
    \/ a.name \in Reports \cup {"SyncPull"} /\ b.name \in Payments
    \/ a.name = "PaymentRequested" /\ b.name \in Reports
    \/ a.name = "BlocksCompleted" /\ b.name \in {"BlocksCompleted", "BlockSent"}
    \/ b.name = "Open"
Early == {p \in PEvent \X PEvent : TooEarly(p[1], p[2])}

PQueueInv ==
    /\ Ordered(pevents, Early)
    /\ reval.pc = "answered" => ~Has(Reports)
    /\ pull.pc = "answered" => ~Has(Payments)
    /\ pull.pc # "answered" => pull.snap = {}
    /\ pdeal.status = "New" => ~Has(Reports \cup Payments \cup Syncs)
    /\ \A e \in Queue(pevents) : e.name \in Payments => e.name = "PaymentReceived" /\ e.n > 0

\* As long as blocks can be reported the deal counts them
Sending == flow \in {"running", "paused"} \/ pull.pc # "idle"
LiveInv ==
    /\ pdeal.status \notin {"FundsNeededLastPayment", "Finalizing"}
    /\ pstage = "none" => pdeal.status = "New"
    /\ pull.pc # "idle" => flow \in {"running", "closed"} /\ (pull.op = "block" => pull.n > 0)
    /\ Alive /\ Sending => /\ pdeal.status \in {"New", "Ongoing", "FundsNeeded"}
                           /\ ~Has({"SaveVoucherFailed", "BlocksCompleted"})

\* No more is booked than the bytes counted are worth
PaidInv ==
    /\ 0 <= pdeal.fundsReceived /\ pdeal.fundsReceived <= Worth(pdeal.totalSent)
    /\ WholeBytes(pdeal.fundsReceived)
    /\ \A e \in Queue(pevents) : e.name \in Counts => pdeal.fundsReceived <= Worth(e.n)
    /\ \A c \in track : c.totalPaidFor <= c.totalSent
    /\ \A d \in pull.snap : 0 <= d.fundsReceived /\ d.fundsReceived <= Worth(d.totalSent)
-----------------------------------------------------------------------------
(* The turns of the two *)

\* The price of n bytes covers what was vouched for and what is asked for
Within(n) == vouched <= Worth(n) /\ \A d \in Dues : vouched + d <= Worth(n)

NewTurn ==
    /\ Best = 0 /\ vouched = 0 /\ pdeal.fundsReceived = 0 /\ pdeal.totalSent = 0
    /\ Dues = {} /\ payments = <<>> /\ track = {}
    /\ flow \in {"none", "running", "closed", "completed"}
    /\ pstage = "none" \/ Has({"Open"}) \/ pdeal.currentInterval = PaymentInterval
    /\ ClientAt(PaymentInterval)

\* All that was asked for is vouched for and booked
EvenTurn ==
    /\ Best = vouched /\ pdeal.fundsReceived = vouched /\ Dues = {} /\ payments = <<>>
    /\ reval.pc = "idle" /\ flow \in {"running", "closed", "completed"}
    /\ ClientAt(pdeal.currentInterval)
    /\ \A c \in track : ~c.reload => /\ Worth(c.totalPaidFor) = Best
                                     /\ c.interval = pdeal.currentInterval
    /\ \A d \in pull.snap : d.fundsReceived = Best /\ d.currentInterval = pdeal.currentInterval

\* The price of n bytes is asked for, and perhaps vouched for
AskedTurn(n) ==
    /\ flow \in {"paused", "closed"} /\ pull.pc = "idle"
    /\ Best = pdeal.fundsReceived /\ Within(n)
    /\ vouched = Best \/ Dues = {}
    /\ track # {} /\ \A c \in track : ~c.reload /\ c.totalSent <= n
    /\ Best + Worth(pdeal.currentInterval) <= Worth(n)
    /\ ClientAt(IF vouched > Best /\ vouched - Best >= Worth(pdeal.currentInterval)
                  THEN pdeal.currentInterval + PaymentIntervalIncrease
                  ELSE pdeal.currentInterval)

\* The voucher is stored and not yet booked
PaidTurn ==
    /\ flow \in {"running", "closed", "completed"} /\ reval.pc = "idle"
    /\ payments = <<>> /\ Dues = {}
    /\ vouched = Best /\ Best = Worth(pdeal.totalSent)
    /\ ClientAt(pdeal.currentInterval + PaymentIntervalIncrease)
    /\ \A c \in track : c.reload
    /\ \A e \in Queue(pevents) : e.name \in Payments => pdeal.fundsReceived + e.n = Best

Going == pdeal.status = "Ongoing" /\ ~Has({"BlocksCompleted"})
TurnInv ==
    /\ pdeal.status = "New" => NewTurn
    /\ Going => /\ Worth(pdeal.totalSent) <= pdeal.fundsReceived + Worth(pdeal.currentInterval)
                /\ \A e \in Queue(pevents) : e.name = "BlockSent" =>
                      Worth(e.n) <= pdeal.fundsReceived + Worth(pdeal.currentInterval)
                /\ ~Has({"PaymentRequested"}) => EvenTurn
                /\ \A e \in Queue(pevents) : e.name = "PaymentRequested" => AskedTurn(e.n)
    /\ pdeal.status = "FundsNeeded" /\ ~Has(Payments)
         => AskedTurn(pdeal.totalSent) /\ ~Has(Counts)
    /\ pdeal.status = "FundsNeeded" /\ Has(Payments) => PaidTurn

\* What Revalidate read is still so when it decides
SnapInv ==
    \A d \in reval.snap :
       /\ d.status # "FundsNeededLastPayment"
       /\ pdeal.status = "FundsNeeded" => d.totalSent = pdeal.totalSent
       /\ flow = "paused" => /\ d.status = "FundsNeeded" /\ Within(d.totalSent)
                             /\ \A c \in track : c.totalSent <= d.totalSent
-----------------------------------------------------------------------------
\* An event with a declared name is an event, whatever number it carries.
LEMMA EvType == ASSUME NEW name \in C!EventNames, NEW n \in Nat
                PROVE  C!Ev(name, n) \in C!Event /\ C!Ev(name, n).name = name /\ C!Ev(name, n).n = n
  BY DEF C!Ev, C!Event

\* The event the client's machine is to take
LEMMA EventTaken ==
    ASSUME ClientTyped, events # <<>>
    PROVE  Head(events) \in C!Event /\ Head(events).n \in Nat /\ Tail(events) \in Seq(C!Event)
  <1>1. events \in Seq(C!Event) BY DEF ClientTyped
  <1>2. Head(events) \in C!Event /\ Tail(events) \in Seq(C!Event) BY <1>1, QueueTaken
  <1>3. QED BY <1>2 DEF C!Event

\* The statuses with handlers and those of the payment path are live, and the
\* live and final statuses are apart.
LEMMA StatusFacts == /\ C!CreationStates \subseteq C!Live
                     /\ C!Live \cap C!Final = {}
  BY DEF C!CreationStates, C!Live, C!Final
-----------------------------------------------------------------------------
(* The client's types *)

\* The names the machine declares, spelt out.
LEMMA Names ==
    C!EventNames =
      {"Open", "WriteDealProposalErrored", "DealProposed", "DealNotFound", "DealAccepted",
       "PaymentChannelErrored", "PaymentChannelCreateInitiated", "PaymentChannelAddingFunds",
       "PaymentChannelReady", "AllocateLaneErrored", "LaneAllocated", "DataTransferError",
       "LastPaymentRequested", "PaymentRequested", "AllBlocksReceived", "BlocksReceived",
       "SendFunds", "FundsExpended", "BadPaymentRequested", "CreateVoucherFailed",
       "VoucherShortfall", "WriteDealPaymentErrored", "PaymentSent", "Complete",
       "CompleteVerified", "EarlyTermination", "CancelComplete", "ProviderCancelled",
       "Cancel", "RecheckFunds"}
  BY DEF C!EventNames, C!Sources

\* A transition to a status leaves a well-typed state.
LEMMA EnterType ==
    ASSUME ClientTyped, NEW s \in C!Live \cup C!Final, NEW d \in C!ClientDealState,
           events # <<>>, C!Enter(s, d)
    PROVE  ClientTyped'
  <1>1. [d EXCEPT !.status = s] \in C!ClientDealState
    BY DEF C!ClientDealState
  <1>2. Tail(events) \in Seq(C!Event) /\ <<>> \in Seq(C!Event)
    BY QueueTaken, EmptySeq DEF ClientTyped
  <1>3. QED BY <1>1, <1>2 DEF ClientTyped, C!Enter, C!Stages

\* So does a transition that only records.
LEMMA RecordType ==
    ASSUME ClientTyped, NEW d \in C!ClientDealState, events # <<>>, C!Record(d)
    PROVE  ClientTyped'
  BY QueueTaken DEF ClientTyped, C!Record

\* So does a handler that ends with a Trigger.
LEMMA TriggerType ==
    ASSUME ClientTyped, NEW name \in C!EventNames, C!Trigger(name, 0), vouched' \in Nat,
           UNCHANGED deal
    PROVE  ClientTyped'
  BY QueueAdded, EvType DEF ClientTyped, C!Trigger, C!Stages

\* Initially the client's side has its type.
LEMMA InitType == C!ClientInit => ClientTyped
  <1> SUFFICES ASSUME C!ClientInit PROVE ClientTyped OBVIOUS
  <1>1. deal \in C!ClientDealState
    BY ProviderDealAssumption DEF C!ClientInit, C!ClientDealState, C!Live
  <1>2. C!Ev("Open", 0) \in C!Event BY EvType, Names
  <1>3. events \in Seq(C!Event) BY <1>2 DEF C!ClientInit
  <1>4. stage \in C!Stages /\ vouched \in Nat BY DEF C!ClientInit, C!Stages
  <1>5. QED BY <1>1, <1>3, <1>4 DEF ClientTyped

\* Processing an event keeps the types.
LEMMA ProcessType ==
    ASSUME ClientTyped, C!ProcessEvent
    PROVE  ClientTyped'
  <1> USE StatusFacts
  <1>e. ASSUME NEW name, C!Take(name) PROVE events # <<>> /\ deal.status \in C!Sources[name]
    BY <1>e DEF C!Take
  <1>t. deal \in C!ClientDealState /\ deal.status \in C!Live \cup C!Final
    BY DEF ClientTyped, C!ClientDealState
  <1>h. events # <<>> => Head(events).n \in Nat
    BY EventTaken
  <1>p. PricePerByte \in Nat /\ PricePerByte > 0 /\ PaymentIntervalIncrease \in Nat
    BY ProviderDealAssumption
  <1>1. CASE C!Open BY <1>1, <1>e, <1>t, EnterType DEF C!Open, C!Live
  <1>2. CASE C!DealProposed BY <1>2, <1>e, <1>t, EnterType DEF C!DealProposed, C!Live, C!CreationStates
  <1>3. CASE C!DealNotFound BY <1>3, <1>e, <1>t, EnterType DEF C!DealNotFound, C!Final
  <1>4. CASE C!DealAccepted BY <1>4, <1>e, <1>t, EnterType DEF C!DealAccepted, C!Live, C!CreationStates
  <1>5. CASE C!FailDeal BY <1>5, <1>e, <1>t, EnterType DEF C!FailDeal, C!Live
  <1>6. CASE C!ErrorDeal BY <1>6, <1>e, <1>t, EnterType DEF C!ErrorDeal, C!Final
  <1>7. CASE C!PaymentChannelCreateInitiated
    <2>1. [deal EXCEPT !.waitMsg = TRUE] \in C!ClientDealState BY <1>t DEF C!ClientDealState
    <2>2. QED BY <1>7, <2>1, <1>e, EnterType DEF C!PaymentChannelCreateInitiated, C!Live, C!CreationStates
  <1>8. CASE C!PaymentChannelAddingFunds
    <2>1. [C!WithChannel(deal) EXCEPT !.waitMsg = TRUE] \in C!ClientDealState
      BY <1>t DEF C!ClientDealState, C!WithChannel
    <2>2. QED BY <1>8, <2>1, <1>e, EnterType DEF C!PaymentChannelAddingFunds, C!Live, C!CreationStates
  <1>9. CASE C!PaymentChannelReady
    <2>1. [C!WithChannel(deal) EXCEPT !.waitMsg = FALSE] \in C!ClientDealState
      BY <1>t DEF C!ClientDealState, C!WithChannel
    <2>2. QED BY <1>9, <2>1, <1>e, EnterType DEF C!PaymentChannelReady, C!Live, C!CreationStates
  <1>10. CASE C!LaneAllocated
    <2>1. [deal EXCEPT !.payInfo = "lane"] \in C!ClientDealState BY <1>t DEF C!ClientDealState
    <2>2. QED BY <1>10, <2>1, <1>e, EnterType DEF C!LaneAllocated, C!Live
  <1>11. CASE C!LastPaymentRequested
    <2> DEFINE d == [deal EXCEPT !.paymentRequested = @ + Head(events).n,
                                 !.lastPaymentRequested = TRUE]
    <2>0. Head(events).n \in Nat BY <1>11, <1>e, <1>h DEF C!LastPaymentRequested
    <2> DEFINE d1 == [deal EXCEPT !.paymentRequested = @ + Head(events).n]
    <2>a. d1 \in C!ClientDealState BY <2>0, <1>t DEF C!ClientDealState
    <2>b. d = [d1 EXCEPT !.lastPaymentRequested = TRUE] BY <1>t DEF C!ClientDealState
    <2> HIDE DEF d1
    <2>1. d \in C!ClientDealState BY <2>a, <2>b DEF C!ClientDealState
    <2>2. QED BY <1>11, <2>1, <1>e, EnterType, RecordType DEF C!LastPaymentRequested, C!Live
  <1>12. CASE C!PaymentRequested
    <2> DEFINE d == [deal EXCEPT !.paymentRequested = @ + Head(events).n]
    <2>1. d \in C!ClientDealState BY <1>12, <1>e, <1>t, <1>h DEF C!ClientDealState, C!PaymentRequested
    <2>2. QED BY <1>12, <2>1, <1>e, EnterType, RecordType DEF C!PaymentRequested, C!Live
  <1>13. CASE C!AllBlocksReceived
    <2>1. [deal EXCEPT !.allBlocksReceived = TRUE] \in C!ClientDealState BY <1>t DEF C!ClientDealState
    <2>2. QED BY <1>13, <2>1, <1>e, EnterType, RecordType DEF C!AllBlocksReceived, C!Live
  <1>14. CASE C!BlocksReceived
    <2>1. [deal EXCEPT !.totalReceived = Head(events).n] \in C!ClientDealState
      BY <1>14, <1>e, <1>t, <1>h DEF C!ClientDealState, C!BlocksReceived
    <2>2. QED BY <1>14, <2>1, <1>e, <1>t, EnterType, RecordType DEF C!BlocksReceived
  <1>15. CASE C!SendFundsEvent BY <1>15, <1>e, <1>t, EnterType DEF C!SendFundsEvent, C!Live
  <1>16. CASE C!FundsExpended BY <1>16, <1>e, <1>t, EnterType DEF C!FundsExpended, C!Live
  <1>17. CASE C!VoucherShortfall BY <1>17, <1>e, <1>t, EnterType DEF C!VoucherShortfall, C!Live
  <1>18. CASE C!PaymentSent
    <2> DEFINE paid == deal.paymentRequested \div PricePerByte
               d == [deal EXCEPT
                      !.fundsSpent = @ + deal.paymentRequested,
                      !.currentInterval = IF paid >= @ THEN @ + PaymentIntervalIncrease ELSE @,
                      !.bytesPaidFor = @ + paid,
                      !.paymentRequested = 0]
    <2>1. paid \in Nat BY <1>t, <1>p DEF C!ClientDealState
    <2> HIDE DEF paid
    <2> DEFINE d1 == [deal EXCEPT !.fundsSpent = @ + deal.paymentRequested,
                                  !.bytesPaidFor = @ + paid]
               k == IF paid >= deal.currentInterval
                      THEN deal.currentInterval + PaymentIntervalIncrease
                      ELSE deal.currentInterval
    <2>a. k \in Nat BY <2>1, <1>t, <1>p DEF C!ClientDealState
    <2>c. d = [d1 EXCEPT !.currentInterval = k, !.paymentRequested = 0]
      BY <1>t DEF C!ClientDealState
    <2> DEFINE d0 == [deal EXCEPT !.fundsSpent = @ + deal.paymentRequested]
    <2>d. d0 \in C!ClientDealState BY <1>t DEF C!ClientDealState
    <2>e. d1 = [d0 EXCEPT !.bytesPaidFor = @ + paid] BY <1>t DEF C!ClientDealState
    <2> HIDE DEF d0, d1
    <2>b. d1 \in C!ClientDealState BY <2>1, <2>d, <2>e DEF C!ClientDealState
    <2> HIDE DEF d1, k
    <2>2. d \in C!ClientDealState BY <2>a, <2>b, <2>c DEF C!ClientDealState
    <2> HIDE DEF d
    <2>3. C!Take("PaymentSent") /\ \E s \in C!Live : C!Enter(s, d)
      BY <1>18 DEF C!PaymentSent, C!Live, d, paid
    <2>4. QED BY <2>2, <2>3, <1>e, EnterType
  <1>19. CASE C!Complete BY <1>19, <1>e, <1>t, EnterType DEF C!Complete, C!Live, C!Final
  <1>20. CASE C!CompleteVerified BY <1>20, <1>e, <1>t, EnterType DEF C!CompleteVerified, C!Final
  <1>21. CASE C!CancelComplete BY <1>21, <1>e, <1>t, EnterType DEF C!CancelComplete, C!Final
  <1>22. CASE C!ProviderCancelled
    BY <1>22, <1>e, <1>t, EnterType, RecordType DEF C!ProviderCancelled, C!Final
  <1>23. CASE C!Cancel BY <1>23, <1>e, <1>t, EnterType DEF C!Cancel, C!Live
  <1>24. CASE C!RecheckFunds BY <1>24, <1>e, <1>t, EnterType DEF C!RecheckFunds, C!Live
  <1>25. CASE C!DropEvent BY <1>25, QueueTaken DEF C!DropEvent, ClientTyped
  <1>26. QED
    BY <1>1, <1>2, <1>3, <1>4, <1>5, <1>6, <1>7, <1>8, <1>9, <1>10, <1>11, <1>12, <1>13,
       <1>14, <1>15, <1>16, <1>17, <1>18, <1>19, <1>20, <1>21, <1>22, <1>23, <1>24, <1>25
       DEF C!ProcessEvent

\* Running a handler keeps the types and the deal; at most it queues one event.
LEMMA HandlerType ==
    ASSUME ClientTyped, C!RunHandler
    PROVE  ClientTyped'
  <1> USE Names
  <1>q. ASSUME C!Return, vouched' \in Nat, UNCHANGED deal PROVE ClientTyped'
    BY <1>q DEF C!Return, ClientTyped, C!Stages
  <1>f. ASSUME NEW f, NEW name \in C!EventNames, C!Fault(f, name) PROVE C!Trigger(name, 0)
    BY <1>f DEF C!Fault
  <1>v. vouched \in Nat BY DEF ClientTyped
  <1>1. CASE C!ProposeDeal
    BY <1>1, <1>v, <1>f, TriggerType DEF C!ProposeDeal, ClientTyped, C!Stages
  <1>2. CASE C!ProposeDealDone BY <1>2, <1>v, TriggerType DEF C!ProposeDealDone
  <1>3. CASE C!SetupPaymentChannelStart
    BY <1>3, <1>v, <1>f, TriggerType DEF C!SetupPaymentChannelStart
  <1>4. CASE C!WaitPaymentChannelReady
    BY <1>4, <1>v, <1>f, TriggerType DEF C!WaitPaymentChannelReady
  <1>5. CASE C!AllocateLane BY <1>5, <1>v, <1>f, TriggerType DEF C!AllocateLane
  <1>6. CASE C!Ongoing BY <1>6, <1>v, <1>q, TriggerType DEF C!Ongoing
  <1>7. CASE C!ProcessPaymentRequested
    BY <1>7, <1>v, <1>q, TriggerType DEF C!ProcessPaymentRequested
  <1>8. CASE C!SendFunds
    <2>1. vouched' \in Nat BY <1>8 DEF C!SendFunds, ClientTyped, C!ClientDealState
    <2>2. CASE stage' = "sent" /\ UNCHANGED events
      BY <1>8, <2>1, <2>2 DEF C!SendFunds, ClientTyped, C!Stages
    <2>3. CASE ~(stage' = "sent" /\ UNCHANGED events)
      BY <1>8, <2>1, <2>3, <1>f, TriggerType DEF C!SendFunds
    <2>4. QED BY <2>2, <2>3
  <1>9. CASE C!SendFundsDone BY <1>9, <1>v, TriggerType DEF C!SendFundsDone
  <1>10. CASE C!CheckFunds BY <1>10, <1>v, <1>f, TriggerType DEF C!CheckFunds
  <1>11. CASE C!ReAddFunds BY <1>11, <1>v, <1>f, TriggerType DEF C!ReAddFunds
  <1>12. CASE C!ClientCancelDeal BY <1>12, <1>v, <1>f, TriggerType DEF C!ClientCancelDeal
  <1>13. CASE C!CheckComplete BY <1>13, <1>v, TriggerType DEF C!CheckComplete
  <1>14. QED
    BY <1>1, <1>2, <1>3, <1>4, <1>5, <1>6, <1>7, <1>8, <1>9, <1>10, <1>11, <1>12, <1>13
       DEF C!RunHandler
-----------------------------------------------------------------------------
(* What one step of the client's machine does *)

\* Each event is taken from one of the statuses FsmClientEvents lists for it.
LEMMA TakeSources ==
    /\ C!Take("PaymentChannelAddingFunds") =>
            deal.status \in {"Accepted", "CheckFunds", "InsufficientFunds"}
    /\ C!Take("PaymentChannelReady") =>
            deal.status \in {"PaymentChannelCreating", "PaymentChannelAddingFunds", "CheckFunds"}
    /\ C!Take("LaneAllocated") => deal.status = "PaymentChannelAllocatingLane"
    /\ C!Take("LastPaymentRequested") =>
            deal.status \in {"Ongoing", "FundsNeededLastPayment", "FundsNeeded"} \cup C!CreationStates
    /\ C!Take("PaymentRequested") =>
            deal.status \in {"Ongoing", "FundsNeeded"} \cup C!CreationStates
    /\ C!Take("AllBlocksReceived") =>
            deal.status \in {"Ongoing", "BlocksComplete", "SendFunds", "FundsNeeded",
                             "FundsNeededLastPayment"} \cup C!CreationStates
    /\ C!Take("BlocksReceived") =>
            deal.status \in {"Ongoing", "FundsNeeded", "FundsNeededLastPayment"} \cup C!CreationStates
    /\ C!Take("SendFunds") => deal.status \in {"FundsNeeded", "FundsNeededLastPayment"}
    /\ C!Take("FundsExpended") => deal.status = "CheckFunds"
    /\ C!Take("VoucherShortfall") => deal.status \in {"SendFunds", "SendFundsLastPayment"}
    /\ C!Take("PaymentSent") => deal.status \in {"SendFunds", "SendFundsLastPayment"}
    /\ C!Take("RecheckFunds") => deal.status = "InsufficientFunds"
    /\ C!Take("Open") => deal.status = "New"
    /\ C!Take("DealProposed") => deal.status = "New"
    /\ C!Take("DealNotFound") => deal.status = "WaitForAcceptance"
    /\ C!Take("DealAccepted") => deal.status = "WaitForAcceptance"
    /\ C!Take("PaymentChannelCreateInitiated") => deal.status = "Accepted"
    /\ C!Take("Complete") => deal.status \in {"Ongoing", "Finalizing"}
    /\ C!Take("CompleteVerified") => deal.status = "CheckComplete"
    /\ C!Take("ProviderCancelled") => deal.status \in C!Live
    /\ C!Take("Cancel") => deal.status \in C!Live
    /\ C!Take("CancelComplete") => deal.status \in {"Failing", "Cancelling"}
  BY DEF C!Take, C!Sources

\* The numbers of the deal stay as they are
SameMoney == /\ deal'.paymentRequested = deal.paymentRequested
             /\ deal'.fundsSpent = deal.fundsSpent
             /\ deal'.bytesPaidFor = deal.bytesPaidFor
             /\ deal'.currentInterval = deal.currentInterval

\* An event without money in it: where it takes a deal that pays or comes to pay
Passes ==
    LET h == Head(events)
    IN  /\ SameMoney
        /\ deal.status \in Sunk => deal'.status \in Sunk
        /\ deal'.status \in PayStates => deal.status \in PayStates
        /\ deal.status \notin SendStates /\ deal'.status \in SendStates => stage' = "handler"
        /\ deal.status \in SendStates =>
              \/ deal'.status \in Sunk
              \/ deal'.status = deal.status /\ ~Outcome(h) /\ stage' = "idle"
              \/ deal'.status \notin SendStates /\ h.name = "VoucherShortfall"

\* A request is added to what is requested
TakesRequest ==
    LET h == Head(events)
    IN  /\ Request(h)
        /\ deal.status \notin Sunk \cup SendStates /\ deal'.status \notin Sunk \cup SendStates
        /\ deal'.status \in PayStates \/ deal'.status = deal.status
        /\ deal'.paymentRequested = deal.paymentRequested + h.n
        /\ deal'.fundsSpent = deal.fundsSpent
        /\ deal'.bytesPaidFor = deal.bytesPaidFor
        /\ deal'.currentInterval = deal.currentInterval

\* PaymentSent books the payment
TakesPayment ==
    LET paid == deal.paymentRequested \div PricePerByte
    IN  /\ Head(events).name = "PaymentSent"
        /\ deal.status \in SendStates /\ deal'.status \notin Sunk \cup PayStates
        /\ deal'.paymentRequested = 0
        /\ deal'.fundsSpent = deal.fundsSpent + deal.paymentRequested
        /\ deal'.bytesPaidFor = deal.bytesPaidFor + paid
        /\ deal'.currentInterval = IF paid >= deal.currentInterval
                                     THEN deal.currentInterval + PaymentIntervalIncrease
                                     ELSE deal.currentInterval

\* The event is taken from the queue, and a byte count replaces the total
TakesEvent ==
    /\ events # <<>> /\ stage = "idle" /\ stage' \in {"idle", "handler", "terminated"}
    /\ UNCHANGED vouched
    /\ events' = Tail(events) \/ (events' = <<>> /\ deal'.status \in C!Final)
    /\ \/ deal'.totalReceived = deal.totalReceived
       \/ Head(events).name = "BlocksReceived" /\ deal'.totalReceived = Head(events).n

LEMMA EnterShape ==
    ASSUME NEW s, NEW d \in C!ClientDealState, C!Enter(s, d)
    PROVE  /\ deal'.status = s /\ deal'.totalReceived = d.totalReceived
           /\ deal'.bytesPaidFor = d.bytesPaidFor /\ deal'.currentInterval = d.currentInterval
           /\ deal'.paymentRequested = d.paymentRequested /\ deal'.fundsSpent = d.fundsSpent
           /\ stage' \in {"idle", "handler", "terminated"} /\ UNCHANGED vouched
           /\ s \in SendStates => stage' = "handler"
           /\ events' = Tail(events) \/ (events' = <<>> /\ deal'.status \in C!Final)
  BY DEF C!Enter, C!ClientDealState, SendStates, C!HasHandler, C!Live, C!CreationStates, C!Final

\* Every event does one of these.
LEMMA ProcessShape ==
    ASSUME ClientTyped, C!ProcessEvent
    PROVE  TakesEvent /\ (Passes \/ TakesRequest \/ TakesPayment)
  <1>t. deal \in C!ClientDealState BY DEF ClientTyped
  <1>d. ASSUME NEW d \in C!ClientDealState, NEW name, C!Take(name), NEW s, C!Enter(s, d),
               d.totalReceived = deal.totalReceived, d.bytesPaidFor = deal.bytesPaidFor,
               d.currentInterval = deal.currentInterval,
               d.paymentRequested = deal.paymentRequested, d.fundsSpent = deal.fundsSpent,
               deal.status \in Sunk => s \in Sunk,
               s \in PayStates => deal.status \in PayStates,
               deal.status \in SendStates => s \in Sunk \/ (s \notin SendStates /\ name = "VoucherShortfall")
        PROVE  TakesEvent /\ Passes
    <2>1. events # <<>> /\ stage = "idle" /\ Head(events).name = name BY <1>d DEF C!Take
    <2>2. TakesEvent BY <1>d, <2>1, EnterShape DEF TakesEvent
    <2>3. SameMoney /\ deal'.status = s /\ (s \in SendStates => stage' = "handler")
      BY <1>d, EnterShape DEF SameMoney
    <2>4. Passes BY <1>d, <2>1, <2>3 DEF Passes
    <2> QED BY <2>2, <2>4
  <1>s. ASSUME NEW name, C!Take(name), NEW s, C!Enter(s, deal),
               deal.status \in Sunk => s \in Sunk, s \in PayStates => deal.status \in PayStates,
               deal.status \in SendStates => s \in Sunk \/ (s \notin SendStates /\ name = "VoucherShortfall")
        PROVE  TakesEvent /\ Passes
    BY <1>s, <1>d, <1>t
  <1>k. ASSUME NEW name, C!Take(name), NEW s \in Sunk, C!Enter(s, deal)
        PROVE  TakesEvent /\ Passes
    <2>1. s \notin PayStates BY <1>k DEF Sunk, PayStates, SendStates
    <2> QED BY <1>k, <2>1, <1>s
  <1>f. "Failing" \in Sunk /\ "Errored" \in Sunk /\ "Cancelling" \in Sunk BY DEF Sunk
  <1>r. ASSUME C!Record(deal), NEW name, C!Take(name), deal.status \notin SendStates
        PROVE  TakesEvent /\ Passes
    BY <1>r DEF C!Record, C!Take, TakesEvent, Passes, SameMoney
  <1> USE <1>t, TakeSources DEF Sunk, SendStates, PayStates, C!CreationStates
  <1>1. CASE C!Open BY <1>1, <1>s DEF C!Open
  <1>2. CASE C!DealProposed BY <1>2, <1>s DEF C!DealProposed
  <1>3. CASE C!DealNotFound BY <1>3, <1>s DEF C!DealNotFound
  <1>4. CASE C!DealAccepted BY <1>4, <1>s DEF C!DealAccepted
  <1>5. CASE C!FailDeal BY ONLY <1>5, <1>k, <1>f DEF C!FailDeal
  <1>6. CASE C!ErrorDeal BY ONLY <1>6, <1>k, <1>f DEF C!ErrorDeal
  <1>7. CASE C!PaymentChannelCreateInitiated
    <2>1. [deal EXCEPT !.waitMsg = TRUE] \in C!ClientDealState BY DEF C!ClientDealState
    <2> QED BY <1>7, <2>1, <1>d DEF C!PaymentChannelCreateInitiated, C!ClientDealState
  <1>8. CASE C!PaymentChannelAddingFunds
    <2> DEFINE d == [C!WithChannel(deal) EXCEPT !.waitMsg = TRUE]
    <2>1. /\ d \in C!ClientDealState /\ d.totalReceived = deal.totalReceived
          /\ d.bytesPaidFor = deal.bytesPaidFor /\ d.currentInterval = deal.currentInterval
          /\ d.paymentRequested = deal.paymentRequested /\ d.fundsSpent = deal.fundsSpent
      BY DEF C!ClientDealState, C!WithChannel
    <2>2. C!Take("PaymentChannelAddingFunds") /\ \E s : C!Enter(s, d) /\
             s = IF deal.status = "Accepted" THEN "PaymentChannelAllocatingLane"
                                             ELSE "PaymentChannelAddingFunds"
      BY <1>8 DEF C!PaymentChannelAddingFunds
    <2> HIDE DEF d
    <2> QED BY <2>1, <2>2, <1>d
  <1>9. CASE C!PaymentChannelReady
    <2> DEFINE d == [C!WithChannel(deal) EXCEPT !.waitMsg = FALSE]
    <2>1. /\ d \in C!ClientDealState /\ d.totalReceived = deal.totalReceived
          /\ d.bytesPaidFor = deal.bytesPaidFor /\ d.currentInterval = deal.currentInterval
          /\ d.paymentRequested = deal.paymentRequested /\ d.fundsSpent = deal.fundsSpent
      BY DEF C!ClientDealState, C!WithChannel
    <2>2. C!Take("PaymentChannelReady") /\ \E s : C!Enter(s, d) /\
             s = IF deal.status = "PaymentChannelCreating"
                   THEN "PaymentChannelAllocatingLane" ELSE "Ongoing"
      BY <1>9 DEF C!PaymentChannelReady
    <2> HIDE DEF d
    <2> QED BY <2>1, <2>2, <1>d
  <1>10. CASE C!LaneAllocated
    <2>1. [deal EXCEPT !.payInfo = "lane"] \in C!ClientDealState BY DEF C!ClientDealState
    <2> QED BY <1>10, <2>1, <1>d DEF C!LaneAllocated, C!ClientDealState
  <1>11. CASE C!LastPaymentRequested
    <2> QED BY <1>11 DEF C!LastPaymentRequested, C!Enter, C!Record, C!Take, C!ClientDealState,
                        TakesEvent, TakesRequest, Request, C!Final, C!HasHandler, C!Live
  <1>12. CASE C!PaymentRequested
    <2> QED BY <1>12 DEF C!PaymentRequested, C!Enter, C!Record, C!Take, C!ClientDealState,
                        TakesEvent, TakesRequest, Request, C!Final, C!HasHandler, C!Live
  <1>13. CASE C!AllBlocksReceived
    <2> QED BY <1>13 DEF C!AllBlocksReceived, C!Enter, C!Record, C!Take, C!ClientDealState,
                        TakesEvent, Passes, SameMoney, Outcome, C!Final, C!HasHandler, C!Live
  <1>14. CASE C!BlocksReceived
    <2> QED BY <1>14 DEF C!BlocksReceived, C!Enter, C!Record, C!Take, C!ClientDealState,
                        TakesEvent, Passes, SameMoney, Outcome, C!Final, C!HasHandler, C!Live
  <1>15. CASE C!SendFundsEvent BY <1>15, <1>s DEF C!SendFundsEvent
  <1>16. CASE C!FundsExpended BY <1>16, <1>s DEF C!FundsExpended
  <1>17. CASE C!VoucherShortfall BY <1>17, <1>s DEF C!VoucherShortfall
  <1>18. CASE C!PaymentSent
    <2> QED BY <1>18 DEF C!PaymentSent, C!Enter, C!Take, C!ClientDealState,
                        TakesEvent, TakesPayment, C!Final, C!HasHandler, C!Live
  <1>19. CASE C!Complete BY <1>19, <1>s DEF C!Complete
  <1>20. CASE C!CompleteVerified BY <1>20, <1>s DEF C!CompleteVerified
  <1>21. CASE C!CancelComplete BY <1>21, <1>s DEF C!CancelComplete
  <1>22. CASE C!ProviderCancelled BY <1>22, <1>k, <1>r, <1>f DEF C!ProviderCancelled
  <1>23. CASE C!Cancel BY ONLY <1>23, <1>k, <1>f DEF C!Cancel
  <1>24. CASE C!RecheckFunds BY <1>24, <1>s DEF C!RecheckFunds
  <1>25. CASE C!DropEvent BY <1>25 DEF C!DropEvent, C!Sources, C!ClientDealState, C!Live, TakesEvent, Passes, SameMoney, Outcome
  <1> QED
    BY <1>1, <1>2, <1>3, <1>4, <1>5, <1>6, <1>7, <1>8, <1>9, <1>10, <1>11, <1>12, <1>13, <1>14, <1>15, <1>16, <1>17, <1>18, <1>19, <1>20, <1>21, <1>22, <1>23, <1>24, <1>25
       DEF C!ProcessEvent

\* A handler without money in it returns, or queues one event for the machine
Says ==
    /\ UNCHANGED <<deal, vouched>> /\ stage \in {"handler", "opened"}
    /\ \/ UNCHANGED events /\ stage' \in {"idle", "opened"} /\ deal.status \notin SendStates
       \/ \E name \in C!EventNames :
            /\ events' = Append(events, C!Ev(name, 0)) /\ stage' = "idle"
            /\ name \notin {"BlocksReceived", "PaymentSent", "WriteDealPaymentErrored"}
            /\ Outcome(C!Ev(name, 0)) => deal.status \in SendStates /\ stage = "handler"
            /\ Request(C!Ev(name, 0)) => deal.status = "Ongoing" /\ deal.paymentRequested > 0

\* SendFunds makes a voucher, and sends it or fails to
Vouches ==
    /\ stage = "handler" /\ deal.status \in SendStates /\ ~C!TooMuchRequested
    /\ vouched' = deal.fundsSpent + deal.paymentRequested /\ UNCHANGED deal
    /\ \/ stage' = "sent" /\ UNCHANGED events
       \/ stage' = "idle" /\ events' = Append(events, C!Ev("WriteDealPaymentErrored", 0))

\* And is done
SaysSent ==
    /\ stage = "sent" /\ stage' = "idle" /\ UNCHANGED <<deal, vouched>>
    /\ events' = Append(events, C!Ev("PaymentSent", 0))

\* Every handler does one of these.
LEMMA HandlerShape ==
    ASSUME ClientTyped, C!RunHandler
    PROVE  Says \/ Vouches \/ SaysSent
  <1> USE Names DEF C!Trigger, C!Fault, C!Return, C!Running, Outcome, Request, SendStates, C!Ev
  <1>1. CASE C!ProposeDeal BY <1>1 DEF C!ProposeDeal, Says
  <1>2. CASE C!ProposeDealDone BY <1>2 DEF C!ProposeDealDone, Says
  <1>3. CASE C!SetupPaymentChannelStart BY <1>3 DEF C!SetupPaymentChannelStart, Says
  <1>4. CASE C!WaitPaymentChannelReady BY <1>4 DEF C!WaitPaymentChannelReady, Says
  <1>5. CASE C!AllocateLane BY <1>5 DEF C!AllocateLane, Says
  <1>6. CASE C!Ongoing BY <1>6 DEF C!Ongoing, Says
  <1>7. CASE C!ProcessPaymentRequested BY <1>7 DEF C!ProcessPaymentRequested, Says
  <1>8. CASE C!SendFunds BY <1>8 DEF C!SendFunds, Says, Vouches
  <1>9. CASE C!SendFundsDone BY <1>9 DEF C!SendFundsDone, SaysSent
  <1>10. CASE C!CheckFunds BY <1>10 DEF C!CheckFunds, Says
  <1>11. CASE C!ReAddFunds BY <1>11 DEF C!ReAddFunds, Says
  <1>12. CASE C!ClientCancelDeal BY <1>12 DEF C!ClientCancelDeal, Says
  <1>13. CASE C!CheckComplete BY <1>13 DEF C!CheckComplete, Says
  <1> QED
    BY <1>1, <1>2, <1>3, <1>4, <1>5, <1>6, <1>7, <1>8, <1>9, <1>10, <1>11, <1>12, <1>13
       DEF C!RunHandler
-----------------------------------------------------------------------------
(* Prices *)

LEMMA WorthFacts ==
    /\ PricePerByte \in Nat /\ PricePerByte > 0
    /\ \A n \in Nat : Worth(n) \in Nat
    /\ \A n \in Int : Worth(n) \in Int
    /\ Worth(0) = 0
BY ProviderDealAssumption DEF Worth

LEMMA WorthOrder ==
    ASSUME NEW m \in Int, NEW n \in Int
    PROVE  /\ m <= n <=> Worth(m) <= Worth(n)
           /\ Worth(m + n) = Worth(m) + Worth(n) /\ Worth(m - n) = Worth(m) - Worth(n)
<1> DEFINE p == PricePerByte
<1>1. p \in Nat /\ p > 0 BY ProviderDealAssumption
<1>2. p * (m + n) = p * m + p * n /\ p * (m - n) = p * m - p * n BY <1>1
<1>3. m <= n => p * m <= p * n BY <1>1
<1>4. m > n => p * m > p * n BY <1>1
<1>5. p * m \in Int /\ p * n \in Int BY <1>1
<1> HIDE DEF p
<1>6. p * m > p * n => ~(p * m <= p * n) BY <1>5
<1>7. m <= n \/ m > n OBVIOUS
<1> QED BY <1>2, <1>3, <1>4, <1>6, <1>7 DEF Worth, p

LEMMA PriceDivides ==
    ASSUME NEW n \in Nat, NEW k \in Nat
    PROVE  n \div PricePerByte >= k <=> n >= Worth(k)
<1> DEFINE p == PricePerByte
           d == n \div p
<1>1. p \in Nat /\ p > 0 BY ProviderDealAssumption
<1>2. d \in Nat /\ p * d <= n /\ n < p * (d + 1) BY <1>1
<1>3. Worth(d) <= n /\ n < Worth(d + 1) BY <1>2 DEF Worth
<1> HIDE DEF p, d
<1>4. k <= d <=> Worth(k) <= Worth(d) BY <1>2, WorthOrder
<1>5. d + 1 <= k <=> Worth(d + 1) <= Worth(k) BY <1>2, WorthOrder
<1>6. Worth(k) \in Nat /\ Worth(d) \in Nat /\ Worth(d + 1) \in Nat BY <1>2, WorthFacts
<1> QED BY <1>2, <1>3, <1>4, <1>5, <1>6 DEF d, p

\* A price as a number of bytes
LEMMA WholeBytesFacts ==
    ASSUME NEW n \in Nat, WholeBytes(n)
    PROVE  /\ n \div PricePerByte \in Nat /\ n = Worth(n \div PricePerByte)
           /\ \A k \in Nat : n \div PricePerByte >= k <=> n >= Worth(k)
<1>1. PICK k \in Nat : n = PricePerByte * k BY DEF WholeBytes, Worth
<1>2. PricePerByte \in Nat /\ PricePerByte > 0 BY ProviderDealAssumption
<1>3. n \div PricePerByte = k BY <1>1, <1>2
<1>4. \A j \in Nat : j <= k <=> Worth(j) <= Worth(k) BY WorthOrder
<1>5. \A j \in Nat : Worth(j) \in Nat BY WorthFacts
<1>6. n = Worth(k) BY <1>1 DEF Worth
<1> QED BY <1>3, <1>4, <1>5, <1>6

LEMMA WholeBytesSum ==
    ASSUME NEW m \in Nat, NEW n \in Nat
    PROVE  /\ WholeBytes(0) /\ WholeBytes(Worth(m))
           /\ WholeBytes(m) /\ WholeBytes(n) => WholeBytes(m + n)
<1>1. WholeBytes(0) BY WorthFacts DEF WholeBytes
<1>2. ASSUME WholeBytes(m), WholeBytes(n) PROVE WholeBytes(m + n)
  <2>1. PICK j \in Nat : m = Worth(j) BY <1>2 DEF WholeBytes
  <2>2. PICK k \in Nat : n = Worth(k) BY <1>2 DEF WholeBytes
  <2>3. Worth(j + k) = m + n BY <2>1, <2>2, WorthOrder
  <2> QED BY <2>3 DEF WholeBytes
<1> QED BY <1>1, <1>2 DEF WholeBytes
-----------------------------------------------------------------------------
(* The client's payments *)

\* A step that pays nothing leaves what was vouched for, and asks for no more
Calm ==
    /\ UNCHANGED vouched
    /\ ClientDues' \subseteq ClientDues
    /\ deal'.status \notin Sunk => deal.status \notin Sunk /\ NextInterval' = NextInterval

\* A payment is for all that is asked for
Pays ==
    /\ DealDue > 0 /\ vouched' = vouched + DealDue
    /\ vouched' <= Worth(received)
    /\ ClientDues' = {} /\ UNCHANGED deal
    /\ NextInterval' = IF DealDue >= Worth(NextInterval)
                         THEN NextInterval + PaymentIntervalIncrease ELSE NextInterval

\* The events left by one that is taken
LEMMA EventsLeft ==
    ASSUME ClientTyped, TakesEvent, OneRequest
    PROVE  /\ Head(events) \in C!Event /\ Head(events) \in Queue(events)
           /\ Queue(events) = {Head(events)} \cup Queue(Tail(events))
           /\ events' \in Seq(C!Event) /\ Queue(events') \subseteq Queue(Tail(events))
           /\ Queue(Tail(events)) \subseteq C!Event
           /\ RequestsDue' \subseteq RequestsDue
           /\ Asking(Head(events)) => RequestsDue' = {} /\ Head(events).n \in RequestsDue
           /\ Ordered(events', TwoRequests)
<1> DEFINE q == events
           h == Head(q)
           t == Tail(q)
<1>1. q \in Seq(C!Event) /\ q # <<>> BY DEF ClientTyped, TakesEvent
<1>2. h \in C!Event /\ t \in Seq(C!Event) /\ Queue(q) = {h} \cup Queue(t) BY <1>1, QueueTaken
<1>3. events' = t \/ events' = <<>> BY DEF TakesEvent
<1>4. events' \in Seq(C!Event) /\ Queue(events') \subseteq Queue(t)
  <2>1. <<>> \in Seq(C!Event) OBVIOUS
  <2> HIDE DEF t
  <2> QED BY <1>2, <1>3, <2>1, NoQueue
<1>5. Ordered(q, TwoRequests) BY DEF OneRequest
<1>6. Ordered(t, TwoRequests) /\ \A e \in Queue(t) : <<h, e>> \notin TwoRequests
  BY <1>1, <1>5, OrderTaken
<1>7. Queue(t) \subseteq C!Event BY <1>2, InQueue
<1>8. Ordered(events', TwoRequests) BY <1>3, <1>6, NoQueue
<1> HIDE DEF q, h, t
<1>9. RequestsDue = {e.n : e \in {r \in Queue(q) : Asking(r)}} BY DEF RequestsDue, q
<1>10. RequestsDue' = {e.n : e \in {r \in Queue(events') : Asking(r)}} BY DEF RequestsDue
<1>11. RequestsDue' \subseteq RequestsDue BY <1>2, <1>4, <1>9, <1>10
<1>12. ASSUME Asking(h) PROVE RequestsDue' = {} /\ h.n \in RequestsDue
  <2>1. \A e \in Queue(t) : ~Asking(e) BY <1>2, <1>6, <1>7, <1>12 DEF TwoRequests
  <2> QED BY <1>2, <1>4, <1>9, <1>10, <1>12, <2>1
<1> QED BY <1>2, <1>4, <1>7, <1>8, <1>11, <1>12 DEF q, h, t

\* Every event keeps the books
LEMMA ProcessPays ==
    ASSUME ClientTyped, ClientTyped', PaymentInv, OneRequest, C!ProcessEvent
    PROVE  PaymentInv' /\ OneRequest' /\ Calm
<1> DEFINE h == Head(events)
           t == Tail(events)
<1>1. TakesEvent /\ (Passes \/ TakesRequest \/ TakesPayment) BY ProcessShape
<1>2. /\ h \in C!Event /\ h \in Queue(events) /\ Queue(events) = {h} \cup Queue(t)
      /\ events' \in Seq(C!Event) /\ Queue(events') \subseteq Queue(t)
      /\ Queue(t) \subseteq C!Event
      /\ RequestsDue' \subseteq RequestsDue
      /\ Asking(h) => RequestsDue' = {} /\ h.n \in RequestsDue
      /\ Ordered(events', TwoRequests)
  BY <1>1, EventsLeft
<1>3. stage = "idle" /\ stage' \in {"idle", "handler", "terminated"} /\ vouched' = vouched
  BY <1>1 DEF TakesEvent
<1>4. /\ deal.paymentRequested \in Nat /\ deal.fundsSpent \in Nat /\ deal.currentInterval \in Nat
      /\ deal.status \in C!Live \cup C!Final /\ h.n \in Nat
      /\ deal'.paymentRequested \in Nat /\ deal'.fundsSpent \in Nat
      /\ deal'.currentInterval \in Nat
  BY <1>2 DEF ClientTyped, C!ClientDealState, C!Event
<1>5. Pending <=> \E e \in Queue(events) : Voucher(e) BY <1>3 DEF Pending
<1>6. Pending' <=> \E e \in Queue(events') : Voucher(e) BY <1>3 DEF Pending
<1>7. \A e : Voucher(e) => Outcome(e) BY DEF Voucher, Outcome
<1>8. RequestsDue # {} => DealDue = 0 BY DEF OneRequest
<1>9. \A e \in RequestsDue : e > 0 BY DEF RequestsDue, Asking
<1> HIDE DEF h, t
<1>10. CASE deal'.status \in Sunk
  <2>1. DealDue' = 0 BY <1>10 DEF DealDue
  <2>2. PaymentInv' BY <1>3, <1>10 DEF PaymentInv
  <2>3. OneRequest' BY <1>2, <2>1 DEF OneRequest
  <2>4. ClientDues' \subseteq ClientDues BY <1>2, <2>1 DEF ClientDues
  <2> QED BY <1>3, <1>10, <2>2, <2>3, <2>4 DEF Calm
<1>11. ASSUME deal'.status \notin Sunk, deal.status \notin Sunk, Ordered(events', Misplaced),
              SameMoney, Pending' <=> Pending,
              deal'.status \in PayStates => deal.status \in PayStates,
              deal'.status \notin SendStates \/ stage' \in {"handler", "sent"}
                => \A e \in Queue(events') : ~Outcome(e)
       PROVE  PaymentInv' /\ OneRequest' /\ Calm
  <2>1. PaymentInv' BY <1>2, <1>3, <1>4, <1>11 DEF PaymentInv, SameMoney
  <2>2. DealDue' = DealDue BY <1>11 DEF DealDue, SameMoney
  <2>3. OneRequest' BY <1>2, <1>8, <2>2 DEF OneRequest
  <2>4. ClientDues' \subseteq ClientDues BY <1>2, <2>2 DEF ClientDues
  <2>5. NextInterval' = NextInterval BY <1>11 DEF NextInterval, SameMoney
  <2> QED BY <1>3, <1>11, <2>1, <2>3, <2>4, <2>5 DEF Calm
<1>12. CASE deal'.status \notin Sunk
  <2>1. deal.status \notin Sunk
    BY <1>1, <1>12 DEF Passes, TakesRequest, TakesPayment, SendStates, Sunk
  <2>2. /\ Ordered(events, Misplaced)
        /\ deal.status \notin SendStates => \A e \in Queue(events) : ~Outcome(e)
        /\ vouched = deal.fundsSpent + IF Pending THEN deal.paymentRequested ELSE 0
        /\ deal.status \in PayStates => deal.paymentRequested > 0
        /\ \A e \in Queue(events) : Again(e) => deal.paymentRequested > 0
    BY <2>1 DEF PaymentInv
  <2>3. /\ Ordered(t, Misplaced)
        /\ Outcome(h) => \A e \in Queue(t) : ~Outcome(e) /\ ~Again(e)
    <3>1. events \in Seq(C!Event) /\ events # <<>> BY <1>1 DEF ClientTyped, TakesEvent
    <3>2. Ordered(t, Misplaced) /\ \A e \in Queue(t) : <<h, e>> \notin Misplaced
      BY <2>2, <3>1, OrderTaken DEF h, t
    <3> QED BY <1>2, <3>2 DEF Misplaced
  <2>4. Ordered(events', Misplaced)
    <3>1. events' = t \/ events' = <<>> BY <1>1 DEF TakesEvent, t
    <3> QED BY <2>3, <3>1, NoQueue
  <2>5. CASE Passes /\ deal.status \notin SendStates
    <3>1. ~Pending /\ ~Pending' BY <1>2, <1>5, <1>6, <1>7, <2>2, <2>5
    <3>2. SameMoney /\ (deal'.status \in PayStates => deal.status \in PayStates)
      BY <2>5 DEF Passes
    <3> QED BY <1>2, <1>11, <1>12, <2>1, <2>2, <2>4, <2>5, <3>1, <3>2
  <2>6. CASE Passes /\ deal.status \in SendStates /\ h.name = "VoucherShortfall"
             /\ deal'.status \notin SendStates
    <3>1. Outcome(h) /\ ~Voucher(h) BY <2>6 DEF Outcome, Voucher
    <3>2. \A e \in Queue(t) : ~Outcome(e) BY <2>3, <3>1
    <3>3. ~Pending /\ ~Pending' BY <1>2, <1>5, <1>6, <1>7, <3>1, <3>2
    <3>4. SameMoney /\ (deal'.status \in PayStates => deal.status \in PayStates)
      BY <2>6 DEF Passes
    <3> QED BY <1>2, <1>11, <1>12, <2>1, <2>4, <3>2, <3>3, <3>4
  <2>7. CASE Passes /\ deal.status \in SendStates /\ deal'.status = deal.status
             /\ ~Outcome(h) /\ stage' = "idle"
    <3>1. events' = t
      <4>1. deal'.status \notin C!Final BY <2>7 DEF SendStates, C!Final
      <4> QED BY <1>1, <4>1 DEF TakesEvent, t
    <3>2. Pending' <=> Pending BY <1>2, <1>5, <1>6, <1>7, <2>7, <3>1
    <3>3. SameMoney BY <2>7 DEF Passes
    <3> QED BY <1>11, <1>12, <2>1, <2>4, <2>7, <3>2, <3>3
  <2>8. CASE TakesRequest
    <3>1. /\ Request(h) /\ deal.status \notin SendStates
          /\ deal'.paymentRequested = deal.paymentRequested + h.n
          /\ deal'.fundsSpent = deal.fundsSpent /\ deal'.currentInterval = deal.currentInterval
          /\ deal'.status \notin SendStates
      BY <2>8 DEF TakesRequest, h
    <3>2. ~Pending /\ ~Pending' BY <1>2, <1>5, <1>6, <1>7, <2>2, <3>1
    <3>3. DealDue = deal.paymentRequested /\ DealDue' = deal'.paymentRequested
      BY <1>12, <2>1, <3>2 DEF DealDue
    <3>4. h.n = 0 => deal.paymentRequested > 0 BY <1>2, <2>2, <3>1 DEF Again
    <3>5. deal'.paymentRequested > 0 BY <1>4, <3>1, <3>4
    <3>6. PaymentInv' BY <1>2, <1>3, <1>4, <2>2, <2>4, <3>1, <3>2, <3>5 DEF PaymentInv
    <3>7. RequestsDue' = {} /\ DealDue' \in ClientDues
      <4>1. CASE h.n = 0
        <5>1. DealDue' = DealDue /\ DealDue > 0 BY <1>4, <3>1, <3>3, <3>4, <4>1
        <5>2. RequestsDue = {} BY <1>8, <5>1
        <5> QED BY <1>2, <5>1, <5>2 DEF ClientDues
      <4>2. CASE h.n # 0
        <5>1. Asking(h) BY <1>4, <3>1, <4>2 DEF Asking
        <5>2. RequestsDue' = {} /\ h.n \in RequestsDue BY <1>2, <5>1
        <5>3. DealDue = 0 BY <1>8, <5>2
        <5>4. DealDue' = h.n BY <1>4, <3>1, <3>3, <5>3
        <5> QED BY <5>2, <5>4 DEF ClientDues
      <4> QED BY <4>1, <4>2
    <3>8. OneRequest' BY <1>2, <3>7 DEF OneRequest
    <3>9. ClientDues' \subseteq ClientDues BY <3>7 DEF ClientDues
    <3>10. NextInterval' = NextInterval BY <3>1, <3>2 DEF NextInterval
    <3> QED BY <1>3, <2>1, <3>6, <3>8, <3>9, <3>10 DEF Calm
  <2>9. CASE TakesPayment
    <3> DEFINE paid == deal.paymentRequested \div PricePerByte
    <3>1. /\ h.name = "PaymentSent" /\ deal.status \in SendStates
          /\ deal'.status \notin PayStates
          /\ deal'.paymentRequested = 0
          /\ deal'.fundsSpent = deal.fundsSpent + deal.paymentRequested
          /\ deal'.currentInterval = IF paid >= deal.currentInterval
                                       THEN deal.currentInterval + PaymentIntervalIncrease
                                       ELSE deal.currentInterval
      BY <2>9 DEF TakesPayment, h
    <3>2. paid >= deal.currentInterval <=> deal.paymentRequested >= Worth(deal.currentInterval)
      BY <1>4, PriceDivides
    <3> HIDE DEF paid
    <3>3. Outcome(h) /\ Voucher(h) BY <3>1 DEF Outcome, Voucher
    <3>4. \A e \in Queue(t) : ~Outcome(e) /\ ~Again(e) BY <2>3, <3>3
    <3>5. Pending /\ ~Pending' BY <1>2, <1>5, <1>6, <1>7, <3>3, <3>4
    <3>6. PaymentInv' BY <1>2, <1>3, <1>4, <2>2, <2>4, <3>1, <3>4, <3>5 DEF PaymentInv, PayStates
    <3>7. DealDue' = 0 BY <3>1 DEF DealDue
    <3>8. OneRequest' BY <1>2, <3>7 DEF OneRequest
    <3>9. ClientDues' \subseteq ClientDues BY <1>2, <3>7 DEF ClientDues
    <3>10. NextInterval' = NextInterval BY <3>1, <3>2, <3>5 DEF NextInterval
    <3> QED BY <1>3, <2>1, <3>6, <3>8, <3>9, <3>10 DEF Calm
  <2>10. Passes => \/ deal.status \notin SendStates
                   \/ h.name = "VoucherShortfall" /\ deal'.status \notin SendStates
                   \/ deal'.status = deal.status /\ ~Outcome(h) /\ stage' = "idle"
    BY <1>12 DEF Passes, h
  <2> QED BY <1>1, <2>5, <2>6, <2>7, <2>8, <2>9, <2>10
<1> QED BY <1>10, <1>12

\* The events with one more
LEMMA EventAdded ==
    ASSUME ClientTyped, NEW e \in C!Event, events' = Append(events, e)
    PROVE  /\ Queue(events') = Queue(events) \cup {e} /\ events' \in Seq(C!Event)
           /\ Queue(events) \subseteq C!Event
           /\ Asking(e) => RequestsDue' = RequestsDue \cup {e.n}
           /\ ~Asking(e) => RequestsDue' = RequestsDue
           /\ Ordered(events, TwoRequests) /\ (Asking(e) => RequestsDue = {})
                => Ordered(events', TwoRequests)
           /\ Ordered(events, Misplaced)
                /\ (Outcome(e) \/ Again(e) => \A f \in Queue(events) : ~Outcome(f))
                => Ordered(events', Misplaced)
<1>1. events \in Seq(C!Event) BY DEF ClientTyped
<1>2. Queue(events') = Queue(events) \cup {e} /\ events' \in Seq(C!Event) BY <1>1, QueueAdded
<1>3. Queue(events) \subseteq C!Event BY <1>1, InQueue
<1>4. RequestsDue' = {r.n : r \in {f \in Queue(events') : Asking(f)}} BY DEF RequestsDue
<1>5. RequestsDue = {r.n : r \in {f \in Queue(events) : Asking(f)}} BY DEF RequestsDue
<1>6. Asking(e) => RequestsDue' = RequestsDue \cup {e.n} BY <1>2, <1>4, <1>5
<1>7. ~Asking(e) => RequestsDue' = RequestsDue BY <1>2, <1>4, <1>5
<1>8. ASSUME Ordered(events, TwoRequests), Asking(e) => RequestsDue = {}
      PROVE  Ordered(events', TwoRequests)
  <2>1. \A f \in Queue(events) : <<f, e>> \notin TwoRequests BY <1>5, <1>8 DEF TwoRequests
  <2> QED BY <1>1, <1>8, <2>1, OrderAdded
<1>9. ASSUME Ordered(events, Misplaced),
             Outcome(e) \/ Again(e) => \A f \in Queue(events) : ~Outcome(f)
      PROVE  Ordered(events', Misplaced)
  <2>1. \A f \in Queue(events) : <<f, e>> \notin Misplaced BY <1>9 DEF Misplaced
  <2> QED BY <1>1, <1>9, <2>1, OrderAdded
<1> QED BY <1>2, <1>3, <1>6, <1>7, <1>8, <1>9

\* An event is queued that says nothing of a voucher
LEMMA AddedCalmly ==
    ASSUME ClientTyped, PaymentInv, OneRequest, NEW e \in C!Event, events' = Append(events, e),
           UNCHANGED <<deal, vouched>>, ~Voucher(e),
           stage' = "sent" <=> stage = "sent",
           Outcome(e) => deal.status \in SendStates /\ stage = "handler" /\ stage' = "idle",
           stage' \in {"handler", "sent"} => stage' = stage,
           Again(e) => deal.status = "Ongoing" /\ deal.paymentRequested > 0,
           Asking(e) => ClientDues = {}
    PROVE  /\ PaymentInv' /\ OneRequest' /\ UNCHANGED DealDue
           /\ ClientDues' \subseteq ClientDues \cup (IF Asking(e) THEN {e.n} ELSE {})
           /\ NextInterval' = NextInterval
<1>1. /\ Queue(events') = Queue(events) \cup {e}
      /\ Asking(e) => RequestsDue' = RequestsDue \cup {e.n}
      /\ ~Asking(e) => RequestsDue' = RequestsDue
      /\ Ordered(events, TwoRequests) /\ (Asking(e) => RequestsDue = {})
           => Ordered(events', TwoRequests)
      /\ Ordered(events, Misplaced)
           /\ (Outcome(e) \/ Again(e) => \A f \in Queue(events) : ~Outcome(f))
           => Ordered(events', Misplaced)
  BY EventAdded
<1>2. Pending' <=> Pending BY <1>1 DEF Pending
<1>3. DealDue' = DealDue BY <1>2 DEF DealDue
<1>4. NextInterval' = NextInterval BY <1>2 DEF NextInterval
<1>5. ClientDues' \subseteq ClientDues \cup (IF Asking(e) THEN {e.n} ELSE {})
  BY <1>1, <1>3 DEF ClientDues
<1>6. OneRequest'
  <2>1. ClientDues = {} => RequestsDue = {} /\ DealDue = 0 BY DEF ClientDues
  <2>2. Ordered(events', TwoRequests) BY <1>1, <2>1 DEF OneRequest
  <2>3. RequestsDue' # {} => DealDue' = 0 BY <1>1, <1>3, <2>1 DEF OneRequest
  <2> QED BY <2>2, <2>3 DEF OneRequest
<1>7. stage' = "sent" => deal'.status \in SendStates BY DEF PaymentInv
<1>8. ASSUME deal'.status \notin Sunk
      PROVE  /\ deal'.status \notin SendStates \/ stage' \in {"handler", "sent"}
                  => \A f \in Queue(events') : ~Outcome(f)
             /\ Ordered(events', Misplaced)
             /\ vouched' = deal'.fundsSpent + IF Pending' THEN deal'.paymentRequested ELSE 0
             /\ deal'.status \in PayStates => deal'.paymentRequested > 0
             /\ \A f \in Queue(events') : Again(f) => deal'.paymentRequested > 0
  <2>1. deal.status \notin Sunk /\ deal' = deal BY <1>8
  <2>2. /\ deal.status \notin SendStates \/ stage \in {"handler", "sent"}
             => \A f \in Queue(events) : ~Outcome(f)
        /\ Ordered(events, Misplaced)
        /\ vouched = deal.fundsSpent + IF Pending THEN deal.paymentRequested ELSE 0
        /\ deal.status \in PayStates => deal.paymentRequested > 0
        /\ \A f \in Queue(events) : Again(f) => deal.paymentRequested > 0
    BY <2>1 DEF PaymentInv
  <2>3. "Ongoing" \notin SendStates BY DEF SendStates
  <2>4. Outcome(e) \/ Again(e) => \A f \in Queue(events) : ~Outcome(f)
    BY <2>2, <2>3
  <2>5. Ordered(events', Misplaced) BY <1>1, <2>2, <2>4
  <2>6. deal'.status \notin SendStates \/ stage' \in {"handler", "sent"}
          => \A f \in Queue(events') : ~Outcome(f)
    BY <1>1, <2>1, <2>2
  <2>7. vouched' = deal'.fundsSpent + IF Pending' THEN deal'.paymentRequested ELSE 0
    BY <1>2, <2>1, <2>2
  <2>8. \A f \in Queue(events') : Again(f) => deal'.paymentRequested > 0
    BY <1>1, <2>1, <2>2
  <2> QED BY <2>1, <2>2, <2>5, <2>6, <2>7, <2>8
<1>9. PaymentInv' BY <1>7, <1>8 DEF PaymentInv
<1> QED BY <1>3, <1>4, <1>5, <1>6, <1>9

\* Every handler keeps the books, and pays what is here
LEMMA HandlerPays ==
    ASSUME ClientTyped, ClientTyped', PaymentInv, BytesInv, OneRequest, received \in Nat,
           C!RunHandler
    PROVE  PaymentInv' /\ OneRequest' /\ UNCHANGED deal /\ (Calm \/ Pays)
           /\ (stage' = "sent" => Pays)
<1>1. Says \/ Vouches \/ SaysSent BY HandlerShape
<1>2. /\ deal.paymentRequested \in Nat /\ deal.fundsSpent \in Nat /\ deal.currentInterval \in Nat
      /\ deal.totalReceived \in Nat /\ deal.bytesPaidFor \in Nat
      /\ vouched \in Nat
  BY DEF ClientTyped, C!ClientDealState
<1>3. \A name \in C!EventNames : /\ C!Ev(name, 0) \in C!Event /\ C!Ev(name, 0).name = name
                                 /\ C!Ev(name, 0).n = 0
  BY EvType
<1>4. "PaymentSent" \in C!EventNames /\ "WriteDealPaymentErrored" \in C!EventNames BY Names
<1>5. RequestsDue # {} => DealDue = 0 BY DEF OneRequest
<1>6. SendStates \cap Sunk = {} /\ SendStates \subseteq PayStates
  BY DEF SendStates, PayStates, Sunk
<1>7. CASE Says
  <2>1. UNCHANGED <<deal, vouched>> /\ stage \in {"handler", "opened"} BY <1>7 DEF Says
  <2>2. CASE UNCHANGED events /\ stage' \in {"idle", "opened"} /\ deal.status \notin SendStates
    <3>1. Pending' <=> Pending BY <2>1, <2>2 DEF Pending
    <3>2. RequestsDue' = RequestsDue /\ DealDue' = DealDue /\ NextInterval' = NextInterval
      BY <2>1, <2>2, <3>1 DEF RequestsDue, DealDue, NextInterval
    <3>3. PaymentInv' BY <2>1, <2>2, <3>1 DEF PaymentInv
    <3>4. OneRequest' BY <2>2, <3>2 DEF OneRequest
    <3>5. ClientDues' = ClientDues BY <3>2 DEF ClientDues
    <3> QED BY <2>1, <2>2, <3>2, <3>3, <3>4, <3>5 DEF Calm
  <2>3. ASSUME NEW name \in C!EventNames,
               events' = Append(events, C!Ev(name, 0)), stage' = "idle",
               name \notin {"BlocksReceived", "PaymentSent", "WriteDealPaymentErrored"},
               Outcome(C!Ev(name, 0)) => deal.status \in SendStates /\ stage = "handler",
               Request(C!Ev(name, 0)) => deal.status = "Ongoing" /\ deal.paymentRequested > 0
        PROVE  PaymentInv' /\ OneRequest' /\ Calm
    <3> DEFINE e == C!Ev(name, 0)
    <3>1. e \in C!Event /\ e.name = name /\ e.n = 0 BY <1>3
    <3>2. ~Voucher(e) /\ ~Asking(e) BY <2>3, <3>1 DEF Voucher, Asking
    <3>3. Again(e) => deal.status = "Ongoing" /\ deal.paymentRequested > 0
      BY <2>3 DEF Again
    <3> HIDE DEF e
    <3>4. Outcome(e) => deal.status \in SendStates /\ stage = "handler" BY <2>3 DEF e
    <3>5. events' = Append(events, e) BY <2>3 DEF e
    <3>6. /\ PaymentInv' /\ OneRequest' /\ ClientDues' \subseteq ClientDues
          /\ NextInterval' = NextInterval
      BY <2>1, <2>3, <3>1, <3>2, <3>3, <3>4, <3>5, AddedCalmly
    <3> QED BY <2>1, <3>6 DEF Calm
  <2>4. stage' # "sent" BY <1>7 DEF Says
  <2>5. deal' = deal BY <2>1
  <2> QED BY <1>7, <2>2, <2>3, <2>4, <2>5 DEF Says
<1>8. CASE Vouches
  <2>1. /\ stage = "handler" /\ deal.status \in SendStates /\ ~C!TooMuchRequested
        /\ vouched' = deal.fundsSpent + deal.paymentRequested /\ deal' = deal
    BY <1>8 DEF Vouches
  <2>2. /\ \A f \in Queue(events) : ~Outcome(f)
        /\ vouched = deal.fundsSpent + IF Pending THEN deal.paymentRequested ELSE 0
        /\ deal.paymentRequested > 0 /\ Ordered(events, Misplaced)
        /\ \A f \in Queue(events) : Again(f) => deal.paymentRequested > 0
    BY <1>6, <2>1 DEF PaymentInv
  <2>3. \A f : Voucher(f) => Outcome(f) BY DEF Voucher, Outcome
  <2>4. ~Pending BY <2>1, <2>2, <2>3 DEF Pending
  <2>5. deal.status \notin Sunk BY <1>6, <2>1
  <2>6. DealDue = deal.paymentRequested /\ DealDue > 0 BY <2>2, <2>4, <2>5 DEF DealDue
  <2>7. vouched' = vouched + DealDue BY <1>2, <2>1, <2>2, <2>4, <2>6
  <2>8. RequestsDue = {} BY <1>5, <2>6
  <2>9. /\ Pending' /\ RequestsDue' = {} /\ Ordered(events', TwoRequests)
        /\ Ordered(events', Misplaced)
        /\ \A f \in Queue(events') : Again(f) => deal.paymentRequested > 0
        /\ stage' \in {"handler", "sent"} => \A f \in Queue(events') : ~Outcome(f)
        /\ stage' \in {"idle", "sent"}
    <3>1. CASE stage' = "sent" /\ UNCHANGED events
      BY <2>2, <2>8, <3>1 DEF Pending, RequestsDue, OneRequest
    <3>2. CASE stage' = "idle" /\ events' = Append(events, C!Ev("WriteDealPaymentErrored", 0))
      <4> DEFINE e == C!Ev("WriteDealPaymentErrored", 0)
      <4>1. e \in C!Event /\ e.name = "WriteDealPaymentErrored" BY <1>3, <1>4
      <4> HIDE DEF e
      <4>2. Voucher(e) /\ ~Asking(e) /\ ~Again(e) BY <4>1 DEF Voucher, Asking, Again, Request
      <4>3. events' = Append(events, e) BY <3>2 DEF e
      <4>4. /\ Queue(events') = Queue(events) \cup {e} /\ RequestsDue' = RequestsDue
            /\ Ordered(events', TwoRequests) /\ Ordered(events', Misplaced)
        BY <2>2, <4>1, <4>2, <4>3, EventAdded DEF OneRequest
      <4>5. Pending' BY <4>2, <4>4 DEF Pending
      <4> QED BY <2>2, <2>8, <3>2, <4>2, <4>4, <4>5
    <3> QED BY <1>8, <3>1, <3>2 DEF Vouches
  <2>10. DealDue' = 0 BY <2>9 DEF DealDue
  <2>11. OneRequest' BY <2>9 DEF OneRequest
  <2>12. ClientDues' = {} BY <2>9, <2>10 DEF ClientDues
  <2>13. PaymentInv' BY <2>1, <2>2, <2>9 DEF PaymentInv
  <2>14. NextInterval' = IF DealDue >= Worth(NextInterval)
                           THEN NextInterval + PaymentIntervalIncrease ELSE NextInterval
    BY <2>1, <2>4, <2>6, <2>9 DEF NextInterval
  <2>15. vouched' <= Worth(received)
    <3>1. deal.paymentRequested <= (deal.totalReceived - deal.bytesPaidFor) * PricePerByte
      BY <1>2, <2>1, WorthFacts DEF C!TooMuchRequested
    <3>2. PricePerByte \in Nat BY WorthFacts
    <3>8. \A m, n \in Nat : (m <= n => Worth(m) <= Worth(n)) /\ Worth(m - n) = Worth(m) - Worth(n)
      <4>1. TAKE m, n \in Nat
      <4>2. m \in Int /\ n \in Int OBVIOUS
      <4> QED BY <4>2, WorthOrder
    <3>3. (deal.totalReceived - deal.bytesPaidFor) * PricePerByte
            = Worth(deal.totalReceived - deal.bytesPaidFor)
      BY <1>2, <3>2 DEF Worth
    <3>4. Worth(deal.totalReceived - deal.bytesPaidFor)
            = Worth(deal.totalReceived) - Worth(deal.bytesPaidFor)
      BY <1>2, <3>8
    <3>5. Worth(deal.totalReceived) <= Worth(received) BY <1>2, <3>8 DEF BytesInv
    <3>6. deal.fundsSpent = Worth(deal.bytesPaidFor) BY DEF BytesInv
    <3>7. /\ Worth(deal.totalReceived) \in Nat /\ Worth(deal.bytesPaidFor) \in Nat
          /\ Worth(received) \in Nat
      BY <1>2, WorthFacts
    <3> QED BY <1>2, <2>1, <3>1, <3>3, <3>4, <3>5, <3>6, <3>7
  <2> QED BY <2>1, <2>6, <2>7, <2>11, <2>12, <2>13, <2>14, <2>15 DEF Pays
<1>9. CASE SaysSent
  <2> DEFINE e == C!Ev("PaymentSent", 0)
  <2>1. e \in C!Event /\ e.name = "PaymentSent" BY <1>3, <1>4
  <2>2. /\ stage = "sent" /\ stage' = "idle" /\ deal' = deal /\ vouched' = vouched
        /\ events' = Append(events, e)
    BY <1>9 DEF SaysSent
  <2> HIDE DEF e
  <2>3. Voucher(e) /\ ~Asking(e) /\ ~Again(e) BY <2>1 DEF Voucher, Asking, Again, Request
  <2>4. deal.status \in SendStates /\ deal.status \notin Sunk BY <1>6, <2>2 DEF PaymentInv
  <2>5. /\ \A f \in Queue(events) : ~Outcome(f)
        /\ vouched = deal.fundsSpent + IF Pending THEN deal.paymentRequested ELSE 0
        /\ deal.paymentRequested > 0 /\ Ordered(events, Misplaced)
        /\ \A f \in Queue(events) : Again(f) => deal.paymentRequested > 0
    BY <1>6, <2>2, <2>4 DEF PaymentInv
  <2>6. /\ Queue(events') = Queue(events) \cup {e} /\ RequestsDue' = RequestsDue
        /\ Ordered(events', TwoRequests) /\ Ordered(events', Misplaced)
    BY <2>1, <2>2, <2>3, <2>5, EventAdded DEF OneRequest
  <2>7. Pending /\ Pending' BY <2>2, <2>3, <2>6 DEF Pending
  <2>8. DealDue' = DealDue /\ NextInterval' = NextInterval
    BY <2>2, <2>7 DEF DealDue, NextInterval
  <2>9. OneRequest' BY <2>6, <2>8 DEF OneRequest
  <2>10. ClientDues' = ClientDues BY <2>6, <2>8 DEF ClientDues
  <2>11. PaymentInv' BY <2>2, <2>3, <2>4, <2>5, <2>6, <2>7 DEF PaymentInv
  <2> QED BY <2>2, <2>8, <2>9, <2>10, <2>11 DEF Calm
<1> QED BY <1>1, <1>7, <1>8, <1>9
-----------------------------------------------------------------------------
(* The client's bytes *)

\* What is paid for is what is here, after every event
LEMMA ProcessBytes ==
    ASSUME ClientTyped, ClientTyped', BytesInv, OneRequest, received \in Nat,
           UNCHANGED received, C!ProcessEvent
    PROVE  BytesInv'
<1> DEFINE h == Head(events)
           t == Tail(events)
<1>1. TakesEvent /\ (Passes \/ TakesRequest \/ TakesPayment) BY ProcessShape
<1>2. /\ h \in C!Event /\ h \in Queue(events) /\ Queue(events) = {h} \cup Queue(t)
      /\ Queue(events') \subseteq Queue(t)
  BY <1>1, EventsLeft
<1>3. /\ deal.paymentRequested \in Nat /\ deal.fundsSpent \in Nat /\ deal.bytesPaidFor \in Nat
      /\ h.n \in Nat
  BY <1>2 DEF ClientTyped, C!ClientDealState, C!Event
<1>4. /\ deal.totalReceived <= received /\ WholeBytes(deal.paymentRequested)
      /\ \A e \in Queue(events) : /\ e.name = "BlocksReceived" => e.n <= received
                                  /\ Request(e) => WholeBytes(e.n)
      /\ deal.fundsSpent = Worth(deal.bytesPaidFor) /\ vouched <= Worth(received)
  BY DEF BytesInv
<1>5. vouched' = vouched /\ received' = received BY <1>1 DEF TakesEvent
<1>6. \A e \in Queue(events') : /\ e.name = "BlocksReceived" => e.n <= received
                                /\ Request(e) => WholeBytes(e.n)
  BY <1>2, <1>4
<1>7. deal'.totalReceived <= received BY <1>1, <1>2, <1>4 DEF TakesEvent
<1> HIDE DEF h, t
<1>8. WholeBytes(deal'.paymentRequested) /\ deal'.fundsSpent = Worth(deal'.bytesPaidFor)
  <2>1. CASE Passes BY <1>4, <2>1 DEF Passes, SameMoney
  <2>2. CASE TakesRequest
    <3>1. /\ deal'.paymentRequested = deal.paymentRequested + h.n
          /\ deal'.fundsSpent = deal.fundsSpent /\ deal'.bytesPaidFor = deal.bytesPaidFor
          /\ Request(h)
      BY <2>2 DEF TakesRequest, h
    <3>2. WholeBytes(h.n) BY <1>2, <1>4, <3>1
    <3> QED BY <1>3, <1>4, <3>1, <3>2, WholeBytesSum
  <2>3. CASE TakesPayment
    <3> DEFINE paid == deal.paymentRequested \div PricePerByte
    <3>1. /\ deal'.paymentRequested = 0
          /\ deal'.fundsSpent = deal.fundsSpent + deal.paymentRequested
          /\ deal'.bytesPaidFor = deal.bytesPaidFor + paid
      BY <2>3 DEF TakesPayment
    <3>2. paid \in Nat /\ deal.paymentRequested = Worth(paid) BY <1>3, <1>4, WholeBytesFacts
    <3> HIDE DEF paid
    <3>3. \A m, n \in Nat : Worth(m + n) = Worth(m) + Worth(n)
      <4>1. TAKE m, n \in Nat
      <4>2. m \in Int /\ n \in Int OBVIOUS
      <4> QED BY <4>2, WorthOrder
    <3>4. WholeBytes(0) BY WholeBytesSum
    <3> QED BY <1>3, <1>4, <3>1, <3>2, <3>3, <3>4
  <2> QED BY <1>1, <2>1, <2>2, <2>3
<1> QED BY <1>4, <1>5, <1>6, <1>7, <1>8 DEF BytesInv

\* And after every handler
LEMMA HandlerBytes ==
    ASSUME ClientTyped, BytesInv, PaymentInv, OneRequest, received \in Nat, UNCHANGED received,
           Calm \/ Pays, C!RunHandler
    PROVE  BytesInv'
<1>1. /\ UNCHANGED deal
      /\ \/ UNCHANGED events
         \/ \E name \in C!EventNames : /\ events' = Append(events, C!Ev(name, 0))
                                       /\ name # "BlocksReceived"
  <2>1. Says \/ Vouches \/ SaysSent BY HandlerShape
  <2> QED BY <2>1, Names DEF Says, Vouches, SaysSent
<1>2. \A e \in Queue(events') : /\ e.name = "BlocksReceived" => e.n <= received
                                /\ Request(e) => WholeBytes(e.n)
  <2>1. \A e \in Queue(events) : /\ e.name = "BlocksReceived" => e.n <= received
                                 /\ Request(e) => WholeBytes(e.n)
    BY DEF BytesInv
  <2>2. ASSUME NEW name \in C!EventNames, events' = Append(events, C!Ev(name, 0)),
               name # "BlocksReceived"
        PROVE  \A e \in Queue(events') : /\ e.name = "BlocksReceived" => e.n <= received
                                         /\ Request(e) => WholeBytes(e.n)
    <3> DEFINE f == C!Ev(name, 0)
    <3>1. f \in C!Event /\ f.name = name /\ f.n = 0 BY EvType
    <3>2. events \in Seq(C!Event) BY DEF ClientTyped
    <3>3. Queue(Append(events, f)) = Queue(events) \cup {f} BY <3>1, <3>2, QueueAdded
    <3>4. WholeBytes(0) BY WholeBytesSum
    <3> HIDE DEF f
    <3>5. events' = Append(events, f) BY <2>2 DEF f
    <3> QED BY <2>1, <2>2, <3>1, <3>3, <3>4, <3>5
  <2> QED BY <1>1, <2>1, <2>2
<1>3. vouched' <= Worth(received) BY DEF Calm, Pays, BytesInv
<1> QED BY <1>1, <1>2, <1>3 DEF BytesInv

\* An event from outside: what it may be
Outside(e) == /\ e.name \in C!EventNames =>
                    e \in C!Event /\ ~Outcome(e) /\ ~Again(e)
              /\ e.name = "BlocksReceived" => e.n <= received'
              /\ Request(e) => WholeBytes(e.n)

LEMMA PostKeeps ==
    ASSUME ClientTyped, PaymentInv, BytesInv, OneRequest, received \in Nat, received' \in Nat,
           received <= received', NEW e, Outside(e), Post(e), Asking(e) => ClientDues = {}
    PROVE  /\ ClientTyped' /\ PaymentInv' /\ BytesInv' /\ OneRequest'
           /\ UNCHANGED <<deal, vouched, stage>>
           /\ ClientDues' \subseteq ClientDues \cup (IF Asking(e) THEN {e.n} ELSE {})
           /\ NextInterval' = NextInterval
<1>1. UNCHANGED <<deal, stage, vouched>> BY DEF Post
<1>2. Worth(received) <= Worth(received') /\ Worth(received) \in Nat /\ Worth(received') \in Nat
  <2>1. received \in Int /\ received' \in Int OBVIOUS
  <2> QED BY <2>1, WorthOrder, WorthFacts
<1>3. deal.totalReceived \in Nat /\ vouched \in Nat BY DEF ClientTyped, C!ClientDealState
<1>4. CASE UNCHANGED events
  <2>1. Pending' <=> Pending BY <1>1, <1>4 DEF Pending
  <2>2. RequestsDue' = RequestsDue /\ DealDue' = DealDue /\ NextInterval' = NextInterval
    BY <1>1, <1>4, <2>1 DEF RequestsDue, DealDue, NextInterval
  <2>3. PaymentInv' BY <1>1, <1>4, <2>1 DEF PaymentInv
  <2>4. OneRequest' BY <1>4, <2>2 DEF OneRequest
  <2>5. ClientDues' = ClientDues BY <2>2 DEF ClientDues
  <2>6. ClientTyped' BY <1>1, <1>4 DEF ClientTyped
  <2>7. \A f \in Queue(events) : f.n \in Nat
    <3>1. Queue(events) \subseteq C!Event BY InQueue DEF ClientTyped
    <3> QED BY <3>1 DEF C!Event
  <2>8. BytesInv' BY <1>1, <1>2, <1>3, <1>4, <2>7 DEF BytesInv
  <2> QED BY <1>1, <2>2, <2>3, <2>4, <2>5, <2>6, <2>8
<1>5. CASE e.name \in C!EventNames /\ events' = Append(events, e)
  <2>1. e \in C!Event /\ ~Outcome(e) /\ ~Again(e) BY <1>5 DEF Outside
  <2>2. ~Voucher(e) BY <2>1 DEF Voucher, Outcome
  <2>3. /\ PaymentInv' /\ OneRequest'
        /\ ClientDues' \subseteq ClientDues \cup (IF Asking(e) THEN {e.n} ELSE {})
        /\ NextInterval' = NextInterval
    <3>1. stage' = stage /\ deal' = deal /\ vouched' = vouched BY <1>1
    <3> QED BY <1>5, <2>1, <2>2, <3>1, AddedCalmly
  <2>4. Queue(events') = Queue(events) \cup {e} /\ events' \in Seq(C!Event)
        /\ Queue(events) \subseteq C!Event
    BY <1>5, <2>1, EventAdded
  <2>5. ClientTyped' BY <1>1, <2>4 DEF ClientTyped
  <2>6. \A f \in Queue(events) : f.n \in Nat BY <2>4 DEF C!Event
  <2>7. \A f \in Queue(events') : /\ f.name = "BlocksReceived" => f.n <= received'
                                  /\ Request(f) => WholeBytes(f.n)
    BY <2>4, <2>6 DEF BytesInv, Outside
  <2>8. BytesInv' BY <1>1, <1>2, <1>3, <2>7 DEF BytesInv
  <2> QED BY <1>1, <2>3, <2>5, <2>8
<1> QED BY <1>4, <1>5 DEF Post, C!Send
-----------------------------------------------------------------------------
(* The blocks under way *)

LEMMA LeadKept ==
    ASSUME \E f : Leads(f), UNCHANGED <<transit, received, wire>>
    PROVE  \E f : Leads(f)'
BY DEF Leads

LEMMA Received ==
    ASSUME wire \in Nat, received \in Nat, transit \in Seq(Nat), \E f : Leads(f)
    PROVE  received <= wire
<1>1. PICK f : Leads(f) OBVIOUS
<1>2. Len(transit) \in Nat /\ 0 \in 0..Len(transit) OBVIOUS
<1>3. f[0] \in 0..wire BY <1>1, <1>2 DEF Leads
<1> QED BY <1>1, <1>3 DEF Leads

\* One is sent
LEMMA LeadSent ==
    ASSUME wire \in Nat, wire' \in Nat, wire' > wire, transit \in Seq(Nat),
           \E f : Leads(f), transit' = Append(transit, wire' - wire), UNCHANGED received
    PROVE  transit' \in Seq(Nat) /\ \E f : Leads(f)'
<1>1. PICK f : Leads(f) OBVIOUS
<1> DEFINE n == Len(transit)
           m == wire' - wire
           a == Append(transit, m)
<1>0. \A i, j \in Nat : j > i => j - i \in Nat /\ j = i + (j - i) /\ 0..i \subseteq 0..j OBVIOUS
<1>2. n \in Nat /\ m \in Nat
  <2>1. n \in Nat OBVIOUS
  <2>2. m \in Nat BY <1>0
  <2> QED BY <2>1, <2>2
<1>3. /\ f \in [0..n -> 0..wire] /\ f[0] = received /\ f[n] = wire
      /\ \A i \in 1..n : f[i] = f[i - 1] + transit[i]
  BY <1>1 DEF Leads
<1>4. /\ a \in Seq(Nat) /\ Len(a) = n + 1 /\ a[n + 1] = m
      /\ \A i \in 1..n : a[i] = transit[i]
  <2>1. \A q \in Seq(Nat), k \in Nat :
           /\ Append(q, k) \in Seq(Nat) /\ Len(Append(q, k)) = Len(q) + 1
           /\ Append(q, k)[Len(q) + 1] = k /\ \A i \in 1..Len(q) : Append(q, k)[i] = q[i]
    OBVIOUS
  <2> HIDE DEF m
  <2> QED BY <1>2, <2>1
<1>5. wire' = wire + m /\ 0..wire \subseteq 0..wire' BY <1>0
<1>6. transit' = a OBVIOUS
<1> HIDE DEF n, m, a
<1>7. PICK g : g = [i \in 0..(n + 1) |-> IF i = n + 1 THEN wire' ELSE f[i]] OBVIOUS
<1>8. \A i \in 0..n : /\ i \in 0..(n + 1) /\ i # n + 1 /\ f[i] \in 0..wire'
  BY <1>2, <1>3, <1>5
<1>9. n + 1 \in 0..(n + 1) /\ n \in 0..n /\ 0 \in 0..n BY <1>2
<1>10. \A i \in 0..n : g[i] = f[i] BY <1>7, <1>8
<1>11. g[n + 1] = wire' BY <1>7, <1>9
<1>12. g \in [0..(n + 1) -> 0..wire']
  <2>1. \A i \in 0..(n + 1) : i \in 0..n \/ i = n + 1 BY <1>2
  <2>2. wire' \in 0..wire' OBVIOUS
  <2>3. \A i \in 0..(n + 1) : (IF i = n + 1 THEN wire' ELSE f[i]) \in 0..wire'
    BY <1>8, <2>1, <2>2
  <2> QED BY <1>7, <2>3
<1>13. ASSUME NEW i \in 1..(n + 1) PROVE g[i] = g[i - 1] + a[i]
  <2>1. CASE i = n + 1
    <3>1. i - 1 = n BY <1>2, <2>1
    <3> QED BY <1>3, <1>4, <1>5, <1>9, <1>10, <1>11, <2>1, <3>1
  <2>2. CASE i # n + 1
    <3>1. i \in 1..n /\ i \in 0..n /\ i - 1 \in 0..n BY <1>2, <2>2
    <3> QED BY <1>3, <1>4, <1>10, <3>1
  <2> QED BY <2>1, <2>2
<1>14. Leads(g)' BY <1>3, <1>4, <1>6, <1>9, <1>10, <1>11, <1>12, <1>13 DEF Leads
<1> QED BY <1>4, <1>6, <1>14

\* One arrives
LEMMA LeadTaken ==
    ASSUME wire \in Nat, received \in Nat, transit \in Seq(Nat), transit # <<>>,
           \E f : Leads(f), transit' = Tail(transit), received' = received + Head(transit),
           UNCHANGED wire
    PROVE  transit' \in Seq(Nat) /\ received' \in Nat /\ received <= received' /\ \E f : Leads(f)'
<1>1. PICK f : Leads(f) OBVIOUS
<1> DEFINE n == Len(transit)
           t == Tail(transit)
<1>2. /\ n \in Nat /\ n > 0 /\ t \in Seq(Nat) /\ Len(t) = n - 1 /\ Head(transit) = transit[1]
      /\ Head(transit) \in Nat
      /\ \A i \in 1..(n - 1) : t[i] = transit[i + 1]
  OBVIOUS
<1>3. /\ f \in [0..n -> 0..wire] /\ f[0] = received /\ f[n] = wire
      /\ \A i \in 1..n : f[i] = f[i - 1] + transit[i]
  BY <1>1 DEF Leads
<1>9. transit' = t OBVIOUS
<1> HIDE DEF n, t
<1>0. PICK g : g = [i \in 0..(n - 1) |-> f[i + 1]] OBVIOUS
<1>4. \A i \in 0..(n - 1) : i + 1 \in 0..n /\ i + 1 \in 1..n /\ g[i] = f[i + 1] /\ g[i] \in 0..wire
  BY <1>0, <1>2, <1>3
<1>5. g \in [0..(n - 1) -> 0..wire] BY <1>0, <1>4
<1>6. f[1] = received + Head(transit)
  <2>1. 1 \in 1..n BY <1>2
  <2> QED BY <1>2, <1>3, <2>1
<1>7. g[0] = received' /\ g[n - 1] = wire
  <2>1. 0 \in 0..(n - 1) /\ n - 1 \in 0..(n - 1) /\ (n - 1) + 1 = n /\ 0 + 1 = 1 BY <1>2
  <2> QED BY <1>3, <1>4, <1>6, <2>1
<1>8. ASSUME NEW i \in 1..(n - 1) PROVE g[i] = g[i - 1] + t[i]
  <2>1. i \in 0..(n - 1) /\ i - 1 \in 0..(n - 1) /\ (i - 1) + 1 = i /\ (i + 1) - 1 = i /\ i + 1 \in 1..n
    BY <1>2
  <2>2. f[i + 1] = f[(i + 1) - 1] + transit[i + 1] BY <1>3, <2>1
  <2>3. g[i - 1] = f[(i - 1) + 1] /\ g[i] = f[i + 1] BY <1>4, <2>1
  <2> QED BY <1>2, <2>1, <2>2, <2>3
<1>10. Leads(g)' BY <1>2, <1>5, <1>7, <1>8, <1>9 DEF Leads
<1> QED BY <1>2, <1>9, <1>10
-----------------------------------------------------------------------------
(* The client's steps and the arrivals, as the provider's side sees them *)

ProviderRests == UNCHANGED <<pdeal, pevents, pstage, track, pull, reval, saved, flow, wire, notices>>

\* Nothing new is asked for or vouched for
Rests ==
    /\ UNCHANGED <<vouched, payments>> /\ Dues' \subseteq Dues
    /\ deal'.status \notin Sunk => deal.status \notin Sunk /\ NextInterval' = NextInterval

\* All that is asked for is vouched for
Settles ==
    \E due \in Nat :
       /\ due > 0 /\ Dues = {due} /\ Dues' = {}
       /\ vouched' = vouched + due
       /\ payments' = payments \/ payments' = Append(payments, vouched')
       /\ UNCHANGED deal /\ deal.status \notin Sunk
       /\ NextInterval' = IF due >= Worth(NextInterval)
                            THEN NextInterval + PaymentIntervalIncrease ELSE NextInterval

ClientInv == ClientTyped /\ PaymentInv /\ BytesInv /\ ChannelInv /\ OneInv

LEMMA ClientStepKeeps ==
    ASSUME ClientInv, ClientStep
    PROVE  ClientInv' /\ ProviderRests /\ (Rests \/ Settles)
<1>1. ClientTyped /\ PaymentInv /\ BytesInv /\ ChannelInv /\ OneInv /\ OneRequest
  BY DEF ClientInv, OneInv
<1>2. /\ C!ClientNext /\ payments' = IF stage' = "sent" THEN Append(payments, vouched') ELSE payments
      /\ UNCHANGED <<transit, received, finished>> /\ ProviderRests /\ UNCHANGED answers
  BY DEF ClientStep, ProviderRests, providerVars
<1>3. /\ transit \in Seq(Nat) /\ received \in Nat /\ \E f : Leads(f)
      /\ payments \in Seq(Nat) /\ finished \in BOOLEAN
      /\ answers \in Seq(Answer)
      /\ \A a \in Queue(answers) : Asks(a) => a.owed > 0 /\ WholeBytes(a.owed)
  BY <1>1 DEF ChannelInv
<1>4. C!ProcessEvent \/ C!RunHandler BY <1>2 DEF C!ClientNext
<1>5. ClientTyped' BY <1>1, <1>4, ProcessType, HandlerType
<1>6. /\ PaymentInv' /\ OneRequest' /\ BytesInv' /\ (Calm \/ Pays)
      /\ stage' = "sent" => Pays
  <2>1. CASE C!ProcessEvent
    <3>1. PaymentInv' /\ OneRequest' /\ Calm BY <1>1, <1>5, <2>1, ProcessPays
    <3>2. BytesInv' BY <1>1, <1>2, <1>3, <1>5, <2>1, ProcessBytes
    <3>3. stage' # "sent" BY <1>1, <2>1, ProcessShape DEF TakesEvent
    <3> QED BY <3>1, <3>2, <3>3
  <2>2. CASE C!RunHandler
    <3>1. PaymentInv' /\ OneRequest' /\ (Calm \/ Pays) /\ (stage' = "sent" => Pays)
      BY <1>1, <1>3, <1>5, <2>2, HandlerPays
    <3>2. BytesInv' BY <1>1, <1>2, <1>3, <2>2, <3>1, HandlerBytes
    <3> QED BY <3>1, <3>2
  <2> QED BY <1>4, <2>1, <2>2
<1>7. vouched' \in Nat BY <1>5 DEF ClientTyped
<1>8. payments' \in Seq(Nat) /\ (payments' = payments \/ payments' = Append(payments, vouched'))
  BY <1>2, <1>3, <1>7
<1>9. ChannelInv'
  <2>1. \E f : Leads(f)' BY <1>2, <1>3, LeadKept DEF ProviderRests
  <2> QED BY <1>2, <1>3, <1>8, <2>1 DEF ChannelInv
<1>10. AnswersDue' = AnswersDue BY <1>2 DEF AnswersDue
<1>11. ClientDues' \subseteq ClientDues BY <1>6 DEF Calm, Pays
<1>12. OneInv' BY <1>1, <1>2, <1>6, <1>10, <1>11 DEF OneInv
<1>13. ASSUME Calm, stage' # "sent" PROVE Rests
  BY <1>2, <1>10, <1>11, <1>13 DEF Calm, Rests, Dues
<1>14. ASSUME Pays PROVE Settles
  <2>1. /\ DealDue > 0 /\ vouched' = vouched + DealDue /\ ClientDues' = {} /\ UNCHANGED deal
        /\ NextInterval' = IF DealDue >= Worth(NextInterval)
                             THEN NextInterval + PaymentIntervalIncrease ELSE NextInterval
    BY <1>14 DEF Pays
  <2>2. DealDue \in Nat BY <1>1 DEF DealDue, ClientTyped, C!ClientDealState
  <2>3. deal.status \notin Sunk BY <2>1, <2>2 DEF DealDue
  <2>4. RequestsDue = {} BY <1>1, <2>1, <2>2 DEF OneRequest
  <2>5. ClientDues = {DealDue} BY <2>1, <2>2, <2>4 DEF ClientDues
  <2>6. AnswersDue = {} BY <1>1, <2>5 DEF OneInv
  <2>7. Dues = {DealDue} /\ Dues' = {} BY <1>10, <2>1, <2>5, <2>6 DEF Dues
  <2> QED BY <1>8, <2>1, <2>2, <2>3, <2>7 DEF Settles
<1> QED BY <1>1, <1>2, <1>5, <1>6, <1>9, <1>12, <1>13, <1>14 DEF ClientInv

\* What an answer becomes
LEMMA AnswerEvent ==
    ASSUME NEW a \in Answer, Asks(a) => a.owed > 0 /\ WholeBytes(a.owed)
    PROVE  /\ Outside(EventFor(a))
           /\ Asking(EventFor(a)) => Asks(a) /\ EventFor(a).n = a.owed
<1>1. a.owed \in Nat /\ a.status \in AnswerNames BY DEF Answer
<1>2. \A name, n : C!Ev(name, n).name = name /\ C!Ev(name, n).n = n BY DEF C!Ev
<1>3. "DealRejected" \notin C!EventNames /\ "UnknownResponseReceived" \notin C!EventNames BY Names
<1>4. ASSUME NEW name, NEW n \in Nat, EventFor(a) = C!Ev(name, n),
             name \in {"ProviderCancelled", "DataTransferError", "DealRejected", "DealAccepted",
                       "Complete", "UnknownResponseReceived"}
      PROVE  Outside(EventFor(a)) /\ ~Asking(EventFor(a))
  <2>1. EventFor(a).name = name BY <1>2, <1>4
  <2>2. name \in C!EventNames => EventFor(a) \in C!Event BY <1>4, EvType
  <2> QED BY <1>4, <2>1, <2>2 DEF Outside, Asking, Request, Outcome, Again
<1>5. ASSUME NEW name, EventFor(a) = C!Ev(name, a.owed), Asks(a),
             name \in {"LastPaymentRequested", "PaymentRequested"}
      PROVE  Outside(EventFor(a)) /\ EventFor(a).n = a.owed
  <2>1. EventFor(a).name = name /\ EventFor(a).n = a.owed BY <1>2, <1>5
  <2>2. EventFor(a) \in C!Event BY <1>1, <1>5, EvType, Names
  <2>3. a.owed # 0 BY <1>1, <1>5
  <2> QED BY <1>5, <2>1, <2>2, <2>3 DEF Outside, Outcome, Again
<1>6. CASE a.status = "Cancel" BY <1>4, <1>6 DEF EventFor
<1>7. CASE a.status = "Error" BY <1>4, <1>7 DEF EventFor
<1>8. CASE a.status \in {"FundsNeeded", "FundsNeededLastPayment"}
  <2>1. Asks(a) BY <1>8 DEF Asks
  <2>2. \/ EventFor(a) = C!Ev("LastPaymentRequested", a.owed)
        \/ EventFor(a) = C!Ev("PaymentRequested", a.owed)
    BY <1>8 DEF EventFor, C!EventForResponse
  <2> QED BY <1>5, <2>1, <2>2
<1>9. CASE a.status \in {"Accepted", "Errored", "Rejected", "Completed"}
  <2>1. \E name \in {"DealRejected", "DealAccepted", "Complete", "UnknownResponseReceived"} :
           EventFor(a) = C!Ev(name, 0)
    BY <1>9 DEF EventFor, C!EventForResponse
  <2> QED BY <1>4, <2>1
<1> QED BY <1>1, <1>6, <1>7, <1>8, <1>9 DEF AnswerNames

\* An event that asks for nothing arrives
LEMMA PostRests ==
    ASSUME ClientInv, NEW e, Outside(e), ~Asking(e), Post(e), received' \in Nat, received <= received',
           transit' \in Seq(Nat) /\ (\E f : Leads(f)'), finished' \in BOOLEAN,
           UNCHANGED <<answers, payments>>
    PROVE  ClientInv' /\ Rests
<1>1. /\ ClientTyped /\ PaymentInv /\ BytesInv /\ ChannelInv /\ OneInv /\ OneRequest
      /\ received \in Nat
  BY DEF ClientInv, OneInv, ChannelInv
<1>2. /\ ClientTyped' /\ PaymentInv' /\ BytesInv' /\ OneRequest'
      /\ UNCHANGED <<deal, vouched, stage>> /\ ClientDues' \subseteq ClientDues
      /\ NextInterval' = NextInterval
  BY <1>1, PostKeeps
<1>3. AnswersDue' = AnswersDue BY DEF AnswersDue
<1>4. ChannelInv' BY <1>1 DEF ChannelInv
<1>5. OneInv' BY <1>1, <1>2, <1>3 DEF OneInv
<1>6. Rests BY <1>2, <1>3 DEF Rests, Dues
<1> QED BY <1>2, <1>4, <1>5, <1>6 DEF ClientInv

LEMMA ReceiveBlockKeeps ==
    ASSUME ClientInv, wire \in Nat, ReceiveBlock
    PROVE  ClientInv' /\ ProviderRests /\ Rests
<1> DEFINE e == C!Ev("BlocksReceived", received')
<1>1. /\ transit # <<>> /\ received' = received + Head(transit) /\ transit' = Tail(transit)
      /\ Post(e) /\ UNCHANGED <<finished, payments, answers>> /\ ProviderRests /\ UNCHANGED wire
  BY DEF ReceiveBlock, providerVars, ProviderRests
<1>2. transit \in Seq(Nat) /\ received \in Nat /\ (\E f : Leads(f)) /\ finished \in BOOLEAN
  BY DEF ClientInv, ChannelInv
<1>3. /\ transit' \in Seq(Nat) /\ received' \in Nat /\ received <= received'
      /\ \E f : Leads(f)'
  BY <1>1, <1>2, LeadTaken
<1>4. Outside(e) /\ ~Asking(e)
  <2>1. e \in C!Event /\ e.name = "BlocksReceived" /\ e.n = received' BY <1>3, EvType, Names
  <2> HIDE DEF e
  <2> QED BY <1>3, <2>1 DEF Outside, Asking, Request, Outcome, Again
<1> HIDE DEF e
<1> QED BY <1>1, <1>2, <1>3, <1>4, PostRests

LEMMA FinishTransferKeeps ==
    ASSUME ClientInv, FinishTransfer
    PROVE  ClientInv' /\ ProviderRests /\ Rests
<1> DEFINE e == C!Ev("AllBlocksReceived", 0)
<1>1. /\ finished' = TRUE /\ Post(e) /\ UNCHANGED <<transit, received, payments, answers, wire>>
      /\ ProviderRests
  BY DEF FinishTransfer, providerVars, ProviderRests
<1>2. transit \in Seq(Nat) /\ received \in Nat /\ (\E f : Leads(f))
  BY DEF ClientInv, ChannelInv
<1>3. \E f : Leads(f)' BY <1>1, <1>2, LeadKept
<1>4. Outside(e) /\ ~Asking(e)
  <2>1. e \in C!Event /\ e.name = "AllBlocksReceived" /\ e.n = 0 BY EvType, Names
  <2> HIDE DEF e
  <2> QED BY <2>1 DEF Outside, Asking, Request, Outcome, Again
<1> HIDE DEF e
<1> QED BY <1>1, <1>2, <1>3, <1>4, PostRests

LEMMA CancelKeeps ==
    ASSUME ClientInv, CancelDealByUser
    PROVE  ClientInv' /\ ProviderRests /\ Rests
<1> DEFINE e == C!Ev("Cancel", 0)
<1>1. /\ Post(e) /\ UNCHANGED <<finished, transit, received, payments, answers, wire>>
      /\ ProviderRests
  BY DEF CancelDealByUser, providerVars, ProviderRests
<1>2. transit \in Seq(Nat) /\ received \in Nat /\ (\E f : Leads(f)) /\ finished \in BOOLEAN
  BY DEF ClientInv, ChannelInv
<1>3. \E f : Leads(f)' BY <1>1, <1>2, LeadKept
<1>4. Outside(e) /\ ~Asking(e)
  <2>1. e \in C!Event /\ e.name = "Cancel" /\ e.n = 0 BY EvType, Names
  <2> HIDE DEF e
  <2> QED BY <2>1 DEF Outside, Asking, Request, Outcome, Again
<1> HIDE DEF e
<1> QED BY <1>1, <1>2, <1>3, <1>4, PostRests

\* A request moves from the answers to the client's events
LEMMA ReceiveAnswerKeeps ==
    ASSUME ClientInv, ReceiveAnswer
    PROVE  ClientInv' /\ ProviderRests /\ Rests
<1> DEFINE a == Head(answers)
           t == Tail(answers)
           e == EventFor(a)
<1>1. /\ answers # <<>> /\ Post(e) /\ answers' = t
      /\ UNCHANGED <<transit, received, finished, payments, wire>> /\ ProviderRests
  BY DEF ReceiveAnswer, channel, ProviderRests
<1>2. /\ ClientTyped /\ PaymentInv /\ BytesInv /\ ChannelInv /\ OneInv /\ OneRequest
      /\ received \in Nat
  BY DEF ClientInv, OneInv, ChannelInv
<1>3. /\ answers \in Seq(Answer) /\ transit \in Seq(Nat) /\ (\E f : Leads(f))
      /\ finished \in BOOLEAN /\ payments \in Seq(Nat)
      /\ \A b \in Queue(answers) : Asks(b) => b.owed > 0 /\ WholeBytes(b.owed)
  BY <1>2 DEF ChannelInv
<1>4. a \in Answer /\ t \in Seq(Answer) /\ Queue(answers) = {a} \cup Queue(t)
  BY <1>1, <1>3, QueueTaken
<1>5. Outside(e) /\ (Asking(e) => Asks(a) /\ e.n = a.owed)
  BY <1>3, <1>4, AnswerEvent
<1>6. AnswersDue = {b.owed : b \in {x \in Queue(answers) : Asks(x)}} BY DEF AnswersDue
<1>7. Ordered(answers, TwoAnswers) /\ (AnswersDue # {} => ClientDues = {}) BY <1>2 DEF OneInv
<1>8. Ordered(t, TwoAnswers) /\ \A x \in Queue(t) : <<a, x>> \notin TwoAnswers
  BY <1>1, <1>3, <1>7, OrderTaken
<1>9. Queue(t) \subseteq Answer BY <1>4, InQueue
<1> HIDE DEF a, t, e
<1>10. AnswersDue' = {b.owed : b \in {x \in Queue(t) : Asks(x)}} BY <1>1 DEF AnswersDue
<1>11. Asks(a) => AnswersDue' = {} /\ a.owed \in AnswersDue
  <2>1. ASSUME Asks(a), NEW x \in Queue(t) PROVE ~Asks(x)
    BY <1>4, <1>8, <1>9, <2>1 DEF TwoAnswers
  <2> QED BY <1>4, <1>6, <1>10, <2>1
<1>12. AnswersDue' \subseteq AnswersDue BY <1>4, <1>6, <1>10
<1>13. Asking(e) => ClientDues = {} BY <1>5, <1>7, <1>11
<1>14. /\ ClientTyped' /\ PaymentInv' /\ BytesInv' /\ OneRequest'
       /\ UNCHANGED <<deal, vouched, stage>>
       /\ ClientDues' \subseteq ClientDues \cup (IF Asking(e) THEN {e.n} ELSE {})
       /\ NextInterval' = NextInterval
  <2>1. received' \in Nat /\ received <= received' BY <1>1, <1>2
  <2> QED BY <1>1, <1>2, <1>5, <1>13, <2>1, PostKeeps
<1>15. \E f : Leads(f)'
  <2>1. UNCHANGED <<transit, received, wire>> BY <1>1
  <2>2. \E f : Leads(f) BY <1>3
  <2> QED BY ONLY <2>1, <2>2, LeadKept
<1>16. ChannelInv'
  <2>1. answers' \in Seq(Answer) BY <1>1, <1>4
  <2>2. \A b \in Queue(answers') : Asks(b) => b.owed > 0 /\ WholeBytes(b.owed) BY <1>1, <1>3, <1>4
  <2>3. /\ transit' \in Seq(Nat) /\ received' \in Nat /\ payments' \in Seq(Nat)
        /\ finished' \in BOOLEAN
    BY <1>1, <1>2, <1>3
  <2> QED BY <1>15, <2>1, <2>2, <2>3 DEF ChannelInv
<1>17. OneInv'
  <2>1. AnswersDue' # {} => ClientDues' = {}
    <3>1. CASE Asks(a) BY <1>11, <3>1
    <3>2. CASE ~Asks(a)
      <4>1. ~Asking(e) BY <1>5, <3>2
      <4>2. ClientDues' \subseteq ClientDues BY <1>14, <4>1
      <4> QED BY <1>7, <1>12, <4>2
    <3> QED BY <3>1, <3>2
  <2> QED BY <1>1, <1>8, <1>14, <2>1 DEF OneInv
<1>18. Dues' \subseteq Dues BY <1>5, <1>11, <1>12, <1>14 DEF Dues
<1>19. Rests BY <1>1, <1>14, <1>18 DEF Rests
<1> QED BY <1>1, <1>14, <1>16, <1>17, <1>19 DEF ClientInv
-----------------------------------------------------------------------------
(* What the client and the channel leave alone *)

ProviderSide == ProviderInv /\ PQueueInv /\ LiveInv /\ PaidInv
Turns == OrderInv /\ TurnInv /\ SnapInv

LEMMA ProviderUntouched ==
    ASSUME ProviderSide, ProviderRests
    PROVE  /\ ProviderSide' /\ Best' = Best /\ \A S : Has(S)' <=> Has(S)
           /\ Going' <=> Going
<1>1. /\ pdeal' = pdeal /\ pevents' = pevents /\ pstage' = pstage /\ track' = track
      /\ pull' = pull /\ reval' = reval /\ saved' = saved /\ flow' = flow /\ wire' = wire
      /\ notices' = notices
  BY DEF ProviderRests
<1>2. Best' = Best BY <1>1, BestStays
<1>3. \A S : Has(S)' <=> Has(S) BY <1>1 DEF Has
<1>4. ProviderInv'
  <2>1. Now' = Now /\ (Alive' <=> Alive) BY <1>1, <1>2 DEF Now, Alive
  <2>2. Readers' = Readers BY <1>1 DEF Readers
  <2> QED BY <1>1, <1>2, <2>1, <2>2
      DEF ProviderSide, ProviderInv, ProviderTyped, QueueInv, StageInv, SentInv, NoticeInv, EndInv,
          CreditInv, Credited, Tallied, Tracked
<1>5. PQueueInv' BY <1>1, <1>3 DEF ProviderSide, PQueueInv
<1>6. LiveInv' BY <1>1, <1>3 DEF ProviderSide, LiveInv, Alive, Sending
<1>7. PaidInv' BY <1>1 DEF ProviderSide, PaidInv
<1>8. Going' <=> Going BY <1>1, <1>3 DEF Going
<1> QED BY <1>2, <1>3, <1>4, <1>5, <1>6, <1>7, <1>8 DEF ProviderSide

LEMMA DuesAreNumbers ==
    ASSUME ClientInv
    PROVE  Dues \subseteq Nat \ {0} /\ vouched \in Nat /\ NextInterval \in Nat
<1>1. /\ ClientTyped /\ vouched \in Nat
      /\ \A a \in Queue(answers) : a \in Answer /\ (Asks(a) => a.owed > 0)
  BY InQueue DEF ClientInv, ClientTyped, ChannelInv
<1>2. Queue(events) \subseteq C!Event BY <1>1, InQueue DEF ClientTyped
<1>3. AnswersDue \subseteq Nat \ {0} BY <1>1 DEF AnswersDue, Answer
<1>4. RequestsDue \subseteq Nat \ {0} BY <1>2 DEF RequestsDue, Asking, C!Event
<1>5. deal.paymentRequested \in Nat /\ deal.currentInterval \in Nat
  BY <1>1 DEF ClientTyped, C!ClientDealState
<1>6. DealDue \in Nat BY <1>5 DEF DealDue
<1>7. NextInterval \in Nat BY <1>5, ProviderDealAssumption DEF NextInterval
<1> QED BY <1>1, <1>3, <1>4, <1>6, <1>7 DEF Dues, ClientDues

\* A step that asks for nothing new
LEMMA RestsKeep ==
    ASSUME ProviderSide, Turns, ProviderRests, Rests
    PROVE  Turns'
<1>1. /\ pdeal' = pdeal /\ pevents' = pevents /\ pstage' = pstage /\ track' = track
      /\ pull' = pull /\ reval' = reval /\ saved' = saved /\ flow' = flow /\ wire' = wire
  BY DEF ProviderRests
<1>2. Best' = Best /\ (\A S : Has(S)' <=> Has(S)) /\ (Going' <=> Going) BY ProviderUntouched
<1>3. /\ vouched' = vouched /\ payments' = payments /\ Dues' \subseteq Dues
      /\ \A k : ClientAt(k) => ClientAt(k)'
  BY DEF Rests, ClientAt
<1>4. OrderInv' BY <1>1, <1>2, <1>3 DEF Turns, OrderInv
<1>5. \A n : Within(n) => Within(n)' BY <1>3 DEF Within
<1>6. NewTurn => NewTurn' BY <1>1, <1>2, <1>3 DEF NewTurn
<1>7. EvenTurn => EvenTurn' BY <1>1, <1>2, <1>3 DEF EvenTurn
<1>8. \A n : AskedTurn(n) => AskedTurn(n)' BY <1>1, <1>2, <1>3, <1>5 DEF AskedTurn
<1>9. PaidTurn => PaidTurn' BY <1>1, <1>2, <1>3 DEF PaidTurn
<1>10. TurnInv' BY <1>1, <1>2, <1>6, <1>7, <1>8, <1>9 DEF Turns, TurnInv
<1>11. SnapInv' BY <1>1, <1>2, <1>5 DEF Turns, SnapInv
<1> QED BY <1>4, <1>10, <1>11 DEF Turns

\* A payment
LEMMA SettlesKeep ==
    ASSUME ProviderSide, Turns, ClientInv, ProviderRests, Settles
    PROVE  Turns'
<1>1. /\ pdeal' = pdeal /\ pevents' = pevents /\ pstage' = pstage /\ track' = track
      /\ pull' = pull /\ reval' = reval /\ saved' = saved /\ flow' = flow /\ wire' = wire
  BY DEF ProviderRests
<1>2. Best' = Best /\ (\A S : Has(S)' <=> Has(S)) /\ (Going' <=> Going) BY ProviderUntouched
<1>3. PICK due \in Nat :
        /\ due > 0 /\ Dues = {due} /\ Dues' = {}
        /\ vouched' = vouched + due
        /\ payments' = payments \/ payments' = Append(payments, vouched')
        /\ UNCHANGED deal /\ deal.status \notin Sunk
        /\ NextInterval' = IF due >= Worth(NextInterval)
                             THEN NextInterval + PaymentIntervalIncrease ELSE NextInterval
  BY DEF Settles
<1>4. vouched \in Nat /\ NextInterval \in Nat /\ payments \in Seq(Nat)
  BY DuesAreNumbers DEF ClientInv, ChannelInv
<1>5. /\ Best \in Nat /\ reval \in Call /\ reval.n \in Nat
      /\ pdeal \in ProviderDealState /\ pdeal.currentInterval \in Nat
  BY BestFacts DEF ProviderSide, ProviderInv, ProviderTyped, Call, ProviderDealState
<1>6. OrderInv'
  <2>1. /\ Ordered(payments, Falling)
        /\ \A a \in Queue(payments) : Best < a /\ a <= vouched /\ (reval.pc # "idle" => reval.n < a)
        /\ reval.pc # "idle" => Best < reval.n /\ reval.n <= vouched
        /\ Best <= vouched
    BY DEF Turns, OrderInv
  <2>2. Queue(payments) \subseteq Nat BY <1>4, InQueue
  <2>3. vouched' \in Nat /\ vouched < vouched' BY <1>3, <1>4
  <2>4. Ordered(payments', Falling) /\ Queue(payments') \subseteq Queue(payments) \cup {vouched'}
    <3>1. CASE payments' = payments BY <2>1, <3>1
    <3>2. CASE payments' = Append(payments, vouched')
      <4>1. \A a \in Queue(payments) : <<a, vouched'>> \notin Falling
        BY <2>1, <2>2, <2>3, <1>4 DEF Falling
      <4> QED BY <1>4, <2>1, <2>3, <3>2, <4>1, OrderAdded, QueueAdded
    <3> QED BY <1>3, <3>1, <3>2
  <2>5. \A a \in Queue(payments') :
           Best' < a /\ a <= vouched' /\ (reval'.pc # "idle" => reval'.n < a)
    BY <1>1, <1>2, <1>4, <1>5, <2>1, <2>2, <2>3, <2>4
  <2>6. /\ reval'.pc # "idle" => Best' < reval'.n /\ reval'.n <= vouched'
        /\ Best' <= vouched'
    BY <1>1, <1>2, <1>4, <1>5, <2>1, <2>3
  <2> QED BY <2>4, <2>5, <2>6 DEF OrderInv
<1>7. \A n : Within(n) => Within(n)' BY <1>3 DEF Within
<1>8. ~NewTurn /\ ~EvenTurn /\ ~PaidTurn BY <1>3 DEF NewTurn, EvenTurn, PaidTurn
<1>9. ASSUME NEW n, AskedTurn(n) PROVE AskedTurn(n)'
  <2> DEFINE k == pdeal.currentInterval
  <2>1. vouched = Best BY <1>3, <1>9 DEF AskedTurn
  <2>2. /\ flow \in {"paused", "closed"} /\ pull.pc = "idle" /\ Best = pdeal.fundsReceived
        /\ Within(n) /\ track # {} /\ (\A c \in track : ~c.reload /\ c.totalSent <= n)
        /\ Best + Worth(k) <= Worth(n)
        /\ ClientAt(IF vouched > Best /\ vouched - Best >= Worth(k)
                      THEN k + PaymentIntervalIncrease ELSE k)
    BY <1>9 DEF AskedTurn
  <2>3. NextInterval = k
    <3>1. ~(vouched > Best) BY <2>1, <1>4
    <3>2. ClientAt(k) BY <2>2, <3>1
    <3> QED BY <1>3, <3>2 DEF ClientAt
  <2> HIDE DEF k
  <2>4. vouched' > Best' /\ vouched' - Best' = due BY <1>2, <1>3, <1>4, <2>1
  <2>5. ClientAt(IF vouched > Best /\ vouched - Best >= Worth(k)
                   THEN k + PaymentIntervalIncrease ELSE k)'
    <3>1. pdeal'.currentInterval = k BY <1>1 DEF k
    <3>2. NextInterval' = IF vouched' > Best' /\ vouched' - Best' >= Worth(k)
                             THEN k + PaymentIntervalIncrease ELSE k
      BY <1>3, <2>3, <2>4
    <3>3. k' = k BY <1>1 DEF k
    <3>4. Worth(k)' = Worth(k) BY <3>3 DEF Worth
    <3> QED BY <3>2, <3>3, <3>4 DEF ClientAt
  <2>6. Within(n)' BY <1>7, <2>2
  <2>7. /\ (Best + Worth(k) <= Worth(n))' /\ Dues' = {} /\ (flow \in {"paused", "closed"})'
        /\ (pull.pc = "idle" /\ Best = pdeal.fundsReceived)'
        /\ (track # {} /\ (\A c \in track : ~c.reload /\ c.totalSent <= n))'
    BY <1>1, <1>2, <1>3, <2>2 DEF Worth, k
  <2> QED BY <2>5, <2>6, <2>7 DEF AskedTurn, k
<1>10. TurnInv' BY <1>1, <1>2, <1>8, <1>9 DEF Turns, TurnInv
<1>11. SnapInv' BY <1>1, <1>2, <1>7 DEF Turns, SnapInv
<1> QED BY <1>6, <1>10, <1>11 DEF Turns
-----------------------------------------------------------------------------
(* The provider's steps, as the client's side sees them *)

\* Nothing changes for the client but the answers under way
ClientRests == UNCHANGED <<deal, events, stage, vouched, received, finished>>

\* What is asked for, vouched for and agreed on stays
AskedSame == /\ vouched' = vouched /\ payments' = payments /\ Dues' = Dues
             /\ \A k : ClientAt(k)' <=> ClientAt(k)

\* No request is among the new answers
NothingAsked == \/ answers' = answers
                \/ \E a \in Answer : ~Asks(a) /\ answers' = Append(answers, a)

LEMMA AnswersDueAdded ==
    ASSUME ClientInv, NEW a \in Answer, answers' = Append(answers, a)
    PROVE  /\ answers' \in Seq(Answer) /\ Queue(answers') = Queue(answers) \cup {a}
           /\ Asks(a) => AnswersDue' = AnswersDue \cup {a.owed}
           /\ ~Asks(a) => AnswersDue' = AnswersDue
           /\ Ordered(answers, TwoAnswers)
           /\ (Asks(a) => AnswersDue = {}) => Ordered(answers', TwoAnswers)
<1>1. answers \in Seq(Answer) /\ Ordered(answers, TwoAnswers)
  BY DEF ClientInv, ChannelInv, OneInv
<1>2. answers' \in Seq(Answer) /\ Queue(answers') = Queue(answers) \cup {a} BY <1>1, QueueAdded
<1>3. AnswersDue' = {b.owed : b \in {x \in Queue(answers') : Asks(x)}} BY DEF AnswersDue
<1>4. AnswersDue = {b.owed : b \in {x \in Queue(answers) : Asks(x)}} BY DEF AnswersDue
<1>5. Asks(a) => AnswersDue' = AnswersDue \cup {a.owed} BY <1>2, <1>3, <1>4
<1>6. ~Asks(a) => AnswersDue' = AnswersDue BY <1>2, <1>3, <1>4
<1>7. ASSUME Asks(a) => AnswersDue = {} PROVE Ordered(answers', TwoAnswers)
  <2>1. \A x \in Queue(answers) : <<x, a>> \notin TwoAnswers BY <1>4, <1>7 DEF TwoAnswers
  <2> QED BY <1>1, <2>1, OrderAdded
<1> QED BY <1>1, <1>2, <1>5, <1>6, <1>7

LEMMA ClientSame ==
    ASSUME ClientInv, ClientRests
    PROVE  /\ ClientTyped' /\ PaymentInv' /\ BytesInv' /\ OneRequest' /\ ClientDues' = ClientDues
           /\ vouched' = vouched /\ \A k : ClientAt(k)' <=> ClientAt(k)
<1>1. /\ deal' = deal /\ events' = events /\ stage' = stage /\ vouched' = vouched
      /\ received' = received
  BY DEF ClientRests
<1>2. ClientTyped /\ PaymentInv /\ BytesInv /\ OneRequest BY DEF ClientInv, OneInv
<1>3. Pending' <=> Pending BY <1>1 DEF Pending
<1>4. ClientDues' = ClientDues /\ RequestsDue' = RequestsDue /\ DealDue' = DealDue
  BY <1>1, <1>3 DEF ClientDues, RequestsDue, DealDue
<1>5. ClientTyped' BY <1>1, <1>2 DEF ClientTyped
<1>6. PaymentInv' BY <1>1, <1>2, <1>3 DEF PaymentInv
<1>7. BytesInv' BY <1>1, <1>2 DEF BytesInv
<1>8. OneRequest' BY <1>1, <1>2, <1>4 DEF OneRequest
<1>9. \A k : ClientAt(k)' <=> ClientAt(k) BY <1>1, <1>3 DEF ClientAt, NextInterval
<1> QED BY <1>1, <1>4, <1>5, <1>6, <1>7, <1>8, <1>9

LEMMA NothingAskedKeeps ==
    ASSUME ClientInv, ClientRests, NothingAsked, payments' \in Seq(Nat),
           transit' \in Seq(Nat), \E f : Leads(f)'
    PROVE  ClientInv' /\ Dues' = Dues
<1>1. /\ ClientTyped' /\ PaymentInv' /\ BytesInv' /\ OneRequest' /\ ClientDues' = ClientDues
  BY ClientSame
<1>2. /\ answers \in Seq(Answer) /\ received \in Nat /\ finished \in BOOLEAN
      /\ \A a \in Queue(answers) : Asks(a) => a.owed > 0 /\ WholeBytes(a.owed)
      /\ Ordered(answers, TwoAnswers) /\ (AnswersDue # {} => ClientDues = {})
  BY DEF ClientInv, ChannelInv, OneInv
<1>3. /\ answers' \in Seq(Answer) /\ AnswersDue' = AnswersDue /\ Ordered(answers', TwoAnswers)
      /\ \A a \in Queue(answers') : Asks(a) => a.owed > 0 /\ WholeBytes(a.owed)
  <2>1. CASE answers' = answers BY <1>2, <2>1 DEF AnswersDue
  <2>2. ASSUME NEW a \in Answer, ~Asks(a), answers' = Append(answers, a)
        PROVE  /\ answers' \in Seq(Answer) /\ AnswersDue' = AnswersDue /\ Ordered(answers', TwoAnswers)
               /\ \A b \in Queue(answers') : Asks(b) => b.owed > 0 /\ WholeBytes(b.owed)
    BY <1>2, <2>2, AnswersDueAdded
  <2> QED BY <2>1, <2>2 DEF NothingAsked
<1>4. ChannelInv' BY <1>2, <1>3 DEF ChannelInv, ClientRests
<1>5. OneInv' BY <1>1, <1>2, <1>3 DEF OneInv
<1> QED BY <1>1, <1>3, <1>4, <1>5 DEF ClientInv, Dues

\* A request is sent when nothing is due
LEMMA AskedKeeps ==
    ASSUME ClientInv, ClientRests, payments' \in Seq(Nat),
           transit' \in Seq(Nat), \E f : Leads(f)', Dues = {},
           NEW status \in {"FundsNeeded", "FundsNeededLastPayment"},
           NEW owed \in Nat, owed > 0, WholeBytes(owed),
           answers' = Append(answers, Response(status, owed))
    PROVE  ClientInv' /\ Dues' = {owed}
<1> DEFINE a == Response(status, owed)
<1>1. /\ ClientTyped' /\ PaymentInv' /\ BytesInv' /\ OneRequest' /\ ClientDues' = ClientDues
  BY ClientSame
<1>2. /\ answers \in Seq(Answer) /\ received \in Nat /\ finished \in BOOLEAN
      /\ \A b \in Queue(answers) : Asks(b) => b.owed > 0 /\ WholeBytes(b.owed)
      /\ Ordered(answers, TwoAnswers) /\ AnswersDue = {} /\ ClientDues = {}
  BY DEF ClientInv, ChannelInv, OneInv, Dues
<1>3. a \in Answer /\ Asks(a) /\ a.owed = owed BY DEF Response, Answer, AnswerNames, Asks
<1> HIDE DEF a
<1>4. answers' = Append(answers, a) BY DEF a
<1>5. /\ answers' \in Seq(Answer) /\ AnswersDue' = {owed} /\ Ordered(answers', TwoAnswers)
      /\ Queue(answers') = Queue(answers) \cup {a}
  BY <1>2, <1>3, <1>4, AnswersDueAdded
<1>6. \A b \in Queue(answers') : Asks(b) => b.owed > 0 /\ WholeBytes(b.owed) BY <1>2, <1>3, <1>5
<1>7. ChannelInv' BY <1>2, <1>5, <1>6 DEF ChannelInv, ClientRests
<1>8. OneInv' BY <1>1, <1>2, <1>5 DEF OneInv
<1>9. Dues' = {owed} BY <1>1, <1>2, <1>5 DEF Dues
<1> QED BY <1>1, <1>7, <1>8, <1>9 DEF ClientInv
-----------------------------------------------------------------------------
(* The provider's queue and numbers *)

LEMMA PTaken ==
    ASSUME ProviderSide, pevents # <<>>, pevents' = Tail(pevents) \/ pevents' = <<>>
    PROVE  /\ Head(pevents) \in PEvent /\ Head(pevents) \in Queue(pevents)
           /\ Fits(Head(pevents), Now)
           /\ Queue(pevents') \subseteq Queue(pevents) /\ Ordered(pevents', Early)
           /\ \A e \in Queue(pevents') : e \in PEvent /\ ~TooEarly(Head(pevents), e)
           /\ \A S : Has(S)' => Has(S)
           /\ pevents' = Tail(pevents)
                => \A S : Head(pevents).name \notin S => (Has(S)' <=> Has(S))
<1> DEFINE h == Head(pevents)
           t == Tail(pevents)
<1>1. pevents \in Seq(PEvent) /\ Ordered(pevents, Early) /\ Consistent(pevents, Now)
  BY DEF ProviderSide, PQueueInv, ProviderInv, ProviderTyped, QueueInv
<1>2. h \in PEvent /\ t \in Seq(PEvent) /\ Queue(pevents) = {h} \cup Queue(t)
  BY <1>1, QueueTaken
<1>3. Ordered(t, Early) /\ \A e \in Queue(t) : <<h, e>> \notin Early BY <1>1, OrderTaken
<1>4. Fits(h, Now) BY <1>1, HeadFits
<1>5. Queue(t) \subseteq PEvent BY <1>2, InQueue
<1> HIDE DEF h, t
<1>6. pevents' = t \/ pevents' = <<>> BY DEF t
<1>7. Queue(pevents') \subseteq Queue(t) /\ Ordered(pevents', Early)
  BY <1>3, <1>6, NoQueue
<1>8. \A e \in Queue(pevents') : e \in PEvent /\ ~TooEarly(h, e)
  BY <1>2, <1>3, <1>5, <1>7 DEF Early
<1>9. \A S : Has(S)' => Has(S) BY <1>2, <1>7 DEF Has
<1>10. ASSUME pevents' = t, NEW S, h.name \notin S PROVE Has(S)' <=> Has(S)
  BY <1>2, <1>10 DEF Has
<1>11. Queue(pevents') \subseteq Queue(pevents) /\ h \in Queue(pevents) BY <1>2, <1>7
<1>12. pevents' = t => \A S : h.name \notin S => (Has(S)' <=> Has(S)) BY <1>10
<1> QED BY <1>2, <1>4, <1>7, <1>8, <1>9, <1>11, <1>12 DEF h, t

LEMMA PAdded ==
    ASSUME pevents \in Seq(PEvent), Ordered(pevents, Early), NEW x \in PEvent,
           pevents' = Append(pevents, x), \A e \in Queue(pevents) : ~TooEarly(e, x)
    PROVE  /\ Ordered(pevents', Early) /\ Queue(pevents') = Queue(pevents) \cup {x}
           /\ pevents' \in Seq(PEvent)
           /\ \A S : Has(S)' <=> Has(S) \/ x.name \in S
<1>1. Queue(pevents') = Queue(pevents) \cup {x} /\ pevents' \in Seq(PEvent) BY QueueAdded
<1>2. \A e \in Queue(pevents) : <<e, x>> \notin Early BY DEF Early
<1>3. Ordered(pevents', Early) BY <1>2, OrderAdded
<1>4. \A S : Has(S)' <=> Has(S) \/ x.name \in S BY <1>1 DEF Has
<1> QED BY <1>1, <1>3, <1>4

\* SendAll, of one event
LEMMA SentOne ==
    ASSUME pevents \in Seq(PEvent), NEW x \in PEvent, SendAll(<<x>>)
    PROVE  (Alive => pevents' = Append(pevents, x)) /\ (~Alive => pevents' = pevents)
BY AddedInARow DEF SendAll

LEMMA Numbers ==
    ASSUME ProviderInv
    PROVE  /\ Best \in Nat /\ pdeal \in ProviderDealState /\ pdeal.totalSent \in Nat
           /\ pdeal.fundsReceived \in Int /\ pdeal.currentInterval \in Nat
           /\ pevents \in Seq(PEvent) /\ wire \in Nat
           /\ \A c \in track : /\ c \in ChannelData /\ c.totalSent \in Nat
                               /\ c.totalPaidFor \in Nat /\ c.interval \in Nat
                               /\ c.reload \in BOOLEAN
           /\ reval \in Call /\ reval.n \in Nat /\ pull \in Call /\ pull.n \in Nat
           /\ \A d \in pull.snap \cup reval.snap :
                 /\ d \in ProviderDealState /\ d.totalSent \in Nat
                 /\ d.fundsReceived \in Int /\ d.currentInterval \in Nat
           /\ \A e \in Queue(pevents) : e \in PEvent /\ e.n \in Int /\ Fits(e, Now)
<1>1. /\ pdeal \in ProviderDealState /\ pevents \in Seq(PEvent) /\ wire \in Nat
      /\ track \subseteq ChannelData /\ reval \in Call /\ pull \in Call /\ Best \in Nat
  BY BestFacts DEF ProviderInv, ProviderTyped
<1>2. Queue(pevents) \subseteq PEvent BY <1>1, InQueue
<1>3. \A e \in Queue(pevents) : Fits(e, Now)
  BY DEF Queue, ProviderInv, QueueInv, Consistent
<1>4. pull.snap \subseteq ProviderDealState /\ reval.snap \subseteq ProviderDealState
  BY <1>1 DEF Call
<1>5. reval.n \in Nat /\ pull.n \in Nat BY <1>1 DEF Call
<1>6. \A d \in ProviderDealState : /\ d.totalSent \in Nat /\ d.fundsReceived \in Int
                                   /\ d.currentInterval \in Nat
  BY DEF ProviderDealState
<1>7. \A c \in ChannelData : /\ c.totalSent \in Nat /\ c.totalPaidFor \in Nat /\ c.interval \in Nat
                             /\ c.reload \in BOOLEAN
  BY DEF ChannelData
<1>8. \A e \in PEvent : e.n \in Int BY DEF PEvent
<1> QED BY <1>1, <1>2, <1>3, <1>4, <1>5, <1>6, <1>7, <1>8

\* The machine moves to a status s with the record d
LEMMA PEnterShape ==
    ASSUME NEW s, NEW d \in ProviderDealState, PEnter(s, d)
    PROVE  /\ pdeal'.status = s /\ pdeal'.totalSent = d.totalSent
           /\ pdeal'.fundsReceived = d.fundsReceived /\ pdeal'.currentInterval = d.currentInterval
           /\ pevents' = Tail(pevents) \/ pevents' = <<>>
           /\ s \notin PFinal => pevents' = Tail(pevents)
           /\ pstage' # "none" /\ (s \in PFinal => pstage' = "terminated")
           /\ s \notin PFinal => pstage' \in {"idle", "handler"}
BY DEF PEnter, ProviderDealState
-----------------------------------------------------------------------------
(* The provider's machine *)

Joint == ProviderSide /\ ClientInv /\ Turns

\* The deal leaves the statuses in which blocks are counted
LEMMA MachineLeaves ==
    ASSUME ProviderSide, ProviderInv', Turns, AskedSame, UNCHANGED Others,
           pevents # <<>>, pevents' = Tail(pevents) \/ pevents' = <<>>,
           pdeal'.totalSent = pdeal.totalSent, pdeal'.fundsReceived = pdeal.fundsReceived,
           pdeal'.status \notin {"New", "Ongoing", "FundsNeeded", "FundsNeededLastPayment",
                                 "Finalizing"},
           pstage' = "terminated" \/ ~Sending, pstage' # "none"
    PROVE  ProviderSide' /\ Turns'
<1>1. /\ track' = track /\ pull' = pull /\ reval' = reval /\ saved' = saved /\ flow' = flow
      /\ wire' = wire
  BY DEF Others
<1>2. /\ Queue(pevents') \subseteq Queue(pevents) /\ Ordered(pevents', Early)
      /\ \A S : Has(S)' => Has(S)
  BY PTaken
<1>3. Best' = Best BY <1>1, BestStays
<1>4. PQueueInv' BY <1>1, <1>2 DEF ProviderSide, PQueueInv
<1>5. LiveInv' BY <1>1 DEF ProviderSide, LiveInv, Sending, Alive
<1>6. PaidInv' BY <1>1, <1>2 DEF ProviderSide, PaidInv
<1>7. TurnInv' BY DEF TurnInv, Going
<1>8. \A n : Within(n) => Within(n)' BY DEF Within, AskedSame
<1>9. SnapInv' BY <1>1, <1>8 DEF Turns, SnapInv
<1>10. OrderInv' BY <1>1, <1>3 DEF Turns, OrderInv, AskedSame
<1> QED BY <1>4, <1>5, <1>6, <1>7, <1>9, <1>10 DEF ProviderSide, Turns

LEMMA LeavingEvents ==
    ASSUME ProviderSide, ProviderInv', Turns, AskedSame,
           \/ BlocksCompleted \/ SaveVoucherFailed \/ Complete \/ CleanupComplete
           \/ CancelComplete \/ ErrorDeal \/ ClientCancelled
    PROVE  ProviderSide' /\ Turns'
<1>1. ProviderInv /\ pdeal \in ProviderDealState BY Numbers DEF ProviderSide
<1>2. ASSUME NEW name \in PEventNames, NEW s \in PLive \cup PFinal, PTake(name), PEnter(s, pdeal),
             UNCHANGED Others,
             s \notin {"New", "Ongoing", "FundsNeeded", "FundsNeededLastPayment", "Finalizing"},
             \/ s \in PFinal
             \/ name \in {"SaveVoucherFailed", "BlocksCompleted"}
             \/ pdeal.status \notin {"New", "Ongoing", "FundsNeeded"}
      PROVE  ProviderSide' /\ Turns'
  <2>1. /\ pevents # <<>> /\ Head(pevents).name = name /\ pstage = "idle"
    BY <1>2 DEF PTake
  <2>2. /\ pdeal'.status = s /\ pdeal'.totalSent = pdeal.totalSent
        /\ pdeal'.fundsReceived = pdeal.fundsReceived
        /\ pevents' = Tail(pevents) \/ pevents' = <<>>
        /\ pstage' # "none" /\ (s \in PFinal => pstage' = "terminated")
    BY <1>1, <1>2, PEnterShape
  <2>3. Head(pevents) \in Queue(pevents) BY <2>1, <2>2, PTaken
  <2>4. name \in {"SaveVoucherFailed", "BlocksCompleted"} => Has({"SaveVoucherFailed", "BlocksCompleted"})
    BY <2>1, <2>3 DEF Has
  <2>5. Alive BY <2>1 DEF Alive
  <2>6. s \in PFinal \/ ~Sending BY <1>2, <2>4, <2>5 DEF ProviderSide, LiveInv
  <2> QED BY <1>2, <2>1, <2>2, <2>6, MachineLeaves
<1>3. CASE BlocksCompleted BY <1>2, <1>3, EventNames DEF BlocksCompleted, PLive
<1>4. CASE SaveVoucherFailed BY <1>2, <1>4, EventNames DEF SaveVoucherFailed, PLive
<1>5. CASE Complete
  <2>1. pdeal.status \in {"BlocksComplete", "Finalizing"} BY <1>5 DEF Complete, PTake, PSources
  <2> QED BY <1>2, <1>5, <2>1, EventNames DEF Complete, PLive
<1>6. CASE CleanupComplete BY <1>2, <1>6, EventNames DEF CleanupComplete, PFinal
<1>7. CASE CancelComplete BY <1>2, <1>7, EventNames DEF CancelComplete, PFinal
<1>8. CASE ErrorDeal
  <2>1. PICK name \in {"DataTransferError", "MultiStoreError"} :
            PTake(name) /\ PEnter("Errored", pdeal)
    BY <1>8 DEF ErrorDeal
  <2> QED BY <1>2, <1>8, <2>1, EventNames DEF ErrorDeal, PFinal
<1>9. CASE ClientCancelled
  <2>1. PTake("ClientCancelled") /\ UNCHANGED Others BY <1>9 DEF ClientCancelled
  <2>2. CASE pdeal.status = "Failing" /\ pevents' = Tail(pevents) /\ UNCHANGED <<pdeal, pstage>>
    <3>1. pevents # <<>> /\ pstage = "idle" BY <2>1 DEF PTake
    <3>2. ~Sending BY <2>2, <3>1 DEF Alive, ProviderSide, LiveInv
    <3> QED BY <2>1, <2>2, <3>1, <3>2, MachineLeaves
  <2>3. CASE PEnter("Cancelled", pdeal) BY <1>2, <2>1, <2>3, EventNames DEF PFinal
  <2> QED BY <1>9, <2>2, <2>3 DEF ClientCancelled
<1> QED BY <1>3, <1>4, <1>5, <1>6, <1>7, <1>8, <1>9

\* What a record of the deal keeps of the turns: the parts an event leaves alone
LEMMA OpenKeeps ==
    ASSUME ProviderSide, ProviderInv', Turns, AskedSame, Open
    PROVE  ProviderSide' /\ Turns'
<1> DEFINE d == [pdeal EXCEPT !.totalSent = 0, !.fundsReceived = 0,
                              !.currentInterval = PaymentInterval]
<1>1. PTake("Open") /\ PEnter("New", d) /\ UNCHANGED Others BY DEF Open
<1>2. ProviderInv /\ pdeal \in ProviderDealState BY Numbers DEF ProviderSide
<1>3. /\ d \in ProviderDealState /\ d.totalSent = 0 /\ d.fundsReceived = 0
      /\ d.currentInterval = PaymentInterval
  <2>1. PICK z \in Nat : z = 0 OBVIOUS
  <2>2. z \in Int OBVIOUS
  <2> DEFINE r == [pdeal EXCEPT !.totalSent = z, !.fundsReceived = z,
                                !.currentInterval = PaymentInterval]
  <2>3. /\ r \in ProviderDealState /\ r.totalSent = z /\ r.fundsReceived = z
        /\ r.currentInterval = PaymentInterval
    BY <1>2, <2>2, ProviderDealAssumption DEF ProviderDealState
  <2>4. d = r BY <2>1
  <2> HIDE DEF d, r
  <2> QED BY <2>1, <2>3, <2>4
<1>4. /\ track' = track /\ pull' = pull /\ reval' = reval /\ saved' = saved /\ flow' = flow
  BY <1>1 DEF Others
<1>5. pevents # <<>> /\ pdeal.status = "New" /\ pstage = "idle"
  BY <1>1 DEF PTake, PSources
<1> HIDE DEF d
<1>6. /\ pdeal'.status = "New" /\ pdeal'.totalSent = 0 /\ pdeal'.fundsReceived = 0
      /\ pdeal'.currentInterval = PaymentInterval /\ pevents' = Tail(pevents)
      /\ pstage' \in {"idle", "handler"}
  BY <1>1, <1>3, PEnterShape DEF PFinal
<1>7. /\ Queue(pevents') \subseteq Queue(pevents) /\ Ordered(pevents', Early)
      /\ \A S : Has(S)' => Has(S)
  BY <1>5, <1>6, PTaken
<1>8. Best' = Best BY <1>4, BestStays
<1>9. NewTurn BY <1>5 DEF Turns, TurnInv
<1>10. PQueueInv' BY <1>4, <1>5, <1>7 DEF ProviderSide, PQueueInv
<1>11. LiveInv' BY <1>4, <1>5, <1>6, <1>7 DEF ProviderSide, LiveInv, Sending, Alive
<1>12. PaidInv'
  <2>1. Worth(0) = 0 /\ WholeBytes(0) BY WorthFacts, WholeBytesSum
  <2>2. \A e \in Queue(pevents') : e.name \notin Counts
    <3>1. ~Has(Reports \cup Payments \cup Syncs) BY <1>5 DEF ProviderSide, PQueueInv
    <3> QED BY <1>7, <3>1 DEF Has, Counts, Reports
  <2> QED BY <1>4, <1>6, <2>1, <2>2 DEF ProviderSide, PaidInv
<1>13. NewTurn' BY <1>4, <1>6, <1>8, <1>9 DEF NewTurn, AskedSame
<1>14. TurnInv' BY <1>6, <1>13 DEF TurnInv, Going
<1>15. \A n : Within(n) => Within(n)' BY DEF Within, AskedSame
<1>16. SnapInv' BY <1>4, <1>6, <1>15 DEF Turns, SnapInv
<1>17. OrderInv' BY <1>4, <1>8 DEF Turns, OrderInv, AskedSame
<1> QED BY <1>10, <1>11, <1>12, <1>14, <1>16, <1>17 DEF ProviderSide, Turns

LEMMA DealAcceptedKeeps ==
    ASSUME ProviderSide, ProviderInv', Turns, AskedSame, DealAccepted
    PROVE  ProviderSide' /\ Turns'
<1>1. PTake("DealAccepted") /\ PEnter("Ongoing", pdeal) /\ UNCHANGED Others BY DEF DealAccepted
<1>2. ProviderInv /\ pdeal \in ProviderDealState /\ pdeal.currentInterval \in Nat
  BY Numbers DEF ProviderSide
<1>3. /\ track' = track /\ pull' = pull /\ reval' = reval /\ saved' = saved /\ flow' = flow
  BY <1>1 DEF Others
<1>4. /\ pevents # <<>> /\ pdeal.status = "New" /\ pstage = "idle"
      /\ Head(pevents).name = "DealAccepted"
  BY <1>1 DEF PTake, PSources
<1>5. /\ pdeal'.status = "Ongoing" /\ pdeal'.totalSent = pdeal.totalSent
      /\ pdeal'.fundsReceived = pdeal.fundsReceived
      /\ pdeal'.currentInterval = pdeal.currentInterval /\ pevents' = Tail(pevents)
      /\ pstage' \in {"idle", "handler"}
  BY <1>1, <1>2, PEnterShape DEF PFinal
<1>6. /\ Queue(pevents') \subseteq Queue(pevents) /\ Ordered(pevents', Early)
      /\ \A S : Has(S)' => Has(S)
      /\ \A S : "DealAccepted" \notin S => (Has(S)' <=> Has(S))
      /\ Head(pevents) \in Queue(pevents)
  BY <1>4, <1>5, PTaken
<1>7. Best' = Best BY <1>3, BestStays
<1>8. NewTurn BY <1>4 DEF Turns, TurnInv
<1>9. ~Has(Reports \cup Payments \cup Syncs) BY <1>4 DEF ProviderSide, PQueueInv
<1>10. PQueueInv' BY <1>3, <1>4, <1>5, <1>6 DEF ProviderSide, PQueueInv
<1>11. LiveInv' BY <1>3, <1>4, <1>5, <1>6 DEF ProviderSide, LiveInv, Sending, Alive
<1>12. PaidInv' BY <1>3, <1>5, <1>6 DEF ProviderSide, PaidInv
<1>13. ~Has({"Open"})
  <2>1. Queue(pevents) = {Head(pevents)} \cup Queue(Tail(pevents)) BY <1>2, <1>4, QueueTaken, Numbers
  <2>2. \A e \in Queue(pevents') : ~TooEarly(Head(pevents), e) BY <1>4, <1>5, PTaken
  <2>3. \A e \in Queue(pevents') : e.name # "Open" BY <2>2 DEF TooEarly
  <2> QED BY <1>4, <1>5, <2>1, <2>3 DEF Has
<1>14. pdeal.currentInterval = PaymentInterval BY <1>4, <1>8, <1>13 DEF NewTurn
<1>15. reval.pc = "idle" /\ pull.pc = "idle"
  <2>1. Readers = {} BY <1>2, <1>8 DEF ProviderInv, Tracked, NewTurn
  <2> QED BY <2>1 DEF Readers
<1>16. pull.snap = {} BY <1>15 DEF ProviderSide, PQueueInv
<1>17. flow # "none" BY <1>2, <1>4 DEF ProviderInv, StageInv
<1>18. EvenTurn'
  BY <1>3, <1>5, <1>7, <1>8, <1>14, <1>15, <1>16, <1>17 DEF NewTurn, EvenTurn, AskedSame
<1>19. ~Has(Reports)' BY <1>6, <1>9 DEF Has
<1>20. TurnInv'
  <2>1. Worth(pdeal'.totalSent) <= pdeal'.fundsReceived + Worth(pdeal'.currentInterval)
    <3>1. pdeal'.totalSent = 0 /\ pdeal'.fundsReceived = 0 BY <1>5, <1>8 DEF NewTurn
    <3>2. Worth(0) = 0 /\ Worth(pdeal'.currentInterval) \in Nat BY <1>2, <1>5, WorthFacts
    <3> QED BY <3>1, <3>2
  <2>2. \A e \in Queue(pevents') : e.name \notin {"BlockSent", "PaymentRequested"}
    BY <1>19 DEF Has, Reports
  <2> QED BY <1>5, <1>18, <2>1, <2>2 DEF TurnInv
<1>21. \A n : Within(n) => Within(n)' BY DEF Within, AskedSame
<1>22. SnapInv' BY <1>3, <1>5, <1>21 DEF Turns, SnapInv
<1>23. OrderInv' BY <1>3, <1>7 DEF Turns, OrderInv, AskedSame
<1> QED BY <1>10, <1>11, <1>12, <1>20, <1>22, <1>23 DEF ProviderSide, Turns

LEMMA BlockSentKeeps ==
    ASSUME ProviderSide, ProviderInv', Turns, AskedSame, BlockSent
    PROVE  ProviderSide' /\ Turns'
<1> DEFINE h == Head(pevents)
           d == [pdeal EXCEPT !.totalSent = h.n]
<1>1. PTake("BlockSent") /\ PEnter("Ongoing", d) /\ UNCHANGED Others BY DEF BlockSent
<1>2. /\ ProviderInv /\ pdeal \in ProviderDealState /\ pdeal.currentInterval \in Nat
      /\ pdeal.fundsReceived \in Int
  BY Numbers DEF ProviderSide
<1>3. /\ track' = track /\ pull' = pull /\ reval' = reval /\ saved' = saved /\ flow' = flow
  BY <1>1 DEF Others
<1>4. /\ pevents # <<>> /\ pdeal.status = "Ongoing" /\ pstage = "idle" /\ h.name = "BlockSent"
  BY <1>1 DEF PTake, PSources
<1>5. h \in Queue(pevents) /\ h \in PEvent /\ Fits(h, Now)
  <2>1. pevents' = Tail(pevents) BY <1>1 DEF PEnter, PFinal
  <2> QED BY <1>4, <2>1, PTaken
<1>6. h.n \in Nat BY <1>4, <1>5 DEF Fits, Counts, PEvent
<1>7. /\ d \in ProviderDealState /\ d.totalSent = h.n /\ d.fundsReceived = pdeal.fundsReceived
      /\ d.currentInterval = pdeal.currentInterval
  BY <1>2, <1>6 DEF ProviderDealState
<1> HIDE DEF d
<1>8. /\ pdeal'.status = "Ongoing" /\ pdeal'.totalSent = h.n
      /\ pdeal'.fundsReceived = pdeal.fundsReceived
      /\ pdeal'.currentInterval = pdeal.currentInterval /\ pevents' = Tail(pevents)
      /\ pstage' \in {"idle", "handler"}
  BY <1>1, <1>7, PEnterShape DEF PFinal
<1>9. /\ Queue(pevents') \subseteq Queue(pevents) /\ Ordered(pevents', Early)
      /\ \A S : Has(S)' => Has(S)
      /\ \A S : "BlockSent" \notin S => (Has(S)' <=> Has(S))
  BY <1>4, <1>8, PTaken
<1> HIDE DEF h
<1>10. Best' = Best BY <1>3, BestStays
<1>11. PQueueInv' BY <1>3, <1>4, <1>8, <1>9 DEF ProviderSide, PQueueInv
<1>12. LiveInv' BY <1>3, <1>4, <1>8, <1>9 DEF ProviderSide, LiveInv, Sending, Alive
<1>13. PaidInv' BY <1>3, <1>4, <1>5, <1>8, <1>9 DEF ProviderSide, PaidInv, Counts
<1>14. \A n : Within(n) => Within(n)' BY DEF Within, AskedSame
<1>15. EvenTurn => EvenTurn' BY <1>3, <1>8, <1>10 DEF EvenTurn, AskedSame
<1>16. \A n : AskedTurn(n) => AskedTurn(n)'
  BY <1>3, <1>8, <1>10, <1>14 DEF AskedTurn, AskedSame
<1>17. (Has({"BlocksCompleted"})' <=> Has({"BlocksCompleted"}))
       /\ (Has({"PaymentRequested"})' <=> Has({"PaymentRequested"}))
  BY <1>9
<1>18. TurnInv'
  <2>1. ASSUME Going'
        PROVE  /\ Worth(pdeal'.totalSent) <= pdeal'.fundsReceived + Worth(pdeal'.currentInterval)
               /\ \A e \in Queue(pevents') : e.name = "BlockSent" =>
                      Worth(e.n) <= pdeal'.fundsReceived + Worth(pdeal'.currentInterval)
               /\ ~Has({"PaymentRequested"})' => EvenTurn'
               /\ \A e \in Queue(pevents') : e.name = "PaymentRequested" => AskedTurn(e.n)'
    <3>1. Going BY <1>4, <1>17, <2>1 DEF Going
    <3>2. /\ \A e \in Queue(pevents) : e.name = "BlockSent" =>
                Worth(e.n) <= pdeal.fundsReceived + Worth(pdeal.currentInterval)
          /\ ~Has({"PaymentRequested"}) => EvenTurn
          /\ \A e \in Queue(pevents) : e.name = "PaymentRequested" => AskedTurn(e.n)
      BY <3>1 DEF Turns, TurnInv
    <3>3. Worth(pdeal'.totalSent) <= pdeal'.fundsReceived + Worth(pdeal'.currentInterval)
      BY <1>4, <1>5, <1>8, <3>2
    <3> QED BY <1>8, <1>9, <1>15, <1>16, <1>17, <3>2, <3>3
  <2> QED BY <1>8, <2>1 DEF TurnInv
<1>19. SnapInv' BY <1>3, <1>8, <1>14 DEF Turns, SnapInv
<1>20. OrderInv' BY <1>3, <1>10 DEF Turns, OrderInv, AskedSame
<1> QED BY <1>11, <1>12, <1>13, <1>18, <1>19, <1>20 DEF ProviderSide, Turns

LEMMA PaymentRequestedKeeps ==
    ASSUME ProviderSide, ProviderInv', Turns, AskedSame, PaymentRequested
    PROVE  ProviderSide' /\ Turns'
<1> DEFINE h == Head(pevents)
           d == [pdeal EXCEPT !.totalSent = h.n]
<1>1. PTake("PaymentRequested") /\ PEnter("FundsNeeded", d) /\ UNCHANGED Others
  BY DEF PaymentRequested
<1>2. /\ ProviderInv /\ pdeal \in ProviderDealState /\ pdeal.currentInterval \in Nat
      /\ pdeal.fundsReceived \in Int
  BY Numbers DEF ProviderSide
<1>3. /\ track' = track /\ pull' = pull /\ reval' = reval /\ saved' = saved /\ flow' = flow
  BY <1>1 DEF Others
<1>4. /\ pevents # <<>> /\ pdeal.status = "Ongoing" /\ pstage = "idle"
      /\ h.name = "PaymentRequested"
  BY <1>1 DEF PTake, PSources
<1>5. h \in Queue(pevents) /\ h \in PEvent /\ Fits(h, Now)
  <2>1. pevents' = Tail(pevents) BY <1>1 DEF PEnter, PFinal
  <2> QED BY <1>4, <2>1, PTaken
<1>6. h.n \in Nat BY <1>4, <1>5 DEF Fits, Counts, PEvent
<1>7. /\ d \in ProviderDealState /\ d.totalSent = h.n /\ d.fundsReceived = pdeal.fundsReceived
      /\ d.currentInterval = pdeal.currentInterval
  BY <1>2, <1>6 DEF ProviderDealState
<1> HIDE DEF d
<1>8. /\ pdeal'.status = "FundsNeeded" /\ pdeal'.totalSent = h.n
      /\ pdeal'.fundsReceived = pdeal.fundsReceived
      /\ pdeal'.currentInterval = pdeal.currentInterval /\ pevents' = Tail(pevents)
      /\ pstage' \in {"idle", "handler"}
  BY <1>1, <1>7, PEnterShape DEF PFinal
<1>9. /\ Queue(pevents') \subseteq Queue(pevents) /\ Ordered(pevents', Early)
      /\ \A S : Has(S)' => Has(S)
      /\ \A S : "PaymentRequested" \notin S => (Has(S)' <=> Has(S))
      /\ \A e \in Queue(pevents') : ~TooEarly(h, e)
  BY <1>4, <1>8, PTaken
<1> HIDE DEF h
<1>10. Best' = Best BY <1>3, BestStays
\* Behind it there is no report and no payment
<1>11. ~Has(Reports \cup Payments)'
  BY <1>4, <1>9 DEF Has, TooEarly, Reports
<1>12. Has(Reports) /\ reval.pc # "answered"
  BY <1>4, <1>5 DEF Has, Reports, ProviderSide, PQueueInv
<1>13. Going
  <2>1. ~Has({"BlocksCompleted"})' BY <1>11 DEF Has, Reports
  <2>2. ~Has({"BlocksCompleted"}) BY <1>9, <2>1
  <2> QED BY <1>4, <2>2 DEF Going
<1>14. AskedTurn(h.n) BY <1>4, <1>5, <1>13 DEF Turns, TurnInv
<1>15. PQueueInv' BY <1>3, <1>8, <1>9 DEF ProviderSide, PQueueInv
<1>16. LiveInv' BY <1>3, <1>4, <1>8, <1>9 DEF ProviderSide, LiveInv, Sending, Alive
<1>17. PaidInv' BY <1>3, <1>4, <1>5, <1>8, <1>9 DEF ProviderSide, PaidInv, Counts
<1>18. \A n : Within(n) => Within(n)' BY DEF Within, AskedSame
<1>20. ~Has(Payments)' /\ ~Has(Counts)' BY <1>11 DEF Has, Reports, Counts
<1>21. AskedTurn(pdeal.totalSent)' BY <1>3, <1>8, <1>10, <1>14, <1>18 DEF AskedTurn, AskedSame
<1>22. TurnInv' BY <1>8, <1>20, <1>21 DEF TurnInv, Going
<1>23. reval'.snap = {} BY <1>2, <1>3, <1>12 DEF ProviderInv, CreditInv
<1>24. SnapInv' BY <1>23 DEF SnapInv
<1>25. OrderInv' BY <1>3, <1>10 DEF Turns, OrderInv, AskedSame
<1> QED BY <1>15, <1>16, <1>17, <1>22, <1>24, <1>25 DEF ProviderSide, Turns

\* A partial payment is never queued
LEMMA PaymentReceivedKeeps ==
    ASSUME ProviderSide, ProviderInv', Turns, AskedSame, PaymentReceived \/ PartialPaymentReceived
    PROVE  ProviderSide' /\ Turns' /\ ~PartialPaymentReceived
<1> DEFINE h == Head(pevents)
           d == [pdeal EXCEPT !.fundsReceived = @ + h.n,
                              !.currentInterval = @ + PaymentIntervalIncrease]
<1>1. /\ UNCHANGED Others /\ pevents # <<>> /\ h.name \in Payments /\ pstage = "idle"
      /\ pdeal.status \in {"FundsNeeded", "FundsNeededLastPayment"}
      /\ pevents' = Tail(pevents) \/ pevents' = <<>>
  BY DEF PaymentReceived, PartialPaymentReceived, PTake, PSources, Payments, PEnter
<1>2. /\ ProviderInv /\ pdeal \in ProviderDealState /\ pdeal.currentInterval \in Nat
      /\ pdeal.totalSent \in Nat /\ pdeal.fundsReceived \in Int /\ Best \in Nat
  BY Numbers DEF ProviderSide
<1>3. /\ track' = track /\ pull' = pull /\ reval' = reval /\ saved' = saved /\ flow' = flow
  BY <1>1 DEF Others
<1>4. h \in Queue(pevents) /\ h \in PEvent BY <1>1, PTaken
<1>5. h.name = "PaymentReceived" BY <1>1, <1>4 DEF ProviderSide, PQueueInv
<1>6. ~PartialPaymentReceived BY <1>5 DEF PartialPaymentReceived, PTake
<1>7. pdeal.status = "FundsNeeded" BY <1>1 DEF ProviderSide, LiveInv
<1>8. PEnter("Ongoing", d) BY <1>6, <1>7 DEF PaymentReceived
<1>9. h.n \in Int /\ PaymentIntervalIncrease \in Nat BY <1>4, ProviderDealAssumption DEF PEvent
<1>10. /\ d \in ProviderDealState /\ d.totalSent = pdeal.totalSent
       /\ d.fundsReceived = pdeal.fundsReceived + h.n
       /\ d.currentInterval = pdeal.currentInterval + PaymentIntervalIncrease
  <2>1. PICK f \in Int : f = pdeal.fundsReceived + h.n BY <1>2, <1>9
  <2>2. PICK c \in Nat : c = pdeal.currentInterval + PaymentIntervalIncrease BY <1>2, <1>9
  <2> DEFINE r == [pdeal EXCEPT !.fundsReceived = f, !.currentInterval = c]
  <2>3. /\ r \in ProviderDealState /\ r.totalSent = pdeal.totalSent
        /\ r.fundsReceived = f /\ r.currentInterval = c
    BY <1>2 DEF ProviderDealState
  <2>4. d = r BY <2>1, <2>2
  <2> HIDE DEF d, r
  <2> QED BY <2>1, <2>2, <2>3, <2>4
<1> HIDE DEF d
<1>11. /\ pdeal'.status = "Ongoing" /\ pdeal'.totalSent = pdeal.totalSent
       /\ pdeal'.fundsReceived = pdeal.fundsReceived + h.n
       /\ pdeal'.currentInterval = pdeal.currentInterval + PaymentIntervalIncrease
       /\ pevents' = Tail(pevents) /\ pstage' \in {"idle", "handler"}
  BY <1>8, <1>10, PEnterShape DEF PFinal
<1>12. Has(Payments) BY <1>1, <1>4 DEF Has
<1>13. PaidTurn BY <1>7, <1>12 DEF Turns, TurnInv
<1>14. /\ Queue(pevents') \subseteq Queue(pevents) /\ Ordered(pevents', Early)
       /\ \A S : Has(S)' => Has(S)
       /\ \A e \in Queue(pevents') : ~TooEarly(h, e)
  BY <1>1, PTaken
<1>15. pdeal.fundsReceived + h.n = Best BY <1>1, <1>4, <1>13 DEF PaidTurn
<1> HIDE DEF h
\* Behind it there is no report
<1>16. ~Has(Reports)' BY <1>1, <1>14 DEF Has, TooEarly
<1>17. Best' = Best BY <1>3, BestStays
<1>18. pdeal'.fundsReceived = Best /\ Best = Worth(pdeal.totalSent)
  BY <1>11, <1>13, <1>15 DEF PaidTurn
<1>19. PQueueInv' BY <1>3, <1>11, <1>14 DEF ProviderSide, PQueueInv
<1>20. LiveInv' BY <1>1, <1>3, <1>7, <1>11, <1>14 DEF ProviderSide, LiveInv, Sending, Alive
<1>21. PaidInv'
  <2>1. WholeBytes(Worth(pdeal.totalSent)) /\ Worth(pdeal.totalSent) \in Nat
    BY <1>2, WholeBytesSum, WorthFacts
  <2>2. \A e \in Queue(pevents') : e.name \notin Counts BY <1>16 DEF Has, Reports, Counts
  <2> QED BY <1>3, <1>11, <1>18, <2>1, <2>2 DEF ProviderSide, PaidInv
<1>22. pull.snap = {} BY <1>12 DEF ProviderSide, PQueueInv
<1>23. EvenTurn'
  BY <1>3, <1>11, <1>13, <1>17, <1>18, <1>22 DEF PaidTurn, EvenTurn, AskedSame
<1>24. TurnInv'
  <2>1. Worth(pdeal'.totalSent) <= pdeal'.fundsReceived + Worth(pdeal'.currentInterval)
    <3>1. pdeal'.currentInterval \in Nat BY <1>2, <1>9, <1>11
    <3>2. Worth(pdeal'.currentInterval) \in Nat /\ Worth(pdeal.totalSent) \in Nat
      BY <1>2, <3>1, WorthFacts
    <3> QED BY <1>11, <1>18, <3>2
  <2>2. \A e \in Queue(pevents') : e.name \notin {"BlockSent", "PaymentRequested"}
    BY <1>16 DEF Has, Reports
  <2> QED BY <1>11, <1>23, <2>1, <2>2 DEF TurnInv
<1>25. reval'.snap = {}
  <2>1. reval.pc = "idle" BY <1>13 DEF PaidTurn
  <2> QED BY <1>2, <1>3, <2>1 DEF ProviderInv, CreditInv
<1>26. SnapInv' BY <1>25 DEF SnapInv
<1>27. OrderInv' BY <1>3, <1>17 DEF Turns, OrderInv, AskedSame
<1> QED BY <1>6, <1>19, <1>20, <1>21, <1>24, <1>26, <1>27 DEF ProviderSide, Turns

\* While a call waits for the machine, or its answer, the turn is the provider's
LEMMA CallsFindTurn ==
    ASSUME ProviderSide, Turns, pdeal.status \in {"New", "Ongoing", "FundsNeeded"},
           pdeal.status = "Ongoing" => ~Has({"BlocksCompleted"})
    PROVE  /\ pull.pc # "idle" =>
                \/ pdeal.status = "Ongoing" /\ Going /\ EvenTurn /\ ~Has({"PaymentRequested"})
                \/ pdeal.status = "FundsNeeded" /\ Has(Payments) /\ PaidTurn
           /\ reval.pc # "idle" =>
                \/ pdeal.status = "Ongoing" /\ Going /\ Has({"PaymentRequested"})
                \/ pdeal.status = "FundsNeeded" /\ ~Has(Payments) /\ AskedTurn(pdeal.totalSent)
<1>1. ProviderInv BY DEF ProviderSide
<1>2. pull.pc # "idle" \/ reval.pc # "idle" => pdeal.status # "New"
  <2>1. Readers # {} => track # {} BY <1>1 DEF ProviderInv, Tracked
  <2>2. pull.pc # "idle" \/ reval.pc # "idle" => Readers # {} BY DEF Readers
  <2> QED BY <2>1, <2>2 DEF Turns, TurnInv, NewTurn
<1>3. CASE pdeal.status = "New" BY <1>2, <1>3
<1>4. CASE pdeal.status = "Ongoing"
  <2>1. Going BY <1>4 DEF Going
  <2>2. /\ ~Has({"PaymentRequested"}) => EvenTurn
        /\ \A e \in Queue(pevents) : e.name = "PaymentRequested" => AskedTurn(e.n)
    BY <2>1 DEF Turns, TurnInv
  <2>3. Has({"PaymentRequested"}) => pull.pc = "idle" BY <2>2 DEF Has, AskedTurn
  <2>4. EvenTurn => reval.pc = "idle" BY DEF EvenTurn
  <2> QED BY <1>4, <2>1, <2>2, <2>3, <2>4
<1>5. CASE pdeal.status = "FundsNeeded"
  <2>1. ~Has(Payments) => AskedTurn(pdeal.totalSent) BY <1>5 DEF Turns, TurnInv
  <2>2. Has(Payments) => PaidTurn BY <1>5 DEF Turns, TurnInv
  <2>3. AskedTurn(pdeal.totalSent) => pull.pc = "idle" BY DEF AskedTurn
  <2>4. PaidTurn => reval.pc = "idle" BY DEF PaidTurn
  <2> QED BY <1>5, <2>1, <2>2, <2>3, <2>4
<1> QED BY <1>3, <1>4, <1>5

LEMMA GetAnswered ==
    ASSUME ProviderSide, ProviderInv', Turns, AskedSame, AnswerGet
    PROVE  ProviderSide' /\ Turns'
<1> DEFINE h == Head(pevents)
<1>1. /\ pstage = "idle" /\ pevents # <<>> /\ h.name \in Syncs /\ pevents' = Tail(pevents)
      /\ pdeal' = pdeal /\ pstage' = pstage /\ track' = track /\ saved' = saved /\ flow' = flow
  BY DEF AnswerGet
<1>2. /\ ProviderInv /\ pdeal \in ProviderDealState /\ pull \in Call /\ reval \in Call
  BY Numbers DEF ProviderSide
<1>3. /\ Queue(pevents') \subseteq Queue(pevents) /\ Ordered(pevents', Early)
      /\ \A S : Has(S)' => Has(S)
      /\ \A S : h.name \notin S => (Has(S)' <=> Has(S))
      /\ h \in Queue(pevents) /\ Fits(h, Now)
      /\ \A e \in Queue(pevents') : ~TooEarly(h, e)
  BY <1>1, PTaken
<1>4. Best' = Best BY <1>1, BestStays
<1>5. /\ \A S : S \in {Reports, Payments, Counts, {"BlocksCompleted"}, {"PaymentRequested"}, {"Open"},
                      {"SaveVoucherFailed", "BlocksCompleted"}} => (Has(S)' <=> Has(S))
  BY <1>1, <1>3 DEF Syncs, Reports, Payments, Counts
<1>6. pdeal.status # "New" BY <1>1, <1>3 DEF ProviderSide, PQueueInv, Has
<1>7. Going' <=> Going BY <1>1, <1>5 DEF Going
<1>8. Alive BY <1>1 DEF Alive
<1>9. \A n : Within(n) => Within(n)' BY DEF Within, AskedSame
<1>10. /\ 0 <= pdeal.fundsReceived /\ pdeal.fundsReceived <= Worth(pdeal.totalSent)
  BY DEF ProviderSide, PaidInv
<1>11. CASE h.name = "SyncPull"
  <2>1. reval' = reval /\ pull' = [pull EXCEPT !.pc = "answered", !.snap = {pdeal}]
    BY <1>1, <1>11 DEF AnswerGet
  <2>2. pull.pc = "waiting" BY <1>3, <1>11, NowFields DEF Fits
  <2>3. pull'.pc = "answered" /\ pull'.snap = {pdeal} /\ pull'.op = pull.op /\ pull'.n = pull.n
    BY <1>2, <2>1 DEF Call
  <2>4. ~Has(Payments)' BY <1>3, <1>11 DEF Has, TooEarly
  <2>5. ~Has(Payments) BY <1>5, <2>4
  <2>6. PQueueInv' BY <1>1, <1>3, <1>5, <1>6, <2>1, <2>3, <2>4 DEF ProviderSide, PQueueInv
  <2>7. LiveInv' BY <1>1, <1>5, <2>2, <2>3 DEF ProviderSide, LiveInv, Sending, Alive
  <2>8. PaidInv' BY <1>1, <1>3, <1>10, <2>3 DEF ProviderSide, PaidInv
  <2>9. Sending BY <2>2 DEF Sending
  <2>10. /\ pdeal.status = "Ongoing" /\ Going /\ EvenTurn /\ ~Has({"PaymentRequested"})
    <3>1. pdeal.status \in {"New", "Ongoing", "FundsNeeded"} /\ ~Has({"SaveVoucherFailed", "BlocksCompleted"})
      BY <1>8, <2>9 DEF ProviderSide, LiveInv
    <3>2. ~Has({"BlocksCompleted"}) BY <3>1 DEF Has
    <3> QED BY <2>2, <2>5, <3>1, <3>2, CallsFindTurn
  <2>11. EvenTurn'
    <3>1. \A c \in pull'.snap : c.fundsReceived = Best /\ c.currentInterval = pdeal.currentInterval
      BY <2>3, <2>10 DEF EvenTurn
    <3> QED BY <1>1, <1>4, <2>1, <2>10, <3>1 DEF EvenTurn, AskedSame
  <2>12. TurnInv'
    <3>1. ~Has({"PaymentRequested"})' BY <1>3, <2>10
    <3>2. \A e \in Queue(pevents') : e.name # "PaymentRequested" BY <3>1 DEF Has
    <3>3. /\ Worth(pdeal.totalSent) <= pdeal.fundsReceived + Worth(pdeal.currentInterval)
          /\ \A e \in Queue(pevents) : e.name = "BlockSent" =>
                Worth(e.n) <= pdeal.fundsReceived + Worth(pdeal.currentInterval)
      BY <2>10 DEF Turns, TurnInv
    <3> QED BY <1>1, <1>3, <2>10, <2>11, <3>2, <3>3 DEF TurnInv
  <2>13. SnapInv' BY <1>1, <1>9, <2>1 DEF Turns, SnapInv
  <2>14. OrderInv' BY <1>4, <2>1 DEF Turns, OrderInv, AskedSame
  <2> QED BY <2>6, <2>7, <2>8, <2>12, <2>13, <2>14 DEF ProviderSide, Turns
<1>12. CASE h.name = "SyncReval"
  <2>1. pull' = pull /\ reval' = [reval EXCEPT !.pc = "answered", !.snap = {pdeal}]
    BY <1>1, <1>12 DEF AnswerGet
  <2>2. reval.pc = "waiting" BY <1>3, <1>12, NowFields DEF Fits
  <2>3. reval'.pc = "answered" /\ reval'.snap = {pdeal} /\ reval'.n = reval.n
    BY <1>2, <2>1 DEF Call
  <2>4. ~Has(Reports)' BY <1>3, <1>12 DEF Has, TooEarly
  <2>5. ~Has(Reports) BY <1>5, <2>4
  <2>6. PQueueInv' BY <1>1, <1>3, <1>5, <1>6, <2>1, <2>3, <2>4 DEF ProviderSide, PQueueInv
  <2>7. LiveInv' BY <1>1, <1>5, <2>1 DEF ProviderSide, LiveInv, Sending, Alive
  <2>8. PaidInv' BY <1>1, <1>3, <2>1 DEF ProviderSide, PaidInv
  <2>9. ~Has({"BlocksCompleted"}) /\ ~Has({"PaymentRequested"}) BY <2>5 DEF Has, Reports
  <2>10. pdeal.status \in {"New", "Ongoing", "FundsNeeded"} =>
            pdeal.status = "FundsNeeded" /\ ~Has(Payments) /\ AskedTurn(pdeal.totalSent)
    BY <2>2, <2>9, CallsFindTurn
  <2>11. AskedTurn(pdeal.totalSent) => AskedTurn(pdeal.totalSent)'
    BY <1>1, <1>4, <1>9, <2>1 DEF AskedTurn, AskedSame
  <2>12. TurnInv'
    <3>1. pdeal.status \notin {"New", "Ongoing"} BY <2>10
    <3>2. pdeal.status = "FundsNeeded" => ~Has(Counts) BY <2>10 DEF Turns, TurnInv
    <3> QED BY <1>1, <1>5, <2>10, <2>11, <3>1, <3>2 DEF TurnInv, Going
  <2>13. SnapInv'
    <3>1. pdeal.status # "FundsNeededLastPayment" BY DEF ProviderSide, LiveInv
    <3>2. ASSUME flow = "paused"
          PROVE  /\ pdeal.status = "FundsNeeded" /\ Within(pdeal.totalSent)
                 /\ \A c \in track : c.totalSent <= pdeal.totalSent
      <4>1. pdeal.status \in {"New", "Ongoing", "FundsNeeded"}
        BY <1>8, <3>2 DEF ProviderSide, LiveInv, Sending
      <4> QED BY <2>10, <4>1 DEF AskedTurn
    <3> QED BY <1>1, <2>3, <3>1, <3>2, <1>9 DEF SnapInv
  <2>14. OrderInv' BY <1>4, <2>2, <2>3 DEF Turns, OrderInv, AskedSame
  <2> QED BY <2>6, <2>7, <2>8, <2>12, <2>13, <2>14 DEF ProviderSide, Turns
<1> QED BY <1>1, <1>11, <1>12 DEF Syncs

\* An event without a transition is not one of those that matter where the deal is
LEMMA DropKeepsTurns ==
    ASSUME ProviderSide, ProviderInv', Turns, AskedSame, DropEvent
    PROVE  ProviderSide' /\ Turns'
<1> DEFINE h == Head(pevents)
<1>1. /\ pstage = "idle" /\ pevents # <<>> /\ h.name \in PEventNames /\ pevents' = Tail(pevents)
      /\ pdeal.status \notin PSources[h.name]
      /\ pdeal' = pdeal /\ pstage' = pstage /\ UNCHANGED Others
  BY DEF DropEvent
<1>2. /\ track' = track /\ pull' = pull /\ reval' = reval /\ saved' = saved /\ flow' = flow
  BY <1>1 DEF Others
<1>3. /\ pdeal.status = "New" => h.name # "Open"
      /\ pdeal.status = "Ongoing" =>
            h.name \notin {"BlockSent", "BlocksCompleted", "PaymentRequested"}
      /\ pdeal.status = "FundsNeeded" =>
            h.name \notin {"PartialPaymentReceived", "PaymentReceived"}
  BY <1>1 DEF PSources
<1>4. /\ Queue(pevents') \subseteq Queue(pevents) /\ Ordered(pevents', Early)
      /\ \A S : Has(S)' => Has(S)
      /\ \A S : h.name \notin S => (Has(S)' <=> Has(S))
  BY <1>1, PTaken
<1> HIDE DEF h
<1>5. Best' = Best BY <1>2, BestStays
<1>6. \A n : Within(n) => Within(n)' BY DEF Within, AskedSame
<1>7. PQueueInv' BY <1>1, <1>2, <1>4 DEF ProviderSide, PQueueInv
<1>8. LiveInv' BY <1>1, <1>2, <1>4 DEF ProviderSide, LiveInv, Sending, Alive
<1>9. PaidInv' BY <1>1, <1>2, <1>4 DEF ProviderSide, PaidInv
<1>10. pdeal.status = "New" /\ NewTurn => NewTurn'
  <2>1. pdeal.status = "New" => (Has({"Open"})' <=> Has({"Open"})) BY <1>3, <1>4
  <2> QED BY <1>1, <1>2, <1>5, <2>1 DEF NewTurn, AskedSame
<1>11. EvenTurn => EvenTurn' BY <1>1, <1>2, <1>5 DEF EvenTurn, AskedSame
<1>12. \A n : AskedTurn(n) => AskedTurn(n)'
  BY <1>1, <1>2, <1>5, <1>6 DEF AskedTurn, AskedSame
<1>13. PaidTurn => PaidTurn' BY <1>1, <1>2, <1>4, <1>5 DEF PaidTurn, AskedSame
<1>14. /\ pdeal.status = "Ongoing" => /\ (Has({"BlocksCompleted"})' <=> Has({"BlocksCompleted"}))
                                      /\ (Has({"PaymentRequested"})' <=> Has({"PaymentRequested"}))
       /\ pdeal.status = "FundsNeeded" => (Has(Payments)' <=> Has(Payments))
  BY <1>3, <1>4 DEF Payments
<1>15. TurnInv'
  BY <1>1, <1>4, <1>10, <1>11, <1>12, <1>13, <1>14 DEF Turns, TurnInv, Going
<1>16. SnapInv' BY <1>1, <1>2, <1>6 DEF Turns, SnapInv
<1>17. OrderInv' BY <1>2, <1>5 DEF Turns, OrderInv, AskedSame
<1> QED BY <1>7, <1>8, <1>9, <1>15, <1>16, <1>17 DEF ProviderSide, Turns

LEMMA ProcessTurns ==
    ASSUME ProviderSide, ProviderInv', Turns, AskedSame, ProcessEvent
    PROVE  ProviderSide' /\ Turns'
BY OpenKeeps, DealAcceptedKeeps, BlockSentKeeps, PaymentRequestedKeeps, PaymentReceivedKeeps,
   LeavingEvents, GetAnswered, DropKeepsTurns
   DEF ProcessEvent
-----------------------------------------------------------------------------
(* The provider's handlers *)

LEMMA LockTurns ==
    ASSUME ProviderSide, ProviderInv', Turns, AskedSame, WaitForLock
    PROVE  ProviderSide' /\ Turns'
<1>1. /\ pdeal' = pdeal /\ pevents' = pevents /\ pstage = "handler" /\ pstage' = "locking"
      /\ UNCHANGED Others
  BY DEF WaitForLock
<1>2. /\ track' = track /\ pull' = pull /\ reval' = reval /\ saved' = saved /\ flow' = flow
  BY <1>1 DEF Others
<1>3. Best' = Best BY <1>2, BestStays
<1>4. \A S : Has(S)' <=> Has(S) BY <1>1 DEF Has
<1>5. \A n : Within(n) => Within(n)' BY DEF Within, AskedSame
<1>6. PQueueInv' BY <1>1, <1>2, <1>4 DEF ProviderSide, PQueueInv
<1>7. LiveInv' BY <1>1, <1>2, <1>4 DEF ProviderSide, LiveInv, Sending, Alive
<1>8. PaidInv' BY <1>1, <1>2, <1>4 DEF ProviderSide, PaidInv
<1>9. NewTurn => NewTurn' BY <1>1, <1>2, <1>3, <1>4 DEF NewTurn, AskedSame
<1>10. EvenTurn => EvenTurn' BY <1>1, <1>2, <1>3 DEF EvenTurn, AskedSame
<1>11. \A n : AskedTurn(n) => AskedTurn(n)'
  BY <1>1, <1>2, <1>3, <1>5 DEF AskedTurn, AskedSame
<1>12. PaidTurn => PaidTurn' BY <1>1, <1>2, <1>3, <1>4 DEF PaidTurn, AskedSame
<1>13. TurnInv' BY <1>1, <1>4, <1>9, <1>10, <1>11, <1>12 DEF Turns, TurnInv, Going
<1>14. SnapInv' BY <1>1, <1>2, <1>5 DEF Turns, SnapInv
<1>15. OrderInv' BY <1>2, <1>3 DEF Turns, OrderInv, AskedSame
<1> QED BY <1>6, <1>7, <1>8, <1>13, <1>14, <1>15 DEF ProviderSide, Turns

\* What the table says of a deal that is not behind with its bytes
LEMMA DealTracked ==
    ASSUME NEW d \in ProviderDealState, 0 <= d.fundsReceived,
           d.fundsReceived <= Worth(d.totalSent), WholeBytes(d.fundsReceived)
    PROVE  LET c == FromDeal(d)
           IN  /\ c \in ChannelData /\ c.totalSent = d.totalSent /\ ~c.reload
               /\ c.interval = d.currentInterval
               /\ Worth(c.totalPaidFor) = d.fundsReceived /\ c.totalPaidFor <= c.totalSent
<1> DEFINE c == FromDeal(d)
           k == d.fundsReceived \div PricePerByte
<1>1. d.totalSent \in Nat /\ d.fundsReceived \in Nat BY DEF ProviderDealState
<1>2. k \in Nat /\ d.fundsReceived = Worth(k) BY <1>1, WholeBytesFacts
<1>3. MaxOf(d.fundsReceived, 0) = d.fundsReceived BY <1>1 DEF MaxOf
<1>4. c \in ChannelData /\ c.totalSent = d.totalSent BY DealData
<1>5. c.totalPaidFor = k /\ ~c.reload /\ c.interval = d.currentInterval
  BY <1>3 DEF FromDeal
<1> HIDE DEF c, k
<1>6. k <= d.totalSent
  <2>1. k \in Int /\ d.totalSent \in Int BY <1>1, <1>2
  <2>2. \A m, n \in Int : Worth(m) <= Worth(n) => m <= n BY WorthOrder
  <2> QED BY <1>2, <2>1, <2>2
<1> QED BY <1>2, <1>4, <1>5, <1>6 DEF c

LEMMA TrackTurns ==
    ASSUME ProviderSide, ProviderInv', Turns, AskedSame, TrackTransfer
    PROVE  ProviderSide' /\ Turns'
<1> DEFINE c == FromDeal(pdeal)
<1>1. /\ pdeal.status = "Ongoing" /\ Readers = {} /\ track' = {c} /\ pstage' = "idle"
      /\ pstage \in {"handler", "locking"}
      /\ pdeal' = pdeal /\ pevents' = pevents /\ pull' = pull /\ reval' = reval
      /\ saved' = saved /\ flow' = flow
  BY DEF TrackTransfer, Running
<1>2. /\ ProviderInv /\ pdeal \in ProviderDealState /\ pdeal.fundsReceived \in Int
      /\ pdeal.currentInterval \in Nat /\ pdeal.totalSent \in Nat /\ Best \in Nat
      /\ \A e \in Queue(pevents) : e \in PEvent /\ Fits(e, Now)
  BY Numbers DEF ProviderSide
<1>3. pull.pc = "idle" /\ reval.pc = "idle" BY <1>1 DEF Readers
<1>4. pull.snap = {} /\ reval.snap = {}
  BY <1>2, <1>3 DEF ProviderSide, PQueueInv, ProviderInv, CreditInv
<1>5. /\ 0 <= pdeal.fundsReceived /\ pdeal.fundsReceived <= Worth(pdeal.totalSent)
      /\ WholeBytes(pdeal.fundsReceived)
  BY DEF ProviderSide, PaidInv
<1>6. /\ c.totalSent = pdeal.totalSent /\ ~c.reload
      /\ c.interval = pdeal.currentInterval
      /\ Worth(c.totalPaidFor) = pdeal.fundsReceived /\ c.totalPaidFor <= c.totalSent
  BY <1>2, <1>5, DealTracked
<1> HIDE DEF c
<1>7. Best' = Best BY <1>1, BestStays
<1>8. \A S : Has(S)' <=> Has(S) BY <1>1 DEF Has
<1>9. \A n : Within(n) => Within(n)' BY DEF Within, AskedSame
<1>10. PQueueInv' BY <1>1, <1>8 DEF ProviderSide, PQueueInv
<1>11. LiveInv' BY <1>1, <1>8 DEF ProviderSide, LiveInv, Sending, Alive
<1>12. PaidInv' BY <1>1, <1>4, <1>6, <1>8 DEF ProviderSide, PaidInv
<1>13. EvenTurn => EvenTurn'
  BY <1>1, <1>4, <1>6, <1>7 DEF EvenTurn, AskedSame
<1>14. ASSUME NEW e \in Queue(pevents), e.name = "PaymentRequested", Going
       PROVE  AskedTurn(e.n)'
  <2>1. AskedTurn(e.n) BY <1>14 DEF Turns, TurnInv
  <2>2. Worth(pdeal.totalSent) <= pdeal.fundsReceived + Worth(pdeal.currentInterval)
    BY <1>14 DEF Turns, TurnInv
  <2>3. e.n \in Int /\ e.n \in Nat BY <1>2, <1>14 DEF Fits, Counts, PEvent
  <2>4. Best = pdeal.fundsReceived /\ Best + Worth(pdeal.currentInterval) <= Worth(e.n)
    BY <2>1 DEF AskedTurn
  <2>5. /\ Worth(pdeal.totalSent) \in Nat /\ Worth(pdeal.currentInterval) \in Nat
        /\ Worth(e.n) \in Nat
    BY <1>2, <2>3, WorthFacts
  <2>6. pdeal.totalSent \in Int BY <1>2
  <2>7. pdeal.totalSent <= e.n
    <3>1. \A m, n \in Int : Worth(m) <= Worth(n) => m <= n BY WorthOrder
    <3>2. Worth(pdeal.totalSent) <= Worth(e.n) BY <1>2, <2>2, <2>4, <2>5
    <3> QED BY <2>3, <2>6, <3>1, <3>2
  <2>8. \A x \in track' : ~x.reload /\ x.totalSent <= e.n BY <1>1, <1>6, <2>7
  <2>9. track' # {} BY <1>1
  <2>10. ASSUME NEW n, AskedTurn(n), \A x \in track' : ~x.reload /\ x.totalSent <= n
         PROVE  AskedTurn(n)'
    BY <1>1, <1>7, <1>9, <2>9, <2>10 DEF AskedTurn, AskedSame
  <2>11. QED BY <2>1, <2>8, <2>10
<1>15. TurnInv' BY <1>1, <1>8, <1>13, <1>14 DEF Turns, TurnInv, Going
<1>16. SnapInv' BY <1>1, <1>4 DEF SnapInv
<1>17. OrderInv' BY <1>1, <1>7 DEF Turns, OrderInv, AskedSame
<1> QED BY <1>10, <1>11, <1>12, <1>15, <1>16, <1>17 DEF ProviderSide, Turns

\* An event that is no report, payment or call joins the queue, the channel may
\* close, and a deal that fails or completes may leave the table
LEMMA MildlyKeeps ==
    ASSUME ProviderSide, ProviderInv', Turns, AskedSame, UNCHANGED <<pdeal, pull, reval, saved>>,
           Alive' <=> Alive, pstage' = "none" <=> pstage = "none", flow' \in {flow, "closed"},
           NEW x \in PEvent,
           x.name \notin Reports \cup Payments \cup Syncs \cup {"Open", "SaveVoucherFailed"},
           pevents' \in {pevents, Append(pevents, x)},
           \/ track' = track
           \/ track' = {} /\ pdeal.status \in {"Failing", "Completing"} /\ reval.snap = {}
    PROVE  ProviderSide' /\ Turns'
<1>1. pdeal' = pdeal /\ pull' = pull /\ reval' = reval /\ saved' = saved OBVIOUS
<1>2. ProviderInv /\ pevents \in Seq(PEvent) /\ Ordered(pevents, Early)
  BY Numbers DEF ProviderSide, PQueueInv
<1>3. /\ Ordered(pevents', Early)
      /\ \A e \in Queue(pevents') : e \in Queue(pevents) \/ e = x
      /\ \A S : x.name \notin S => (Has(S)' <=> Has(S))
  <2>1. CASE pevents' = pevents BY <1>2, <2>1 DEF Has
  <2>2. CASE pevents' = Append(pevents, x)
    <3>1. \A e \in Queue(pevents) : ~TooEarly(e, x) BY DEF TooEarly, Reports, Payments
    <3>2. /\ Ordered(pevents', Early) /\ Queue(pevents') = Queue(pevents) \cup {x}
          /\ \A S : Has(S)' <=> Has(S) \/ x.name \in S
      BY <1>2, <2>2, <3>1, PAdded
    <3> QED BY <3>2
  <2> QED BY <2>1, <2>2
<1>4. x.name \notin Counts /\ x.name # "PaymentRequested" /\ x.name # "BlockSent"
      /\ x.name # "BlocksCompleted"
  BY DEF Counts, Reports
<1>5. \A S : S \in {Reports, Reports \cup Payments \cup Syncs, Payments, Counts, {"Open"},
                    {"SaveVoucherFailed", "BlocksCompleted"}, {"BlocksCompleted"},
                    {"PaymentRequested"}} => (Has(S)' <=> Has(S))
  BY <1>3, <1>4
<1>6. Best' = Best BY <1>1, BestStays
<1>7. \A n : Within(n) => Within(n)' BY DEF Within, AskedSame
<1>8. PQueueInv' BY <1>1, <1>3, <1>5 DEF ProviderSide, PQueueInv
<1>9. LiveInv'
  <2>1. Sending' => Sending BY <1>1 DEF Sending
  <2> QED BY <1>1, <1>5, <2>1 DEF ProviderSide, LiveInv
<1>10. PaidInv' BY <1>1, <1>3, <1>4 DEF ProviderSide, PaidInv
<1>11. NewTurn /\ track' = track => NewTurn' BY <1>1, <1>5, <1>6 DEF NewTurn, AskedSame
<1>12. EvenTurn /\ track' = track => EvenTurn' BY <1>1, <1>6 DEF EvenTurn, AskedSame
<1>13. \A n : AskedTurn(n) /\ track' = track => AskedTurn(n)'
  BY <1>1, <1>6, <1>7 DEF AskedTurn, AskedSame
<1>14. PaidTurn /\ track' = track => PaidTurn'
  BY <1>1, <1>3, <1>6 DEF PaidTurn, AskedSame
<1>15. TurnInv'
  <2>1. CASE track' = track
    BY <1>1, <1>3, <1>4, <1>5, <1>11, <1>12, <1>13, <1>14, <2>1 DEF Turns, TurnInv, Going
  <2>2. CASE pdeal.status \in {"Failing", "Completing"} BY <1>1, <2>2 DEF TurnInv, Going
  <2> QED BY <2>1, <2>2
<1>16. SnapInv'
  <2>1. CASE track' = track BY <1>1, <1>7, <2>1 DEF Turns, SnapInv
  <2>2. CASE reval.snap = {} BY <1>1, <2>2 DEF SnapInv
  <2> QED BY <2>1, <2>2
<1>17. OrderInv' BY <1>1, <1>6 DEF Turns, OrderInv, AskedSame
<1> QED BY <1>8, <1>9, <1>10, <1>15, <1>16, <1>17 DEF ProviderSide, Turns

LEMMA MildNames ==
    ASSUME NEW name \in {"DealAccepted", "Complete", "DataTransferError", "ClientCancelled",
                         "MultiStoreError", "CancelComplete", "CleanupComplete"}
    PROVE  /\ PEv(name, 0) \in PEvent /\ PEv(name, 0).name = name
           /\ name \notin Reports \cup Payments \cup Syncs \cup {"Open", "SaveVoucherFailed"}
BY EventNames, EventType DEF PEv, Reports, Payments, Syncs

LEMMA EndHandlersKeep ==
    ASSUME ProviderSide, ProviderInv', Turns, AskedSame, CancelDeal \/ CleanupDeal
    PROVE  ProviderSide' /\ Turns'
<1>1. PICK name \in {"MultiStoreError", "DataTransferError", "CancelComplete", "CleanupComplete"} :
        /\ PTrigger(name) /\ flow' \in {flow, "closed"} /\ track' = {} /\ Readers = {}
        /\ pdeal.status \in {"Failing", "Completing"} /\ pstage \in {"handler", "locking"}
        /\ UNCHANGED <<pdeal, pull, reval, saved>>
  <2>1. CASE CancelDeal BY <2>1 DEF CancelDeal, Running
  <2>2. CASE CleanupDeal BY <2>2 DEF CleanupDeal, Running
  <2> QED BY <2>1, <2>2
<1>2. pevents' = Append(pevents, PEv(name, 0)) /\ pstage' = "idle" BY <1>1 DEF PTrigger
<1>3. reval.snap = {} BY <1>1 DEF Readers, ProviderSide, ProviderInv, CreditInv
<1>4. (Alive' <=> Alive) /\ pstage # "none" /\ pstage' # "none" BY <1>1, <1>2 DEF Alive
<1> QED BY <1>1, <1>2, <1>3, <1>4, MildNames, MildlyKeeps

LEMMA HandlerTurns ==
    ASSUME ProviderSide, ProviderInv', Turns, AskedSame, RunHandler
    PROVE  ProviderSide' /\ Turns'
BY LockTurns, TrackTurns, EndHandlersKeep DEF RunHandler

LEMMA DeliverTurns ==
    ASSUME ProviderSide, ProviderInv', Turns, AskedSame, DeliverNotice
    PROVE  ProviderSide' /\ Turns'
<1> DEFINE name == Head(notices)
<1>1. /\ UNCHANGED <<pdeal, pstage, track, pull, reval, saved, flow>>
      /\ notices # <<>> /\ SendAll(<<PEv(name, 0)>>)
  BY DEF DeliverNotice
<1>2. notices \in Seq(NoticeNames) /\ pevents \in Seq(PEvent)
  BY DEF ProviderSide, ProviderInv, NoticeInv, ProviderTyped
<1>3. name \in NoticeNames BY <1>1, <1>2
<1> HIDE DEF name
<1>4. /\ PEv(name, 0) \in PEvent /\ PEv(name, 0).name = name
      /\ name \notin Reports \cup Payments \cup Syncs \cup {"Open", "SaveVoucherFailed"}
  BY <1>3, MildNames DEF NoticeNames
<1>5. pevents' \in {pevents, Append(pevents, PEv(name, 0))} BY <1>1, <1>2, <1>4, SentOne
<1>6. Alive' <=> Alive BY <1>1 DEF Alive
<1> QED BY <1>1, <1>4, <1>5, <1>6, MildlyKeeps

\* The channel closes for a reason of the client's or of the network's
LEMMA ChannelEndsTurns ==
    ASSUME ProviderSide, ProviderInv', Turns, AskedSame,
           UNCHANGED <<pdeal, pevents, pstage, track, pull, reval, saved>>,
           flow' \in {flow, "closed"}
    PROVE  ProviderSide' /\ Turns'
<1>1. Alive' <=> Alive BY DEF Alive
<1> QED BY <1>1, MildNames, MildlyKeeps

LEMMA ValidateTurns ==
    ASSUME ProviderSide, ProviderInv', Turns, AskedSame, ValidatePull
    PROVE  ProviderSide' /\ Turns'
<1>1. /\ flow = "none" /\ flow' = "running" /\ UNCHANGED <<pdeal, track, pull, reval, saved>>
      /\ \/ pevents' = <<PEv("Open", 0)>> /\ pstage' = "idle"
         \/ UNCHANGED <<pevents, pstage>>
  BY DEF ValidatePull
<1>2. pstage = "none" /\ pevents = <<>> /\ track = {} /\ ProviderInv
  BY <1>1 DEF ProviderSide, ProviderInv, StageInv
<1>3. pdeal.status = "New" /\ NewTurn BY <1>2 DEF ProviderSide, LiveInv, Turns, TurnInv
<1>4. pull.pc = "idle" /\ reval.pc = "idle" /\ pull.snap = {} /\ reval.snap = {}
  <2>1. Readers = {} BY <1>2 DEF ProviderInv, Tracked
  <2>2. pull.pc = "idle" /\ reval.pc = "idle" BY <2>1 DEF Readers
  <2> QED BY <1>2, <2>2 DEF ProviderSide, PQueueInv, ProviderInv, CreditInv
<1>5. /\ Ordered(pevents', Early)
      /\ \A e \in Queue(pevents') : e.name = "Open"
      /\ pstage' = "none" \/ Has({"Open"})'
  <2>1. CASE pevents' = <<>> /\ pstage' = "none" BY <2>1, NoQueue
  <2>2. CASE pevents' = <<PEv("Open", 0)>>
    <3> DEFINE o == PEv("Open", 0)
    <3>1. o.name = "Open" BY DEF PEv
    <3> HIDE DEF o
    <3>2. pevents' = <<o>> BY <2>2 DEF o
    <3>3. DOMAIN pevents' = {1} /\ pevents'[1] = o BY <3>2
    <3> QED BY <3>1, <3>3 DEF Queue, Ordered, Has
  <2> QED BY <1>1, <1>2, <2>1, <2>2
<1>6. Best' = Best BY <1>1, BestStays
<1>7. \A S : "Open" \notin S => ~Has(S)' BY <1>5 DEF Has
<1>8. /\ ~Has(Reports)' /\ ~Has(Payments)' /\ ~Has(Reports \cup Payments \cup Syncs)'
      /\ ~Has({"SaveVoucherFailed", "BlocksCompleted"})'
  BY <1>7 DEF Reports, Payments, Syncs
<1>9. PQueueInv'
  <2>1. \A e \in Queue(pevents') : e.name \notin Payments BY <1>5 DEF Payments
  <2> QED BY <1>1, <1>4, <1>5, <1>8, <2>1 DEF PQueueInv
<1>10. LiveInv' BY <1>1, <1>3, <1>4, <1>8 DEF LiveInv
<1>11. PaidInv'
  <2>1. \A e \in Queue(pevents') : e.name \notin Counts BY <1>5 DEF Counts
  <2> QED BY <1>1, <2>1 DEF ProviderSide, PaidInv
<1>12. NewTurn' BY <1>1, <1>3, <1>5, <1>6 DEF NewTurn, AskedSame
<1>13. TurnInv' BY <1>1, <1>3, <1>12 DEF TurnInv, Going
<1>14. SnapInv' BY <1>1, <1>4 DEF SnapInv
<1>15. OrderInv' BY <1>1, <1>6 DEF Turns, OrderInv, AskedSame
<1> QED BY <1>9, <1>10, <1>11, <1>13, <1>14, <1>15 DEF ProviderSide, Turns
-----------------------------------------------------------------------------
(* The reports of the transport *)

LEMMA NothingAskedSame ==
    ASSUME ClientInv, ClientRests, NothingAsked, payments' = payments,
           transit' \in Seq(Nat), \E f : Leads(f)'
    PROVE  ClientInv' /\ AskedSame
<1>1. payments' \in Seq(Nat) BY DEF ClientInv, ChannelInv
<1>2. ClientInv' /\ Dues' = Dues BY <1>1, NothingAskedKeeps
<1> QED BY <1>2, ClientSame DEF AskedSame

\* When a report is counted the turn is even and the table is right: what it
\* says was paid is what the best voucher pays for
Fresh(c) == /\ c \in ChannelData /\ ~c.reload /\ c.totalPaidFor <= c.totalSent
            /\ Worth(c.totalPaidFor) = Best /\ c.interval = pdeal.currentInterval
Ready == /\ Going /\ EvenTurn /\ Sending
         /\ \A e \in Queue(pevents) :
               e.name \notin {"PaymentRequested", "SyncReval", "SaveVoucherFailed",
                              "BlocksCompleted"} \cup Payments

LEMMA ReportsFindReady ==
    ASSUME ProviderSide, Turns, Alive
    PROVE  /\ flow = "running" => \A c \in track : ~c.reload => Ready /\ Fresh(c)
           /\ pull.pc = "answered" => \A d \in pull.snap : Ready /\ Fresh(FromDeal(d))
<1>1. /\ ProviderInv /\ Best \in Nat /\ pdeal.fundsReceived \in Int
      /\ \A e \in Queue(pevents) : e \in PEvent /\ e.n \in Int /\ Fits(e, Now)
      /\ \A c \in track : c \in ChannelData
  BY Numbers DEF ProviderSide
<1>2. ASSUME Sending
      PROVE  /\ pdeal.status \in {"New", "Ongoing", "FundsNeeded"}
             /\ \A e \in Queue(pevents) : e.name \notin {"SaveVoucherFailed", "BlocksCompleted"}
             /\ ~Has({"BlocksCompleted"})
  <2>1. /\ pdeal.status \in {"New", "Ongoing", "FundsNeeded"}
        /\ ~Has({"SaveVoucherFailed", "BlocksCompleted"})
    BY <1>2 DEF ProviderSide, LiveInv
  <2> QED BY <2>1 DEF Has
<1>3. ASSUME Going, EvenTurn, ~Has({"PaymentRequested"}), Sending PROVE Ready
  <2>1. Best = pdeal.fundsReceived /\ reval.pc = "idle" BY <1>3 DEF EvenTurn
  <2>2. ASSUME NEW e \in Queue(pevents) PROVE e.name \notin Payments
    <3>1. e.name \in Payments => e.n <= Best - pdeal.fundsReceived BY <1>1, NowFields DEF Fits
    <3>2. e.name \in Payments => e.n > 0 BY DEF ProviderSide, PQueueInv
    <3> QED BY <1>1, <2>1, <3>1, <3>2
  <2>3. ASSUME NEW e \in Queue(pevents) PROVE e.name # "SyncReval"
    BY <1>1, <2>1, NowFields DEF Fits
  <2>4. \A e \in Queue(pevents) : e.name # "PaymentRequested" BY <1>3 DEF Has
  <2> QED BY <1>2, <1>3, <2>2, <2>3, <2>4 DEF Ready
<1>4. ASSUME flow = "running", NEW c \in track, ~c.reload PROVE Ready /\ Fresh(c)
  <2>1. Sending BY <1>4 DEF Sending
  <2>2. pdeal.status # "New" BY <1>1, <1>4 DEF ProviderInv, EndInv
  <2>3. pdeal.status # "FundsNeeded"
    <3>1. \A n : ~AskedTurn(n) BY <1>4 DEF AskedTurn
    <3>2. ~PaidTurn BY <1>4 DEF PaidTurn
    <3> QED BY <3>1, <3>2 DEF Turns, TurnInv
  <2>4. Going BY <1>2, <2>1, <2>2, <2>3 DEF Going
  <2>5. ~Has({"PaymentRequested"})
    <3>1. \A n : ~AskedTurn(n) BY <1>4 DEF AskedTurn
    <3> QED BY <2>4, <3>1 DEF Turns, TurnInv, Has
  <2>6. EvenTurn BY <2>4, <2>5 DEF Turns, TurnInv
  <2>7. c \in ChannelData /\ c.totalPaidFor <= c.totalSent
    BY <1>1, <1>4 DEF ProviderSide, PaidInv
  <2>8. Worth(c.totalPaidFor) = Best /\ c.interval = pdeal.currentInterval
    BY <1>4, <2>6 DEF EvenTurn
  <2> QED BY <1>3, <1>4, <2>1, <2>4, <2>5, <2>6, <2>7, <2>8 DEF Fresh
<1>5. ASSUME pull.pc = "answered", NEW d \in pull.snap PROVE Ready /\ Fresh(FromDeal(d))
  <2>1. Sending BY <1>5 DEF Sending
  <2>2. ~Has(Payments) BY <1>5 DEF ProviderSide, PQueueInv
  <2>3. Going /\ EvenTurn /\ ~Has({"PaymentRequested"})
    BY <1>2, <1>5, <2>1, <2>2, CallsFindTurn
  <2>4. /\ d \in ProviderDealState /\ 0 <= d.fundsReceived
        /\ d.fundsReceived <= Worth(d.totalSent)
    BY <1>1, <1>5, Numbers DEF ProviderSide, PaidInv
  <2>5. /\ d.fundsReceived = Best /\ d.currentInterval = pdeal.currentInterval
        /\ Best = pdeal.fundsReceived
    BY <1>5, <2>3 DEF EvenTurn
  <2>6. WholeBytes(d.fundsReceived) BY <2>5 DEF ProviderSide, PaidInv
  <2> DEFINE c == FromDeal(d)
  <2>7. /\ c \in ChannelData /\ ~c.reload /\ c.interval = d.currentInterval
        /\ Worth(c.totalPaidFor) = d.fundsReceived /\ c.totalPaidFor <= c.totalSent
    BY <2>4, <2>6, DealTracked
  <2> HIDE DEF c
  <2>8. Fresh(c) BY <2>5, <2>7 DEF Fresh
  <2> QED BY <1>3, <2>1, <2>3, <2>8 DEF c
<1> QED BY <1>4, <1>5

\* The call ends with the machine alive and its block or its end counted
Counting == /\ UNCHANGED <<pdeal, pstage, reval, saved>> /\ Alive
            /\ pull'.pc = "idle" /\ pull'.snap = {}

\* An event of the report joins the queue
LEMMA ReportQueued ==
    ASSUME ProviderSide, Ready, Counting, NEW x \in PEvent,
           x.name \in Reports, pevents' = Append(pevents, x)
    PROVE  /\ PQueueInv' /\ Queue(pevents') = Queue(pevents) \cup {x}
           /\ \A S : Has(S)' <=> Has(S) \/ x.name \in S
           /\ ~Has({"PaymentRequested"}) /\ ~Has({"SaveVoucherFailed"}) /\ ~Has(Payments)
<1>1. pevents \in Seq(PEvent) /\ Ordered(pevents, Early) BY Numbers DEF ProviderSide, PQueueInv
<1>2. \A e \in Queue(pevents) : ~TooEarly(e, x)
  BY DEF Ready, TooEarly, Reports, Payments
<1>3. /\ Ordered(pevents', Early) /\ Queue(pevents') = Queue(pevents) \cup {x}
      /\ \A S : Has(S)' <=> Has(S) \/ x.name \in S
  BY <1>1, <1>2, PAdded
<1>4. pdeal'.status # "New" BY DEF Ready, Going, Counting
<1>5. reval'.pc = "idle" BY DEF Ready, EvenTurn, Counting
<1>6. \A e \in Queue(pevents') : e.name \notin Payments
  BY <1>3 DEF Ready, Reports, Payments
<1>7. PQueueInv' BY <1>3, <1>4, <1>5, <1>6 DEF PQueueInv, Counting
<1>8. ~Has({"PaymentRequested"}) /\ ~Has({"SaveVoucherFailed"}) /\ ~Has(Payments)
  BY DEF Ready, Has
<1> QED BY <1>3, <1>7, <1>8

LEMMA CountingKeeps ==
    ASSUME ProviderSide, Turns, Ready, Counting, NEW x \in ChannelData, track' = {x},
           x.totalPaidFor <= x.totalSent, vouched' = vouched, payments' = payments
    PROVE  /\ Best' = Best /\ pdeal' = pdeal /\ reval' = reval /\ saved' = saved /\ Alive'
           /\ pstage' # "none" /\ pdeal.status = "Ongoing"
           /\ OrderInv' /\ SnapInv'
           /\ (\A e \in Queue(pevents') : e.name \in Counts /\ e \notin Queue(pevents)
                                            => pdeal.fundsReceived <= Worth(e.n)) => PaidInv'
<1>1. /\ pdeal' = pdeal /\ reval' = reval /\ saved' = saved /\ pstage' = pstage /\ Alive
      /\ pull'.snap = {}
  BY DEF Counting
<1>2. Best' = Best BY <1>1, BestStays
<1>3. pdeal.status = "Ongoing" BY DEF Ready, Going
<1>4. Alive' /\ pstage' # "none" BY <1>1 DEF Alive
<1>5. OrderInv' BY <1>1, <1>2 DEF Turns, OrderInv
<1>6. reval.snap = {} BY DEF Ready, EvenTurn, ProviderSide, ProviderInv, CreditInv
<1>7. SnapInv' BY <1>1, <1>6 DEF SnapInv
<1>8. ASSUME \A e \in Queue(pevents') : e.name \in Counts /\ e \notin Queue(pevents)
                                            => pdeal.fundsReceived <= Worth(e.n)
      PROVE  PaidInv'
  BY <1>1, <1>8 DEF ProviderSide, PaidInv
<1> QED BY <1>1, <1>2, <1>3, <1>4, <1>5, <1>7, <1>8

LEMMA BlockCounted ==
    ASSUME Joint, ProviderInv', ClientRests, payments' = payments, transit' \in Seq(Nat),
           \E f : Leads(f)', Ready, Counting, NEW c, Fresh(c), NEW n \in Nat, n > 0,
           AccountBlock([c EXCEPT !.totalSent = @ + n])
    PROVE  Joint'
<1>1. /\ c \in ChannelData /\ ~c.reload /\ c.totalPaidFor <= c.totalSent
      /\ Worth(c.totalPaidFor) = Best /\ c.interval = pdeal.currentInterval
      /\ c.totalSent \in Nat /\ c.totalPaidFor \in Nat /\ c.interval \in Nat
  BY DEF Fresh, ChannelData
<1>2. PICK x \in ChannelData :
        /\ AccountBlock(x) /\ x.totalSent = c.totalSent + n /\ x.totalPaidFor = c.totalPaidFor
        /\ x.interval = c.interval /\ ~x.reload
  <2>1. [c EXCEPT !.totalSent = @ + n] \in ChannelData BY <1>1 DEF ChannelData
  <2> QED BY <1>1, <2>1 DEF ChannelData
<1>3. PICK t, p, k, z \in Nat :
        /\ t = x.totalSent /\ p = x.totalPaidFor /\ k = pdeal.currentInterval /\ z = t - p
        /\ p < t /\ x.interval = k /\ Worth(p) = Best /\ z > 0
  <2>1. x.totalSent \in Nat /\ x.totalPaidFor \in Nat /\ x.totalPaidFor < x.totalSent
    BY <1>1, <1>2
  <2>2. x.totalSent - x.totalPaidFor \in Nat /\ x.totalSent - x.totalPaidFor > 0 BY <2>1
  <2> QED BY <1>1, <1>2, <2>1, <2>2
<1>4. PUSub(t, p) = z BY <1>3 DEF PUSub
<1>5. Owed(x) = Worth(z)
  <2>1. PricePerByte \in Nat BY WorthFacts
  <2>2. Owed(x) = z * PricePerByte BY <1>3 DEF Owed
  <2>3. z * PricePerByte = PricePerByte * z BY <1>3, <2>1
  <2> QED BY <2>2, <2>3 DEF Worth
<1>6. /\ Worth(t) = Best + Worth(z) /\ Worth(z) \in Nat /\ Worth(z) > 0 /\ WholeBytes(Worth(z))
      /\ k <= z => Worth(k) <= Worth(z)
      /\ z <= k => Worth(z) <= Worth(k)
      /\ Worth(k) \in Nat /\ Worth(t) \in Nat
  <2>1. \A i, j \in Int : /\ i <= j <=> Worth(i) <= Worth(j)
                          /\ Worth(i - j) = Worth(i) - Worth(j)
    BY WorthOrder
  <2>2. \A i \in Nat : Worth(i) \in Nat BY WorthFacts
  <2>3. t \in Int /\ p \in Int /\ z \in Int /\ k \in Int /\ 0 \in Int /\ 1 \in Int BY <1>3
  <2>4. Worth(z) = Worth(t) - Worth(p) BY <1>3, <2>1, <2>3
  <2>5. ~(Worth(z) <= Worth(0))
    <3>1. ~(z <= 0) BY <1>3
    <3> QED BY <2>1, <2>3, <3>1
  <2>6. Worth(t) \in Nat /\ Worth(z) \in Nat /\ Worth(k) \in Nat /\ Worth(p) \in Nat
    BY <1>3, <2>2
  <2>7. Worth(0) = 0 BY WorthFacts
  <2>8. Worth(t) = Best + Worth(z) BY <1>3, <2>4, <2>6
  <2>9. Worth(z) > 0 BY <2>5, <2>6, <2>7
  <2>10. (k <= z => Worth(k) <= Worth(z)) /\ (z <= k => Worth(z) <= Worth(k))
    BY <2>1, <2>3
  <2> QED BY <1>3, <2>6, <2>8, <2>9, <2>10 DEF WholeBytes
<1>7. /\ ProviderSide /\ ClientInv /\ Turns /\ pevents \in Seq(PEvent) /\ Best \in Nat
      /\ payments \in Seq(Nat)
  BY Numbers DEF Joint, ProviderSide, ClientInv, ChannelInv
<1>8. /\ Best = vouched /\ pdeal.fundsReceived = vouched /\ Dues = {} /\ payments = <<>>
      /\ reval.pc = "idle" /\ flow \in {"running", "closed", "completed"} /\ Going
      /\ ClientAt(k)
  BY <1>3 DEF Ready, EvenTurn
<1>9. track' = {x} BY <1>2 DEF AccountBlock
<1>10. /\ Best' = Best /\ pdeal' = pdeal /\ reval' = reval /\ saved' = saved /\ Alive'
       /\ pstage' # "none" /\ pdeal.status = "Ongoing"
       /\ OrderInv' /\ SnapInv'
       /\ (\A e \in Queue(pevents') : e.name \in Counts /\ e \notin Queue(pevents)
                                        => pdeal.fundsReceived <= Worth(e.n)) => PaidInv'
       /\ vouched' = vouched /\ payments' = payments
       /\ Alive /\ pull'.pc = "idle" /\ pull'.snap = {} /\ (\A m : ClientAt(m)' <=> ClientAt(m))
  BY <1>2, <1>3, <1>7, <1>9, CountingKeeps, ClientSame DEF Counting
<1>11. /\ Worth(pdeal.totalSent) <= pdeal.fundsReceived + Worth(k)
       /\ \A e \in Queue(pevents) : e.name = "BlockSent" =>
             Worth(e.n) <= pdeal.fundsReceived + Worth(k)
  BY <1>3, <1>7, <1>8 DEF Turns, TurnInv
<1>13. ASSUME NEW name \in Counts, pevents' = Append(pevents, PEv(name, t))
       PROVE  /\ PQueueInv' /\ PaidInv' /\ LiveInv'
              /\ \A e \in Queue(pevents') : e \in Queue(pevents) \/ (e.name = name /\ e.n = t)
              /\ \E e \in Queue(pevents') : e.name = name /\ e.n = t
              /\ \A S : Has(S)' <=> Has(S) \/ name \in S
  <2> DEFINE e == PEv(name, t)
  <2>1. e \in PEvent /\ e.name = name /\ e.n = t /\ name \in Reports
    BY <1>3, EventNames, EventType DEF PEv, Counts, Reports
  <2> HIDE DEF e
  <2>2. pevents' = Append(pevents, e) BY <1>13 DEF e
  <2>3. /\ PQueueInv' /\ Queue(pevents') = Queue(pevents) \cup {e}
        /\ \A S : Has(S)' <=> Has(S) \/ name \in S
    BY <1>7, <2>1, <2>2, ReportQueued
  <2>4. PaidInv'
    <3>1. pdeal.fundsReceived <= Worth(t) BY <1>6, <1>7, <1>8
    <3> QED BY <1>10, <2>1, <2>3, <3>1
  <2>5. LiveInv'
    <3>1. ~Has({"SaveVoucherFailed", "BlocksCompleted"})' BY <2>3 DEF Ready, Has, Counts
    <3> QED BY <1>10, <3>1 DEF LiveInv
  <2> QED BY <2>1, <2>3, <2>4, <2>5
<1>16. t \in Int BY <1>3
<1>14. CASE z >= k
  <2>1. SendAll(<<PEv("PaymentRequested", t)>>) /\ Pause("paused", "FundsNeeded", Worth(z))
    BY <1>2, <1>3, <1>4, <1>5, <1>10, <1>14 DEF AccountBlock
  <2>2. PEv("PaymentRequested", t) \in PEvent BY <1>3, <1>16, EventNames, EventType
  <2>3. pevents' = Append(pevents, PEv("PaymentRequested", t))
    BY <1>7, <1>10, <2>1, <2>2, SentOne
  <2>4. /\ flow' = "paused"
        /\ answers' = Append(answers, Response("FundsNeeded", Worth(z)))
    BY <2>1 DEF Pause
  <2>5. ClientInv' /\ Dues' = {Worth(z)} BY <1>6, <1>7, <1>8, <2>4, AskedKeeps
  <2>6. /\ PQueueInv' /\ PaidInv' /\ LiveInv'
        /\ \A e \in Queue(pevents') : e \in Queue(pevents) \/ (e.name = "PaymentRequested" /\ e.n = t)
        /\ \E e \in Queue(pevents') : e.name = "PaymentRequested" /\ e.n = t
    BY <1>10, <1>13, <2>3 DEF Counts
  <2>7. AskedTurn(t)'
    <3>1. Within(t)' BY <1>6, <1>7, <1>8, <1>10, <2>5 DEF Within
    <3>2. (Best + Worth(pdeal.currentInterval) <= Worth(t))'
      <4>1. Best + Worth(k) <= Worth(t) BY <1>6, <1>7, <1>14, <1>3
      <4> QED BY <1>3, <1>10, <4>1 DEF Worth
    <3>3. ~(vouched' > Best') BY <1>7, <1>8, <1>10
    <3>4. ClientAt(pdeal.currentInterval)' BY <1>3, <1>8, <1>10
    <3>5. track' # {} /\ \A y \in track' : ~y.reload /\ y.totalSent <= t
      BY <1>2, <1>3, <1>9
    <3> QED BY <1>8, <1>10, <2>4, <3>1, <3>2, <3>3, <3>4, <3>5 DEF AskedTurn
  <2>8. TurnInv'
    <3>1. ASSUME NEW e \in Queue(pevents'), e.name = "PaymentRequested" PROVE AskedTurn(e.n)'
      <4>1. e.n = t BY <2>6, <3>1 DEF Ready
      <4> QED BY <2>7, <4>1
    <3>2. Has({"PaymentRequested"})' BY <2>6 DEF Has
    <3>3. \A e \in Queue(pevents') : e.name = "BlockSent" => e \in Queue(pevents) BY <2>6
    <3> QED BY <1>10, <1>11, <3>1, <3>2, <3>3, <1>3 DEF TurnInv
  <2> QED BY <1>10, <2>5, <2>6, <2>8 DEF Joint, ProviderSide, Turns
<1>15. CASE ~(z >= k)
  <2>1. SendAll(<<PEv("BlockSent", t)>>) /\ Go
    BY <1>2, <1>3, <1>4, <1>10, <1>15 DEF AccountBlock
  <2>2. PEv("BlockSent", t) \in PEvent BY <1>3, <1>16, EventNames, EventType
  <2>3. pevents' = Append(pevents, PEv("BlockSent", t)) BY <1>7, <1>10, <2>1, <2>2, SentOne
  <2>4. flow' = flow /\ answers' = answers BY <2>1 DEF Go
  <2>5. ClientInv' /\ Dues' = Dues BY <1>7, <2>4, NothingAskedSame DEF NothingAsked, AskedSame
  <2>6. /\ PQueueInv' /\ PaidInv' /\ LiveInv'
        /\ \A e \in Queue(pevents') : e \in Queue(pevents) \/ (e.name = "BlockSent" /\ e.n = t)
    BY <1>10, <1>13, <2>3 DEF Counts
  <2>7. EvenTurn'
    <3>1. \A y \in track' : /\ Worth(y.totalPaidFor) = Best
                            /\ y.interval = pdeal.currentInterval
      BY <1>2, <1>3, <1>9, <1>10
    <3> QED BY <1>8, <1>10, <2>4, <2>5, <3>1, <1>3 DEF EvenTurn
  <2>8. TurnInv'
    <3>1. \A e \in Queue(pevents') : e.name # "PaymentRequested" BY <2>6 DEF Ready
    <3>2. Worth(t) <= pdeal.fundsReceived + Worth(k)
      <4>1. z <= k BY <1>3, <1>15
      <4> QED BY <1>6, <1>7, <1>8, <4>1
    <3>3. \A e \in Queue(pevents') : e.name = "BlockSent" =>
             Worth(e.n) <= pdeal.fundsReceived + Worth(k)
      BY <1>11, <2>6, <3>2
    <3> QED BY <1>10, <1>11, <2>7, <3>1, <3>3, <1>3 DEF TurnInv
  <2> QED BY <1>10, <2>5, <2>6, <2>8 DEF Joint, ProviderSide, Turns
<1> QED BY <1>14, <1>15

\* The deal goes on for as long as a last payment takes
LEMMA EndCounted ==
    ASSUME Joint, ProviderInv', ClientRests, payments' = payments, transit' \in Seq(Nat),
           \E f : Leads(f)', Ready, Counting, NEW c, Fresh(c), AccountEnd(c)
    PROVE  Joint'
<1>1. /\ c \in ChannelData /\ c.totalPaidFor <= c.totalSent /\ Worth(c.totalPaidFor) = Best
  BY DEF Fresh
<1>2. PICK t, p, z \in Nat :
        t = c.totalSent /\ p = c.totalPaidFor /\ z = t - p /\ Worth(p) = Best
  <2>1. c.totalSent \in Nat /\ c.totalPaidFor \in Nat BY <1>1 DEF ChannelData
  <2>2. c.totalSent - c.totalPaidFor \in Nat BY <1>1, <2>1
  <2> QED BY <1>1, <2>1, <2>2
<1>3. Owed(c) = Worth(z)
  <2>1. PricePerByte \in Nat BY WorthFacts
  <2>2. Owed(c) = z * PricePerByte BY <1>2 DEF Owed
  <2>3. z * PricePerByte = PricePerByte * z BY <2>1
  <2> QED BY <2>2, <2>3 DEF Worth
<1>4. /\ ProviderSide /\ ClientInv /\ Turns /\ pevents \in Seq(PEvent) /\ Best \in Nat
      /\ payments \in Seq(Nat) /\ pdeal.fundsReceived = Best /\ Dues = {}
  BY Numbers DEF Joint, ProviderSide, ClientInv, ChannelInv, Ready, EvenTurn
<1>5. track' = {c} BY DEF AccountEnd
<1>6. /\ Best' = Best /\ pdeal' = pdeal /\ reval' = reval /\ saved' = saved /\ Alive'
      /\ pstage' # "none" /\ pdeal.status = "Ongoing"
      /\ OrderInv' /\ SnapInv'
      /\ (\A e \in Queue(pevents') : e.name \in Counts /\ e \notin Queue(pevents)
                                       => pdeal.fundsReceived <= Worth(e.n)) => PaidInv'
      /\ vouched' = vouched /\ payments' = payments
      /\ Alive /\ pull'.pc = "idle" /\ pull'.snap = {}
      /\ pdeal.status # "New" /\ reval.pc = "idle"
  BY <1>1, <1>4, <1>5, CountingKeeps, ClientSame DEF Counting, Ready, EvenTurn, Going
<1>7. /\ Worth(z) \in Nat /\ WholeBytes(Worth(z)) /\ Best <= Worth(t)
  <2>1. p \in Int /\ t \in Int /\ p <= t BY <1>1, <1>2
  <2>2. \A i, j \in Int : i <= j => Worth(i) <= Worth(j) BY WorthOrder
  <2> QED BY <1>2, <2>1, <2>2, WorthFacts DEF WholeBytes
<1> DEFINE b == PEv("BlocksCompleted", 0)
           r == PEv("PaymentRequested", t)
<1>8. b \in PEvent /\ b.name = "BlocksCompleted" /\ r \in PEvent /\ r.name = "PaymentRequested"
      /\ r.n = t
  <2>1. t \in Int BY <1>2
  <2> QED BY <2>1, EventNames, EventType
<1>9. SendAll(<<b>> \o IF Worth(z) = 0 THEN <<>> ELSE <<r>>) BY <1>2, <1>3 DEF AccountEnd
<1> HIDE DEF b, r
<1>10. pevents' = Append(pevents, b) \/ pevents' = Append(Append(pevents, b), r)
  <2>1. pevents' = pevents \o (<<b>> \o IF Worth(z) = 0 THEN <<>> ELSE <<r>>)
    BY <1>6, <1>9 DEF SendAll
  <2>2. CASE Worth(z) = 0 BY <1>4, <1>8, <2>1, <2>2, AddedInARow
  <2>3. CASE Worth(z) # 0 BY <1>4, <1>8, <2>1, <2>3, AddedInARow
  <2> QED BY <2>2, <2>3
<1>11. /\ Ordered(pevents', Early) /\ b \in Queue(pevents')
       /\ \A e \in Queue(pevents') : e \in Queue(pevents) \/ e = b \/ e = r
  <2> DEFINE q == Append(pevents, b)
  <2>1. Ordered(pevents, Early) BY <1>4 DEF ProviderSide, PQueueInv
  <2>2. \A e \in Queue(pevents) : /\ e.name \notin {"PaymentRequested", "SyncReval",
                                        "SaveVoucherFailed", "BlocksCompleted"} \cup Payments
    BY DEF Ready
  <2>3. \A e \in Queue(pevents) : <<e, b>> \notin Early
    BY <1>8, <2>2 DEF Early, TooEarly, Reports, Payments
  <2>4. q \in Seq(PEvent) /\ Queue(q) = Queue(pevents) \cup {b} /\ Ordered(q, Early)
    BY <1>4, <1>8, <2>1, <2>3, QueueAdded, OrderAdded
  <2>5. \A e \in Queue(q) : <<e, r>> \notin Early
    BY <1>8, <2>2, <2>4 DEF Early, TooEarly, Reports, Payments
  <2> HIDE DEF q
  <2>6. Queue(Append(q, r)) = Queue(q) \cup {r} /\ Ordered(Append(q, r), Early)
    BY <1>8, <2>4, <2>5, QueueAdded, OrderAdded
  <2>7. pevents' = q \/ pevents' = Append(q, r) BY <1>10 DEF q
  <2> QED BY <2>4, <2>6, <2>7
<1>12. Has({"BlocksCompleted"})' BY <1>8, <1>11 DEF Has
<1>13. PQueueInv'
  <2>1. \A e \in Queue(pevents') : e.name \notin Payments
    BY <1>8, <1>11 DEF Ready, Payments
  <2> QED BY <1>6, <1>11, <2>1 DEF PQueueInv
<1>14. PaidInv' BY <1>4, <1>6, <1>7, <1>8, <1>11 DEF Counts
<1>15. TurnInv' BY <1>6, <1>12 DEF TurnInv, Going
<1>16. ASSUME flow' \in {"completed", "finalizing"} PROVE LiveInv'
  BY <1>6, <1>16 DEF LiveInv, Sending
<1>17. CASE Worth(z) = 0
  <2>1. Finish(<<Response("Completed", 0)>>) BY <1>3, <1>6, <1>17 DEF AccountEnd
  <2>2. flow' = "completed" /\ answers' = answers \o <<Response("Completed", 0)>>
    BY <2>1 DEF Finish
  <2>3. NothingAsked
    <3> DEFINE a == Response("Completed", 0)
    <3>1. a \in Answer /\ ~Asks(a) BY DEF Response, Answer, AnswerNames, Asks
    <3> HIDE DEF a
    <3>2. answers \in Seq(Answer) BY <1>4 DEF ClientInv, ChannelInv
    <3>3. answers' = Append(answers, a) BY <2>2, <3>1, <3>2, AddedInARow DEF a
    <3> QED BY <3>1, <3>3 DEF NothingAsked
  <2>4. ClientInv' BY <1>4, <2>3, NothingAskedSame
  <2> QED BY <1>6, <1>13, <1>14, <1>15, <1>16, <2>2, <2>4 DEF Joint, ProviderSide, Turns
<1>18. CASE Worth(z) # 0
  <2>1. Pause("finalizing", "FundsNeededLastPayment", Worth(z))
    BY <1>3, <1>6, <1>18 DEF AccountEnd
  <2>2. /\ flow' = "finalizing"
        /\ answers' = Append(answers, Response("FundsNeededLastPayment", Worth(z)))
    BY <2>1 DEF Pause
  <2>3. Worth(z) > 0 BY <1>7, <1>18
  <2>4. ClientInv' BY <1>4, <1>6, <1>7, <2>2, <2>3, AskedKeeps
  <2> QED BY <1>6, <1>13, <1>14, <1>15, <1>16, <2>2, <2>4 DEF Joint, ProviderSide, Turns
<1> QED BY <1>17, <1>18

\* A report finds the machine gone
LEMMA ReportUnheard ==
    ASSUME Joint, ProviderInv', ClientRests, payments' = payments, transit' \in Seq(Nat),
           \E f : Leads(f)', ~Alive, UNCHANGED <<pdeal, pstage, reval, saved, pevents>>,
           flow \in {"running", "closed"}, NEW c, track # {}, c.totalPaidFor <= c.totalSent,
           track' = {c}, pull' = pull \/ pull' = NoCall, Break("Error")
    PROVE  Joint'
<1>1. pdeal' = pdeal /\ pstage' = pstage /\ reval' = reval /\ saved' = saved /\ pevents' = pevents
  OBVIOUS
<1>2. ProviderSide /\ ClientInv /\ Turns /\ ProviderInv BY DEF Joint, ProviderSide
<1>3. pstage = "terminated" /\ pdeal.status \in PFinal
  BY <1>2 DEF Alive, ProviderInv, StageInv
<1>4. flow' \in {flow, "closed"} /\ NothingAsked
  <2>1. CASE ChannelIsOpen
    <3>1. flow' = "closed" /\ answers' = Append(answers, Response("Error", 0))
      BY <2>1 DEF Break
    <3>2. Response("Error", 0) \in Answer /\ ~Asks(Response("Error", 0))
      BY DEF Response, Answer, AnswerNames, Asks
    <3> QED BY <3>1, <3>2 DEF NothingAsked
  <2>2. CASE ~ChannelIsOpen BY <2>2 DEF Break, Go, NothingAsked
  <2> QED BY <2>1, <2>2
<1>5. ClientInv' /\ AskedSame BY <1>2, <1>4, NothingAskedSame
<1>6. \A S : Has(S)' <=> Has(S) BY <1>1 DEF Has
<1>7. Best' = Best BY <1>1, BestStays
<1>8. NoCall.pc = "idle" /\ NoCall.snap = {} BY DEF NoCall
<1>9. PQueueInv' BY <1>1, <1>2, <1>6, <1>8 DEF ProviderSide, PQueueInv
<1>10. LiveInv' BY <1>1, <1>2, <1>3, <1>4, <1>8 DEF ProviderSide, LiveInv, Alive
<1>11. PaidInv' BY <1>1, <1>2, <1>8 DEF ProviderSide, PaidInv
<1>12. TurnInv' BY <1>1, <1>3 DEF TurnInv, Going, PFinal
<1>13. SnapInv'
  <2>1. flow' # "paused" BY <1>4
  <2>2. pdeal'.status # "FundsNeeded" BY <1>1, <1>3 DEF PFinal
  <2> QED BY <1>1, <1>2, <2>1, <2>2 DEF Turns, SnapInv
<1>14. OrderInv' BY <1>1, <1>2, <1>5, <1>7 DEF Turns, OrderInv, AskedSame
<1> QED BY <1>5, <1>9, <1>10, <1>11, <1>12, <1>13, <1>14 DEF Joint, ProviderSide, Turns

LEMMA CountedKeeps ==
    ASSUME Joint, ProviderInv', ClientRests, payments' = payments, transit' \in Seq(Nat),
           \E f : Leads(f)', UNCHANGED <<pdeal, pstage, reval, saved>>, track # {},
           NEW c \in ChannelData, NEW op, NEW n \in Nat, op = "block" => n > 0,
           Counted(c, op, n), c.totalPaidFor <= c.totalSent, Alive => Ready /\ Fresh(c),
           (pull' = pull /\ pull.pc = "idle") \/ pull' = NoCall, flow \in {"running", "closed"}
    PROVE  Joint'
<1>1. pull'.pc = "idle" /\ pull'.snap = {} BY DEF NoCall, Joint, ProviderSide, PQueueInv
<1>2. CASE Alive
  <2>1. Counting BY <1>1, <1>2 DEF Counting
  <2>2. CASE op = "block"
    <3>1. AccountBlock([c EXCEPT !.totalSent = @ + n]) BY <2>2 DEF Counted
    <3> QED BY <1>2, <2>1, <2>2, <3>1, BlockCounted
  <2>3. CASE op # "block"
    <3>1. AccountEnd(c) BY <2>3 DEF Counted
    <3> QED BY <1>2, <2>1, <3>1, EndCounted
  <2> QED BY <2>2, <2>3
<1>3. CASE ~Alive
  <2>1. PICK x : /\ track' = {x} /\ x.totalPaidFor <= x.totalSent
                 /\ pevents' = pevents /\ Break("Error")
    <3>1. CASE op = "block"
      <4> DEFINE x == [c EXCEPT !.totalSent = @ + n]
      <4>1. AccountBlock(x) BY <3>1 DEF Counted
      <4>2. x.totalPaidFor = c.totalPaidFor /\ x.totalSent = c.totalSent + n BY DEF ChannelData
      <4>3. c.totalSent \in Nat /\ c.totalPaidFor \in Nat BY DEF ChannelData
      <4>4. x.totalPaidFor <= x.totalSent BY <4>2, <4>3
      <4> HIDE DEF x
      <4>5. track' = {x} /\ pevents' = pevents /\ Break("Error")
        BY <1>3, <4>1 DEF AccountBlock, SendAll
      <4> QED BY <4>4, <4>5
    <3>2. CASE op # "block"
      <4>1. AccountEnd(c) BY <3>2 DEF Counted
      <4>2. track' = {c} /\ pevents' = pevents /\ Break("Error")
        BY <1>3, <4>1 DEF AccountEnd, SendAll
      <4> QED BY <4>2
    <3> QED BY <3>1, <3>2
  <2> QED BY <1>3, <2>1, ReportUnheard
<1> QED BY <1>2, <1>3

\* OnPullDataSent or OnComplete waits for the machine
LEMMA ReportWaits ==
    ASSUME Joint, ProviderInv', ClientRests, payments' = payments, transit' \in Seq(Nat),
           \E f : Leads(f)', flow = "running", pull.pc = "idle", NEW op, NEW n \in Nat,
           op = "block" => n > 0, track # {}, Alive,
           pull' = [pc |-> "waiting", op |-> op, n |-> n, snap |-> {}],
           SendAll(<<PEv("SyncPull", 0)>>), Go, UNCHANGED <<track, pdeal, pstage, reval, saved>>
    PROVE  Joint'
<1> DEFINE x == PEv("SyncPull", 0)
<1>1. x \in PEvent /\ x.name = "SyncPull" BY DEF PEv, PEvent, Syncs
<1> HIDE DEF x
<1>2. SendAll(<<x>>) BY DEF x
<1>3. /\ ProviderSide /\ ClientInv /\ Turns /\ ProviderInv /\ pevents \in Seq(PEvent)
      /\ Ordered(pevents, Early)
  BY Numbers DEF Joint, ProviderSide, PQueueInv
<1>4. pevents' = Append(pevents, x) BY <1>1, <1>2, <1>3, SentOne
<1>5. \A e \in Queue(pevents) : ~TooEarly(e, x) BY <1>1 DEF TooEarly, Reports, Payments
<1>6. /\ Ordered(pevents', Early) /\ Queue(pevents') = Queue(pevents) \cup {x}
      /\ \A S : Has(S)' <=> Has(S) \/ x.name \in S
  BY <1>1, <1>3, <1>4, <1>5, PAdded
<1>7. /\ track' = track /\ pdeal' = pdeal /\ pstage' = pstage /\ reval' = reval /\ saved' = saved
      /\ flow' = flow /\ answers' = answers
      /\ pull'.pc = "waiting" /\ pull'.snap = {} /\ pull'.op = op /\ pull'.n = n
  BY DEF Go
<1>8. ClientInv' /\ AskedSame BY <1>3, <1>7, NothingAskedSame DEF NothingAsked
<1>9. Best' = Best BY <1>7, BestStays
<1>10. pdeal.status # "New" BY <1>3 DEF ProviderInv, EndInv
<1>11. \A S : S \in {Reports, Payments, Counts, {"SaveVoucherFailed", "BlocksCompleted"},
                     {"BlocksCompleted"}, {"PaymentRequested"}} => (Has(S)' <=> Has(S))
  BY <1>1, <1>6 DEF Reports, Payments, Counts
<1>12. x.name \notin Payments /\ x.name \notin Counts /\ x.name \notin {"PaymentRequested", "BlockSent"}
  BY <1>1 DEF Payments, Counts
<1>13. PQueueInv'
  BY <1>3, <1>6, <1>7, <1>10, <1>11, <1>12 DEF ProviderSide, PQueueInv
<1>14. LiveInv'
  <2>1. Sending BY DEF Sending
  <2>2. Alive' BY <1>7 DEF Alive
  <2> QED BY <1>3, <1>7, <1>11, <2>1, <2>2 DEF ProviderSide, LiveInv
<1>15. PaidInv' BY <1>3, <1>6, <1>7, <1>12 DEF ProviderSide, PaidInv
<1>16. \A m : ~AskedTurn(m) BY DEF AskedTurn
<1>17. EvenTurn => EvenTurn' BY <1>7, <1>8, <1>9 DEF EvenTurn, AskedSame
<1>18. PaidTurn => PaidTurn' BY <1>6, <1>7, <1>8, <1>9, <1>12 DEF PaidTurn, AskedSame
<1>19. TurnInv'
  BY <1>3, <1>6, <1>7, <1>10, <1>11, <1>12, <1>16, <1>17, <1>18 DEF Turns, TurnInv, Going
<1>20. SnapInv'
  <2>1. flow' # "paused" BY <1>7
  <2> QED BY <1>3, <1>7, <2>1 DEF Turns, SnapInv
<1>21. OrderInv' BY <1>3, <1>7, <1>8, <1>9 DEF Turns, OrderInv, AskedSame
<1> QED BY <1>8, <1>13, <1>14, <1>15, <1>19, <1>20, <1>21 DEF Joint, ProviderSide, Turns

\* A report on a channel that is not tracked
LEMMA ReportPasses ==
    ASSUME Joint, ProviderInv', ClientRests, payments' = payments, transit' \in Seq(Nat),
           \E f : Leads(f)', flow = "running", track = {}, flow' \in {flow, "completed"},
           UNCHANGED <<track, pull, pevents, pdeal, pstage, reval, saved, answers>>
    PROVE  Joint'
<1>1. /\ ProviderSide /\ ClientInv /\ Turns BY DEF Joint
<1>2. /\ track' = track /\ pdeal' = pdeal /\ pstage' = pstage /\ reval' = reval /\ saved' = saved
      /\ pull' = pull /\ pevents' = pevents
  OBVIOUS
<1>3. ClientInv' /\ AskedSame BY <1>1, NothingAskedSame DEF NothingAsked
<1>4. Best' = Best /\ \A S : Has(S)' <=> Has(S) BY <1>2, BestStays DEF Has
<1>5. PQueueInv' BY <1>1, <1>2, <1>4 DEF ProviderSide, PQueueInv
<1>6. pull.pc = "idle"
  <2>1. Readers = {} BY <1>1 DEF ProviderSide, ProviderInv, Tracked
  <2> QED BY <2>1 DEF Readers
<1>7. LiveInv'
  <2>1. Sending BY DEF Sending
  <2>2. Alive' <=> Alive BY <1>2 DEF Alive
  <2> QED BY <1>1, <1>2, <1>4, <1>6, <2>1, <2>2 DEF ProviderSide, LiveInv
<1>8. PaidInv' BY <1>1, <1>2 DEF ProviderSide, PaidInv
<1>9. \A m : ~AskedTurn(m) BY DEF AskedTurn
<1>10. EvenTurn => EvenTurn' BY <1>2, <1>3, <1>4 DEF EvenTurn, AskedSame
<1>11. PaidTurn => PaidTurn' BY <1>2, <1>3, <1>4 DEF PaidTurn, AskedSame
<1>12. NewTurn => NewTurn' BY <1>2, <1>3, <1>4 DEF NewTurn, AskedSame
<1>13. TurnInv' BY <1>1, <1>2, <1>4, <1>9, <1>10, <1>11, <1>12 DEF Turns, TurnInv, Going
<1>14. SnapInv'
  <2>1. flow' # "paused" OBVIOUS
  <2> QED BY <1>1, <1>2, <2>1 DEF Turns, SnapInv
<1>15. OrderInv' BY <1>1, <1>2, <1>3, <1>4 DEF Turns, OrderInv, AskedSame
<1> QED BY <1>3, <1>5, <1>7, <1>8, <1>13, <1>14, <1>15 DEF Joint, ProviderSide, Turns

\* The channel breaks off
LEMMA BreakAsksNothing ==
    ASSUME NEW heard \in {"Error", "Rejected"}, Break(heard)
    PROVE  flow' \in {flow, "closed"} /\ NothingAsked
<1>1. CASE ChannelIsOpen
  <2>1. flow' = "closed" /\ answers' = Append(answers, Response(heard, 0)) BY <1>1 DEF Break
  <2>2. Response(heard, 0) \in Answer /\ ~Asks(Response(heard, 0))
    BY DEF Response, Answer, AnswerNames, Asks
  <2> QED BY <2>1, <2>2 DEF NothingAsked
<1>2. CASE ~ChannelIsOpen BY <1>2 DEF Break, Go, NothingAsked
<1> QED BY <1>1, <1>2

LEMMA ReportTurns ==
    ASSUME Joint, ProviderInv', ClientRests, payments' = payments, transit' \in Seq(Nat),
           \E f : Leads(f)', NEW op, NEW n \in Nat, op = "block" => n > 0, Report(op, n)
    PROVE  Joint'
<1>1. /\ ProviderSide /\ ClientInv /\ Turns /\ ProviderInv BY DEF Joint, ProviderSide
<1>2. flow = "running" /\ pull.pc = "idle" /\ UNCHANGED <<pdeal, pstage, reval, saved>>
  BY DEF Report
<1>3. CASE /\ track = {} /\ UNCHANGED <<track, pull, pevents>>
           /\ IF op = "block" THEN Go ELSE Finish(<<>>)
  <2>1. answers \in Seq(Answer) BY <1>1 DEF ClientInv, ChannelInv
  <2>2. answers \o <<>> = answers BY <2>1
  <2>3. answers' = answers /\ flow' \in {flow, "completed"} BY <1>3, <2>2 DEF Go, Finish
  <2> QED BY <1>2, <1>3, <2>3, ReportPasses
<1>4. ASSUME NEW c \in track, ~c.reload, Counted(c, op, n), UNCHANGED pull PROVE Joint'
  <2>1. c \in ChannelData /\ c.totalPaidFor <= c.totalSent /\ track # {}
    BY <1>1, <1>4, Numbers DEF ProviderSide, PaidInv
  <2>2. Alive => Ready /\ Fresh(c) BY <1>1, <1>2, <1>4, ReportsFindReady
  <2> QED BY <1>2, <1>4, <2>1, <2>2, CountedKeeps
<1>5. ASSUME NEW c \in track, Alive, SendAll(<<PEv("SyncPull", 0)>>), Go, UNCHANGED track,
             pull' = [pc |-> "waiting", op |-> op, n |-> n, snap |-> {}]
      PROVE  Joint'
  BY <1>2, <1>5, ReportWaits
<1>6. ASSUME NEW c \in track, Break("Error"), UNCHANGED <<track, pull, pevents>> PROVE Joint'
  <2>1. flow' \in {flow, "closed"} /\ NothingAsked BY <1>6, BreakAsksNothing
  <2>2. ClientInv' /\ AskedSame BY <1>1, <2>1, NothingAskedSame
  <2> QED BY <1>1, <1>2, <1>6, <2>1, <2>2, ChannelEndsTurns DEF Joint
<1> QED BY <1>3, <1>4, <1>5, <1>6 DEF Report

LEMMA TransportTurns ==
    ASSUME Joint, ProviderInv', ClientRests, payments' = payments, transit' \in Seq(Nat),
           \E f : Leads(f)', OnPullDataSent \/ OnComplete
    PROVE  Joint'
<1>1. CASE OnPullDataSent
  <2>1. PICK n \in BlockSizes \cap 1..(FileSize - wire) : Report("block", n)
    BY <1>1 DEF OnPullDataSent
  <2>2. n \in Nat /\ n > 0 BY <2>1, ProviderDealAssumption
  <2> QED BY <2>1, <2>2, ReportTurns
<1>2. CASE OnComplete BY <1>2, ReportTurns DEF OnComplete
<1> QED BY <1>1, <1>2

LEMMA FinishReportTurns ==
    ASSUME Joint, ProviderInv', ClientRests, payments' = payments, transit' \in Seq(Nat),
           \E f : Leads(f)', FinishReport
    PROVE  Joint'
<1>1. /\ ProviderSide /\ ClientInv /\ Turns /\ ProviderInv BY DEF Joint, ProviderSide
<1>2. PICK d \in pull.snap : Counted(FromDeal(d), pull.op, pull.n) BY DEF FinishReport
<1>3. /\ pull.pc = "answered" /\ pull' = NoCall /\ UNCHANGED <<pdeal, pstage, reval, saved>>
  BY DEF FinishReport
<1>4. PICK op, n : op = pull.op /\ n = pull.n OBVIOUS
<1>5. n \in Nat /\ (op = "block" => n > 0) /\ flow \in {"running", "closed"}
  BY <1>1, <1>3, <1>4, Numbers DEF ProviderSide, LiveInv
<1>6. track # {}
  <2>1. Readers # {} BY <1>3 DEF Readers
  <2> QED BY <1>1, <2>1 DEF ProviderInv, Tracked
<1>7. PICK c : c = FromDeal(d) OBVIOUS
<1>8. c \in ChannelData /\ c.totalPaidFor <= c.totalSent
  <2>1. /\ d \in ProviderDealState /\ 0 <= d.fundsReceived /\ d.fundsReceived <= Worth(d.totalSent)
        /\ d.totalSent \in Nat /\ d.fundsReceived \in Nat
    BY <1>1, <1>2, Numbers DEF ProviderSide, PaidInv
  <2>2. c \in ChannelData /\ c.totalSent = d.totalSent BY <1>7, <2>1, DealData
  <2>3. c.totalPaidFor = d.fundsReceived \div PricePerByte
    <3>1. MaxOf(d.fundsReceived, 0) = d.fundsReceived BY <2>1 DEF MaxOf
    <3> QED BY <1>7, <3>1 DEF FromDeal
  <2>4. c.totalPaidFor \in Nat BY <2>2 DEF ChannelData
  <2>5. \A k \in Nat : c.totalPaidFor >= k <=> d.fundsReceived >= Worth(k)
    BY <2>1, <2>3, PriceDivides
  <2>6. d.totalSent + 1 \in Nat /\ Worth(d.totalSent + 1) > Worth(d.totalSent)
    <3>1. d.totalSent \in Int /\ d.totalSent + 1 \in Int /\ d.totalSent + 1 \in Nat BY <2>1
    <3>2. \A i, j \in Int : i <= j <=> Worth(i) <= Worth(j) BY WorthOrder
    <3>3. ~(Worth(d.totalSent + 1) <= Worth(d.totalSent)) BY <3>1, <3>2
    <3>4. Worth(d.totalSent + 1) \in Int /\ Worth(d.totalSent) \in Int BY <3>1, WorthFacts
    <3> QED BY <3>1, <3>3, <3>4
  <2>7. ~(d.fundsReceived >= Worth(d.totalSent + 1))
    <3>1. Worth(d.totalSent + 1) \in Nat /\ Worth(d.totalSent) \in Nat BY <2>1, <2>6, WorthFacts
    <3> QED BY <2>1, <2>6, <3>1
  <2>8. ~(c.totalPaidFor >= d.totalSent + 1) BY <2>5, <2>6, <2>7
  <2> QED BY <2>1, <2>2, <2>4, <2>8
<1>9. Alive => Ready /\ Fresh(c) BY <1>1, <1>2, <1>3, <1>7, ReportsFindReady
<1>10. Counted(c, op, n) BY <1>2, <1>4, <1>7
<1> QED BY <1>3, <1>5, <1>6, <1>8, <1>9, <1>10, CountedKeeps
-----------------------------------------------------------------------------
(* The vouchers *)

\* While a voucher is under way or looked at the turn is the client's
LEMMA VoucherFindsTurn ==
    ASSUME Joint, payments # <<>> \/ reval.pc = "answered"
    PROVE  /\ pdeal.status # "New" /\ ~EvenTurn /\ ~PaidTurn
           /\ Going => Has({"PaymentRequested"})
           /\ pdeal.status = "FundsNeeded" =>
                ~Has(Payments) /\ AskedTurn(pdeal.totalSent) /\ ~Has(Counts)
           /\ Alive => pull.pc = "idle"
<1>1. /\ ProviderSide /\ Turns /\ ProviderInv BY DEF Joint, ProviderSide
<1>2. ~EvenTurn /\ ~PaidTurn BY DEF EvenTurn, PaidTurn
<1>3. pdeal.status # "New"
  <2>1. reval.pc = "answered" => track # {} BY <1>1 DEF ProviderInv, Tracked, Readers
  <2> QED BY <1>1, <2>1 DEF Turns, TurnInv, NewTurn
<1>4. Going => Has({"PaymentRequested"}) BY <1>1, <1>2 DEF Turns, TurnInv
<1>5. pdeal.status = "FundsNeeded" =>
        ~Has(Payments) /\ AskedTurn(pdeal.totalSent) /\ ~Has(Counts)
  BY <1>1, <1>2 DEF Turns, TurnInv
<1>6. ASSUME Alive, pull.pc # "idle" PROVE FALSE
  <2>1. Sending BY <1>6 DEF Sending
  <2>2. /\ pdeal.status \in {"Ongoing", "FundsNeeded"}
        /\ ~Has({"SaveVoucherFailed", "BlocksCompleted"})
    BY <1>1, <1>3, <1>6, <2>1 DEF ProviderSide, LiveInv
  <2>3. ~Has({"BlocksCompleted"}) BY <2>2 DEF Has
  <2>4. pdeal.status = "FundsNeeded" => pull.pc = "idle" BY <1>5 DEF AskedTurn
  <2>5. pdeal.status = "Ongoing" => pull.pc = "idle"
    <3>1. Going => \E e \in Queue(pevents) : AskedTurn(e.n)
      BY <1>1, <1>4 DEF Turns, TurnInv, Has
    <3> QED BY <2>3, <3>1 DEF Going, AskedTurn
  <2> QED BY <1>6, <2>2, <2>4, <2>5
<1> QED BY <1>2, <1>3, <1>4, <1>5, <1>6

\* A voucher arrives: Revalidate waits, refuses it, or lets the channel go on
\* that is not tracked
LEMMA VoucherTaken ==
    ASSUME Joint, ProviderInv', ClientRests, NothingAsked,
           payments # <<>>, payments' = Tail(payments), transit' \in Seq(Nat), \E f : Leads(f)',
           UNCHANGED <<pdeal, pstage, pull, saved, track>>,
           \/ flow' \in {flow, "closed"}
           \/ track = {} /\ flow \in {"paused", "finalizing"} /\ flow' \in {"running", "completed"}
                         /\ (flow' = "running" => flow = "paused"),
           \/ reval' = reval
           \/ reval'.pc = "waiting" /\ reval'.n = Head(payments) /\ reval'.snap = {},
           NEW x \in PEvent, x.name \notin Reports \cup Payments \cup {"Open"},
           x.name = "SaveVoucherFailed" => flow' \notin {"running", "paused"},
           pevents' \in {pevents, Append(pevents, x)}
    PROVE  Joint'
<1>1. /\ ProviderSide /\ ClientInv /\ Turns /\ ProviderInv /\ pevents \in Seq(PEvent)
      /\ Ordered(pevents, Early) /\ payments \in Seq(Nat)
  BY Numbers DEF Joint, ProviderSide, PQueueInv, ClientInv, ChannelInv
<1>2. /\ pdeal' = pdeal /\ pstage' = pstage /\ pull' = pull /\ saved' = saved /\ track' = track
  OBVIOUS
<1>3. /\ Head(payments) \in Nat /\ Tail(payments) \in Seq(Nat) /\ payments' \in Seq(Nat)
      /\ Queue(payments) = {Head(payments)} \cup Queue(payments') /\ Ordered(payments', Falling)
      /\ \A a \in Queue(payments') : a \in Nat /\ Head(payments) < a
  <2>1. Ordered(payments, Falling) BY <1>1 DEF Turns, OrderInv
  <2>2. /\ Head(payments) \in Nat /\ Tail(payments) \in Seq(Nat)
        /\ Queue(payments) = {Head(payments)} \cup Queue(Tail(payments))
    BY <1>1, QueueTaken
  <2>3. /\ Ordered(Tail(payments), Falling)
        /\ \A a \in Queue(Tail(payments)) : <<Head(payments), a>> \notin Falling
    BY <1>1, <2>1, OrderTaken
  <2>4. Queue(Tail(payments)) \subseteq Nat BY <2>2, InQueue
  <2>5. \A i, j \in Nat : <<i, j>> \notin Falling => i < j BY DEF Falling
  <2>6. \A a \in Queue(Tail(payments)) : a \in Nat /\ Head(payments) < a
    BY <2>2, <2>3, <2>4, <2>5
  <2> QED BY <2>2, <2>3, <2>6
<1>4. ClientInv' /\ Dues' = Dues BY <1>1, <1>3, NothingAskedKeeps
<1>5. vouched' = vouched /\ \A k : ClientAt(k)' <=> ClientAt(k) BY <1>1, ClientSame
<1>6. Best' = Best BY <1>2, BestStays
<1>7. /\ Ordered(pevents', Early)
      /\ \A e \in Queue(pevents') : e \in Queue(pevents) \/ e = x
      /\ \A S : x.name \notin S => (Has(S)' <=> Has(S))
  <2>1. CASE pevents' = pevents BY <1>1, <2>1 DEF Has
  <2>2. CASE pevents' = Append(pevents, x)
    <3>1. \A e \in Queue(pevents) : ~TooEarly(e, x) BY DEF TooEarly, Reports, Payments
    <3>2. /\ Ordered(pevents', Early) /\ Queue(pevents') = Queue(pevents) \cup {x}
          /\ \A S : Has(S)' <=> Has(S) \/ x.name \in S
      BY <1>1, <2>2, <3>1, PAdded
    <3> QED BY <3>2
  <2> QED BY <2>1, <2>2
<1>8. \A S : S \in {Reports, Payments, Counts, {"BlocksCompleted"}, {"PaymentRequested"}}
                => (Has(S)' <=> Has(S))
  BY <1>7 DEF Counts, Reports
<1>9. /\ pdeal.status # "New" /\ ~EvenTurn /\ ~PaidTurn
      /\ Going => Has({"PaymentRequested"})
      /\ pdeal.status = "FundsNeeded" =>
           ~Has(Payments) /\ AskedTurn(pdeal.totalSent) /\ ~Has(Counts)
      /\ Alive => pull.pc = "idle"
  BY VoucherFindsTurn
<1>10. \A n : Within(n) => Within(n)' BY <1>4, <1>5 DEF Within
<1>11. \A n : AskedTurn(n) => AskedTurn(n)'
  BY <1>2, <1>4, <1>5, <1>6, <1>10 DEF AskedTurn
<1>12. x.name \notin Payments /\ x.name \notin Counts /\ x.name \notin {"PaymentRequested", "BlockSent"}
  BY DEF Payments, Counts, Reports
<1>13. \/ reval' = reval
       \/ reval'.pc = "waiting" /\ reval'.n = Head(payments) /\ reval'.snap = {}
  OBVIOUS
<1>14. PQueueInv'
  BY <1>1, <1>2, <1>7, <1>8, <1>9, <1>12, <1>13 DEF ProviderSide, PQueueInv
<1>15. LiveInv'
  <2>1. Alive' <=> Alive BY <1>2 DEF Alive
  <2>2. track = {} => pull.pc = "idle" BY <1>1 DEF ProviderInv, Tracked, Readers
  <2>3. ASSUME Alive', Sending'
        PROVE  /\ pdeal.status \in {"New", "Ongoing", "FundsNeeded"}
               /\ ~Has({"SaveVoucherFailed", "BlocksCompleted"})'
    <3>1. pull.pc = "idle" BY <1>9, <2>1, <2>3
    <3>2. flow' \in {"running", "paused"} BY <1>2, <2>3, <3>1 DEF Sending
    <3>3. flow \in {"running", "paused"} BY <3>2
    <3>4. x.name \notin {"SaveVoucherFailed", "BlocksCompleted"} BY <3>2 DEF Reports
    <3> QED BY <1>1, <1>7, <2>1, <2>3, <3>3, <3>4 DEF ProviderSide, LiveInv, Sending
  <2> QED BY <1>1, <1>2, <2>2, <2>3 DEF ProviderSide, LiveInv
<1>16. PaidInv' BY <1>1, <1>2, <1>7, <1>12 DEF ProviderSide, PaidInv
<1>17. TurnInv'
  BY <1>1, <1>2, <1>7, <1>8, <1>9, <1>11, <1>12 DEF Turns, TurnInv, Going
<1>18. SnapInv'
  <2>1. flow' = "paused" => flow = "paused" OBVIOUS
  <2> QED BY <1>1, <1>2, <1>10, <1>13, <2>1 DEF Turns, SnapInv
<1>19. OrderInv'
  <2>1. /\ \A a \in Queue(payments) : Best < a /\ a <= vouched /\ (reval.pc # "idle" => reval.n < a)
        /\ reval.pc # "idle" => Best < reval.n /\ reval.n <= vouched
        /\ Best <= vouched
    BY <1>1 DEF Turns, OrderInv
  <2> QED BY <1>3, <1>5, <1>6, <2>1 DEF OrderInv
<1> QED BY <1>4, <1>14, <1>15, <1>16, <1>17, <1>18, <1>19 DEF Joint, ProviderSide, Turns

LEMMA ReceivePaymentTurns ==
    ASSUME Joint, ReceivePayment
    PROVE  Joint'
<1> DEFINE a == Head(payments)
<1>1. /\ payments # <<>> /\ payments' = Tail(payments) /\ ClientRests
      /\ UNCHANGED <<transit, received>>
  BY DEF ReceivePayment, clientSide, ClientRests
<1>2. /\ ProviderSide /\ ClientInv /\ ProviderInv /\ transit \in Seq(Nat) /\ \E f : Leads(f)
      /\ payments \in Seq(Nat) /\ answers \in Seq(Answer) /\ pevents \in Seq(PEvent)
      /\ reval \in Call
  BY Numbers DEF Joint, ProviderSide, ClientInv, ChannelInv
<1>3. a \in Nat BY <1>1, <1>2
<1>4. ASSUME ChannelIsOpen PROVE Revalidate(a) BY <1>4 DEF ReceivePayment
<1>5. ~ChannelIsOpen => UNCHANGED providerVars BY DEF ReceivePayment
<1>6. wire' = wire BY <1>4, <1>5 DEF Revalidate, providerVars
<1>7. transit' \in Seq(Nat) /\ \E f : Leads(f)' BY <1>1, <1>2, <1>6, LeadKept
<1>8. ProviderInv' BY <1>2, <1>3, <1>4, <1>5, StutterKeeps, RevalidateKeeps
<1>9. /\ PEv("SyncReval", 0) \in PEvent /\ PEv("SyncReval", 0).name = "SyncReval"
      /\ PEv("SaveVoucherFailed", 0) \in PEvent
      /\ PEv("SaveVoucherFailed", 0).name = "SaveVoucherFailed"
      /\ "SyncReval" \notin Reports \cup Payments \cup {"Open"}
      /\ "SaveVoucherFailed" \notin Reports \cup Payments \cup {"Open"}
  BY EventNames DEF PEv, PEvent, Syncs, Reports, Payments
<1> HIDE DEF a
<1>10. CASE ~ChannelIsOpen
  <2>1. UNCHANGED <<pdeal, pevents, pstage, track, pull, reval, saved, flow, answers>>
    BY <1>5, <1>10 DEF providerVars
  <2> QED
    BY <1>1, <1>7, <1>8, <1>9, <2>1, VoucherTaken DEF NothingAsked
<1>11. CASE ChannelIsOpen
  <2>1. /\ reval.pc = "idle" /\ UNCHANGED <<pdeal, pstage, pull, wire>>
    BY <1>4, <1>11 DEF Revalidate
  <2>2. CASE track = {} /\ Resume(<<>>) /\ UNCHANGED <<pevents, reval, track, saved>>
    <3>1. answers \o <<>> = answers BY <1>2
    <3>2. /\ answers' = answers
          /\ \/ flow' = flow
             \/ flow = "paused" /\ flow' = "running"
             \/ flow = "finalizing" /\ flow' = "completed"
      BY <2>2, <3>1 DEF Resume, Finish
    <3> QED BY <1>1, <1>7, <1>8, <1>9, <2>1, <2>2, <3>2, VoucherTaken DEF NothingAsked
  <2>3. ASSUME Break("Rejected"), UNCHANGED <<reval, track, saved>>,
               pevents' = pevents \/ SendAll(<<PEv("SaveVoucherFailed", 0)>>)
        PROVE  Joint'
    <3>1. flow' = "closed" /\ NothingAsked BY <1>11, <2>3, BreakAsksNothing DEF Break
    <3>2. pevents' \in {pevents, Append(pevents, PEv("SaveVoucherFailed", 0))}
      BY <1>2, <1>9, <2>3, SentOne
    <3> QED BY <1>1, <1>7, <1>8, <1>9, <2>1, <2>3, <3>1, <3>2, VoucherTaken
  <2>4. CASE /\ reval' = [pc |-> "waiting", op |-> "voucher", n |-> a, snap |-> {}]
             /\ SendAll(<<PEv("SyncReval", 0)>>) /\ Go /\ UNCHANGED <<track, saved>>
    <3>1. flow' = flow /\ NothingAsked BY <2>4 DEF Go, NothingAsked
    <3>2. pevents' \in {pevents, Append(pevents, PEv("SyncReval", 0))}
      BY <1>2, <1>9, <2>4, SentOne
    <3>3. reval'.pc = "waiting" /\ reval'.n = Head(payments) /\ reval'.snap = {}
      BY <2>4 DEF a
    <3> QED BY <1>1, <1>7, <1>8, <1>9, <2>1, <2>4, <3>1, <3>2, <3>3, VoucherTaken
  <2> QED BY <1>4, <1>11, <2>2, <2>3, <2>4 DEF Revalidate, RevalidateFails
<1> QED BY <1>10, <1>11

\* The best voucher is the last
LEMMA BestIsLast ==
    ASSUME ProviderTyped, NEW a \in Nat, a > Best, saved' = saved \cup {a}
    PROVE  Best' = a
<1> DEFINE S == (saved \cup {a}) \cup {0}
<1>1. Best \in Nat /\ \A b \in saved \cup {0} : b <= Best BY BestFacts
<1>2. saved \subseteq Nat BY DEF ProviderTyped
<1>3. a \in S /\ S \subseteq Nat BY <1>2
<1>4. \A b \in S : b <= a BY <1>1, <1>2
<1>5. Best' = CHOOSE x \in S : \A b \in S : b <= x BY DEF Best
<1> HIDE DEF S
<1>6. PICK x : x = CHOOSE y \in S : \A b \in S : b <= y OBVIOUS
<1>7. x \in S /\ \A b \in S : b <= x BY <1>3, <1>4, <1>6
<1>8. x = a BY <1>3, <1>4, <1>7
<1> QED BY <1>5, <1>6, <1>8

\* Revalidate refuses the voucher
LEMMA RefusedTurns ==
    ASSUME Joint, ProviderInv', ClientRests, UNCHANGED <<payments, transit, wire>>,
           reval.pc = "answered", reval' = NoCall, UNCHANGED <<pdeal, pstage, pull>>,
           RevalidateFails
    PROVE  Joint'
<1> DEFINE x == PEv("SaveVoucherFailed", 0)
<1>1. x \in PEvent /\ x.name = "SaveVoucherFailed" BY EventNames DEF PEv, PEvent
<1> HIDE DEF x
<1>2. SendAll(<<x>>) /\ Break("Rejected") /\ track' = track /\ saved' = saved
  BY DEF RevalidateFails, x
<1>3. /\ ProviderSide /\ ClientInv /\ Turns /\ ProviderInv /\ pevents \in Seq(PEvent)
      /\ Ordered(pevents, Early) /\ payments' = payments /\ transit \in Seq(Nat)
      /\ \E f : Leads(f)
  BY Numbers DEF Joint, ProviderSide, PQueueInv, ClientInv, ChannelInv
<1>4. pdeal' = pdeal /\ pstage' = pstage /\ pull' = pull /\ reval'.pc = "idle" /\ reval'.snap = {}
  BY DEF NoCall
<1>5. flow' \in {flow, "closed"} /\ NothingAsked /\ flow' \notin {"running", "paused"}
  <2>1. flow' \in {flow, "closed"} /\ NothingAsked BY <1>2, BreakAsksNothing
  <2>2. flow' \notin {"running", "paused"} BY <1>2 DEF Break, Go, ChannelIsOpen
  <2> QED BY <2>1, <2>2
<1>6. ClientInv' /\ AskedSame
  <2>1. \E f : Leads(f)' BY <1>3, LeadKept DEF ClientRests
  <2>2. transit' \in Seq(Nat) BY <1>3
  <2> QED BY <1>3, <1>5, <2>1, <2>2, NothingAskedSame
<1>7. Best' = Best BY <1>2, BestStays
<1>8. pevents' \in {pevents, Append(pevents, x)} BY <1>1, <1>2, <1>3, SentOne
<1>9. /\ Ordered(pevents', Early)
      /\ \A e \in Queue(pevents') : e \in Queue(pevents) \/ e = x
      /\ \A S : x.name \notin S => (Has(S)' <=> Has(S))
  <2>1. CASE pevents' = pevents BY <1>3, <2>1 DEF Has
  <2>2. CASE pevents' = Append(pevents, x)
    <3>1. \A e \in Queue(pevents) : ~TooEarly(e, x) BY <1>1 DEF TooEarly, Reports, Payments
    <3>2. /\ Ordered(pevents', Early) /\ Queue(pevents') = Queue(pevents) \cup {x}
          /\ \A S : Has(S)' <=> Has(S) \/ x.name \in S
      BY <1>1, <1>3, <2>2, <3>1, PAdded
    <3> QED BY <3>2
  <2> QED BY <1>8, <2>1, <2>2
<1>10. /\ x.name \notin Payments /\ x.name \notin Counts
       /\ x.name \notin {"PaymentRequested", "BlockSent"} /\ x.name \notin Reports
  BY <1>1 DEF Payments, Counts, Reports
<1>11. \A S : S \in {Reports, Payments, Counts, {"BlocksCompleted"}, {"PaymentRequested"}}
                 => (Has(S)' <=> Has(S))
  BY <1>1, <1>9, <1>10
<1>12. /\ pdeal.status # "New" /\ ~EvenTurn /\ ~PaidTurn
       /\ Going => Has({"PaymentRequested"})
       /\ pdeal.status = "FundsNeeded" =>
            ~Has(Payments) /\ AskedTurn(pdeal.totalSent) /\ ~Has(Counts)
       /\ Alive => pull.pc = "idle"
  BY VoucherFindsTurn
<1>13. \A n : Within(n) => Within(n)' BY <1>6 DEF Within, AskedSame
<1>14. \A n : AskedTurn(n) => AskedTurn(n)'
  BY <1>2, <1>4, <1>5, <1>6, <1>7, <1>13 DEF AskedTurn, AskedSame
<1>15. PQueueInv' BY <1>3, <1>4, <1>9, <1>10, <1>11, <1>12 DEF ProviderSide, PQueueInv
<1>16. LiveInv'
  <2>1. Alive' <=> Alive BY <1>4 DEF Alive
  <2>2. Alive => ~Sending' BY <1>4, <1>5, <1>12 DEF Sending
  <2> QED BY <1>3, <1>4, <1>5, <2>1, <2>2 DEF ProviderSide, LiveInv
<1>17. PaidInv' BY <1>2, <1>3, <1>4, <1>9, <1>10 DEF ProviderSide, PaidInv
<1>18. TurnInv'
  BY <1>3, <1>4, <1>9, <1>10, <1>11, <1>12, <1>14 DEF Turns, TurnInv, Going
<1>19. SnapInv' BY <1>4 DEF SnapInv
<1>20. OrderInv' BY <1>3, <1>4, <1>6, <1>7 DEF Turns, OrderInv, AskedSame
<1> QED BY <1>6, <1>15, <1>16, <1>17, <1>18, <1>19, <1>20 DEF Joint, ProviderSide, Turns

\* What Revalidate compares a voucher with
OwedTo(d) == d.totalSent * PricePerByte - d.fundsReceived

\* A voucher that is stored pays for all that was asked for, never for a part
LEMMA VoucherIsEnough ==
    ASSUME Joint, NEW d \in reval.snap, reval.pc = "answered", Acceptable(reval.n, OwedTo(d))
    PROVE  /\ reval.n \in Nat /\ reval.n > Best /\ reval.n \notin saved /\ Best \in Nat
           /\ Added(reval.n) = reval.n - Best /\ Added(reval.n) # 0
           /\ Added(reval.n) >= OwedTo(d)
           /\ Worth(d.totalSent) <= reval.n + d.fundsReceived - Best
           /\ d.fundsReceived = pdeal.fundsReceived /\ d.fundsReceived \in Int
           /\ d.totalSent \in Nat
<1>1. /\ ProviderInv /\ reval.n \in Nat /\ Best \in Nat /\ d.totalSent \in Nat
      /\ d.fundsReceived \in Int
  BY Numbers DEF Joint, ProviderSide
<1>2. reval.n > Best
  <2>1. Best < reval.n BY DEF Joint, Turns, OrderInv
  <2> QED BY <1>1, <2>1
<1>3. reval.n \notin saved
  <2>1. \A b \in saved : b <= Best BY <1>1, BestFacts DEF ProviderInv
  <2> QED BY <1>1, <1>2, <2>1
<1>4. Added(reval.n) = reval.n - Best BY <1>3 DEF Added
<1>5. reval.n - Best >= OwedTo(d) BY <1>3 DEF Acceptable
<1>6. Added(reval.n) # 0 BY <1>1, <1>2, <1>4
<1>7. OwedTo(d) = Worth(d.totalSent) - d.fundsReceived /\ Worth(d.totalSent) \in Nat
  <2>1. PricePerByte \in Nat /\ Worth(d.totalSent) \in Nat BY <1>1, WorthFacts
  <2>2. d.totalSent * PricePerByte = PricePerByte * d.totalSent BY <1>1, <2>1
  <2> QED BY <2>1, <2>2 DEF OwedTo, Worth
<1>8. Worth(d.totalSent) <= reval.n + d.fundsReceived - Best BY <1>1, <1>5, <1>7
<1>9. d.fundsReceived = pdeal.fundsReceived BY <1>1 DEF ProviderInv, CreditInv
<1> QED BY <1>1, <1>2, <1>3, <1>4, <1>5, <1>6, <1>8, <1>9

LEMMA StoredTurns ==
    ASSUME Joint, ProviderInv', ClientRests, UNCHANGED <<payments, transit, wire>>,
           reval.pc = "answered", reval' = NoCall, UNCHANGED <<pdeal, pstage, pull>>,
           NEW d \in reval.snap, Acceptable(reval.n, OwedTo(d)), saved' = saved \cup {reval.n},
           SendAll(<<PEv("PaymentReceived", Added(reval.n))>>),
           track' = {[c EXCEPT !.reload = TRUE] : c \in track}, Resume(<<>>)
    PROVE  Joint'
<1>1. /\ ProviderSide /\ ClientInv /\ Turns /\ ProviderInv /\ pevents \in Seq(PEvent)
      /\ Ordered(pevents, Early) /\ payments' = payments /\ transit \in Seq(Nat)
      /\ (\E f : Leads(f)) /\ answers \in Seq(Answer) /\ payments \in Seq(Nat)
      /\ pdeal.totalSent \in Nat /\ pdeal.fundsReceived \in Int /\ pdeal.currentInterval \in Nat
      /\ vouched \in Nat
  BY Numbers DEF Joint, ProviderSide, PQueueInv, ClientInv, ChannelInv, ClientTyped
<1>2. PICK a, r, b \in Nat :
        /\ a = reval.n /\ b = Best /\ r = Added(reval.n) /\ r = a - b /\ r > 0 /\ a > b
        /\ Worth(d.totalSent) <= a + pdeal.fundsReceived - b
  <2>1. /\ reval.n \in Nat /\ reval.n > Best /\ Best \in Nat
        /\ Added(reval.n) = reval.n - Best
        /\ Worth(d.totalSent) <= reval.n + d.fundsReceived - Best
        /\ d.fundsReceived = pdeal.fundsReceived
    BY VoucherIsEnough
  <2>2. reval.n - Best \in Nat /\ reval.n - Best > 0 BY <2>1
  <2> QED BY <2>1, <2>2
<1>3. Best' = a BY <1>1, <1>2, BestIsLast DEF ProviderInv
<1>4. /\ pdeal' = pdeal /\ pstage' = pstage /\ pull' = pull
      /\ reval'.pc = "idle" /\ reval'.snap = {}
  BY DEF NoCall
<1>5. answers \o <<>> = answers BY <1>1
<1>6. /\ answers' = answers
      /\ \/ flow' = flow /\ flow # "paused"
         \/ flow = "paused" /\ flow' = "running"
         \/ flow = "finalizing" /\ flow' = "completed"
  BY <1>5 DEF Resume, Finish
<1>7. ClientInv' /\ AskedSame
  <2>1. \E f : Leads(f)' BY <1>1, LeadKept DEF ClientRests
  <2>2. transit' \in Seq(Nat) BY <1>1
  <2> QED BY <1>1, <1>6, <2>1, <2>2, NothingAskedSame DEF NothingAsked
<1>8. /\ pdeal.status # "New" /\ ~EvenTurn /\ ~PaidTurn
      /\ Going => Has({"PaymentRequested"})
      /\ pdeal.status = "FundsNeeded" =>
           ~Has(Payments) /\ AskedTurn(pdeal.totalSent) /\ ~Has(Counts)
      /\ Alive => pull.pc = "idle"
  BY VoucherFindsTurn
<1>9. ~Has(Reports) /\ pdeal.status # "Ongoing"
  <2>1. ~Has(Reports) BY <1>1 DEF ProviderSide, PQueueInv
  <2>2. ~Has({"PaymentRequested"}) /\ ~Has({"BlocksCompleted"}) BY <2>1 DEF Has, Reports
  <2> QED BY <1>8, <2>1, <2>2 DEF Going
<1>10. /\ \A c \in track : c \in ChannelData
       /\ \A c \in track' : c.reload /\ c.totalPaidFor <= c.totalSent
  <2>1. \A c \in track : c \in ChannelData /\ c.totalPaidFor <= c.totalSent
    BY <1>1, Numbers DEF ProviderSide, PaidInv
  <2>2. \A c \in ChannelData : /\ [c EXCEPT !.reload = TRUE].reload
                               /\ [c EXCEPT !.reload = TRUE].totalPaidFor = c.totalPaidFor
                               /\ [c EXCEPT !.reload = TRUE].totalSent = c.totalSent
    BY DEF ChannelData
  <2>3. ASSUME NEW y \in track' PROVE y.reload /\ y.totalPaidFor <= y.totalSent
    <3>1. PICK c \in track : y = [c EXCEPT !.reload = TRUE] OBVIOUS
    <3>2. c \in ChannelData /\ c.totalPaidFor <= c.totalSent BY <2>1
    <3>3. y.reload /\ y.totalPaidFor = c.totalPaidFor /\ y.totalSent = c.totalSent
      BY <2>2, <3>1, <3>2
    <3> QED BY <3>2, <3>3
  <2> QED BY <2>1, <2>3
<1>11. PICK x \in PEvent : x.name = "PaymentReceived" /\ x.n = r /\ SendAll(<<x>>)
  <2>1. r \in Int BY <1>2
  <2>2. PEv("PaymentReceived", r) \in PEvent /\ PEv("PaymentReceived", r).name = "PaymentReceived"
        /\ PEv("PaymentReceived", r).n = r
    BY <2>1, EventNames, EventType
  <2> QED BY <1>2, <2>2
<1>12. (Alive => pevents' = Append(pevents, x)) /\ (~Alive => pevents' = pevents)
  BY <1>1, <1>11, SentOne
<1>13. x.name \notin Reports \cup Counts BY <1>11 DEF Reports, Counts
<1>14. /\ Ordered(pevents', Early)
       /\ \A e \in Queue(pevents') : e \in Queue(pevents) \/ (e = x /\ Alive)
       /\ \A S : x.name \notin S => (Has(S)' <=> Has(S))
       /\ Alive => x \in Queue(pevents')
  <2>1. CASE ~Alive BY <1>1, <1>12, <2>1 DEF Has
  <2>2. CASE Alive
    <3>1. \A e \in Queue(pevents) : ~TooEarly(e, x)
      <4>1. \A e \in Queue(pevents) : e.name \notin Reports BY <1>9 DEF Has
      <4>2. \A e \in Queue(pevents) : e.name # "SyncPull"
        BY <1>1, <1>8, <2>2, Numbers, NowFields DEF Fits
      <4> QED BY <1>11, <1>13, <4>1, <4>2 DEF TooEarly
    <3>2. /\ Ordered(pevents', Early) /\ Queue(pevents') = Queue(pevents) \cup {x}
          /\ \A S : Has(S)' <=> Has(S) \/ x.name \in S
      BY <1>1, <1>12, <2>2, <3>1, PAdded
    <3> QED BY <2>2, <3>2
  <2> QED BY <2>1, <2>2
<1>15. PQueueInv'
  <2>1. ~Alive => (Has(Payments)' <=> Has(Payments)) BY <1>12 DEF Has
  <2>2. pull'.pc = "answered" => ~Has(Payments)' BY <1>1, <1>4, <1>8, <2>1 DEF ProviderSide, PQueueInv
  <2>3. \A e \in Queue(pevents') : e.name \in Payments => e.name = "PaymentReceived" /\ e.n > 0
    BY <1>1, <1>2, <1>11, <1>14 DEF ProviderSide, PQueueInv
  <2> QED BY <1>1, <1>4, <1>8, <1>14, <2>2, <2>3 DEF ProviderSide, PQueueInv
<1>16. LiveInv'
  <2>1. Alive' <=> Alive BY <1>4 DEF Alive
  <2>2. Sending' => Sending BY <1>4, <1>6 DEF Sending
  <2>3. Has({"SaveVoucherFailed", "BlocksCompleted"})' <=> Has({"SaveVoucherFailed", "BlocksCompleted"})
    BY <1>11, <1>14
  <2>4. pull.pc # "idle" => flow \in {"running", "closed"} BY <1>1 DEF ProviderSide, LiveInv
  <2> QED BY <1>1, <1>4, <1>6, <2>1, <2>2, <2>3, <2>4 DEF ProviderSide, LiveInv
<1>17. PaidInv' BY <1>1, <1>4, <1>10, <1>13, <1>14 DEF ProviderSide, PaidInv
<1>18. OrderInv'
  <2>1. /\ Ordered(payments, Falling)
        /\ \A c \in Queue(payments) : c <= vouched /\ a < c
        /\ a <= vouched
    BY <1>1, <1>2 DEF Turns, OrderInv
  <2> QED BY <1>3, <1>4, <1>7, <2>1 DEF OrderInv, AskedSame
<1>19. SnapInv' BY <1>4 DEF SnapInv
<1>20. ASSUME pdeal.status = "FundsNeeded" PROVE Has(Payments)' /\ PaidTurn'
  <2>1. Alive
    <3>1. pstage \notin {"terminated", "none"}
      BY <1>1, <1>20 DEF ProviderInv, StageInv, PFinal, ProviderSide, LiveInv
    <3> QED BY <3>1 DEF Alive
  <2>2. AskedTurn(pdeal.totalSent) /\ ~Has(Payments) BY <1>8, <1>20
  <2>3. d.totalSent = pdeal.totalSent BY <1>1, <1>20 DEF Turns, SnapInv
  <2>4. PICK w, k \in Nat : w = Worth(pdeal.totalSent) /\ k = Worth(pdeal.currentInterval)
    BY <1>1, WorthFacts
  <2>5. /\ b = pdeal.fundsReceived /\ vouched <= w /\ b + k <= w /\ w <= a
        /\ a <= vouched
    BY <1>1, <1>2, <2>2, <2>3, <2>4 DEF AskedTurn, Within, Turns, OrderInv
  <2>6. a = vouched /\ a = w /\ vouched > b /\ vouched - b >= k
    BY <1>1, <1>2, <2>4, <2>5
  <2>7. Dues = {} BY <1>2, <2>2, <2>6 DEF AskedTurn
  <2>8. payments = <<>>
    <3>1. ASSUME payments # <<>> PROVE FALSE
      <4>1. Head(payments) \in Queue(payments) /\ Head(payments) \in Nat BY <1>1, <3>1, QueueTaken
      <4>2. Head(payments) <= vouched /\ a < Head(payments)
        BY <1>2, <1>1, <4>1 DEF Turns, OrderInv
      <4> QED BY <1>1, <1>2, <2>6, <4>1, <4>2
    <3> QED BY <3>1
  <2>9. flow' \in {"running", "closed", "completed"} BY <1>6, <2>2 DEF AskedTurn
  <2>10. ClientAt(pdeal.currentInterval + PaymentIntervalIncrease)
    BY <1>2, <2>2, <2>4, <2>6 DEF AskedTurn
  <2>11. \A e \in Queue(pevents') : e.name \in Payments => pdeal.fundsReceived + e.n = a
    <3>1. \A e \in Queue(pevents') : e.name \in Payments => e = x BY <1>14, <2>2 DEF Has
    <3>2. pdeal.fundsReceived + r = a BY <1>2, <2>5
    <3> QED BY <1>11, <3>1, <3>2
  <2>12. Has(Payments)' BY <1>11, <1>14, <2>1 DEF Has, Payments
  <2>13. PaidTurn'
    BY <1>1, <1>3, <1>4, <1>7, <1>10, <2>4, <2>6, <2>7, <2>8, <2>9, <2>10, <2>11
       DEF PaidTurn, AskedSame, Worth
  <2> QED BY <2>12, <2>13
<1>21. TurnInv' BY <1>4, <1>8, <1>9, <1>20 DEF TurnInv, Going
<1> QED BY <1>7, <1>15, <1>16, <1>17, <1>18, <1>19, <1>21 DEF Joint, ProviderSide, Turns

\* What is not refused is stored and paid in full
LEMMA PaymentIsStored ==
    ASSUME Joint, reval.pc = "answered", NEW d \in reval.snap, ProcessPayment(d, reval.n),
           ~RevalidateFails
    PROVE  /\ Acceptable(reval.n, OwedTo(d)) /\ saved' = saved \cup {reval.n}
           /\ SendAll(<<PEv("PaymentReceived", Added(reval.n))>>)
           /\ track' = {[c EXCEPT !.reload = TRUE] : c \in track}
           /\ Resume(<<>>)
<1>1. Acceptable(reval.n, OwedTo(d)) BY DEF ProcessPayment, OwedTo
<1>2. /\ Added(reval.n) # 0 /\ Added(reval.n) >= OwedTo(d) /\ Added(reval.n) \in Int
      /\ OwedTo(d) \in Int
  <2>1. /\ Added(reval.n) # 0 /\ Added(reval.n) >= OwedTo(d) /\ Added(reval.n) = reval.n - Best
        /\ reval.n \in Nat /\ Best \in Nat /\ d.fundsReceived \in Int /\ d.totalSent \in Nat
    BY <1>1, VoucherIsEnough
  <2>2. PricePerByte \in Nat BY WorthFacts
  <2> QED BY <2>1, <2>2 DEF OwedTo
<1>3. d.status # "FundsNeededLastPayment" BY DEF Joint, Turns, SnapInv
<1>4. ~(Added(reval.n) < OwedTo(d)) BY <1>2
<1> QED BY <1>1, <1>2, <1>3, <1>4 DEF ProcessPayment, OwedTo

LEMMA FinishRevalidateTurns ==
    ASSUME Joint, ProviderInv', ClientRests, UNCHANGED <<payments, transit>>, FinishRevalidate
    PROVE  Joint'
<1>1. /\ reval.pc = "answered" /\ reval' = NoCall /\ UNCHANGED <<pdeal, pstage, pull, wire>>
  BY DEF FinishRevalidate
<1>2. PICK d \in reval.snap : ProcessPayment(d, reval.n) BY DEF FinishRevalidate
<1>3. CASE RevalidateFails BY <1>1, <1>3, RefusedTurns
<1>4. CASE ~RevalidateFails
  <2>1. /\ Acceptable(reval.n, OwedTo(d)) /\ saved' = saved \cup {reval.n}
        /\ SendAll(<<PEv("PaymentReceived", Added(reval.n))>>)
        /\ track' = {[c EXCEPT !.reload = TRUE] : c \in track}
        /\ Resume(<<>>)
    BY <1>1, <1>2, <1>4, PaymentIsStored
  <2> QED BY <1>1, <2>1, StoredTurns
<1> QED BY <1>3, <1>4
-----------------------------------------------------------------------------
(* The joint invariant *)

LEMMA JointBegins ==
    ASSUME Init
    PROVE  Joint
<1>1. ProviderInit /\ C!ClientInit /\ transit = <<>> /\ received = 0 /\ finished = FALSE
      /\ payments = <<>>
  BY DEF Init
<1>2. /\ pdeal = [status |-> "New", totalSent |-> 0, fundsReceived |-> 0, currentInterval |-> 0]
      /\ pevents = <<>> /\ pstage = "none" /\ track = {} /\ pull = NoCall /\ reval = NoCall
      /\ saved = {} /\ flow = "none" /\ wire = 0 /\ notices = <<>> /\ answers = <<>>
  BY <1>1 DEF ProviderInit
<1>3. /\ deal.status = "New" /\ deal.totalReceived = 0 /\ deal.bytesPaidFor = 0
      /\ deal.currentInterval = PaymentInterval /\ deal.paymentRequested = 0
      /\ deal.fundsSpent = 0 /\ events = <<C!Ev("Open", 0)>> /\ stage = "idle" /\ vouched = 0
  BY <1>1 DEF C!ClientInit
<1>4. ProviderInv BY <1>1, BeginsRight
<1>5. pull.pc = "idle" /\ pull.snap = {} /\ reval.pc = "idle" /\ reval.snap = {}
  BY <1>2 DEF NoCall
<1>6. \A S : ~Has(S) BY <1>2, NoQueue DEF Has
<1>7. Worth(0) = 0 /\ WholeBytes(0) BY WorthFacts, WholeBytesSum
<1>8. ProviderSide
  <2>1. PQueueInv BY <1>2, <1>5, <1>6, NoQueue DEF PQueueInv
  <2>2. LiveInv BY <1>2, <1>5, <1>6 DEF LiveInv, Alive
  <2>3. PaidInv BY <1>2, <1>5, <1>7, NoQueue DEF PaidInv
  <2> QED BY <1>4, <2>1, <2>2, <2>3 DEF ProviderSide
<1>9. \A e \in Queue(events) : e = C!Ev("Open", 0) BY <1>3 DEF Queue
<1>10. /\ C!Ev("Open", 0).name = "Open" /\ C!Ev("Open", 0).n = 0 BY DEF C!Ev
<1>11. /\ \A e \in Queue(events) : ~Outcome(e) /\ ~Request(e) /\ ~Voucher(e) /\ ~Again(e)
                                   /\ ~Asking(e) /\ e.name # "BlocksReceived"
       /\ ~Pending
  BY <1>3, <1>9, <1>10 DEF Outcome, Request, Voucher, Again, Asking, Pending
<1>12. \A R : Ordered(events, R)
  <2>1. DOMAIN events = {1} BY <1>3
  <2> QED BY <2>1 DEF Ordered
<1>13. ClientTyped BY <1>1, InitType
<1>14. RequestsDue = {} /\ DealDue = 0 BY <1>3, <1>11 DEF RequestsDue, DealDue
<1>15. AnswersDue = {} /\ ClientDues = {} /\ Dues = {}
  BY <1>2, <1>14, NoQueue DEF AnswersDue, ClientDues, Dues
<1>16. PaymentInv
  <2>1. deal.status \notin SendStates /\ deal.status \notin PayStates
    BY <1>3 DEF SendStates, PayStates
  <2> QED BY <1>3, <1>11, <1>12, <2>1 DEF PaymentInv
<1>17. BytesInv BY <1>1, <1>3, <1>7, <1>11 DEF BytesInv
<1>18. ChannelInv
  <2>1. transit \in Seq(Nat) /\ answers \in Seq(Answer) /\ payments \in Seq(Nat) BY <1>1, <1>2
  <2>2. \E f : Leads(f)
    <3> DEFINE f == [i \in 0..0 |-> 0]
    <3>1. Len(transit) = 0 BY <1>1
    <3>2. f \in [0..0 -> 0..0] /\ f[0] = 0 OBVIOUS
    <3>3. 1..0 = {} OBVIOUS
    <3> HIDE DEF f
    <3>4. Leads(f) BY <1>1, <1>2, <3>1, <3>2, <3>3 DEF Leads
    <3> QED BY <3>4
  <2> QED BY <1>1, <1>2, <2>1, <2>2, NoQueue DEF ChannelInv
<1>19. OneInv BY <1>2, <1>12, <1>14, <1>15, NoQueue DEF OneInv, OneRequest
<1>20. Best = 0
  <2>1. Best \in saved \cup {0} BY <1>4, BestFacts DEF ProviderInv
  <2> QED BY <1>2, <2>1
<1>21. OrderInv BY <1>1, <1>3, <1>5, <1>20, NoQueue DEF OrderInv
<1>22. SnapInv BY <1>5 DEF SnapInv
<1>23. TurnInv
  <2>1. ClientAt(PaymentInterval) BY <1>3, <1>11 DEF ClientAt, NextInterval
  <2>2. NewTurn BY <1>1, <1>2, <1>3, <1>15, <1>20, <2>1 DEF NewTurn
  <2>3. pdeal.status = "New" BY <1>2
  <2> QED BY <2>2, <2>3 DEF TurnInv, Going
<1> QED BY <1>8, <1>13, <1>16, <1>17, <1>18, <1>19, <1>21, <1>22, <1>23
    DEF Joint, ClientInv, Turns

LEMMA WireGrows ==
    ASSUME ProviderInv, ProviderNext
    PROVE  wire' = wire \/ wire' > wire
<1>1. wire \in Nat BY Numbers
<1>2. ASSUME NEW op, NEW n \in Nat, Report(op, n) PROVE wire' = wire \/ wire' > wire
  BY <1>1, <1>2 DEF Report
<1>3. CASE ProcessEvent
  BY <1>3 DEF ProcessEvent, Open, DealAccepted, BlockSent, BlocksCompleted, PaymentRequested,
       SaveVoucherFailed, PartialPaymentReceived, PaymentReceived, Complete, CleanupComplete,
       CancelComplete, ErrorDeal, ClientCancelled, AnswerGet, DropEvent, Others
<1>4. CASE RunHandler
  BY <1>4 DEF RunHandler, WaitForLock, TrackTransfer, CancelDeal, CleanupDeal, Others
<1>5. CASE DeliverNotice BY <1>5 DEF DeliverNotice
<1>6. CASE OnPullDataSent
  <2>1. PICK n \in BlockSizes \cap 1..(FileSize - wire) : Report("block", n)
    BY <1>6 DEF OnPullDataSent
  <2>2. n \in Nat BY <2>1, ProviderDealAssumption
  <2> QED BY <1>2, <2>1, <2>2
<1>7. CASE OnComplete BY <1>2, <1>7 DEF OnComplete
<1>8. CASE FinishReport
  <2>1. pull.n \in Nat /\ wire' = wire + pull.n BY <1>8, Numbers DEF FinishReport
  <2> QED BY <1>1, <2>1
<1>9. CASE FinishRevalidate BY <1>9 DEF FinishRevalidate
<1> QED BY <1>3, <1>4, <1>5, <1>6, <1>7, <1>8, <1>9 DEF ProviderNext

\* Of what the provider does only the machine and its handlers are silent to the
\* client, but for the close of the channel
LEMMA MachineAsksNothing ==
    ASSUME ProcessEvent \/ RunHandler \/ DeliverNotice
    PROVE  NothingAsked
<1>1. CASE ProcessEvent
  BY <1>1 DEF ProcessEvent, Open, DealAccepted, BlockSent, BlocksCompleted, PaymentRequested,
       SaveVoucherFailed, PartialPaymentReceived, PaymentReceived, Complete, CleanupComplete,
       CancelComplete, ErrorDeal, ClientCancelled, AnswerGet, DropEvent, Others, NothingAsked
<1>2. CASE RunHandler
  <2>1. Response("Cancel", 0) \in Answer /\ ~Asks(Response("Cancel", 0))
    BY DEF Response, Answer, AnswerNames, Asks
  <2>2. answers' = answers \/ answers' = Append(answers, Response("Cancel", 0))
    BY <1>2 DEF RunHandler, WaitForLock, TrackTransfer, CancelDeal, CleanupDeal, Others
  <2> QED BY <2>1, <2>2 DEF NothingAsked
<1>3. CASE DeliverNotice BY <1>3 DEF DeliverNotice, NothingAsked
<1> QED BY <1>1, <1>2, <1>3

LEMMA ProviderTurns ==
    ASSUME Joint, ProviderStep
    PROVE  Joint'
<1>1. /\ ProviderSide /\ ClientInv /\ Turns /\ ProviderInv /\ wire \in Nat
      /\ transit \in Seq(Nat) /\ \E f : Leads(f)
  BY Numbers DEF Joint, ProviderSide, ClientInv, ChannelInv
<1>2. /\ ProviderNext /\ ClientRests /\ payments' = payments
      /\ transit' = IF wire' > wire THEN Append(transit, wire' - wire) ELSE transit
  BY DEF ProviderStep, clientSide, ClientRests
<1>3. ProviderInv' BY <1>1, <1>2, ProviderStepKeeps
<1>4. wire' \in Nat
  <2>1. wire' \in 0..FileSize BY <1>3 DEF ProviderInv, ProviderTyped
  <2> QED BY <2>1, ProviderDealAssumption
<1>5. received' = received BY <1>2 DEF ClientRests
<1>6. transit' \in Seq(Nat) /\ \E f : Leads(f)'
  <2>1. CASE wire' > wire BY <1>1, <1>2, <1>4, <1>5, <2>1, LeadSent
  <2>2. CASE ~(wire' > wire)
    <3>1. wire' = wire /\ transit' = transit BY <1>1, <1>2, <2>2, WireGrows
    <3> QED BY <1>1, <1>5, <3>1, LeadKept
  <2> QED BY <2>1, <2>2
<1>7. CASE ProcessEvent \/ RunHandler \/ DeliverNotice
  <2>1. NothingAsked BY <1>7, MachineAsksNothing
  <2>2. ClientInv' /\ AskedSame BY <1>1, <1>2, <1>6, <2>1, NothingAskedSame
  <2>3. ProviderSide' /\ Turns'
    BY <1>1, <1>3, <1>7, <2>2, ProcessTurns, HandlerTurns, DeliverTurns
  <2> QED BY <2>2, <2>3 DEF Joint
<1>8. CASE OnPullDataSent \/ OnComplete BY <1>2, <1>3, <1>6, <1>8, TransportTurns
<1>9. CASE FinishReport BY <1>2, <1>3, <1>6, <1>9, FinishReportTurns
<1>10. CASE FinishRevalidate
  <2>1. wire' = wire BY <1>10 DEF FinishRevalidate
  <2>2. transit' = transit BY <1>1, <1>2, <2>1
  <2> QED BY <1>2, <1>3, <1>10, <2>2, FinishRevalidateTurns
<1> QED BY <1>2, <1>7, <1>8, <1>9, <1>10 DEF ProviderNext

\* The channel's begin, and its end by the client
LEMMA ChannelTurns ==
    ASSUME Joint, ReceiveProposal \/ ReceiveCancel
    PROVE  Joint'
<1>1. /\ ProviderSide /\ ClientInv /\ Turns /\ ProviderInv /\ transit \in Seq(Nat)
      /\ \E f : Leads(f)
  BY DEF Joint, ProviderSide, ClientInv, ChannelInv
<1>2. /\ ClientRests /\ UNCHANGED <<transit, payments>>
  BY DEF ReceiveProposal, ReceiveCancel, clientSide, channel, ClientRests
<1>3. wire' = wire BY DEF ReceiveProposal, ReceiveCancel, ValidatePull, ChannelEnds
<1>4. transit' \in Seq(Nat) /\ \E f : Leads(f)' BY <1>1, <1>2, <1>3, LeadKept DEF ClientRests
<1>5. NothingAsked
  <2>1. /\ Response("Accepted", 0) \in Answer /\ ~Asks(Response("Accepted", 0))
        /\ Response("Errored", 0) \in Answer /\ ~Asks(Response("Errored", 0))
    BY DEF Response, Answer, AnswerNames, Asks
  <2>2. CASE ReceiveProposal BY <2>1, <2>2 DEF ReceiveProposal, ValidatePull, NothingAsked
  <2>3. CASE ReceiveCancel BY <2>3 DEF ReceiveCancel, ChannelEnds, NothingAsked
  <2> QED BY <2>2, <2>3
<1>6. ClientInv' /\ AskedSame BY <1>1, <1>2, <1>4, <1>5, NothingAskedSame
<1>7. CASE ReceiveProposal
  <2>1. ValidatePull BY <1>7 DEF ReceiveProposal
  <2>2. ProviderInv' BY <1>1, <2>1, ValidatePullKeeps
  <2> QED BY <1>1, <1>6, <2>1, <2>2, ValidateTurns DEF Joint
<1>8. CASE ReceiveCancel
  <2>1. ChannelEnds("ClientCancelled") BY <1>8 DEF ReceiveCancel
  <2>2. ProviderInv' BY <1>1, <2>1, ChannelEndsKeeps
  <2>3. /\ UNCHANGED <<pdeal, pevents, pstage, track, pull, reval, saved>> /\ flow' = "closed"
    BY <2>1 DEF ChannelEnds
  <2> QED BY <1>1, <1>6, <2>2, <2>3, ChannelEndsTurns DEF Joint
<1> QED BY <1>7, <1>8

\* The client's steps and what reaches it
LEMMA ClientTurns ==
    ASSUME Joint,
           ClientStep \/ ReceiveBlock \/ FinishTransfer \/ ReceiveAnswer \/ CancelDealByUser
    PROVE  Joint'
<1>1. ProviderSide /\ ClientInv /\ Turns /\ wire \in Nat BY Numbers DEF Joint, ProviderSide
<1>2. ClientInv' /\ ProviderRests /\ (Rests \/ Settles)
  BY <1>1, ClientStepKeeps, ReceiveBlockKeeps, FinishTransferKeeps, ReceiveAnswerKeeps, CancelKeeps
<1>3. ProviderSide' BY <1>1, <1>2, ProviderUntouched
<1>4. Turns' BY <1>1, <1>2, RestsKeep, SettlesKeep
<1> QED BY <1>2, <1>3, <1>4 DEF Joint

LEMMA JointStutters ==
    ASSUME Joint, UNCHANGED vars
    PROVE  Joint'
<1>1. ProviderSide /\ ClientInv /\ Turns BY DEF Joint
<1>2. /\ ClientRests /\ ProviderRests /\ payments' = payments /\ transit' = transit
      /\ answers' = answers /\ wire' = wire
  BY DEF vars, providerVars, clientSide, channel, ClientRests, ProviderRests
<1>3. transit \in Seq(Nat) /\ \E f : Leads(f) BY <1>1 DEF ClientInv, ChannelInv
<1>4. transit' \in Seq(Nat) /\ \E f : Leads(f)' BY <1>2, <1>3, LeadKept DEF ClientRests
<1>5. ClientInv' /\ AskedSame BY <1>1, <1>2, <1>4, NothingAskedSame DEF NothingAsked
<1>6. ProviderSide' BY <1>1, <1>2, ProviderUntouched
<1>7. Rests
  <2>1. deal' = deal /\ NextInterval' = NextInterval
    BY <1>2 DEF ClientRests, NextInterval, Pending
  <2> QED BY <1>2, <1>5, <2>1 DEF Rests, AskedSame
<1>8. Turns' BY <1>1, <1>2, <1>7, RestsKeep
<1> QED BY <1>5, <1>6, <1>8 DEF Joint

LEMMA JointKept ==
    ASSUME Joint, [Next]_vars
    PROVE  Joint'
BY JointStutters, ClientTurns, ProviderTurns, ChannelTurns, ReceivePaymentTurns
   DEF Next, Network

\* The joint invariant holds in every state of the two machines, the table of
\* tracked channels and the channel between them.
THEOREM JointAlways == Spec => []Joint
<1>1. Init => Joint BY JointBegins
<1>2. Joint /\ [Next]_vars => Joint' BY JointKept
<1> QED BY <1>1, <1>2, PTL DEF Spec
-----------------------------------------------------------------------------
(* The theorems *)

\* The shape of both deals and of the channel.
LEMMA JointTyped == Joint => TypeOK
<1> SUFFICES ASSUME Joint PROVE TypeOK OBVIOUS
<1>1. /\ ProviderInv /\ ProviderTyped /\ ClientTyped /\ payments \in Seq(Nat) /\ finished \in BOOLEAN
      /\ received \in Nat /\ transit \in Seq(Nat) /\ (\E f : Leads(f)) /\ wire \in Nat
  BY Numbers DEF Joint, ProviderSide, ProviderInv, ClientInv, ChannelInv
<1>2. received \in 0..wire
  <2>1. received <= wire BY <1>1, Received
  <2> QED BY <1>1, <2>1
<1> QED BY <1>1, <1>2 DEF TypeOK, ProviderTyped, ClientTyped

\* Both deals, their queues, the table and the channel have their types.
THEOREM RetrievalTyped == Spec => []TypeOK
BY JointAlways, JointTyped, PTL

\* The table never says that more bytes are paid for than were sent, whatever
\* TrackTransfer writes over it: totalSent - totalPaidFor does not wrap.
THEOREM PaidForSent == Spec => []PaidForWasSent
<1>1. Joint => PaidForWasSent BY DEF Joint, ProviderSide, PaidInv, PaidForWasSent
<1> QED BY <1>1, JointAlways, PTL

\* Between payments the client's currentInterval, raised by PaymentSent, and the
\* provider's, raised by PaymentReceived, are the same.
THEOREM SameIntervals == Spec => []IntervalsAgree
<1>1. Joint => IntervalsAgree
  <2> SUFFICES ASSUME Joint, Quiet, deal.status = "Ongoing", pdeal.status = "Ongoing"
               PROVE  deal.currentInterval = pdeal.currentInterval
    BY DEF IntervalsAgree
  <2>1. events = <<>> /\ pevents = <<>> /\ stage = "idle" BY DEF Quiet
  <2>2. \A S : ~Has(S) BY <2>1, NoQueue DEF Has
  <2>3. Going BY <2>2 DEF Going
  <2>4. EvenTurn BY <2>2, <2>3 DEF Joint, Turns, TurnInv
  <2>5. ~Pending BY <2>1, NoQueue DEF Pending
  <2>6. NextInterval = deal.currentInterval BY <2>5 DEF NextInterval
  <2>7. deal.status \notin Sunk BY DEF Sunk
  <2> QED BY <2>4, <2>6, <2>7 DEF EvenTurn, ClientAt
<1> QED BY <1>1, JointAlways, PTL

\* What the provider asks for, at most
AsksWithin == \E a : answers' = Append(answers, a) /\ a.owed <= PricePerByte * wire' - Best

LEMMA CountedAsks ==
    ASSUME Joint, ProviderInv', NEW c \in ChannelData, NEW op, NEW n \in Nat, Counted(c, op, n),
           wire' \in Nat, Alive => Fresh(c)
    PROVE  NothingAsked \/ AsksWithin
<1>1. PICK x : /\ track' = {x} /\ x \in ChannelData /\ x.totalPaidFor = c.totalPaidFor
               /\ \/ Break("Error")
                  \/ Go
                  \/ Finish(<<Response("Completed", 0)>>)
                  \/ Alive /\ \E to, status : Pause(to, status, Owed(x))
  <2>1. CASE op = "block"
    <3> DEFINE x == [c EXCEPT !.totalSent = @ + n]
    <3>1. x \in ChannelData /\ x.totalPaidFor = c.totalPaidFor BY DEF ChannelData
    <3>2. AccountBlock(x) BY <2>1 DEF Counted
    <3> HIDE DEF x
    <3>3. /\ track' = {x}
          /\ \/ Break("Error")
             \/ Go
             \/ Alive /\ \E to, status : Pause(to, status, Owed(x))
      BY <3>2 DEF AccountBlock
    <3> QED BY <3>1, <3>3
  <2>2. CASE op # "block"
    <3>1. AccountEnd(c) BY <2>2 DEF Counted
    <3>2. /\ track' = {c}
          /\ \/ Break("Error")
             \/ Finish(<<Response("Completed", 0)>>)
             \/ Alive /\ \E to, status : Pause(to, status, Owed(c))
      BY <3>1 DEF AccountEnd
    <3> QED BY <3>2
  <2> QED BY <2>1, <2>2
<1>2. CASE Break("Error") BY <1>2, BreakAsksNothing
<1>3. CASE Go BY <1>3 DEF Go, NothingAsked
<1>4. CASE Finish(<<Response("Completed", 0)>>)
  <2> DEFINE a == Response("Completed", 0)
  <2>1. a \in Answer /\ ~Asks(a) BY DEF Response, Answer, AnswerNames, Asks
  <2>2. answers' = answers \o <<a>> BY <1>4 DEF Finish
  <2> HIDE DEF a
  <2>3. answers \in Seq(Answer) BY DEF Joint, ClientInv, ChannelInv
  <2>4. answers' = Append(answers, a) BY <2>1, <2>2, <2>3, AddedInARow
  <2> QED BY <2>1, <2>4 DEF NothingAsked
<1>5. ASSUME Alive, NEW to, NEW status, Pause(to, status, Owed(x)) PROVE AsksWithin
  <2>1. answers' = Append(answers, Response(status, Owed(x))) BY <1>5 DEF Pause
  <2>2. Response(status, Owed(x)).owed = Owed(x) BY DEF Response
  <2>3. Owed(x) <= PricePerByte * wire' - Best
    <3>1. PICK t, p, w \in Nat : t = x.totalSent /\ p = x.totalPaidFor /\ w = wire'
      BY <1>1 DEF ChannelData
    <3>2. t <= w BY <1>1, <3>1 DEF ProviderInv, SentInv, Tallied
    <3>3. Worth(p) = Best BY <1>1, <1>5, <3>1 DEF Fresh
    <3>4. Owed(x) = PricePerByte * (t - p)
      <4>1. PricePerByte \in Nat /\ t - p \in Int BY WorthFacts
      <4>2. Owed(x) = (t - p) * PricePerByte BY <3>1 DEF Owed
      <4> QED BY <4>1, <4>2
    <3>5. Worth(t - p) = Worth(t) - Worth(p) /\ Worth(t) <= Worth(w)
      <4>1. t \in Int /\ p \in Int /\ w \in Int OBVIOUS
      <4>2. \A i, j \in Int : /\ i <= j => Worth(i) <= Worth(j)
                              /\ Worth(i - j) = Worth(i) - Worth(j)
        BY WorthOrder
      <4> QED BY <3>2, <4>1, <4>2
    <3>6. Worth(t) \in Nat /\ Worth(p) \in Nat /\ Worth(w) \in Nat BY WorthFacts
    <3>7. Worth(t - p) <= Worth(w) - Worth(p) BY <3>5, <3>6
    <3> QED BY <3>1, <3>3, <3>4, <3>7 DEF Worth
  <2> QED BY <2>1, <2>2, <2>3 DEF AsksWithin
<1> QED BY <1>1, <1>2, <1>3, <1>4, <1>5

LEMMA ReportAsks ==
    ASSUME Joint, ProviderInv', wire' \in Nat, NEW op, NEW n \in Nat, Report(op, n)
    PROVE  NothingAsked \/ AsksWithin
<1>1. /\ ProviderSide /\ Turns /\ flow = "running" /\ answers \in Seq(Answer)
      /\ \A c \in track : c \in ChannelData
  BY Numbers DEF Joint, ProviderSide, Report, ClientInv, ChannelInv
<1>2. answers \o <<>> = answers BY <1>1
<1>3. CASE Go BY <1>3 DEF Go, NothingAsked
<1>4. CASE Finish(<<>>) BY <1>2, <1>4 DEF Finish, NothingAsked
<1>5. CASE Break("Error") BY <1>5, BreakAsksNothing
<1>6. ASSUME NEW c \in track, ~c.reload, Counted(c, op, n) PROVE NothingAsked \/ AsksWithin
  <2>1. Alive => Fresh(c) BY <1>1, <1>6, ReportsFindReady
  <2> QED BY <1>1, <1>6, <2>1, CountedAsks
<1> QED BY <1>3, <1>4, <1>5, <1>6 DEF Report

LEMMA ProviderAsks ==
    ASSUME Joint, ProviderInv', ProviderNext
    PROVE  NothingAsked \/ AsksWithin
<1>1. /\ ProviderSide /\ Turns /\ answers \in Seq(Answer) /\ ProviderInv
      /\ \A d \in pull.snap : d \in ProviderDealState
  BY Numbers DEF Joint, ProviderSide, ClientInv, ChannelInv
<1>2. wire' \in Nat
  <2>1. wire' \in 0..FileSize BY DEF ProviderInv, ProviderTyped
  <2> QED BY <2>1, ProviderDealAssumption
<1>3. CASE ProcessEvent \/ RunHandler \/ DeliverNotice BY <1>3, MachineAsksNothing
<1>4. CASE OnPullDataSent
  <2>1. PICK n \in BlockSizes \cap 1..(FileSize - wire) : Report("block", n)
    BY <1>4 DEF OnPullDataSent
  <2>2. n \in Nat BY <2>1, ProviderDealAssumption
  <2> QED BY <1>2, <2>1, <2>2, ReportAsks
<1>5. CASE OnComplete BY <1>2, <1>5, ReportAsks DEF OnComplete
<1>6. CASE FinishReport
  <2>1. pull.pc = "answered" BY <1>6 DEF FinishReport
  <2>2. PICK d \in pull.snap : Counted(FromDeal(d), pull.op, pull.n) BY <1>6 DEF FinishReport
  <2>3. FromDeal(d) \in ChannelData BY <1>1, DealData
  <2>4. pull.n \in Nat BY <1>1, Numbers
  <2>5. Alive => Fresh(FromDeal(d)) BY <1>1, <2>1, ReportsFindReady
  <2> QED BY <1>2, <2>2, <2>3, <2>4, <2>5, CountedAsks
<1>7. CASE FinishRevalidate
  <2>1. PICK d \in reval.snap : reval.pc = "answered" /\ ProcessPayment(d, reval.n)
    BY <1>7 DEF FinishRevalidate
  <2>2. CASE RevalidateFails BY <2>2, BreakAsksNothing DEF RevalidateFails
  <2>3. CASE ~RevalidateFails
    <3>1. Resume(<<>>) BY <2>1, <2>3, PaymentIsStored
    <3>2. answers \o <<>> = answers BY <1>1
    <3> QED BY <3>1, <3>2 DEF Resume, Finish, NothingAsked
  <2> QED BY <2>2, <2>3
<1> QED BY <1>3, <1>4, <1>5, <1>6, <1>7 DEF ProviderNext

LEMMA StepAsks ==
    ASSUME Joint, Next
    PROVE  NothingAsked \/ AsksWithin \/ (answers' = Tail(answers) /\ answers # <<>>)
<1>1. CASE ClientStep \/ ReceiveBlock \/ FinishTransfer \/ CancelDealByUser
  BY <1>1 DEF ClientStep, ReceiveBlock, FinishTransfer, CancelDealByUser, providerVars, NothingAsked
<1>2. CASE ReceiveAnswer BY <1>2 DEF ReceiveAnswer
<1>3. CASE ProviderStep
  <2>1. ProviderNext /\ ProviderInv' BY <1>3, ProviderStepKeeps DEF ProviderStep, Joint, ProviderSide
  <2> QED BY <2>1, ProviderAsks
<1>4. CASE ReceiveProposal \/ ReceiveCancel
  <2>1. /\ Response("Accepted", 0) \in Answer /\ ~Asks(Response("Accepted", 0))
        /\ Response("Errored", 0) \in Answer /\ ~Asks(Response("Errored", 0))
    BY DEF Response, Answer, AnswerNames, Asks
  <2> QED BY <1>4, <2>1 DEF ReceiveProposal, ReceiveCancel, ValidatePull, ChannelEnds, NothingAsked
<1>5. CASE ReceivePayment
  <2>1. CASE ~ChannelIsOpen BY <1>5, <2>1 DEF ReceivePayment, providerVars, NothingAsked
  <2>2. CASE ChannelIsOpen
    <3>1. Revalidate(Head(payments)) BY <1>5, <2>2 DEF ReceivePayment
    <3>2. Resume(<<>>) \/ Break("Rejected") \/ Go BY <3>1 DEF Revalidate, RevalidateFails
    <3>3. answers \in Seq(Answer) BY DEF Joint, ClientInv, ChannelInv
    <3>4. answers \o <<>> = answers BY <3>3
    <3> QED BY <3>2, <3>4, BreakAsksNothing DEF Resume, Finish, Go, NothingAsked
  <2> QED BY <2>1, <2>2
<1> QED BY <1>1, <1>2, <1>3, <1>4, <1>5 DEF Next, Network

\* OnPullDataSent and OnComplete never ask for more than the bytes sent are worth
\* beyond the best voucher stored, also when a GetSync answered them.
THEOREM AsksOnce == Spec => NeverAsksTwice
<1>1. ASSUME Joint, [Next]_vars, Len(answers') > Len(answers), Asks(answers'[Len(answers')])
      PROVE  answers'[Len(answers')].owed <= PricePerByte * wire' - Best
  <2>1. answers \in Seq(Answer) BY <1>1 DEF Joint, ClientInv, ChannelInv
  <2>2. Len(answers) \in Nat BY <2>1
  <2>3. answers' # answers BY <1>1, <2>2
  <2>4. Next BY <1>1, <2>3 DEF vars, providerVars
  <2>5. ~(answers # <<>> /\ answers' = Tail(answers))
    <3>1. ASSUME answers # <<>>, answers' = Tail(answers) PROVE FALSE
      <4>1. Len(Tail(answers)) = Len(answers) - 1 BY <2>1, <3>1
      <4> QED BY <1>1, <2>2, <3>1, <4>1
    <3> QED BY <3>1
  <2>6. \A a : answers' = Append(answers, a) => answers'[Len(answers')] = a
    <3>1. \A a : Len(Append(answers, a)) = Len(answers) + 1
                 /\ Append(answers, a)[Len(answers) + 1] = a
      BY <2>1
    <3> QED BY <3>1
  <2>7. ~NothingAsked BY <1>1, <2>3, <2>6 DEF NothingAsked
  <2> QED BY <1>1, <2>4, <2>5, <2>6, <2>7, StepAsks DEF AsksWithin
<1>2. Joint /\ [Next]_vars =>
        [Len(answers') > Len(answers) /\ Asks(answers'[Len(answers')])
           => answers'[Len(answers')].owed <= PricePerByte * wire' - Best]_vars
  BY <1>1
<1> QED BY <1>2, JointAlways, PTL DEF Spec, NeverAsksTwice
-----------------------------------------------------------------------------
(* A paused channel goes on *)

\* The machine leaves the flow alone, or closes it
LEMMA MachineFlow ==
    ASSUME ProcessEvent \/ RunHandler
    PROVE  flow' = flow \/ flow' = "closed"
<1>1. CASE ProcessEvent
  BY <1>1 DEF ProcessEvent, Open, DealAccepted, BlockSent, BlocksCompleted, PaymentRequested,
       SaveVoucherFailed, PartialPaymentReceived, PaymentReceived, Complete, CleanupComplete,
       CancelComplete, ErrorDeal, ClientCancelled, AnswerGet, DropEvent, Others
<1>2. CASE RunHandler
  BY <1>2 DEF RunHandler, WaitForLock, TrackTransfer, CancelDeal, CleanupDeal, Others
<1> QED BY <1>1, <1>2

\* What is booked is part of the best voucher
LEMMA Booked == ASSUME ProviderInv PROVE pdeal.fundsReceived <= Best
BY DEF ProviderInv, CreditInv, Credited

LEMMA PaidResumes ==
    ASSUME Joint, FinishRevalidate, flow = "paused", flow' = "running", NEW c \in track
    PROVE  Best' >= PricePerByte * c.totalSent
<1>1. PICK d \in reval.snap : reval.pc = "answered" /\ ProcessPayment(d, reval.n)
  BY DEF FinishRevalidate
<1>2. ~RevalidateFails
  <2>1. Break("Rejected") => flow' = "closed" BY DEF Break, ChannelIsOpen
  <2> QED BY <2>1 DEF RevalidateFails
<1>3. Acceptable(reval.n, OwedTo(d)) /\ saved' = saved \cup {reval.n}
  BY <1>1, <1>2, PaymentIsStored
<1>4. /\ reval.n \in Nat /\ reval.n > Best /\ Best \in Nat
      /\ Worth(d.totalSent) <= reval.n + d.fundsReceived - Best
      /\ d.fundsReceived = pdeal.fundsReceived /\ d.fundsReceived \in Int /\ d.totalSent \in Nat
  BY <1>1, <1>3, VoucherIsEnough
<1>5. ProviderInv /\ ProviderTyped BY DEF Joint, ProviderSide, ProviderInv
<1>6. Best' = reval.n BY <1>3, <1>4, <1>5, BestIsLast
<1>7. d.fundsReceived <= Best BY <1>4, <1>5, Booked
<1>8. c.totalSent <= d.totalSent BY <1>1 DEF Joint, Turns, SnapInv
<1>9. c.totalSent \in Nat BY <1>5 DEF ProviderTyped, ChannelData
<1>10. Worth(c.totalSent) <= Worth(d.totalSent) /\ Worth(c.totalSent) \in Nat /\ Worth(d.totalSent) \in Nat
  <2>1. c.totalSent \in Int /\ d.totalSent \in Int BY <1>4, <1>9
  <2>2. \A i, j \in Int : i <= j => Worth(i) <= Worth(j) BY WorthOrder
  <2> QED BY <1>4, <1>8, <1>9, <2>1, <2>2, WorthFacts
<1>11. Worth(c.totalSent) <= reval.n BY <1>4, <1>7, <1>10
<1> QED BY <1>4, <1>6, <1>10, <1>11 DEF Worth

LEMMA OnlyPaymentsResume ==
    ASSUME Joint, Next, flow = "paused", flow' = "running"
    PROVE  track = {} \/ FinishRevalidate
<1>1. /\ pull.pc = "idle"
      /\ \A heard : ~Break(heard)
      /\ ~Go
      /\ \A said : ~Finish(said)
  BY DEF Joint, ProviderSide, LiveInv, Break, ChannelIsOpen, Go, Finish
<1>2. ~ClientStep /\ ~ReceiveBlock /\ ~FinishTransfer /\ ~CancelDealByUser /\ ~ReceiveAnswer
  BY DEF ClientStep, ReceiveBlock, FinishTransfer, CancelDealByUser, ReceiveAnswer, providerVars
<1>3. ~ReceiveProposal /\ ~ReceiveCancel
  BY DEF ReceiveProposal, ReceiveCancel, ValidatePull, ChannelEnds
<1>4. ASSUME ReceivePayment PROVE track = {}
  <2>1. Revalidate(Head(payments)) BY <1>4 DEF ReceivePayment, ChannelIsOpen
  <2> QED BY <1>1, <2>1 DEF Revalidate, RevalidateFails
<1>5. ASSUME ProviderStep PROVE FinishRevalidate
  <2>1. ProviderNext BY <1>5 DEF ProviderStep
  <2>2. ~ProcessEvent /\ ~RunHandler
    BY MachineFlow
  <2>3. ~DeliverNotice BY DEF DeliverNotice
  <2>4. ~OnPullDataSent /\ ~OnComplete
    BY DEF OnPullDataSent, OnComplete, Report
  <2>5. ~FinishReport BY <1>1 DEF FinishReport
  <2> QED BY <2>1, <2>2, <2>3, <2>4, <2>5 DEF ProviderNext
<1> QED BY <1>2, <1>3, <1>4, <1>5 DEF Next, Network

\* Revalidate lets a paused channel go on only when the best voucher stored covers
\* all bytes counted, though it decides with a copy of the deal that GetSync
\* returned before.
THEOREM PaidToResume == Spec => ResumesPaid
<1>1. ASSUME Joint, [Next]_vars, flow = "paused", flow' = "running", NEW c \in track
      PROVE  Best' >= PricePerByte * c.totalSent
  <2>1. Next BY <1>1 DEF vars, providerVars
  <2>2. FinishRevalidate BY <1>1, <2>1, OnlyPaymentsResume
  <2> QED BY <1>1, <2>2, PaidResumes
<1>2. Joint /\ [Next]_vars =>
        [flow = "paused" /\ flow' = "running" =>
           \A c \in track : Best' >= PricePerByte * c.totalSent]_vars
  BY <1>1
<1> QED BY <1>2, JointAlways, PTL DEF Spec, ResumesPaid
-----------------------------------------------------------------------------
(* How the exchange ends.  The provider says at the end of the transfer      *)
(* either that it needs a last payment or that it has completed, never both: *)
(* so Finalizing, which waits for Completed after a last payment, is left    *)
(* only by a failure or a cancel, and Completed comes from CheckComplete.    *)

Said(s) == \E a \in Queue(answers) : a.status = s
Heard(s) == \E e \in Queue(events) : e.name = s
AskedLast == \/ deal.lastPaymentRequested \/ Said("FundsNeededLastPayment")
             \/ Heard("LastPaymentRequested")
SaidDone == Said("Completed") \/ Heard("Complete")

LateStates == {"FundsNeededLastPayment", "SendFundsLastPayment", "Finalizing"}
LateInv == deal.status \in LateStates => deal.lastPaymentRequested
AllHere ==
    /\ Heard("AllBlocksReceived") \/ deal.allBlocksReceived => received = FileSize
    /\ deal.status = "Completed" \/ Heard("CompleteVerified") => deal.allBlocksReceived

\* The transfer has not ended at the provider
OpenFlow == flow \in {"none", "running", "paused"} \/ pull.pc # "idle"
OneEnd == /\ OpenFlow => ~AskedLast /\ ~SaidDone
          /\ ~(AskedLast /\ SaidDone)

EndingInv == LateInv /\ AllHere /\ OneEnd /\ (pdeal.status = "New" => pdeal.fundsReceived = 0)

\* What an event does to the end
EndsWith(h) ==
    /\ deal'.lastPaymentRequested => deal.lastPaymentRequested \/ h.name = "LastPaymentRequested"
    /\ deal'.allBlocksReceived => deal.allBlocksReceived \/ h.name = "AllBlocksReceived"
    /\ deal.allBlocksReceived => deal'.allBlocksReceived
    /\ LateInv'
    /\ deal'.status = "Completed" => \/ h.name = "CompleteVerified"
                                     \/ h.name = "Complete" /\ deal.status = "Finalizing"

LEMMA SourcesAreLive == \A name \in C!EventNames : C!Sources[name] \subseteq C!Live
<1> SUFFICES ASSUME NEW name \in C!EventNames PROVE C!Sources[name] \subseteq C!Live OBVIOUS
<1> QED BY Names DEF C!Sources, C!Live, C!CreationStates

LEMMA EventEnds ==
    ASSUME ClientTyped, LateInv, C!ProcessEvent
    PROVE  deal' = deal \/ (deal.status \in C!Live /\ EndsWith(Head(events)))
<1>t. deal \in C!ClientDealState BY DEF ClientTyped
<1>l. deal.status \in LateStates => deal.lastPaymentRequested BY DEF LateInv
<1>d. ASSUME NEW d \in C!ClientDealState, NEW name, C!Take(name), NEW s, C!Enter(s, d),
             d.lastPaymentRequested => deal.lastPaymentRequested \/ name = "LastPaymentRequested",
             d.allBlocksReceived => deal.allBlocksReceived \/ name = "AllBlocksReceived",
             deal.allBlocksReceived => d.allBlocksReceived,
             s \in LateStates => d.lastPaymentRequested,
             s = "Completed" => \/ name = "CompleteVerified"
                                \/ name = "Complete" /\ deal.status = "Finalizing"
      PROVE  EndsWith(Head(events))
  <2>1. /\ deal'.status = s /\ deal'.lastPaymentRequested = d.lastPaymentRequested
        /\ deal'.allBlocksReceived = d.allBlocksReceived
    BY <1>d DEF C!Enter, C!ClientDealState
  <2>2. Head(events).name = name BY <1>d DEF C!Take
  <2> QED BY <1>d, <2>1, <2>2 DEF EndsWith, LateInv
<1>s. ASSUME NEW name, C!Take(name), NEW s, C!Enter(s, deal),
             s \in LateStates => deal.status \in LateStates,
             s = "Completed" => \/ name = "CompleteVerified"
                                \/ name = "Complete" /\ deal.status = "Finalizing"
      PROVE  EndsWith(Head(events))
  BY <1>s, <1>d, <1>t, <1>l
<1>k. ASSUME NEW name, C!Take(name), NEW s, s \notin LateStates \cup {"Completed"}, C!Enter(s, deal)
      PROVE  EndsWith(Head(events))
  BY <1>k, <1>s
<1>n. ASSUME NEW name, C!Take(name) PROVE deal.status \in C!Live
  <2>1. name \in C!EventNames
    <3>1. Head(events) \in C!Event BY <1>n, EventTaken DEF C!Take
    <3> QED BY <1>n, <3>1 DEF C!Take, C!Event
  <2> QED BY <1>n, <2>1, SourcesAreLive DEF C!Take
<1> USE <1>t, <1>l, <1>n, TakeSources DEF LateStates, C!CreationStates
<1>1. CASE C!Open BY <1>1, <1>k DEF C!Open
<1>2. CASE C!DealProposed BY <1>2, <1>k DEF C!DealProposed
<1>3. CASE C!DealNotFound BY <1>3, <1>k DEF C!DealNotFound
<1>4. CASE C!DealAccepted BY <1>4, <1>k DEF C!DealAccepted
<1>5. CASE C!FailDeal
  <2>1. "Failing" \notin LateStates \cup {"Completed"} OBVIOUS
  <2> QED BY ONLY <1>5, <1>k, <1>n, <2>1 DEF C!FailDeal
<1>6. CASE C!ErrorDeal
  <2>1. "Errored" \notin LateStates \cup {"Completed"} OBVIOUS
  <2> QED BY ONLY <1>6, <1>k, <1>n, <2>1 DEF C!ErrorDeal
<1>7. CASE C!PaymentChannelCreateInitiated
  <2>1. [deal EXCEPT !.waitMsg = TRUE] \in C!ClientDealState BY DEF C!ClientDealState
  <2> QED BY <1>7, <2>1, <1>d DEF C!PaymentChannelCreateInitiated, C!ClientDealState
<1>8. CASE C!PaymentChannelAddingFunds
  <2> DEFINE d == [C!WithChannel(deal) EXCEPT !.waitMsg = TRUE]
  <2>1. /\ d \in C!ClientDealState /\ d.lastPaymentRequested = deal.lastPaymentRequested
        /\ d.allBlocksReceived = deal.allBlocksReceived
    BY DEF C!ClientDealState, C!WithChannel
  <2>2. C!Take("PaymentChannelAddingFunds") /\ \E s : C!Enter(s, d) /\
           s \in {"PaymentChannelAllocatingLane", "PaymentChannelAddingFunds"}
    BY <1>8 DEF C!PaymentChannelAddingFunds
  <2> HIDE DEF d
  <2> QED BY <2>1, <2>2, <1>d
<1>9. CASE C!PaymentChannelReady
  <2> DEFINE d == [C!WithChannel(deal) EXCEPT !.waitMsg = FALSE]
  <2>1. /\ d \in C!ClientDealState /\ d.lastPaymentRequested = deal.lastPaymentRequested
        /\ d.allBlocksReceived = deal.allBlocksReceived
    BY DEF C!ClientDealState, C!WithChannel
  <2>2. C!Take("PaymentChannelReady") /\ \E s : C!Enter(s, d) /\
           s \in {"PaymentChannelAllocatingLane", "Ongoing"}
    BY <1>9 DEF C!PaymentChannelReady
  <2> HIDE DEF d
  <2> QED BY <2>1, <2>2, <1>d
<1>10. CASE C!LaneAllocated
  <2>1. [deal EXCEPT !.payInfo = "lane"] \in C!ClientDealState BY DEF C!ClientDealState
  <2> QED BY <1>10, <2>1, <1>d DEF C!LaneAllocated, C!ClientDealState
<1>11. CASE C!LastPaymentRequested
  BY <1>11 DEF C!LastPaymentRequested, C!Enter, C!Record, C!Take, C!ClientDealState, EndsWith, LateInv
<1>12. CASE C!PaymentRequested
  BY <1>12 DEF C!PaymentRequested, C!Enter, C!Record, C!Take, C!ClientDealState, EndsWith, LateInv
<1>13. CASE C!AllBlocksReceived
  BY <1>13 DEF C!AllBlocksReceived, C!Enter, C!Record, C!Take, C!ClientDealState, EndsWith, LateInv
<1>14. CASE C!BlocksReceived
  BY <1>14 DEF C!BlocksReceived, C!Enter, C!Record, C!Take, C!ClientDealState, EndsWith, LateInv
<1>15. CASE C!SendFundsEvent
  BY <1>15, <1>s DEF C!SendFundsEvent
<1>16. CASE C!FundsExpended BY <1>16, <1>k DEF C!FundsExpended
<1>17. CASE C!VoucherShortfall BY <1>17, <1>k DEF C!VoucherShortfall
<1>18. CASE C!PaymentSent
  BY <1>18 DEF C!PaymentSent, C!Enter, C!Take, C!ClientDealState, EndsWith, LateInv
<1>19. CASE C!Complete BY <1>19, <1>s DEF C!Complete
<1>20. CASE C!CompleteVerified BY <1>20, <1>s DEF C!CompleteVerified
<1>21. CASE C!CancelComplete BY <1>21, <1>k DEF C!CancelComplete
<1>22. CASE C!ProviderCancelled BY <1>22, <1>k DEF C!ProviderCancelled, C!Record
<1>23. CASE C!Cancel BY <1>23, <1>k DEF C!Cancel
<1>24. CASE C!RecheckFunds BY <1>24, <1>k DEF C!RecheckFunds
<1>25. CASE C!DropEvent BY <1>25 DEF C!DropEvent
<1> QED
  BY <1>1, <1>2, <1>3, <1>4, <1>5, <1>6, <1>7, <1>8, <1>9, <1>10, <1>11, <1>12, <1>13, <1>14,
     <1>15, <1>16, <1>17, <1>18, <1>19, <1>20, <1>21, <1>22, <1>23, <1>24, <1>25
     DEF C!ProcessEvent

\* What a handler queues
LEMMA HandlerEnds ==
    ASSUME C!RunHandler
    PROVE  /\ UNCHANGED deal
           /\ \/ events' = events
              \/ \E name \in C!EventNames :
                   /\ events' = Append(events, C!Ev(name, 0))
                   /\ name \notin {"AllBlocksReceived", "Complete"}
                   /\ name = "LastPaymentRequested" => deal.lastPaymentRequested
                   /\ name = "CompleteVerified" => deal.allBlocksReceived
<1> USE Names DEF C!Trigger, C!Fault, C!Return, C!Running
<1>1. CASE C!ProposeDeal BY <1>1 DEF C!ProposeDeal
<1>2. CASE C!ProposeDealDone BY <1>2 DEF C!ProposeDealDone
<1>3. CASE C!SetupPaymentChannelStart BY <1>3 DEF C!SetupPaymentChannelStart
<1>4. CASE C!WaitPaymentChannelReady BY <1>4 DEF C!WaitPaymentChannelReady
<1>5. CASE C!AllocateLane BY <1>5 DEF C!AllocateLane
<1>6. CASE C!Ongoing BY <1>6 DEF C!Ongoing
<1>7. CASE C!ProcessPaymentRequested BY <1>7 DEF C!ProcessPaymentRequested
<1>8. CASE C!SendFunds BY <1>8 DEF C!SendFunds
<1>9. CASE C!SendFundsDone BY <1>9 DEF C!SendFundsDone
<1>10. CASE C!CheckFunds BY <1>10 DEF C!CheckFunds
<1>11. CASE C!ReAddFunds BY <1>11 DEF C!ReAddFunds
<1>12. CASE C!ClientCancelDeal BY <1>12 DEF C!ClientCancelDeal
<1>13. CASE C!CheckComplete BY <1>13 DEF C!CheckComplete
<1> QED
  BY <1>1, <1>2, <1>3, <1>4, <1>5, <1>6, <1>7, <1>8, <1>9, <1>10, <1>11, <1>12, <1>13
     DEF C!RunHandler

LEMMA HeardAdded ==
    ASSUME ClientTyped, NEW e \in C!Event, events' = Append(events, e), NEW s
    PROVE  Heard(s)' <=> Heard(s) \/ e.name = s
<1>1. Queue(events') = Queue(events) \cup {e} BY QueueAdded DEF ClientTyped
<1> QED BY <1>1 DEF Heard

LEMMA HeardLess ==
    ASSUME ClientTyped, TakesEvent
    PROVE  /\ \A s : Heard(s)' => Heard(s)
           /\ Heard(Head(events).name)
<1>1. events \in Seq(C!Event) /\ events # <<>> BY DEF ClientTyped, TakesEvent
<1>2. Queue(events) = {Head(events)} \cup Queue(Tail(events)) BY <1>1, QueueTaken
<1>3. Queue(events') \subseteq Queue(events) BY <1>2, NoQueue DEF TakesEvent
<1> QED BY <1>2, <1>3 DEF Heard

\* Neither is said anew
NotNew == (AskedLast' => AskedLast) /\ (SaidDone' => SaidDone)

LEMMA ClientStepEnds ==
    ASSUME Joint, EndingInv, ClientStep
    PROVE  LateInv' /\ AllHere' /\ NotNew
<1>1. /\ ClientTyped /\ LateInv /\ AllHere /\ ~(AskedLast /\ SaidDone)
      /\ C!ProcessEvent \/ C!RunHandler
      /\ answers' = answers /\ received' = received
  BY DEF Joint, ClientInv, EndingInv, OneEnd, ClientStep, C!ClientNext, providerVars
<1>2. \A s : Said(s)' <=> Said(s) BY <1>1 DEF Said
<1>3. CASE C!ProcessEvent
  <2>1. TakesEvent BY <1>1, <1>3, ProcessShape
  <2>2. /\ \A s : Heard(s)' => Heard(s)
        /\ Heard(Head(events).name)
    BY <1>1, <2>1, HeardLess
  <2>3. CASE deal' = deal BY <1>1, <1>2, <2>2, <2>3 DEF LateInv, AllHere, NotNew, AskedLast, SaidDone
  <2>4. CASE EndsWith(Head(events))
    <3>1. NotNew BY <1>2, <2>2, <2>4 DEF EndsWith, NotNew, AskedLast, SaidDone
    <3>2. deal'.status = "Completed" => Heard("CompleteVerified")
      <4>1. ASSUME Head(events).name = "Complete", deal.status = "Finalizing" PROVE FALSE
        BY <1>1, <2>2, <4>1 DEF LateInv, LateStates, AskedLast, SaidDone
      <4> QED BY <2>2, <2>4, <4>1 DEF EndsWith
    <3>3. Heard("AllBlocksReceived")' \/ deal'.allBlocksReceived => received' = FileSize
      BY <1>1, <2>2, <2>4 DEF EndsWith, AllHere
    <3>4. deal'.status = "Completed" \/ Heard("CompleteVerified")' => deal'.allBlocksReceived
      BY <1>1, <2>2, <2>4, <3>2 DEF EndsWith, AllHere
    <3> QED BY <2>4, <3>1, <3>3, <3>4 DEF EndsWith, AllHere
  <2> QED BY <1>1, <1>3, <2>3, <2>4, EventEnds
<1>4. CASE C!RunHandler
  <2>1. deal' = deal BY <1>4, HandlerEnds
  <2>2. CASE events' = events
    <3>1. \A s : Heard(s)' <=> Heard(s) BY <2>2 DEF Heard
    <3> QED BY <1>1, <1>2, <2>1, <3>1 DEF LateInv, AllHere, NotNew, AskedLast, SaidDone
  <2>3. ASSUME NEW name \in C!EventNames, events' = Append(events, C!Ev(name, 0)),
               name \notin {"AllBlocksReceived", "Complete"},
               name = "LastPaymentRequested" => deal.lastPaymentRequested,
               name = "CompleteVerified" => deal.allBlocksReceived
        PROVE  LateInv' /\ AllHere' /\ NotNew
    <3>1. C!Ev(name, 0) \in C!Event /\ C!Ev(name, 0).name = name BY EvType
    <3>2. \A s : Heard(s)' <=> Heard(s) \/ name = s BY <1>1, <2>3, <3>1, HeardAdded
    <3> QED BY <1>1, <1>2, <2>1, <2>3, <3>2 DEF LateInv, AllHere, NotNew, AskedLast, SaidDone
  <2> QED BY <1>4, <2>2, <2>3, HandlerEnds
<1> QED BY <1>1, <1>3, <1>4

\* What is posted to the client
LEMMA PostEnds ==
    ASSUME ClientTyped, LateInv, AllHere, NEW e, Post(e),
           e.name \in C!EventNames => e \in C!Event, e.name # "CompleteVerified",
           e.name = "AllBlocksReceived" => received = FileSize,
           received = FileSize => received' = FileSize
    PROVE  /\ LateInv' /\ AllHere' /\ UNCHANGED deal
           /\ \A s : Heard(s)' => Heard(s) \/ e.name = s
<1>1. deal' = deal /\ C!Send(e) BY DEF Post
<1>2. \A s : Heard(s)' => Heard(s) \/ e.name = s
  <2>1. CASE events' = events BY <2>1 DEF Heard
  <2>2. CASE e.name \in C!EventNames /\ events' = Append(events, e) BY <2>2, HeardAdded
  <2> QED BY <1>1, <2>1, <2>2 DEF C!Send
<1>3. LateInv' BY <1>1 DEF LateInv
<1>4. AllHere' BY <1>1, <1>2 DEF AllHere
<1> QED BY <1>1, <1>2, <1>3, <1>4

LEMMA BlockArrives ==
    ASSUME Joint, ReceiveBlock
    PROVE  received' \in Nat /\ received <= received' /\ received' <= wire
<1>1. wire \in Nat /\ received \in Nat /\ transit \in Seq(Nat) /\ \E f : Leads(f)
  BY Numbers DEF Joint, ProviderSide, ClientInv, ChannelInv
<1>2. /\ transit # <<>> /\ received' = received + Head(transit) /\ transit' = Tail(transit)
      /\ wire' = wire
  BY DEF ReceiveBlock, providerVars
<1>3. /\ transit' \in Seq(Nat) /\ received' \in Nat /\ received <= received'
      /\ \E f : Leads(f)'
  BY <1>1, <1>2, LeadTaken
<1>4. PICK f : Leads(f)' BY <1>3
<1>5. Len(transit') \in Nat /\ 0 \in 0..Len(transit') BY <1>3
<1>6. f[0] \in 0..wire BY <1>2, <1>4, <1>5 DEF Leads
<1> QED BY <1>1, <1>3, <1>4, <1>6 DEF Leads

LEMMA ArrivalsEnd ==
    ASSUME Joint, EndingInv, ReceiveBlock \/ FinishTransfer \/ ReceiveAnswer \/ CancelDealByUser
    PROVE  LateInv' /\ AllHere' /\ NotNew
<1>1. /\ ClientTyped /\ LateInv /\ AllHere /\ received \in Nat /\ wire \in Nat /\ FileSize \in Nat
      /\ answers \in Seq(Answer) /\ transit \in Seq(Nat) /\ (\E f : Leads(f)) /\ wire <= FileSize
      /\ answers \in Seq(Answer)
  <2>1. wire \in 0..FileSize BY DEF Joint, ProviderSide, ProviderInv, ProviderTyped
  <2> QED BY <2>1, ProviderDealAssumption DEF Joint, ClientInv, ChannelInv, EndingInv
<1>2. \A name, n : C!Ev(name, n).name = name /\ C!Ev(name, n).n = n BY DEF C!Ev
<1>3. answers' = answers => \A s : Said(s)' <=> Said(s) BY DEF Said
<1>4. ASSUME NEW e, Post(e), answers' = answers,
             e.name \in C!EventNames => e \in C!Event, e.name # "CompleteVerified",
             e.name \notin {"LastPaymentRequested", "Complete"},
             e.name = "AllBlocksReceived" => received = FileSize,
             received = FileSize => received' = FileSize
      PROVE  LateInv' /\ AllHere' /\ NotNew
  BY <1>1, <1>3, <1>4, PostEnds DEF NotNew, AskedLast, SaidDone
<1>5. CASE ReceiveBlock
  <2>1. /\ Post(C!Ev("BlocksReceived", received')) /\ answers' = answers /\ transit # <<>>
        /\ received' = received + Head(transit)
    BY <1>5 DEF ReceiveBlock, providerVars
  <2>2. received <= received' /\ received' <= wire BY <1>5, BlockArrives
  <2>3. received' \in Nat BY <1>5, BlockArrives
  <2>4. received = FileSize => received' = FileSize BY <1>1, <2>1, <2>2
  <2>5. C!Ev("BlocksReceived", received') \in C!Event BY <2>3, EvType, Names
  <2> QED BY <1>2, <1>4, <2>1, <2>4, <2>5
<1>6. CASE FinishTransfer
  <2>1. /\ Post(C!Ev("AllBlocksReceived", 0)) /\ answers' = answers /\ received' = received
        /\ received = FileSize
    BY <1>6 DEF FinishTransfer, providerVars
  <2>2. C!Ev("AllBlocksReceived", 0) \in C!Event BY EvType, Names
  <2> QED BY <1>2, <1>4, <2>1, <2>2
<1>7. CASE CancelDealByUser
  <2>1. Post(C!Ev("Cancel", 0)) /\ answers' = answers /\ received' = received
    BY <1>7 DEF CancelDealByUser, providerVars
  <2>2. C!Ev("Cancel", 0) \in C!Event BY EvType, Names
  <2> QED BY <1>2, <1>4, <2>1, <2>2
<1>8. CASE ReceiveAnswer
  <2> DEFINE a == Head(answers)
  <2>1. /\ answers # <<>> /\ Post(EventFor(a)) /\ answers' = Tail(answers) /\ received' = received
    BY <1>8 DEF ReceiveAnswer, channel
  <2>2. a \in Answer /\ Queue(answers) = {a} \cup Queue(answers') BY <1>1, <2>1, QueueTaken
  <2>3. \A s : Said(s) <=> Said(s)' \/ a.status = s BY <2>2 DEF Said
  <2> HIDE DEF a
  <2>4. /\ EventFor(a).name = "LastPaymentRequested" => a.status = "FundsNeededLastPayment"
        /\ EventFor(a).name = "Complete" => a.status = "Completed"
        /\ EventFor(a).name \notin {"CompleteVerified", "AllBlocksReceived"}
        /\ EventFor(a).name \in C!EventNames => EventFor(a) \in C!Event
    <3>1. a.status \in AnswerNames /\ a.owed \in Nat BY <2>2 DEF Answer
    <3>2. \E name, n : EventFor(a) = C!Ev(name, n) /\ n \in Nat /\
            /\ name = "LastPaymentRequested" => a.status = "FundsNeededLastPayment"
            /\ name = "Complete" => a.status = "Completed"
            /\ name \notin {"CompleteVerified", "AllBlocksReceived"}
      BY <3>1 DEF EventFor, C!EventForResponse, AnswerNames
    <3> QED BY <1>2, <3>2, EvType
  <2>5. /\ LateInv' /\ AllHere' /\ UNCHANGED deal
        /\ \A s : Heard(s)' => Heard(s) \/ EventFor(a).name = s
    BY <1>1, <2>1, <2>4, PostEnds
  <2> QED BY <2>3, <2>4, <2>5 DEF NotNew, AskedLast, SaidDone
<1> QED BY <1>5, <1>6, <1>7, <1>8

\* Neither is among the new answers, or one is and the transfer ends
Silent == \/ answers' = answers
          \/ \E a : /\ a.status \notin {"FundsNeededLastPayment", "Completed"}
                    /\ answers' = Append(answers, a)
GoesOn == Silent /\ (OpenFlow' => OpenFlow)
Ends == OpenFlow /\ ~OpenFlow' /\ \E a : answers' = Append(answers, a)

LEMMA NotNewKeeps ==
    ASSUME OneEnd, NotNew, OpenFlow' => OpenFlow
    PROVE  OneEnd'
BY DEF OneEnd, NotNew

LEMMA GoesOnKeeps ==
    ASSUME Joint, OneEnd, UNCHANGED <<deal, events>>, GoesOn \/ Ends
    PROVE  OneEnd'
<1>1. answers \in Seq(Answer) BY DEF Joint, ClientInv, ChannelInv
<1>2. \A s : Heard(s)' <=> Heard(s) BY DEF Heard
<1>3. ASSUME NEW a, answers' = Append(answers, a)
      PROVE  \A s : Said(s)' <=> Said(s) \/ a.status = s
  <2>0. answers \in Seq(Answer \cup {a})
    <3>1. \A i \in 1..Len(answers) : answers[i] \in Answer \cup {a} BY <1>1
    <3>2. Len(answers) \in Nat /\ answers = [i \in 1..Len(answers) |-> answers[i]] BY <1>1
    <3> QED BY <3>1, <3>2
  <2>1. Queue(answers') = Queue(answers) \cup {a} BY <1>3, <2>0, QueueAdded
  <2> QED BY <2>1 DEF Said
<1>4. CASE GoesOn
  <2>1. NotNew
    <3>1. CASE answers' = answers
      <4>1. \A s : Said(s)' <=> Said(s) BY <3>1 DEF Said
      <4> QED BY <1>2, <4>1 DEF NotNew, AskedLast, SaidDone
    <3>2. ASSUME NEW a, answers' = Append(answers, a),
                 a.status \notin {"FundsNeededLastPayment", "Completed"}
          PROVE  NotNew
      BY <1>2, <1>3, <3>2 DEF NotNew, AskedLast, SaidDone
    <3> QED BY <1>4, <3>1, <3>2 DEF GoesOn, Silent
  <2> QED BY <1>4, <2>1, NotNewKeeps DEF GoesOn
<1>5. CASE Ends
  <2>1. PICK a : answers' = Append(answers, a) BY <1>5 DEF Ends
  <2>2. ~AskedLast /\ ~SaidDone /\ ~OpenFlow' BY <1>5 DEF Ends, OneEnd
  <2>3. /\ AskedLast' => a.status = "FundsNeededLastPayment"
        /\ SaidDone' => a.status = "Completed"
    BY <1>2, <1>3, <2>1, <2>2 DEF AskedLast, SaidDone
  <2> QED BY <2>2, <2>3 DEF OneEnd
<1> QED BY <1>4, <1>5

LEMMA BreakSilent ==
    ASSUME NEW heard \in {"Error", "Rejected"}, Break(heard)
    PROVE  Silent /\ flow' \in {flow, "closed"}
<1>1. Response(heard, 0).status \notin {"FundsNeededLastPayment", "Completed"}
  BY DEF Response
<1>2. CASE ChannelIsOpen BY <1>1, <1>2 DEF Break, Silent
<1>3. CASE ~ChannelIsOpen BY <1>3 DEF Break, Go, Silent
<1> QED BY <1>2, <1>3

LEMMA CountedEnds ==
    ASSUME Joint, OpenFlow, pull'.pc = "idle", NEW c, NEW op, NEW n, Counted(c, op, n)
    PROVE  GoesOn \/ Ends
<1>0. answers \in Seq(Answer) BY DEF Joint, ClientInv, ChannelInv
<1>1. CASE op = "block"
  <2> DEFINE x == [c EXCEPT !.totalSent = @ + n]
  <2>2. AccountBlock(x) BY <1>1 DEF Counted
  <2> HIDE DEF x
  <2>3. CASE Break("Error") BY <2>3, BreakSilent DEF GoesOn
  <2>4. CASE Go BY <2>4 DEF Go, GoesOn, Silent
  <2>5. CASE Pause("paused", "FundsNeeded", Owed(x))
    <3>1. Response("FundsNeeded", Owed(x)).status = "FundsNeeded" BY DEF Response
    <3> QED BY <2>5, <3>1 DEF Pause, GoesOn, Silent
  <2> QED BY <2>2, <2>3, <2>4, <2>5 DEF AccountBlock
<1>2. CASE op # "block"
  <2>1. AccountEnd(c) BY <1>2 DEF Counted
  <2>2. CASE Break("Error") BY <2>2, BreakSilent DEF GoesOn
  <2>3. CASE Finish(<<Response("Completed", 0)>>)
    <3> DEFINE a == Response("Completed", 0)
    <3>1. a \in Answer BY DEF Response, Answer, AnswerNames
    <3>2. answers' = answers \o <<a>> /\ flow' = "completed" BY <2>3 DEF Finish
    <3> HIDE DEF a
    <3>3. ~OpenFlow' BY <3>2 DEF OpenFlow
    <3>4. answers' = Append(answers, a) BY <1>0, <3>1, <3>2, AddedInARow
    <3> QED BY <3>3, <3>4 DEF Ends
  <2>4. CASE Pause("finalizing", "FundsNeededLastPayment", Owed(c))
    <3>1. ~OpenFlow' BY <2>4 DEF OpenFlow, Pause
    <3> QED BY <2>4, <3>1 DEF Ends, Pause
  <2> QED BY <2>1, <2>2, <2>3, <2>4 DEF AccountEnd
<1> QED BY <1>1, <1>2

LEMMA ReportEnds ==
    ASSUME Joint, NEW op, NEW n, Report(op, n)
    PROVE  GoesOn \/ Ends
<1>1. flow = "running" /\ pull.pc = "idle" /\ OpenFlow BY DEF Report, OpenFlow
<1>2. answers \o <<>> = answers BY DEF Joint, ClientInv, ChannelInv
<1>3. CASE Go BY <1>1, <1>3 DEF Go, GoesOn, Silent
<1>4. CASE Finish(<<>>) BY <1>1, <1>2, <1>4 DEF Finish, GoesOn, Silent
<1>5. CASE Break("Error") BY <1>1, <1>5, BreakSilent DEF GoesOn
<1>6. ASSUME NEW c \in track, Counted(c, op, n), UNCHANGED pull PROVE GoesOn \/ Ends
  BY <1>1, <1>6, CountedEnds
<1> QED BY <1>3, <1>4, <1>5, <1>6 DEF Report

LEMMA ProviderEnds ==
    ASSUME Joint, ProviderNext
    PROVE  GoesOn \/ Ends
<1>1. /\ answers \o <<>> = answers
      /\ pull \in Call
  BY DEF Joint, ClientInv, ChannelInv, ProviderSide, ProviderInv, ProviderTyped
<1>2. CASE ProcessEvent
  <2>1. UNCHANGED <<flow, answers>>
    BY <1>2 DEF ProcessEvent, Open, DealAccepted, BlockSent, BlocksCompleted, PaymentRequested,
         SaveVoucherFailed, PartialPaymentReceived, PaymentReceived, Complete, CleanupComplete,
         CancelComplete, ErrorDeal, ClientCancelled, AnswerGet, DropEvent, Others
  <2>2. pull.pc = "idle" => pull'.pc = "idle"
    <3>1. CASE AnswerGet
      <4>1. pevents \in Seq(PEvent) /\ pevents # <<>> /\ Head(pevents) = pevents[1]
            /\ 1 \in DOMAIN pevents
        BY <3>1, TailOf DEF AnswerGet, Joint, ProviderSide, ProviderInv, ProviderTyped
      <4>2. Head(pevents).name = "SyncPull" => pull.pc = "waiting"
        BY <4>1 DEF Joint, ProviderSide, ProviderInv, QueueInv, Consistent, Fits, Now
      <4> QED BY <3>1, <4>2 DEF AnswerGet
    <3>2. CASE UNCHANGED pull BY <3>2
    <3> QED BY <1>2, <3>1, <3>2
        DEF ProcessEvent, Open, DealAccepted, BlockSent, BlocksCompleted, PaymentRequested,
            SaveVoucherFailed, PartialPaymentReceived, PaymentReceived, Complete, CleanupComplete,
            CancelComplete, ErrorDeal, ClientCancelled, DropEvent, Others
  <2> QED BY <2>1, <2>2 DEF GoesOn, Silent, OpenFlow
<1>3. CASE RunHandler
  <2>1. Response("Cancel", 0).status = "Cancel" BY DEF Response
  <2>2. /\ pull' = pull /\ flow' \in {flow, "closed"}
        /\ answers' = answers \/ answers' = Append(answers, Response("Cancel", 0))
    BY <1>3 DEF RunHandler, WaitForLock, TrackTransfer, CancelDeal, CleanupDeal, Others
  <2> QED BY <2>1, <2>2 DEF GoesOn, Silent, OpenFlow
<1>4. CASE DeliverNotice BY <1>4 DEF DeliverNotice, GoesOn, Silent, OpenFlow
<1>5. CASE OnPullDataSent BY <1>5, ReportEnds DEF OnPullDataSent
<1>6. CASE OnComplete BY <1>6, ReportEnds DEF OnComplete
<1>7. CASE FinishReport
  <2>1. pull.pc = "answered" /\ pull' = NoCall BY <1>7 DEF FinishReport
  <2>2. PICK d \in pull.snap : Counted(FromDeal(d), pull.op, pull.n) BY <1>7 DEF FinishReport
  <2>3. OpenFlow /\ pull'.pc = "idle" BY <2>1 DEF OpenFlow, NoCall
  <2> QED BY <2>2, <2>3, CountedEnds
<1>8. CASE FinishRevalidate
  <2>1. PICK d \in reval.snap : reval.pc = "answered" /\ ProcessPayment(d, reval.n) /\ pull' = pull
    BY <1>8 DEF FinishRevalidate
  <2>2. CASE RevalidateFails
    <3>1. Break("Rejected") BY <2>2 DEF RevalidateFails
    <3> QED BY <2>1, <3>1, BreakSilent DEF GoesOn, OpenFlow
  <2>3. CASE ~RevalidateFails
    <3>1. Resume(<<>>) BY <2>1, <2>3, PaymentIsStored
    <3> QED BY <1>1, <2>1, <3>1 DEF Resume, Finish, GoesOn, Silent, OpenFlow
  <2> QED BY <2>2, <2>3
<1> QED BY <1>2, <1>3, <1>4, <1>5, <1>6, <1>7, <1>8 DEF ProviderNext

\* A deal that is still New has booked nothing
NothingYet == pdeal.status = "New" => pdeal.fundsReceived = 0

LEMMA MachineBooks ==
    ASSUME Joint, NothingYet, ProcessEvent
    PROVE  NothingYet' /\ pdeal'.fundsReceived >= pdeal.fundsReceived
<1>1. pdeal \in ProviderDealState /\ pdeal.fundsReceived \in Int /\ pevents \in Seq(PEvent)
  BY Numbers DEF Joint, ProviderSide
<1>2. ASSUME NEW s, NEW d \in ProviderDealState, PEnter(s, d), s = "New" => d.fundsReceived = 0,
             d.fundsReceived >= pdeal.fundsReceived
      PROVE  NothingYet' /\ pdeal'.fundsReceived >= pdeal.fundsReceived
  <2>1. pdeal'.status = s /\ pdeal'.fundsReceived = d.fundsReceived
    BY <1>2 DEF PEnter, ProviderDealState
  <2> QED BY <1>2, <2>1 DEF NothingYet
<1>3. ASSUME NEW s, s # "New", PEnter(s, pdeal)
      PROVE  NothingYet' /\ pdeal'.fundsReceived >= pdeal.fundsReceived
  BY <1>1, <1>2, <1>3
<1>4. ASSUME pdeal' = pdeal PROVE NothingYet' /\ pdeal'.fundsReceived >= pdeal.fundsReceived
  BY <1>1, <1>4 DEF NothingYet
<1>5. CASE Open
  <2> DEFINE d == [pdeal EXCEPT !.totalSent = 0, !.fundsReceived = 0,
                                !.currentInterval = PaymentInterval]
  <2>1. PEnter("New", d) /\ pdeal.status = "New" BY <1>5 DEF Open, PTake, PSources
  <2>2. PICK k \in Nat : k = PaymentInterval BY ProviderDealAssumption
  <2>3. d \in ProviderDealState /\ d.fundsReceived = 0
    <3>1. LET x == [pdeal EXCEPT !.totalSent = 0, !.fundsReceived = 0, !.currentInterval = k]
          IN  x \in ProviderDealState /\ x.totalSent = 0 /\ x.fundsReceived = 0
      BY ONLY <1>1, <2>2, DealBegins
    <3> QED BY ONLY <2>2, <3>1
  <2> HIDE DEF d
  <2>4. pdeal.fundsReceived = 0 BY <2>1 DEF NothingYet
  <2> QED BY <1>2, <2>1, <2>3, <2>4
<1>6. ASSUME BlockSent \/ PaymentRequested
      PROVE  NothingYet' /\ pdeal'.fundsReceived >= pdeal.fundsReceived
  <2>1. pevents # <<>> /\ \E s : /\ s # "New"
                                 /\ PEnter(s, [pdeal EXCEPT !.totalSent = Head(pevents).n])
                                 /\ Head(pevents).name \in Counts
    BY <1>6 DEF BlockSent, PaymentRequested, PTake, Counts
  <2>2. PICK n \in Nat : n = Head(pevents).n
    <3>1. Head(pevents) \in PEvent /\ Head(pevents) \in Queue(pevents) BY <1>1, <2>1, InQueue, QueueTaken
    <3>2. Fits(Head(pevents), Now) /\ Head(pevents).n \in Int
      BY <3>1, Numbers DEF Joint, ProviderSide
    <3> QED BY <2>1, <3>2 DEF Fits
  <2> DEFINE d == [pdeal EXCEPT !.totalSent = n]
  <2>3. d \in ProviderDealState /\ d.fundsReceived = pdeal.fundsReceived
    BY <1>1 DEF ProviderDealState
  <2>4. \E s : s # "New" /\ PEnter(s, d) BY <2>1, <2>2
  <2> HIDE DEF d
  <2> QED BY <1>1, <1>2, <2>3, <2>4
<1>7. ASSUME PaymentReceived \/ PartialPaymentReceived
      PROVE  NothingYet' /\ pdeal'.fundsReceived >= pdeal.fundsReceived
  <2>1. pevents # <<>> /\ Head(pevents).name \in Payments
    BY <1>7 DEF PaymentReceived, PartialPaymentReceived, PTake, Payments
  <2>2. Head(pevents) \in PEvent /\ Head(pevents) \in Queue(pevents)
    BY <1>1, <2>1, InQueue, QueueTaken
  <2>3. Head(pevents).name = "PaymentReceived" /\ Head(pevents).n > 0
    BY <2>1, <2>2 DEF Joint, ProviderSide, PQueueInv
  <2>4. PICK n \in Int : n = Head(pevents).n /\ n > 0 BY <2>2, <2>3 DEF PEvent
  <2>5. PICK f \in Int : f = pdeal.fundsReceived BY <1>1
  <2>6. PICK k \in Nat : k = pdeal.currentInterval + PaymentIntervalIncrease
    BY <1>1, ProviderDealAssumption DEF ProviderDealState
  <2>7. f + n \in Int /\ f + n >= f BY <2>4
  <2>8. PICK g \in Int : g = f + n BY <2>7
  <2> DEFINE d == [pdeal EXCEPT !.fundsReceived = g, !.currentInterval = k]
  <2>9. d \in ProviderDealState /\ d.fundsReceived = g BY <1>1 DEF ProviderDealState
  <2>10. \E s : s # "New" /\ PEnter(s, d)
    BY <1>7, <2>3, <2>4, <2>5, <2>6, <2>8 DEF PaymentReceived, PartialPaymentReceived, PTake
  <2> HIDE DEF d
  <2> QED BY <1>2, <2>5, <2>7, <2>8, <2>9, <2>10
<1> QED
  BY <1>3, <1>4, <1>5, <1>6, <1>7
     DEF ProcessEvent, DealAccepted, BlocksCompleted, SaveVoucherFailed, Complete, CleanupComplete,
         CancelComplete, ErrorDeal, ClientCancelled, AnswerGet, DropEvent

\* No other step of the provider changes its deal, and its machine sends no block
\* and stores no voucher
LEMMA ProviderBooks ==
    ASSUME Joint, NothingYet, ProviderNext
    PROVE  /\ NothingYet' /\ pdeal'.fundsReceived >= pdeal.fundsReceived
           /\ pdeal' = pdeal \/ (wire' = wire /\ Best' = Best)
<1>1. pdeal.fundsReceived \in Int BY Numbers DEF Joint, ProviderSide
<1>2. ASSUME pdeal' = pdeal PROVE NothingYet' /\ pdeal'.fundsReceived >= pdeal.fundsReceived
  BY <1>1, <1>2 DEF NothingYet
<1>3. ProcessEvent => wire' = wire /\ saved' = saved
  BY DEF ProcessEvent, Open, DealAccepted, BlockSent, BlocksCompleted, PaymentRequested,
       SaveVoucherFailed, PartialPaymentReceived, PaymentReceived, Complete, CleanupComplete,
       CancelComplete, ErrorDeal, ClientCancelled, AnswerGet, DropEvent, Others
<1>4. RunHandler => pdeal' = pdeal
  BY DEF RunHandler, WaitForLock, TrackTransfer, CancelDeal, CleanupDeal, Others
<1>5. DeliverNotice \/ FinishReport \/ FinishRevalidate => pdeal' = pdeal
  BY DEF DeliverNotice, FinishReport, FinishRevalidate
<1>6. OnPullDataSent \/ OnComplete => pdeal' = pdeal BY DEF OnPullDataSent, OnComplete, Report
<1> QED BY <1>2, <1>3, <1>4, <1>5, <1>6, MachineBooks, BestStays DEF ProviderNext

LEMMA EndingBegins == Init => EndingInv
<1> SUFFICES ASSUME Init PROVE EndingInv OBVIOUS
<1>1. /\ deal.status = "New" /\ ~deal.lastPaymentRequested /\ ~deal.allBlocksReceived
      /\ events = <<C!Ev("Open", 0)>> /\ answers = <<>>
      /\ pdeal.fundsReceived = 0
  BY DEF Init, C!ClientInit, ProviderInit
<1>2. \A s : ~Said(s) BY <1>1, NoQueue DEF Said
<1>3. Queue(events) = {C!Ev("Open", 0)} BY <1>1 DEF Queue
<1>4. \A s : Heard(s) => s = "Open" BY <1>3 DEF Heard, C!Ev
<1> QED BY <1>1, <1>2, <1>4
    DEF EndingInv, LateInv, LateStates, AllHere, OneEnd, AskedLast, SaidDone

LEMMA ClientKeepsEnd ==
    ASSUME Joint, EndingInv,
           ClientStep \/ ReceiveBlock \/ FinishTransfer \/ ReceiveAnswer \/ CancelDealByUser
    PROVE  EndingInv'
<1>1. LateInv' /\ AllHere' /\ NotNew BY ClientStepEnds, ArrivalsEnd
<1>2. UNCHANGED <<flow, pull, pdeal>>
  BY DEF ClientStep, ReceiveBlock, FinishTransfer, ReceiveAnswer, CancelDealByUser, providerVars
<1>3. OneEnd' BY <1>1, <1>2, NotNewKeeps DEF EndingInv, OpenFlow
<1> QED BY <1>1, <1>2, <1>3 DEF EndingInv

\* What the rest of the network does to the provider
LEMMA NetworkEnds ==
    ASSUME Joint, ReceiveProposal \/ ReceivePayment \/ ReceiveCancel
    PROVE  /\ UNCHANGED <<deal, events, vouched, received, pdeal, wire>>
           /\ GoesOn \/ Ends
<1>1. UNCHANGED <<deal, events, vouched, received>>
  BY DEF ReceiveProposal, ReceivePayment, ReceiveCancel, clientSide, channel
<1>2. answers \o <<>> = answers BY DEF Joint, ClientInv, ChannelInv
<1>3. CASE ReceiveProposal
  <2>1. /\ Response("Accepted", 0).status = "Accepted"
        /\ Response("Errored", 0).status = "Errored"
    BY DEF Response
  <2>2. GoesOn BY <1>3, <2>1 DEF ReceiveProposal, ValidatePull, GoesOn, Silent, OpenFlow
  <2> QED BY <1>1, <1>3, <2>2 DEF ReceiveProposal, ValidatePull
<1>4. CASE ReceiveCancel
  BY <1>1, <1>4 DEF ReceiveCancel, ChannelEnds, GoesOn, Silent, OpenFlow
<1>5. CASE ReceivePayment
  <2>1. CASE ~ChannelIsOpen
    BY <1>1, <1>5, <2>1 DEF ReceivePayment, providerVars, GoesOn, Silent, OpenFlow
  <2>2. CASE ChannelIsOpen
    <3>1. Revalidate(Head(payments)) BY <1>5, <2>2 DEF ReceivePayment
    <3>2. UNCHANGED <<pdeal, pull, wire>> BY <3>1 DEF Revalidate
    <3>3. Resume(<<>>) \/ Break("Rejected") \/ Go BY <3>1 DEF Revalidate, RevalidateFails
    <3>4. CASE Resume(<<>>)
      BY <1>1, <1>2, <3>2, <3>4 DEF Resume, Finish, GoesOn, Silent, OpenFlow
    <3>5. CASE Break("Rejected")
      BY <1>1, <3>2, <3>5, BreakSilent DEF GoesOn, OpenFlow
    <3>6. CASE Go BY <1>1, <3>2, <3>6 DEF Go, GoesOn, Silent, OpenFlow
    <3> QED BY <3>3, <3>4, <3>5, <3>6
  <2> QED BY <2>1, <2>2
<1> QED BY <1>3, <1>4, <1>5

LEMMA ProviderKeepsEnd ==
    ASSUME Joint, EndingInv, UNCHANGED <<deal, events, received>>, NothingYet', GoesOn \/ Ends
    PROVE  EndingInv'
<1>1. \A s : Heard(s)' <=> Heard(s) BY DEF Heard
<1>2. LateInv' /\ AllHere' BY <1>1 DEF EndingInv, LateInv, AllHere
<1>3. OneEnd' BY GoesOnKeeps DEF EndingInv
<1> QED BY <1>2, <1>3 DEF EndingInv, NothingYet

LEMMA EndingKept ==
    ASSUME Joint, EndingInv, [Next]_vars
    PROVE  EndingInv'
<1>1. NothingYet BY DEF EndingInv, NothingYet
<1>2. CASE ClientStep \/ ReceiveBlock \/ FinishTransfer \/ ReceiveAnswer \/ CancelDealByUser
  BY <1>2, ClientKeepsEnd
<1>3. CASE ProviderStep
  <2>1. ProviderNext /\ UNCHANGED <<deal, events, received>> BY <1>3 DEF ProviderStep, clientSide
  <2>2. NothingYet' BY <1>1, <2>1, ProviderBooks
  <2> QED BY <2>1, <2>2, ProviderEnds, ProviderKeepsEnd
<1>4. CASE ReceiveProposal \/ ReceivePayment \/ ReceiveCancel
  <2>1. UNCHANGED <<deal, events, received, pdeal>> /\ (GoesOn \/ Ends) BY <1>4, NetworkEnds
  <2>2. NothingYet' BY <1>1, <2>1 DEF NothingYet
  <2> QED BY <2>1, <2>2, ProviderKeepsEnd
<1>5. CASE UNCHANGED vars
  <2>1. /\ UNCHANGED <<deal, events, received, pdeal, answers, flow, pull>>
    BY <1>5 DEF vars, providerVars, clientSide, channel
  <2>2. NothingYet' /\ GoesOn BY <1>1, <2>1 DEF NothingYet, GoesOn, Silent, OpenFlow
  <2> QED BY <2>1, <2>2, ProviderKeepsEnd
<1> QED BY <1>2, <1>3, <1>4, <1>5 DEF Next, Network
-----------------------------------------------------------------------------
(* The fair exchange *)

LEMMA ExchangeBegins == Init => X!Init
<1> SUFFICES ASSUME Init PROVE X!Init OBVIOUS
<1>1. wire = 0 /\ received = 0 /\ vouched = 0 /\ pdeal.fundsReceived = 0 /\ deal.status = "New"
  BY DEF Init, C!ClientInit, ProviderInit
<1>2. Ended = "open" BY <1>1 DEF Ended, C!Final
<1> QED BY <1>1, <1>2 DEF X!Init

\* How the deal ends
LEMMA EndSteps ==
    ASSUME deal' = deal \/ deal.status \in C!Live
    PROVE  \/ Ended' = Ended
           \/ Ended = "open" /\ Ended' = "aborted"
           \/ Ended = "open" /\ Ended' = "completed" /\ deal'.status = "Completed"
<1>1. CASE deal' = deal BY <1>1 DEF Ended
<1>2. CASE deal.status \in C!Live
  <2>1. Ended = "open" BY <1>2, StatusFacts DEF Ended, C!Final
  <2>2. CASE deal'.status = "Completed" BY <2>1, <2>2 DEF Ended
  <2>3. CASE deal'.status \in C!Final \ {"Completed"} BY <2>1, <2>3 DEF Ended
  <2>4. CASE deal'.status \notin C!Final /\ deal'.status # "Completed" BY <2>1, <2>4 DEF Ended
  <2> QED BY <2>2, <2>3, <2>4
<1> QED BY <1>1, <1>2

LEMMA ClientExchanges ==
    ASSUME Joint, EndingInv, ClientStep
    PROVE  X!Next \/ UNCHANGED X!xvars
<1>1. /\ ClientTyped /\ LateInv /\ (C!ProcessEvent \/ C!RunHandler)
      /\ UNCHANGED <<wire, received, pdeal>> /\ vouched \in Nat /\ received \in Nat
      /\ PaymentInv /\ BytesInv /\ OneRequest
  BY DEF Joint, ClientInv, OneInv, ChannelInv, EndingInv, ClientStep, C!ClientNext, providerVars,
         ClientTyped
<1>2. ClientTyped' BY <1>1, ProcessType, HandlerType
<1>3. CASE C!ProcessEvent
  <2>1. vouched' = vouched BY <1>1, <1>3, ProcessShape DEF TakesEvent
  <2>2. deal' = deal \/ deal.status \in C!Live BY <1>1, <1>3, EventEnds
  <2>3. deal'.status = "Completed" => received = FileSize
    <3>1. AllHere' BY ClientStepEnds
    <3> QED BY <1>1, <3>1 DEF AllHere
  <2>4. \/ Ended' = Ended
        \/ Ended = "open" /\ Ended' = "aborted"
        \/ Ended = "open" /\ Ended' = "completed" /\ received = FileSize
    BY <2>2, <2>3, EndSteps
  <2> QED BY <1>1, <2>1, <2>4 DEF X!Next, X!Finish, X!GiveUp, X!xvars
<1>4. CASE C!RunHandler
  <2>1. deal' = deal /\ (Calm \/ Pays) BY <1>1, <1>2, <1>4, HandlerPays
  <2>2. Ended' = Ended BY <2>1 DEF Ended
  <2>3. CASE vouched' = vouched BY <1>1, <2>2, <2>3 DEF X!xvars
  <2>4. CASE vouched' # vouched
    <3>1. deal.status \in SendStates
      BY <1>1, <1>4, <2>4, HandlerShape DEF Says, Vouches, SaysSent
    <3>2. Ended = "open" BY <3>1 DEF Ended, SendStates, C!Final
    <3>3. vouched' = vouched + DealDue /\ DealDue > 0 /\ vouched' <= Worth(received)
      BY <2>1, <2>4 DEF Calm, Pays
    <3>4. DealDue \in Nat BY <1>1 DEF DealDue, ClientTyped, C!ClientDealState
    <3>5. Worth(received) \in Nat BY <1>1, WorthFacts
    <3>6. vouched' \in (vouched + 1)..Worth(received)
      <4>1. vouched' \in Nat /\ vouched + 1 <= vouched' BY <1>1, <3>3, <3>4
      <4> QED BY <1>1, <3>3, <3>5, <4>1
    <3> QED BY <1>1, <2>2, <3>2, <3>6 DEF X!Next, X!Pay, Worth
  <2> QED BY <2>3, <2>4
<1> QED BY <1>1, <1>3, <1>4

LEMMA ProviderExchanges ==
    ASSUME Joint, Joint', EndingInv, ProviderStep
    PROVE  X!Next \/ UNCHANGED X!xvars
<1>1. /\ ProviderNext /\ UNCHANGED <<received, vouched, deal>> /\ ProviderInv /\ NothingYet
  BY DEF ProviderStep, clientSide, Joint, ProviderSide, EndingInv, NothingYet
<1>2. Ended' = Ended BY <1>1 DEF Ended
<1>3. (wire' = wire /\ Best' = Best) \/ ((wire' = wire \/ wire' > wire) /\ pdeal' = pdeal)
  BY <1>1, WireGrows, ProviderBooks
<1>4. pdeal'.fundsReceived >= pdeal.fundsReceived BY <1>1, ProviderBooks
<1>5. /\ wire \in Nat /\ wire' \in Nat /\ wire' <= FileSize /\ FileSize \in Nat
      /\ pdeal.fundsReceived \in Int /\ pdeal'.fundsReceived \in Int
      /\ Best \in Nat /\ pdeal'.fundsReceived <= Best' /\ Best' <= vouched'
      /\ vouched' \in Nat /\ 0 <= pdeal.fundsReceived
  <2>1. wire \in 0..FileSize /\ wire' \in 0..FileSize
    BY DEF Joint, ProviderSide, ProviderInv, ProviderTyped
  <2>2. pdeal \in ProviderDealState /\ pdeal' \in ProviderDealState
    BY DEF Joint, ProviderSide, ProviderInv, ProviderTyped
  <2>3. pdeal.fundsReceived \in Int /\ pdeal'.fundsReceived \in Int BY <2>2 DEF ProviderDealState
  <2>4. Best \in Nat BY <1>1, Numbers
  <2>5. pdeal'.fundsReceived <= Best' /\ Best' <= vouched' /\ 0 <= pdeal.fundsReceived
    BY DEF Joint, ProviderSide, ProviderInv, CreditInv, Credited, Turns, OrderInv, PaidInv
  <2>6. vouched' \in Nat BY DEF Joint, ClientInv, ClientTyped
  <2> QED BY <2>1, <2>3, <2>4, <2>5, <2>6, ProviderDealAssumption
<1>6. CASE wire' # wire
  <2>1. wire' \in (wire + 1)..FileSize BY <1>3, <1>5, <1>6
  <2> QED BY <1>1, <1>2, <1>3, <1>6, <2>1 DEF X!Next, X!Send
<1>7. CASE wire' = wire
  <2>1. CASE pdeal'.fundsReceived = pdeal.fundsReceived
    BY <1>1, <1>2, <1>7, <2>1 DEF X!xvars
  <2>2. CASE pdeal'.fundsReceived # pdeal.fundsReceived
    <3>1. pdeal'.fundsReceived \in (pdeal.fundsReceived + 1)..vouched
      <4>1. PICK f, g \in Int : f = pdeal.fundsReceived /\ g = pdeal'.fundsReceived BY <1>5
      <4>2. g >= f /\ g # f /\ g <= vouched /\ vouched \in Nat BY <1>1, <1>3, <1>4, <1>5, <2>2, <4>1
      <4>3. g \in (f + 1)..vouched BY <4>2
      <4> QED BY <4>1, <4>3
    <3> QED BY <1>1, <1>2, <1>7, <3>1 DEF X!Next, X!Credit
  <2> QED BY <2>1, <2>2
<1> QED BY <1>6, <1>7

LEMMA NetworkExchanges ==
    ASSUME Joint, Network \/ CancelDealByUser \/ UNCHANGED vars
    PROVE  X!Next \/ UNCHANGED X!xvars
<1>1. CASE ReceiveProposal \/ ReceivePayment \/ ReceiveCancel
  BY <1>1, NetworkEnds DEF X!xvars, Ended
<1>2. CASE ReceiveBlock
  <2>1. received' \in Nat /\ received <= received' /\ received' <= wire
    BY <1>2, BlockArrives
  <2>2. received \in Nat /\ wire \in Nat BY Numbers DEF Joint, ProviderSide, ClientInv, ChannelInv
  <2>3. UNCHANGED <<wire, vouched, pdeal, deal>> BY <1>2 DEF ReceiveBlock, Post, providerVars
  <2>4. Ended' = Ended BY <2>3 DEF Ended
  <2>5. received' = received \/ received' \in (received + 1)..wire BY <2>1, <2>2
  <2> QED BY <2>3, <2>4, <2>5 DEF X!Next, X!Arrive, X!xvars
<1>3. CASE FinishTransfer \/ ReceiveAnswer \/ CancelDealByUser \/ UNCHANGED vars
  <2>1. UNCHANGED <<wire, received, vouched, pdeal, deal>>
    BY <1>3 DEF FinishTransfer, ReceiveAnswer, CancelDealByUser, Post, vars, providerVars,
         clientSide, channel
  <2>2. Ended' = Ended BY <2>1 DEF Ended
  <2> QED BY <2>1, <2>2 DEF X!xvars
<1> QED BY <1>1, <1>2, <1>3 DEF Network

\* The retrieval is a fair exchange: the client never vouches for bytes it does
\* not hold, the provider never books more than was vouched, and the client's
\* deal is Completed only with the whole payload.
THEOREM RetrievalIsFair == Spec => FairExchange
<1>1. Init => X!Init BY ExchangeBegins
<1>2. Joint /\ Joint' /\ EndingInv /\ [Next]_vars => [X!Next]_(X!xvars)
  <2> SUFFICES ASSUME Joint, Joint', EndingInv, [Next]_vars
               PROVE  X!Next \/ UNCHANGED X!xvars
    OBVIOUS
  <2> QED BY ClientExchanges, ProviderExchanges, NetworkExchanges DEF Next
<1>3. Joint /\ EndingInv /\ [Next]_vars => EndingInv' BY EndingKept
<1>4. Init => EndingInv BY EndingBegins
<1>5. Spec => []EndingInv BY <1>3, <1>4, JointAlways, PTL DEF Spec
<1> QED BY <1>1, <1>2, <1>5, JointAlways, PTL DEF Spec, FairExchange, X!Spec
=============================================================================
