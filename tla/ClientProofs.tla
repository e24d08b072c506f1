---------------------------- MODULE ClientProofs ----------------------------
(***************************************************************************)
(* The client's safety, for every payload, price, interval and number of   *)
(* responses.  The invariants of ClientEnv are not inductive: a payment is *)
(* right because of what is still in the queue.  The parts below add that, *)
(* one idea each, and are proved in this order.                            *)
(***************************************************************************)
EXTENDS ClientEnv, TLAPS, SequenceTheorems

\* Which statuses a deal can only have with a lane, and with a channel.
LaneStates == {"Ongoing", "FundsNeeded", "FundsNeededLastPayment", "SendFunds",
               "SendFundsLastPayment", "CheckFunds", "InsufficientFunds",
               "PaymentChannelAddingFunds"}
PointerInv ==
    /\ deal.status \in {"PaymentChannelCreating", "PaymentChannelAddingFunds"} => deal.waitMsg
    /\ deal.status = "PaymentChannelAllocatingLane" => deal.payInfo # "nil"
    /\ deal.status \in LaneStates => deal.payInfo = "lane"

\* The queued byte counts: each at least what the deal recorded, at most what
\* the channel received, and in the order they were counted.
IsCount(i) == i \in 1..Len(events) /\ events[i].name = "BlocksReceived"
CountsInv ==
    /\ deal.totalReceived <= received
    /\ \A i \in 1..Len(events) :
            IsCount(i) => deal.totalReceived <= events[i].n /\ events[i].n <= received
    /\ \A i, j \in 1..Len(events) :
            IsCount(i) /\ IsCount(j) /\ i < j => events[i].n <= events[j].n

\* Requests are for whole bytes
WholeBytes(n) == \E k \in Nat : n = k * PricePerByte
Request(e) == e.name \in {"PaymentRequested", "LastPaymentRequested"}
UnitsInv ==
    /\ WholeBytes(deal.paymentRequested)
    /\ \A i \in 1..Len(events) : Request(events[i]) => WholeBytes(events[i].n)
    /\ deal.fundsSpent = PricePerByte * deal.bytesPaidFor

\* What SendFunds ends with, once per run of it
Outcome(e) == e.name \in {"PaymentSent", "WriteDealPaymentErrored", "VoucherShortfall",
                          "BadPaymentRequested", "CreateVoucherFailed"}
SendStates == {"SendFunds", "SendFundsLastPayment"}
NoOutcome == \A i \in 1..Len(events) : ~Outcome(events[i])

PaymentInv ==
    /\ stage = "sent" => deal.status \in SendStates
    /\ deal.status \notin Sunk =>
        /\ deal.status \notin SendStates \/ stage \in {"handler", "sent"} => NoOutcome
        /\ \A i, j \in 1..Len(events) : Outcome(events[i]) /\ Outcome(events[j]) => i = j
        /\ PaymentPending => ~TooMuchRequested

\* The books: together these are inductive
Books == /\ TypeOK /\ CountsInv /\ UnitsInv /\ PaymentInv
         /\ deal.bytesPaidFor <= deal.totalReceived
         /\ VouchersAccountedFor /\ NeverOverpays
-----------------------------------------------------------------------------
(* The queue *)

\* What Append does to a queue of events, position by position.
LEMMA QueueAppend ==
    ASSUME NEW q \in Seq(Event), NEW e \in Event
    PROVE  /\ Append(q, e) \in Seq(Event)
           /\ Len(Append(q, e)) = Len(q) + 1
           /\ \A i \in 1..Len(q) : Append(q, e)[i] = q[i]
           /\ Append(q, e)[Len(q) + 1] = e
  BY AppendProperties

\* What taking the head of a queue of events leaves, position by position.
LEMMA QueueTail ==
    ASSUME NEW q \in Seq(Event), q # <<>>
    PROVE  /\ Head(q) = q[1] /\ Head(q) \in Event
           /\ Tail(q) \in Seq(Event)
           /\ Len(q) \in Nat /\ Len(q) >= 1
           /\ Len(Tail(q)) = Len(q) - 1
           /\ \A i \in 1..(Len(q) - 1) : Tail(q)[i] = q[i + 1]
  BY HeadTailProperties, EmptySeq, LenProperties

\* An event with a declared name is an event, whatever number it carries.
LEMMA EvType == ASSUME NEW name \in EventNames, NEW n \in Nat
                PROVE  Ev(name, n) \in Event /\ Ev(name, n).name = name /\ Ev(name, n).n = n
  BY DEF Ev, Event

\* The statuses with handlers and those of the payment path are live, and the
\* live and final statuses are apart.
LEMMA StatusFacts == /\ CreationStates \subseteq Live
                     /\ Live \cap Final = {}
  BY DEF CreationStates, Live, Final
-----------------------------------------------------------------------------
(* Types *)

\* The names the machine declares, spelt out.
LEMMA Names ==
    EventNames =
      {"Open", "WriteDealProposalErrored", "DealProposed", "DealNotFound", "DealAccepted",
       "PaymentChannelErrored", "PaymentChannelCreateInitiated", "PaymentChannelAddingFunds",
       "PaymentChannelReady", "AllocateLaneErrored", "LaneAllocated", "DataTransferError",
       "LastPaymentRequested", "PaymentRequested", "AllBlocksReceived", "BlocksReceived",
       "SendFunds", "FundsExpended", "BadPaymentRequested", "CreateVoucherFailed",
       "VoucherShortfall", "WriteDealPaymentErrored", "PaymentSent", "Complete",
       "CompleteVerified", "EarlyTermination", "CancelComplete", "ProviderCancelled",
       "Cancel", "RecheckFunds"}
  BY DEF EventNames, Sources

\* A transition to a status leaves a well-typed state.
LEMMA EnterType ==
    ASSUME TypeOK, NEW s \in Live \cup Final, NEW d \in ClientDealState,
           events # <<>>, Enter(s, d), UNCHANGED <<received, finished, posts>>
    PROVE  TypeOK'
  <1>1. [d EXCEPT !.status = s] \in ClientDealState
    BY DEF ClientDealState
  <1>2. Tail(events) \in Seq(Event) /\ <<>> \in Seq(Event)
    BY QueueTail, EmptySeq DEF TypeOK
  <1>3. QED BY <1>1, <1>2 DEF TypeOK, Enter, Stages

\* So does a transition that only records.
LEMMA RecordType ==
    ASSUME TypeOK, NEW d \in ClientDealState, events # <<>>, Record(d),
           UNCHANGED <<received, finished, posts>>
    PROVE  TypeOK'
  BY QueueTail DEF TypeOK, Record

\* So does a handler that ends with a Trigger.
LEMMA TriggerType ==
    ASSUME TypeOK, NEW name \in EventNames, Trigger(name, 0), vouched' \in Nat,
           UNCHANGED <<deal, received, finished, posts>>
    PROVE  TypeOK'
  BY QueueAppend, EvType DEF TypeOK, Trigger, Stages

\* Initially everything has its type.
LEMMA InitType == Init => TypeOK
  <1> SUFFICES ASSUME Init PROVE TypeOK OBVIOUS
  <1>1. deal \in ClientDealState
    BY ClientDealAssumption DEF Init, ClientInit, ClientDealState, Live
  <1>2. Ev("Open", 0) \in Event BY EvType, Names
  <1>3. events \in Seq(Event) BY <1>2 DEF Init, ClientInit
  <1>4. received \in 0..FileSize /\ posts \in 0..MaxPosts /\ vouched \in Nat
    BY ClientEnvAssumption DEF Init, ClientInit
  <1>5. stage \in Stages /\ finished \in BOOLEAN BY DEF Init, ClientInit, Stages
  <1>6. QED BY <1>1, <1>3, <1>4, <1>5 DEF TypeOK

\* Processing an event keeps the types.
LEMMA ProcessType ==
    ASSUME TypeOK, ProcessEvent, UNCHANGED <<received, finished, posts>>
    PROVE  TypeOK'
  <1> USE StatusFacts
  <1>e. ASSUME NEW name, Take(name) PROVE events # <<>> /\ deal.status \in Sources[name]
    BY <1>e DEF Take
  <1>t. deal \in ClientDealState /\ deal.status \in Live \cup Final
    BY DEF TypeOK, ClientDealState
  <1>h. events # <<>> => Head(events).n \in Nat
    BY QueueTail DEF TypeOK, Event
  <1>p. PricePerByte \in Nat /\ PricePerByte > 0 /\ PaymentIntervalIncrease \in Nat
    BY ClientDealAssumption
  <1>1. CASE Open BY <1>1, <1>e, <1>t, EnterType DEF Open, Live
  <1>2. CASE DealProposed BY <1>2, <1>e, <1>t, EnterType DEF DealProposed, Live, CreationStates
  <1>3. CASE DealNotFound BY <1>3, <1>e, <1>t, EnterType DEF DealNotFound, Final
  <1>4. CASE DealAccepted BY <1>4, <1>e, <1>t, EnterType DEF DealAccepted, Live, CreationStates
  <1>5. CASE FailDeal BY <1>5, <1>e, <1>t, EnterType DEF FailDeal, Live
  <1>6. CASE ErrorDeal BY <1>6, <1>e, <1>t, EnterType DEF ErrorDeal, Final
  <1>7. CASE PaymentChannelCreateInitiated
    <2>1. [deal EXCEPT !.waitMsg = TRUE] \in ClientDealState BY <1>t DEF ClientDealState
    <2>2. QED BY <1>7, <2>1, <1>e, EnterType DEF PaymentChannelCreateInitiated, Live, CreationStates
  <1>8. CASE PaymentChannelAddingFunds
    <2>1. [WithChannel(deal) EXCEPT !.waitMsg = TRUE] \in ClientDealState
      BY <1>t DEF ClientDealState, WithChannel
    <2>2. QED BY <1>8, <2>1, <1>e, EnterType DEF PaymentChannelAddingFunds, Live, CreationStates
  <1>9. CASE PaymentChannelReady
    <2>1. [WithChannel(deal) EXCEPT !.waitMsg = FALSE] \in ClientDealState
      BY <1>t DEF ClientDealState, WithChannel
    <2>2. QED BY <1>9, <2>1, <1>e, EnterType DEF PaymentChannelReady, Live, CreationStates
  <1>10. CASE LaneAllocated
    <2>1. [deal EXCEPT !.payInfo = "lane"] \in ClientDealState BY <1>t DEF ClientDealState
    <2>2. QED BY <1>10, <2>1, <1>e, EnterType DEF LaneAllocated, Live
  <1>11. CASE LastPaymentRequested
    <2> DEFINE d == [deal EXCEPT !.paymentRequested = @ + Head(events).n,
                                 !.lastPaymentRequested = TRUE]
    <2>0. Head(events).n \in Nat BY <1>11, <1>e, <1>h DEF LastPaymentRequested
    <2> DEFINE d1 == [deal EXCEPT !.paymentRequested = @ + Head(events).n]
    <2>a. d1 \in ClientDealState BY <2>0, <1>t DEF ClientDealState
    <2>b. d = [d1 EXCEPT !.lastPaymentRequested = TRUE] BY <1>t DEF ClientDealState
    <2> HIDE DEF d1
    <2>1. d \in ClientDealState BY <2>a, <2>b DEF ClientDealState
    <2>2. QED BY <1>11, <2>1, <1>e, EnterType, RecordType DEF LastPaymentRequested, Live
  <1>12. CASE PaymentRequested
    <2> DEFINE d == [deal EXCEPT !.paymentRequested = @ + Head(events).n]
    <2>1. d \in ClientDealState BY <1>12, <1>e, <1>t, <1>h DEF ClientDealState, PaymentRequested
    <2>2. QED BY <1>12, <2>1, <1>e, EnterType, RecordType DEF PaymentRequested, Live
  <1>13. CASE AllBlocksReceived
    <2>1. [deal EXCEPT !.allBlocksReceived = TRUE] \in ClientDealState BY <1>t DEF ClientDealState
    <2>2. QED BY <1>13, <2>1, <1>e, EnterType, RecordType DEF AllBlocksReceived, Live
  <1>14. CASE BlocksReceived
    <2>1. [deal EXCEPT !.totalReceived = Head(events).n] \in ClientDealState
      BY <1>14, <1>e, <1>t, <1>h DEF ClientDealState, BlocksReceived
    <2>2. QED BY <1>14, <2>1, <1>e, <1>t, EnterType, RecordType DEF BlocksReceived
  <1>15. CASE SendFundsEvent BY <1>15, <1>e, <1>t, EnterType DEF SendFundsEvent, Live
  <1>16. CASE FundsExpended BY <1>16, <1>e, <1>t, EnterType DEF FundsExpended, Live
  <1>17. CASE VoucherShortfall BY <1>17, <1>e, <1>t, EnterType DEF VoucherShortfall, Live
  <1>18. CASE PaymentSent
    <2> DEFINE paid == deal.paymentRequested \div PricePerByte
               d == [deal EXCEPT
                      !.fundsSpent = @ + deal.paymentRequested,
                      !.currentInterval = IF paid >= @ THEN @ + PaymentIntervalIncrease ELSE @,
                      !.bytesPaidFor = @ + paid,
                      !.paymentRequested = 0]
    <2>1. paid \in Nat BY <1>t, <1>p DEF ClientDealState
    <2> HIDE DEF paid
    <2> DEFINE d1 == [deal EXCEPT !.fundsSpent = @ + deal.paymentRequested,
                                  !.bytesPaidFor = @ + paid]
               k == IF paid >= deal.currentInterval
                      THEN deal.currentInterval + PaymentIntervalIncrease
                      ELSE deal.currentInterval
    <2>a. k \in Nat BY <2>1, <1>t, <1>p DEF ClientDealState
    <2>c. d = [d1 EXCEPT !.currentInterval = k, !.paymentRequested = 0]
      BY <1>t DEF ClientDealState
    <2> DEFINE d0 == [deal EXCEPT !.fundsSpent = @ + deal.paymentRequested]
    <2>d. d0 \in ClientDealState BY <1>t DEF ClientDealState
    <2>e. d1 = [d0 EXCEPT !.bytesPaidFor = @ + paid] BY <1>t DEF ClientDealState
    <2> HIDE DEF d0, d1
    <2>b. d1 \in ClientDealState BY <2>1, <2>d, <2>e DEF ClientDealState
    <2> HIDE DEF d1, k
    <2>2. d \in ClientDealState BY <2>a, <2>b, <2>c DEF ClientDealState
    <2> HIDE DEF d
    <2>3. Take("PaymentSent") /\ \E s \in Live : Enter(s, d)
      BY <1>18 DEF PaymentSent, Live, d, paid
    <2>4. QED BY <2>2, <2>3, <1>e, EnterType
  <1>19. CASE Complete BY <1>19, <1>e, <1>t, EnterType DEF Complete, Live, Final
  <1>20. CASE CompleteVerified BY <1>20, <1>e, <1>t, EnterType DEF CompleteVerified, Final
  <1>21. CASE CancelComplete BY <1>21, <1>e, <1>t, EnterType DEF CancelComplete, Final
  <1>22. CASE ProviderCancelled
    BY <1>22, <1>e, <1>t, EnterType, RecordType DEF ProviderCancelled, Final
  <1>23. CASE Cancel BY <1>23, <1>e, <1>t, EnterType DEF Cancel, Live
  <1>24. CASE RecheckFunds BY <1>24, <1>e, <1>t, EnterType DEF RecheckFunds, Live
  <1>25. CASE DropEvent BY <1>25, QueueTail DEF DropEvent, TypeOK
  <1>26. QED
    BY <1>1, <1>2, <1>3, <1>4, <1>5, <1>6, <1>7, <1>8, <1>9, <1>10, <1>11, <1>12, <1>13,
       <1>14, <1>15, <1>16, <1>17, <1>18, <1>19, <1>20, <1>21, <1>22, <1>23, <1>24, <1>25
       DEF ProcessEvent

\* Running a handler keeps the types and the deal; at most it queues one event.
LEMMA HandlerType ==
    ASSUME TypeOK, RunHandler, UNCHANGED <<received, finished, posts>>
    PROVE  TypeOK'
  <1> USE Names
  <1>q. ASSUME Return, vouched' \in Nat, UNCHANGED deal PROVE TypeOK'
    BY <1>q DEF Return, TypeOK, Stages
  <1>f. ASSUME NEW f, NEW name \in EventNames, Fault(f, name) PROVE Trigger(name, 0)
    BY <1>f DEF Fault
  <1>v. vouched \in Nat BY DEF TypeOK
  <1>1. CASE ProposeDeal
    BY <1>1, <1>v, <1>f, TriggerType DEF ProposeDeal, TypeOK, Stages
  <1>2. CASE ProposeDealDone BY <1>2, <1>v, TriggerType DEF ProposeDealDone
  <1>3. CASE SetupPaymentChannelStart
    BY <1>3, <1>v, <1>f, TriggerType DEF SetupPaymentChannelStart
  <1>4. CASE WaitPaymentChannelReady
    BY <1>4, <1>v, <1>f, TriggerType DEF WaitPaymentChannelReady
  <1>5. CASE AllocateLane BY <1>5, <1>v, <1>f, TriggerType DEF AllocateLane
  <1>6. CASE Ongoing BY <1>6, <1>v, <1>q, TriggerType DEF Ongoing
  <1>7. CASE ProcessPaymentRequested
    BY <1>7, <1>v, <1>q, TriggerType DEF ProcessPaymentRequested
  <1>8. CASE SendFunds
    <2>1. vouched' \in Nat BY <1>8 DEF SendFunds, TypeOK, ClientDealState
    <2>2. CASE stage' = "sent" /\ UNCHANGED events
      BY <1>8, <2>1, <2>2 DEF SendFunds, TypeOK, Stages
    <2>3. CASE ~(stage' = "sent" /\ UNCHANGED events)
      BY <1>8, <2>1, <2>3, <1>f, TriggerType DEF SendFunds
    <2>4. QED BY <2>2, <2>3
  <1>9. CASE SendFundsDone BY <1>9, <1>v, TriggerType DEF SendFundsDone
  <1>10. CASE CheckFunds BY <1>10, <1>v, <1>f, TriggerType DEF CheckFunds
  <1>11. CASE ReAddFunds BY <1>11, <1>v, <1>f, TriggerType DEF ReAddFunds
  <1>12. CASE ClientCancelDeal BY <1>12, <1>v, <1>f, TriggerType DEF ClientCancelDeal
  <1>13. CASE CheckComplete BY <1>13, <1>v, TriggerType DEF CheckComplete
  <1>14. QED
    BY <1>1, <1>2, <1>3, <1>4, <1>5, <1>6, <1>7, <1>8, <1>9, <1>10, <1>11, <1>12, <1>13
       DEF RunHandler

\* What the environment can post: an event the machine declares, with the
\* channel's byte count, the price of whole bytes, or nothing.
Posted(e) ==
    /\ e \in Event /\ ~Outcome(e)
    /\ e.name = "BlocksReceived" => e.n = received'
    /\ Request(e) => WholeBytes(e.n)

\* The environment leaves the machine alone but for one event it may post.
LEMMA EnvironmentShape ==
    ASSUME TypeOK, Environment
    PROVE  /\ UNCHANGED <<deal, stage, vouched>>
           /\ received' \in received..FileSize
           /\ finished' \in BOOLEAN /\ posts' \in 0..MaxPosts
           /\ \/ UNCHANGED events
              \/ \E e : Posted(e) /\ events' = Append(events, e)
  <1> USE Names DEF TypeOK
  <1>s. ASSUME NEW e, Post(e)
        PROVE  /\ UNCHANGED <<deal, stage, vouched>>
               /\ \/ UNCHANGED events
                  \/ e.name \in EventNames /\ events' = Append(events, e)
    BY <1>s DEF Post, Send
  <1>p. ASSUME NEW name \in EventNames, NEW n \in Nat,
               name \notin {"PaymentSent", "WriteDealPaymentErrored", "VoucherShortfall",
                            "BadPaymentRequested", "CreateVoucherFailed"},
               name = "BlocksReceived" => n = received',
               name \in {"PaymentRequested", "LastPaymentRequested"} => WholeBytes(n)
        PROVE  Posted(Ev(name, n))
    BY <1>p, EvType DEF Posted, Outcome, Request
  <1>0. received \in received..FileSize /\ posts \in 0..MaxPosts
    BY ClientEnvAssumption
  <1>1. CASE Progress
    <2>1. received' \in received..FileSize BY <1>1, ClientEnvAssumption DEF Progress
    <2>2. QED BY <1>1, <2>1, <1>0, <1>s, <1>p DEF Progress
  <1>2. CASE FinishTransfer
    BY <1>2, <1>0, <1>s, <1>p DEF FinishTransfer
  <1>c. ASSUME Count PROVE posts' \in 0..MaxPosts
    BY <1>c, ClientEnvAssumption DEF Count
  <1>3. CASE NewVoucherResult
    <2>1. PICK status \in {"Rejected", "DealNotFound", "Accepted", "Completed",
                           "FundsNeeded", "FundsNeededLastPayment"}, bytes \in 1..FileSize :
             Post(EventForResponse(status, bytes * PricePerByte))
      BY <1>3 DEF NewVoucherResult
    <2>2. bytes * PricePerByte \in Nat /\ WholeBytes(bytes * PricePerByte)
      BY ClientDealAssumption, ClientEnvAssumption DEF WholeBytes
    <2> DEFINE owed == bytes * PricePerByte
               e == EventForResponse(status, owed)
    <2>3. e.name \in EventNames => Posted(e)
      <3> HIDE DEF owed
      <3>1. CASE status = "Rejected"
        <4>1. e.name = "DealRejected" BY <3>1 DEF EventForResponse, Ev
        <4>2. QED BY <4>1
      <3>2. CASE status = "DealNotFound" BY <3>2, <1>p DEF EventForResponse
      <3>3. CASE status = "Accepted" BY <3>3, <1>p DEF EventForResponse
      <3>4. CASE status = "Completed" BY <3>4, <1>p DEF EventForResponse
      <3>5. CASE status = "FundsNeeded" BY <3>5, <2>2, <1>p DEF EventForResponse, owed
      <3>6. CASE status = "FundsNeededLastPayment"
        BY <3>6, <2>2, <1>p DEF EventForResponse, owed
      <3>7. QED BY <3>1, <3>2, <3>3, <3>4, <3>5, <3>6
    <2> HIDE DEF e, owed
    <2>4. Post(e) BY <2>1 DEF e, owed
    <2>5. QED BY <1>3, <2>3, <2>4, <1>0, <1>c, <1>s DEF NewVoucherResult
  <1>4. CASE TransferEnds
    BY <1>4, <1>0, <1>c, <1>s, <1>p DEF TransferEnds
  <1>5. CASE CancelDeal
    BY <1>5, <1>0, <1>c, <1>s, <1>p DEF CancelDeal
  <1>6. CASE TryRestartInsufficientFunds
    BY <1>6, <1>0, <1>c, <1>s, <1>p DEF TryRestartInsufficientFunds
  <1>7. QED BY <1>1, <1>2, <1>3, <1>4, <1>5, <1>6 DEF Environment

\* Every step keeps the types.
LEMMA StepType == TypeOK /\ [Next]_vars => TypeOK'
  <1> SUFFICES ASSUME TypeOK, [Next]_vars PROVE TypeOK' OBVIOUS
  <1>1. CASE Client BY <1>1, ProcessType, HandlerType DEF Client, ClientNext
  <1>2. CASE Environment
    <2>1. events' \in Seq(Event)
      BY <1>2, EnvironmentShape, QueueAppend DEF TypeOK, Posted
    <2>2. received' \in 0..FileSize
      BY <1>2, EnvironmentShape, ClientEnvAssumption DEF TypeOK
    <2>3. QED BY <1>2, <2>1, <2>2, EnvironmentShape DEF TypeOK
  <1>3. CASE UNCHANGED vars BY <1>3 DEF vars, TypeOK
  <1>4. QED BY <1>1, <1>2, <1>3 DEF Next

\* The deal's record, its queue and the counters around it keep their types
\* through every event and handler of statemachine.go.
THEOREM TypeCorrect == Spec => []TypeOK
  BY InitType, StepType, PTL DEF Spec
-----------------------------------------------------------------------------
(* Pointers *)

\* Handlers leave the deal alone.
LEMMA HandlerKeepsDeal == RunHandler => UNCHANGED deal
  BY DEF RunHandler, ProposeDeal, ProposeDealDone, SetupPaymentChannelStart,
         WaitPaymentChannelReady, AllocateLane, Ongoing, ProcessPaymentRequested, SendFunds,
         SendFundsDone, CheckFunds, ReAddFunds, ClientCancelDeal, CheckComplete

\* The two ways an event changes the deal, field by field.
LEMMA EnterDeal ==
    ASSUME NEW s, NEW d \in ClientDealState, Enter(s, d)
    PROVE  /\ deal'.status = s
           /\ deal'.totalReceived = d.totalReceived
           /\ deal'.bytesPaidFor = d.bytesPaidFor
           /\ deal'.paymentRequested = d.paymentRequested
           /\ deal'.fundsSpent = d.fundsSpent
           /\ deal'.waitMsg = d.waitMsg
           /\ deal'.payInfo = d.payInfo
  BY DEF Enter, ClientDealState

\* Each event is taken from one of the statuses FsmClientEvents lists for it.
LEMMA TakeSources ==
    /\ Take("PaymentChannelAddingFunds") =>
            deal.status \in {"Accepted", "CheckFunds", "InsufficientFunds"}
    /\ Take("PaymentChannelReady") =>
            deal.status \in {"PaymentChannelCreating", "PaymentChannelAddingFunds", "CheckFunds"}
    /\ Take("LaneAllocated") => deal.status = "PaymentChannelAllocatingLane"
    /\ Take("LastPaymentRequested") =>
            deal.status \in {"Ongoing", "FundsNeededLastPayment", "FundsNeeded"} \cup CreationStates
    /\ Take("PaymentRequested") =>
            deal.status \in {"Ongoing", "FundsNeeded"} \cup CreationStates
    /\ Take("AllBlocksReceived") =>
            deal.status \in {"Ongoing", "BlocksComplete", "SendFunds", "FundsNeeded",
                             "FundsNeededLastPayment"} \cup CreationStates
    /\ Take("BlocksReceived") =>
            deal.status \in {"Ongoing", "FundsNeeded", "FundsNeededLastPayment"} \cup CreationStates
    /\ Take("SendFunds") => deal.status \in {"FundsNeeded", "FundsNeededLastPayment"}
    /\ Take("FundsExpended") => deal.status = "CheckFunds"
    /\ Take("VoucherShortfall") => deal.status \in {"SendFunds", "SendFundsLastPayment"}
    /\ Take("PaymentSent") => deal.status \in {"SendFunds", "SendFundsLastPayment"}
    /\ Take("RecheckFunds") => deal.status = "InsufficientFunds"
    /\ Take("Open") => deal.status = "New"
    /\ Take("DealProposed") => deal.status = "New"
    /\ Take("DealNotFound") => deal.status = "WaitForAcceptance"
    /\ Take("DealAccepted") => deal.status = "WaitForAcceptance"
    /\ Take("PaymentChannelCreateInitiated") => deal.status = "Accepted"
    /\ Take("Complete") => deal.status \in {"Ongoing", "Finalizing"}
    /\ Take("CompleteVerified") => deal.status = "CheckComplete"
    /\ Take("ProviderCancelled") => deal.status \in Live
    /\ Take("Cancel") => deal.status \in Live
    /\ Take("CancelComplete") => deal.status \in {"Failing", "Cancelling"}
  BY DEF Take, Sources

\* Every event keeps the pointers the next handler dereferences.
LEMMA ProcessPointers ==
    ASSUME TypeOK, PointerInv, ProcessEvent
    PROVE  PointerInv'
  <1> USE TakeSources DEF PointerInv, LaneStates
  <1>t. deal \in ClientDealState BY DEF TypeOK
  <1>e. ASSUME NEW s, Enter(s, deal)
        PROVE  deal'.status = s /\ deal'.waitMsg = deal.waitMsg /\ deal'.payInfo = deal.payInfo
    BY <1>e, <1>t, EnterDeal
  <1>1. CASE Open BY <1>1, <1>e DEF Open
  <1>2. CASE DealProposed BY <1>2, <1>e DEF DealProposed
  <1>3. CASE DealNotFound BY <1>3, <1>e DEF DealNotFound
  <1>4. CASE DealAccepted BY <1>4, <1>e DEF DealAccepted
  <1>5. CASE FailDeal BY <1>5, <1>e DEF FailDeal
  <1>6. CASE ErrorDeal BY <1>6, <1>e DEF ErrorDeal
  <1>7. CASE PaymentChannelCreateInitiated
    BY <1>7, <1>t DEF PaymentChannelCreateInitiated, Enter, ClientDealState
  <1>8. CASE PaymentChannelAddingFunds
    BY <1>8, <1>t DEF PaymentChannelAddingFunds, Enter, ClientDealState, WithChannel
  <1>9. CASE PaymentChannelReady
    BY <1>9, <1>t DEF PaymentChannelReady, Enter, ClientDealState, WithChannel
  <1>10. CASE LaneAllocated
    BY <1>10, <1>t DEF LaneAllocated, Enter, ClientDealState
  <1>11. CASE LastPaymentRequested
    BY <1>11, <1>t DEF LastPaymentRequested, Enter, Record, ClientDealState, CreationStates
  <1>12. CASE PaymentRequested
    BY <1>12, <1>t DEF PaymentRequested, Enter, Record, ClientDealState, CreationStates
  <1>13. CASE AllBlocksReceived
    BY <1>13, <1>t DEF AllBlocksReceived, Enter, Record, ClientDealState, CreationStates
  <1>14. CASE BlocksReceived
    BY <1>14, <1>t DEF BlocksReceived, Enter, Record, ClientDealState, CreationStates
  <1>15. CASE SendFundsEvent BY <1>15, <1>e DEF SendFundsEvent
  <1>16. CASE FundsExpended BY <1>16, <1>e DEF FundsExpended
  <1>17. CASE VoucherShortfall BY <1>17, <1>e DEF VoucherShortfall
  <1>18. CASE PaymentSent BY <1>18, <1>t DEF PaymentSent, Enter, ClientDealState
  <1>19. CASE Complete BY <1>19, <1>e DEF Complete
  <1>20. CASE CompleteVerified BY <1>20, <1>e DEF CompleteVerified
  <1>21. CASE CancelComplete BY <1>21, <1>e DEF CancelComplete
  <1>22. CASE ProviderCancelled BY <1>22, <1>e DEF ProviderCancelled, Record
  <1>23. CASE Cancel BY <1>23, <1>e DEF Cancel
  <1>24. CASE RecheckFunds BY <1>24, <1>e DEF RecheckFunds
  <1>25. CASE DropEvent BY <1>25 DEF DropEvent
  <1>26. QED
    BY <1>1, <1>2, <1>3, <1>4, <1>5, <1>6, <1>7, <1>8, <1>9, <1>10, <1>11, <1>12, <1>13,
       <1>14, <1>15, <1>16, <1>17, <1>18, <1>19, <1>20, <1>21, <1>22, <1>23, <1>24, <1>25
       DEF ProcessEvent

\* No handler of the client ever dereferences a nil WaitMsgCID or PaymentInfo,
\* whatever the provider, the node and the user do.
THEOREM PointersSafe == Spec => []NoNilDereference
  <1>1. Init => PointerInv
    BY DEF Init, ClientInit, PointerInv, LaneStates
  <1>2. TypeOK /\ PointerInv /\ [Next]_vars => PointerInv'
    <2> SUFFICES ASSUME TypeOK, PointerInv, [Next]_vars PROVE PointerInv' OBVIOUS
    <2>1. CASE Client BY <2>1, ProcessPointers, HandlerKeepsDeal DEF Client, ClientNext, PointerInv
    <2>2. CASE Environment BY <2>2, EnvironmentShape DEF PointerInv
    <2>3. CASE UNCHANGED vars BY <2>3 DEF vars, PointerInv
    <2>4. QED BY <2>1, <2>2, <2>3 DEF Next
  <1>3. TypeOK /\ PointerInv => NoNilDereference
    BY DEF TypeOK, ClientDealState, PointerInv, LaneStates, NoNilDereference
  <1>4. QED BY <1>1, <1>2, <1>3, TypeCorrect, PTL DEF Spec
-----------------------------------------------------------------------------
(* What one event does, as far as bytes and money go *)

\* The numbers of the deal stay as they are
SameMoney == /\ deal'.paymentRequested = deal.paymentRequested
             /\ deal'.fundsSpent = deal.fundsSpent
             /\ deal'.bytesPaidFor = deal.bytesPaidFor

\* The head event is taken and its numbers are applied: a byte count replaces
\* the total, a request adds to what is requested, PaymentSent books the payment.
EventEffect ==
    LET h == Head(events)
    IN  /\ \/ deal'.totalReceived = deal.totalReceived
           \/ h.name = "BlocksReceived" /\ deal'.totalReceived = h.n
        /\ \/ SameMoney
           \/ /\ Request(h) /\ deal.status \notin SendStates
              /\ deal'.paymentRequested = deal.paymentRequested + h.n
              /\ deal'.fundsSpent = deal.fundsSpent
              /\ deal'.bytesPaidFor = deal.bytesPaidFor
           \/ /\ h.name = "PaymentSent" /\ deal.status \in SendStates
              /\ deal'.paymentRequested = 0
              /\ deal'.fundsSpent = deal.fundsSpent + deal.paymentRequested
              /\ deal'.bytesPaidFor =
                    deal.bytesPaidFor + (deal.paymentRequested \div PricePerByte)

\* Where the head event takes a deal that is or comes to be paying: into a
\* paying status with the handler ahead, out of it with the handler's outcome
\* or for good, otherwise not at all.
StatusEffect ==
    LET h == Head(events)
    IN  /\ stage' # "sent"
        /\ deal.status \in Sunk => deal'.status \in Sunk
        /\ deal.status \notin SendStates /\ deal'.status \in SendStates => stage' = "handler"
        /\ deal.status \in SendStates /\ Outcome(h) => deal'.status \notin SendStates
        /\ deal.status \in SendStates /\ ~Outcome(h) =>
              \/ deal'.status \in Sunk
              \/ deal'.status = deal.status /\ stage' = stage /\ SameMoney
        /\ h.name = "PaymentSent" /\ deal.status \in SendStates =>
              /\ deal'.paymentRequested = 0
              /\ deal'.fundsSpent = deal.fundsSpent + deal.paymentRequested
        /\ Outcome(h) /\ h.name # "PaymentSent" => deal'.status \in Sunk \/ SameMoney
        /\ h.name = "WriteDealPaymentErrored" /\ deal.status \in SendStates =>
              deal'.status \in Sunk

\* Every event of the machine has these effects and takes the queue's head.
LEMMA ProcessShape ==
    ASSUME TypeOK, ProcessEvent
    PROVE  /\ events # <<>> /\ stage = "idle" /\ UNCHANGED vouched
           /\ events' = Tail(events) \/ (events' = <<>> /\ deal'.status \in Final)
           /\ EventEffect /\ StatusEffect
  <1>t. deal \in ClientDealState BY DEF TypeOK
  <1> USE <1>t, TakeSources
      DEF EventEffect, StatusEffect, SameMoney, Take, Request, Outcome, Sunk, SendStates,
          ClientDealState, CreationStates, HasHandler, Final, Live
  <1>1. CASE Open BY <1>1 DEF Open, Enter
  <1>2. CASE DealProposed BY <1>2 DEF DealProposed, Enter
  <1>3. CASE DealNotFound BY <1>3 DEF DealNotFound, Enter
  <1>4. CASE DealAccepted BY <1>4 DEF DealAccepted, Enter
  <1>s. ASSUME NEW name, Take(name), NEW s \in {"Failing", "Errored", "Cancelling"},
               Enter(s, deal), name # "PaymentSent", name # "BlocksReceived"
        PROVE  /\ events # <<>> /\ stage = "idle" /\ UNCHANGED vouched
               /\ events' = Tail(events) \/ (events' = <<>> /\ deal'.status \in Final)
               /\ EventEffect /\ StatusEffect
    <2>1. /\ deal'.status = s /\ SameMoney /\ deal'.totalReceived = deal.totalReceived
      BY <1>s, EnterDeal DEF SameMoney
    <2>2. events # <<>> /\ stage = "idle" /\ UNCHANGED vouched /\ stage' # "sent"
      BY <1>s DEF Take, Enter
    <2>3. Head(events).name = name BY <1>s DEF Take
    <2>4. events' = Tail(events) \/ (events' = <<>> /\ deal'.status \in Final)
      BY <1>s, <2>1 DEF Enter
    <2>5. s \in Sunk /\ s \notin SendStates BY DEF Sunk, SendStates
    <2> HIDE DEF SameMoney, Sunk, SendStates, Outcome, Take, Live, Final
    <2>6. EventEffect BY <2>1 DEF EventEffect
    <2>a. deal'.status \in Sunk /\ deal'.status \notin SendStates BY <2>1, <2>5
    <2>b. Head(events).name # "PaymentSent" BY <2>3, <1>s
    <2>7. StatusEffect BY <2>2, <2>a, <2>b DEF StatusEffect
    <2>8. QED BY <2>2, <2>4, <2>6, <2>7
  <1>5. CASE FailDeal BY <1>5, <1>s DEF FailDeal, FailingEvents
  <1>6. CASE ErrorDeal BY <1>6, <1>s DEF ErrorDeal, ErroredEvents
  <1>7. CASE PaymentChannelCreateInitiated BY <1>7 DEF PaymentChannelCreateInitiated, Enter
  <1>8. CASE PaymentChannelAddingFunds BY <1>8 DEF PaymentChannelAddingFunds, Enter, WithChannel
  <1>9. CASE PaymentChannelReady BY <1>9 DEF PaymentChannelReady, Enter, WithChannel
  <1>10. CASE LaneAllocated BY <1>10 DEF LaneAllocated, Enter
  <1>11. CASE LastPaymentRequested BY <1>11 DEF LastPaymentRequested, Enter, Record
  <1>12. CASE PaymentRequested BY <1>12 DEF PaymentRequested, Enter, Record
  <1>13. CASE AllBlocksReceived BY <1>13 DEF AllBlocksReceived, Enter, Record
  <1>14. CASE BlocksReceived BY <1>14 DEF BlocksReceived, Enter, Record
  <1>15. CASE SendFundsEvent BY <1>15 DEF SendFundsEvent, Enter
  <1>16. CASE FundsExpended BY <1>16 DEF FundsExpended, Enter
  <1>17. CASE VoucherShortfall BY <1>17 DEF VoucherShortfall, Enter
  <1>18. CASE PaymentSent BY <1>18 DEF PaymentSent, Enter
  <1>19. CASE Complete BY <1>19 DEF Complete, Enter
  <1>20. CASE CompleteVerified BY <1>20 DEF CompleteVerified, Enter
  <1>21. CASE CancelComplete BY <1>21 DEF CancelComplete, Enter
  <1>22. CASE ProviderCancelled BY <1>22, <1>s DEF ProviderCancelled, Record
  <1>23. CASE Cancel BY <1>23, <1>s DEF Cancel
  <1>24. CASE RecheckFunds BY <1>24 DEF RecheckFunds, Enter
  <1>25. CASE DropEvent BY <1>25 DEF DropEvent, Sources, ClientDealState
  <1>26. QED
    BY <1>1, <1>2, <1>3, <1>4, <1>5, <1>6, <1>7, <1>8, <1>9, <1>10, <1>11, <1>12, <1>13,
       <1>14, <1>15, <1>16, <1>17, <1>18, <1>19, <1>20, <1>21, <1>22, <1>23, <1>24, <1>25
       DEF ProcessEvent

\* What one handler does to the queue and to the vouchers: it queues at most one
\* event, which carries no number, and an outcome of SendFunds only from there.
HandlerEffect ==
    /\ UNCHANGED deal
    /\ \/ UNCHANGED events /\ (deal.status \in SendStates => stage' = "sent")
       \/ \E name \in EventNames :
            /\ events' = Append(events, Ev(name, 0))
            /\ stage' = "idle"
            /\ name # "BlocksReceived"
            /\ Outcome(Ev(name, 0)) => deal.status \in SendStates /\ stage \in {"handler", "sent"}
            /\ name = "PaymentSent" <=> stage = "sent"
            /\ name = "WriteDealPaymentErrored" =>
                    ~TooMuchRequested /\ vouched' = deal.fundsSpent + deal.paymentRequested
    /\ stage' = "sent" => /\ deal.status \in SendStates /\ UNCHANGED events
                          /\ stage = "handler" /\ ~TooMuchRequested
                          /\ vouched' = deal.fundsSpent + deal.paymentRequested
    /\ vouched' # vouched =>
            /\ deal.status \in SendStates /\ stage = "handler" /\ ~TooMuchRequested
            /\ vouched' = deal.fundsSpent + deal.paymentRequested
            /\ \/ stage' = "sent"
               \/ events' = Append(events, Ev("WriteDealPaymentErrored", 0))

\* Every handler has that effect.
LEMMA HandlerShape ==
    ASSUME TypeOK, PaymentInv, RunHandler
    PROVE  HandlerEffect
  <1> USE Names, EvType DEF Trigger, Fault, Return, Running, Outcome, SendStates, HandlerEffect
  <1>1. CASE ProposeDeal BY <1>1 DEF ProposeDeal
  <1>2. CASE ProposeDealDone BY <1>2 DEF ProposeDealDone
  <1>3. CASE SetupPaymentChannelStart BY <1>3 DEF SetupPaymentChannelStart
  <1>4. CASE WaitPaymentChannelReady BY <1>4 DEF WaitPaymentChannelReady
  <1>5. CASE AllocateLane BY <1>5 DEF AllocateLane
  <1>6. CASE Ongoing BY <1>6 DEF Ongoing
  <1>7. CASE ProcessPaymentRequested BY <1>7 DEF ProcessPaymentRequested
  <1>8. CASE SendFunds BY <1>8 DEF SendFunds
  <1>9. CASE SendFundsDone BY <1>9 DEF SendFundsDone, PaymentInv
  <1>10. CASE CheckFunds BY <1>10 DEF CheckFunds
  <1>11. CASE ReAddFunds BY <1>11 DEF ReAddFunds
  <1>12. CASE ClientCancelDeal BY <1>12 DEF ClientCancelDeal
  <1>13. CASE CheckComplete BY <1>13 DEF CheckComplete
  <1>14. QED
    BY <1>1, <1>2, <1>3, <1>4, <1>5, <1>6, <1>7, <1>8, <1>9, <1>10, <1>11, <1>12, <1>13
       DEF RunHandler
-----------------------------------------------------------------------------
(* Bytes: counts, whole bytes, and one payment at a time *)

\* The queued counts stay in order and between the deal's and the channel's.
LEMMA StepCounts ==
    ASSUME TypeOK, TypeOK', CountsInv, PaymentInv, [Next]_vars
    PROVE  CountsInv'
  <1> USE DEF CountsInv, IsCount
  <1>r. deal.totalReceived \in Nat /\ received \in Nat /\ events \in Seq(Event)
    BY ClientEnvAssumption DEF TypeOK, ClientDealState
  <1>t. /\ deal.totalReceived \in Nat /\ received \in Nat /\ events \in Seq(Event)
        /\ \A i \in 1..Len(events) : events[i].n \in Nat
    <2>1. \A i \in 1..Len(events) : events[i] \in Event BY <1>r, ElementOfSeq
    <2>2. QED BY <1>r, <2>1 DEF Event
  <1>1. CASE ProcessEvent /\ UNCHANGED <<received, finished, posts>>
    <2>0. events # <<>> BY <1>1, ProcessShape
    <2>q. /\ Head(events) = events[1] /\ Len(events) \in Nat /\ Len(events) >= 1
          /\ Len(Tail(events)) = Len(events) - 1
          /\ \A i \in 1..(Len(events) - 1) : Tail(events)[i] = events[i + 1]
      BY <2>0, <1>t, QueueTail
    <2>1. /\ events' = Tail(events) \/ events' = <<>>
          /\ \/ deal'.totalReceived = deal.totalReceived
             \/ events[1].name = "BlocksReceived" /\ deal'.totalReceived = events[1].n
      BY <1>1, ProcessShape, <2>q DEF EventEffect
    <2>2. /\ deal.totalReceived <= deal'.totalReceived
          /\ deal'.totalReceived <= received
          /\ \A j \in 1..Len(events) : IsCount(j) /\ 1 < j => deal'.totalReceived <= events[j].n
      BY <2>q, <2>1, <1>t
    <2>3. CASE events' = <<>>
      <3>1. 1..Len(events') = {} BY <2>3
      <3>2. QED BY <1>1, <2>2, <3>1
    <2>4. CASE events' = Tail(events)
      <3>1. /\ Len(events') = Len(events) - 1
            /\ \A i \in 1..(Len(events) - 1) : events'[i] = events[i + 1] /\ i + 1 \in 1..Len(events)
        BY <2>4, <2>q
      <3>2. ASSUME NEW i \in 1..Len(events'), (IsCount(i))'
            PROVE  deal'.totalReceived <= events'[i].n /\ events'[i].n <= received
        BY <3>1, <3>2, <2>2, <2>q
      <3>3. ASSUME NEW i \in 1..Len(events'), NEW j \in 1..Len(events'), (IsCount(i))', (IsCount(j))', i < j
            PROVE  events'[i].n <= events'[j].n
        BY <3>1, <3>3, <2>q
      <3>4. QED BY <1>1, <2>2, <3>2, <3>3
    <2>5. QED BY <2>1, <2>3, <2>4
  <1>2. CASE RunHandler /\ UNCHANGED <<received, finished, posts>>
    <2>1. HandlerEffect BY <1>2, HandlerShape
    <2>2. CASE UNCHANGED events BY <1>2, <2>1, <2>2 DEF HandlerEffect
    <2>3. CASE ~ UNCHANGED events
      <3>1. PICK name \in EventNames : events' = Append(events, Ev(name, 0)) /\ name # "BlocksReceived"
        BY <2>1, <2>3 DEF HandlerEffect
      <3>2. Ev(name, 0) \in Event /\ Ev(name, 0).name # "BlocksReceived" BY <3>1, EvType
      <3>3. UNCHANGED deal BY <2>1 DEF HandlerEffect
      <3>4. QED BY <1>2, <1>t, <3>1, <3>2, <3>3, QueueAppend
    <2>4. QED BY <2>2, <2>3
  <1>3. CASE Environment
    <2>1. UNCHANGED deal /\ received' \in Nat /\ received <= received'
      BY <1>3, <1>t, EnvironmentShape DEF TypeOK
    <2>2. CASE UNCHANGED events BY <1>t, <2>1, <2>2
    <2>3. CASE ~ UNCHANGED events
      <3>1. PICK e : Posted(e) /\ events' = Append(events, e)
        BY <1>3, <2>3, EnvironmentShape
      <3>2. e \in Event /\ (e.name = "BlocksReceived" => e.n = received')
        BY <3>1 DEF Posted
      <3>3. QED BY <1>t, <2>1, <3>1, <3>2, QueueAppend
    <2>4. QED BY <2>2, <2>3
  <1>4. CASE UNCHANGED vars BY <1>4 DEF vars
  <1>5. QED BY <1>1, <1>2, <1>3, <1>4 DEF Next, Client, ClientNext

\* Whole bytes add up, and dividing their price by the price gives them back.
LEMMA WholeBytesFacts ==
    ASSUME NEW m, NEW n, WholeBytes(m), WholeBytes(n)
    PROVE  /\ WholeBytes(0) /\ WholeBytes(m + n)
           /\ m \in Nat /\ m \div PricePerByte \in Nat
           /\ PricePerByte * (m \div PricePerByte) = m
  <1>p. PricePerByte \in Nat /\ PricePerByte > 0 BY ClientDealAssumption
  <1>1. PICK k \in Nat : m = k * PricePerByte BY DEF WholeBytes
  <1>2. PICK l \in Nat : n = l * PricePerByte BY DEF WholeBytes
  <1>3. 0 = 0 * PricePerByte /\ k + l \in Nat /\ m + n = (k + l) * PricePerByte
    BY <1>p, <1>1, <1>2
  <1>4. WholeBytes(0) /\ WholeBytes(m + n)
    BY <1>3 DEF WholeBytes
  <1>5. (k * PricePerByte) \div PricePerByte = k
    <2> DEFINE q == (k * PricePerByte) \div PricePerByte
               r == (k * PricePerByte) % PricePerByte
    <2>1. q \in Int /\ r \in 0..(PricePerByte - 1) /\ k * PricePerByte = PricePerByte * q + r
      BY <1>p
    <2> HIDE DEF q, r
    <2>2. PricePerByte * (k - q) = r BY <1>p, <2>1
    <2>3. ~(k - q >= 1)
      <3>1. SUFFICES ASSUME k - q >= 1 PROVE FALSE OBVIOUS
      <3>2. PricePerByte * (k - q) >= PricePerByte BY <1>p, <2>1, <3>1
      <3>3. QED BY <1>p, <2>1, <2>2, <3>2
    <2>4. ~(k - q <= -1)
      <3>1. SUFFICES ASSUME k - q <= -1 PROVE FALSE OBVIOUS
      <3>2. PricePerByte * (k - q) <= -PricePerByte BY <1>p, <2>1, <3>1
      <3>3. QED BY <1>p, <2>1, <2>2, <3>2
    <2>5. k = q BY <2>1, <2>3, <2>4
    <2>6. QED BY <2>5 DEF q
  <1>6. QED BY <1>p, <1>1, <1>4, <1>5

\* Requests stay requests for whole bytes, and the funds spent stay the price
\* of the bytes paid for.
LEMMA StepUnits ==
    ASSUME TypeOK, UnitsInv, PaymentInv, [Next]_vars
    PROVE  UnitsInv'
  <1> USE DEF UnitsInv
  <1>t. events \in Seq(Event) /\ deal \in ClientDealState BY DEF TypeOK
  <1>p. PricePerByte \in Nat BY ClientDealAssumption
  <1>1. CASE ProcessEvent /\ UNCHANGED <<received, finished, posts>>
    <2>0. events # <<>> BY <1>1, ProcessShape
    <2>q. /\ Head(events) = events[1] /\ Len(events) \in Nat /\ Len(events) >= 1
          /\ Len(Tail(events)) = Len(events) - 1
          /\ \A i \in 1..(Len(events) - 1) : Tail(events)[i] = events[i + 1]
      BY <2>0, <1>t, QueueTail
    <2>1. (events' = Tail(events) \/ events' = <<>>) /\ EventEffect BY <1>1, ProcessShape
    <2>2. \A i \in 1..Len(events') : Request(events'[i]) => WholeBytes(events'[i].n)
      <3>1. CASE events' = <<>>
        <4>1. 1..Len(events') = {} BY <3>1
        <4>2. QED BY <4>1
      <3>2. CASE events' = Tail(events)
        <4>1. Len(events') = Len(events) - 1
              /\ \A i \in 1..(Len(events) - 1) : events'[i] = events[i + 1] /\ i + 1 \in 1..Len(events)
          BY <3>2, <2>q
        <4>2. QED BY <4>1
      <3>3. QED BY <2>1, <3>1, <3>2
    <2>3. Request(Head(events)) => WholeBytes(Head(events).n) BY <2>q
    <2>4. CASE SameMoney BY <2>2, <2>4 DEF SameMoney
    <2>5. CASE Request(Head(events)) /\ deal'.paymentRequested = deal.paymentRequested + Head(events).n
               /\ deal'.fundsSpent = deal.fundsSpent /\ deal'.bytesPaidFor = deal.bytesPaidFor
      BY <2>2, <2>3, <2>5, WholeBytesFacts
    <2>6. CASE /\ deal'.paymentRequested = 0
               /\ deal'.fundsSpent = deal.fundsSpent + deal.paymentRequested
               /\ deal'.bytesPaidFor =
                     deal.bytesPaidFor + (deal.paymentRequested \div PricePerByte)
      <3> DEFINE paid == deal.paymentRequested \div PricePerByte
      <3>1. WholeBytes(0) /\ paid \in Nat /\ PricePerByte * paid = deal.paymentRequested
        BY WholeBytesFacts
      <3>2. deal.bytesPaidFor \in Nat /\ deal.paymentRequested \in Nat
        BY <1>t DEF ClientDealState
      <3>3. deal'.bytesPaidFor = deal.bytesPaidFor + paid BY <2>6
      <3> HIDE DEF paid
      <3>4. deal'.fundsSpent = PricePerByte * deal'.bytesPaidFor
        BY <3>1, <3>2, <3>3, <2>6, <1>p
      <3>5. QED BY <2>2, <2>6, <3>1, <3>4
    <2>7. QED BY <2>1, <2>4, <2>5, <2>6 DEF EventEffect
  <1>2. CASE RunHandler /\ UNCHANGED <<received, finished, posts>>
    <2>1. HandlerEffect BY <1>2, HandlerShape
    <2>2. CASE UNCHANGED events BY <2>1, <2>2 DEF HandlerEffect
    <2>3. CASE ~ UNCHANGED events
      <3>1. PICK name \in EventNames : events' = Append(events, Ev(name, 0))
        BY <2>1, <2>3 DEF HandlerEffect
      <3>2. Ev(name, 0) \in Event /\ Ev(name, 0).n = 0 BY <3>1, EvType
      <3>3. WholeBytes(0) BY WholeBytesFacts
      <3>4. UNCHANGED deal BY <2>1 DEF HandlerEffect
      <3>5. QED BY <1>t, <3>1, <3>2, <3>3, <3>4, QueueAppend
    <2>4. QED BY <2>2, <2>3
  <1>3. CASE Environment
    <2>1. UNCHANGED deal BY <1>3, EnvironmentShape
    <2>2. CASE UNCHANGED events BY <2>1, <2>2
    <2>3. CASE ~ UNCHANGED events
      <3>1. PICK e : Posted(e) /\ events' = Append(events, e)
        BY <1>3, <2>3, EnvironmentShape
      <3>2. QED BY <1>t, <2>1, <3>1, QueueAppend DEF Posted
    <2>4. QED BY <2>2, <2>3
  <1>4. CASE UNCHANGED vars BY <1>4 DEF vars
  <1>5. QED BY <1>1, <1>2, <1>3, <1>4 DEF Next, Client, ClientNext
-----------------------------------------------------------------------------
(* Payments *)

\* An outcome that tells of a voucher
Voucher(e) == e.name \in {"PaymentSent", "WriteDealPaymentErrored"}

\* Taking the head of a queue with at most one outcome.
LEMMA TailOutcomes ==
    ASSUME events \in Seq(Event), events # <<>>, events' = Tail(events),
           \A i, j \in 1..Len(events) : Outcome(events[i]) /\ Outcome(events[j]) => i = j
    PROVE  /\ NoOutcome => NoOutcome'
           /\ Outcome(Head(events)) => ~NoOutcome /\ NoOutcome'
           /\ \A i, j \in 1..Len(events') : Outcome(events'[i]) /\ Outcome(events'[j]) => i = j
           /\ ~Outcome(Head(events)) =>
                ((\E i \in 1..Len(events') : Voucher(events'[i]))
                 <=> (\E i \in 1..Len(events) : Voucher(events[i])))
           /\ Voucher(Head(events)) => \E i \in 1..Len(events) : Voucher(events[i])
           /\ Outcome(Head(events)) /\ ~Voucher(Head(events)) =>
                ~\E i \in 1..Len(events) : Voucher(events[i])
  <1>q. /\ Head(events) = events[1] /\ Len(events) \in Nat /\ Len(events) >= 1
        /\ 1 \in 1..Len(events)
        /\ Len(events') = Len(events) - 1
        /\ \A i \in 1..Len(events') : events'[i] = events[i + 1] /\ i + 1 \in 1..Len(events)
        /\ \A i \in 1..Len(events) : i # 1 => i - 1 \in 1..Len(events')
    BY QueueTail
  <1>v. \A e : Voucher(e) => Outcome(e) BY DEF Voucher, Outcome
  <1>1. NoOutcome => NoOutcome' BY <1>q DEF NoOutcome
  <1>2. Outcome(Head(events)) => ~NoOutcome /\ NoOutcome'
    BY <1>q DEF NoOutcome
  <1>3. \A i, j \in 1..Len(events') : Outcome(events'[i]) /\ Outcome(events'[j]) => i = j
    BY <1>q
  <1>4. ASSUME ~Outcome(Head(events))
        PROVE  (\E i \in 1..Len(events') : Voucher(events'[i]))
                 <=> (\E i \in 1..Len(events) : Voucher(events[i]))
    <2>1. ASSUME NEW i \in 1..Len(events'), Voucher(events'[i])
          PROVE  \E k \in 1..Len(events) : Voucher(events[k])
      BY <2>1, <1>q
    <2>2. ASSUME NEW i \in 1..Len(events), Voucher(events[i])
          PROVE  \E k \in 1..Len(events') : Voucher(events'[k])
      <3>1. i # 1 BY <2>2, <1>4, <1>q, <1>v
      <3>2. i - 1 \in 1..Len(events') /\ events'[i - 1] = events[i] BY <3>1, <1>q
      <3>3. QED BY <3>2, <2>2
    <2>3. QED BY <2>1, <2>2
  <1>5. Voucher(Head(events)) => \E i \in 1..Len(events) : Voucher(events[i]) BY <1>q
  <1>6. Outcome(Head(events)) /\ ~Voucher(Head(events)) =>
                ~\E i \in 1..Len(events) : Voucher(events[i])
    BY <1>q, <1>v
  <1>7. QED BY <1>1, <1>2, <1>3, <1>4, <1>5, <1>6

\* Adding an event to a queue of events.
LEMMA AppendOutcomes ==
    ASSUME events \in Seq(Event), NEW e \in Event, events' = Append(events, e)
    PROVE  /\ ~Outcome(e) => (NoOutcome' <=> NoOutcome)
           /\ NoOutcome \/ ~Outcome(e) =>
                 ((\A i, j \in 1..Len(events) : Outcome(events[i]) /\ Outcome(events[j]) => i = j)
                  => \A i, j \in 1..Len(events') : Outcome(events'[i]) /\ Outcome(events'[j]) => i = j)
           /\ (\E i \in 1..Len(events') : Voucher(events'[i]))
                <=> (Voucher(e) \/ \E i \in 1..Len(events) : Voucher(events[i]))
  <1>q. /\ Len(events) \in Nat /\ Len(events') = Len(events) + 1
        /\ Len(events') \in 1..Len(events') /\ events'[Len(events')] = e
        /\ \A i \in 1..Len(events) : events'[i] = events[i] /\ i \in 1..Len(events')
        /\ \A i \in 1..Len(events') : i \in 1..Len(events) \/ i = Len(events')
    BY QueueAppend, LenProperties
  <1>1. ~Outcome(e) => (NoOutcome' <=> NoOutcome) BY <1>q DEF NoOutcome
  <1>2. ASSUME NoOutcome \/ ~Outcome(e),
               \A i, j \in 1..Len(events) : Outcome(events[i]) /\ Outcome(events[j]) => i = j,
               NEW i \in 1..Len(events'), NEW j \in 1..Len(events'),
               Outcome(events'[i]), Outcome(events'[j])
        PROVE  i = j
    BY <1>q, <1>2 DEF NoOutcome
  <1>3. (\E i \in 1..Len(events') : Voucher(events'[i]))
          <=> (Voucher(e) \/ \E i \in 1..Len(events) : Voucher(events[i]))
    BY <1>q
  <1>4. QED BY <1>1, <1>2, <1>3

\* An event leaves the books right: the outcome of a payment is the only one in
\* the queue, and it books what was vouched.
LEMMA ProcessBooks ==
    ASSUME Books, ProcessEvent
    PROVE  /\ PaymentInv' /\ deal'.bytesPaidFor <= deal'.totalReceived
           /\ VouchersAccountedFor'
  <1>t. /\ events \in Seq(Event) /\ PricePerByte \in Nat /\ PricePerByte > 0
        /\ deal.totalReceived \in Nat /\ deal.bytesPaidFor \in Nat
        /\ deal.paymentRequested \in Nat /\ deal.fundsSpent \in Nat
    BY ClientDealAssumption DEF Books, TypeOK, ClientDealState
  <1>0. /\ TypeOK /\ CountsInv /\ UnitsInv /\ PaymentInv /\ VouchersAccountedFor
        /\ deal.bytesPaidFor <= deal.totalReceived
    BY DEF Books
  <1>1. /\ events # <<>> /\ stage = "idle" /\ UNCHANGED vouched
        /\ events' = Tail(events) \/ (events' = <<>> /\ deal'.status \in Final)
        /\ EventEffect /\ StatusEffect
    BY <1>0, ProcessShape
  <1> DEFINE h == Head(events)
             V == \E i \in 1..Len(events) : Voucher(events[i])
             W == \E i \in 1..Len(events') : Voucher(events'[i])
  <1>s. SendStates \cap Sunk = {} /\ SendStates \cap Final = {}
    BY DEF SendStates, Sunk, Final
  <1>2. (PaymentPending <=> V) /\ (PaymentPending' <=> W)
    BY <1>1 DEF PaymentPending, StatusEffect, Voucher
  <1>3. events' = <<>> => NoOutcome' /\ ~W
    <2>1. ASSUME events' = <<>> PROVE 1..Len(events') = {} BY <2>1
    <2>2. QED BY <2>1 DEF NoOutcome
  <1>4. deal.status \notin Sunk /\ deal.status \notin SendStates => NoOutcome
    BY <1>0 DEF PaymentInv
  <1>5. deal.status \notin Sunk =>
            \A i, j \in 1..Len(events) : Outcome(events[i]) /\ Outcome(events[j]) => i = j
    BY <1>0 DEF PaymentInv
  <1>6. deal.status \notin Sunk /\ V => ~TooMuchRequested BY <1>0, <1>2 DEF PaymentInv
  <1>n. NoOutcome => ~V BY DEF NoOutcome, Outcome, Voucher
  <1>m. NoOutcome' => ~W BY DEF NoOutcome, Outcome, Voucher
  <1>7. ASSUME deal.status \notin Sunk, events' = Tail(events)
        PROVE  /\ NoOutcome => NoOutcome'
               /\ Outcome(h) => ~NoOutcome /\ NoOutcome'
               /\ \A i, j \in 1..Len(events') : Outcome(events'[i]) /\ Outcome(events'[j]) => i = j
               /\ ~Outcome(h) => (W <=> V)
               /\ Voucher(h) => V
               /\ Outcome(h) /\ ~Voucher(h) => ~V
    BY <1>t, <1>1, <1>5, <1>7, TailOutcomes
  <1>p. ASSUME deal.status \in SendStates, h.name = "PaymentSent"
        PROVE  V /\ Outcome(h) /\ Voucher(h)
    <2>1. Outcome(h) /\ Voucher(h) BY <1>p DEF Outcome, Voucher
    <2>2. h = events[1] /\ 1 \in 1..Len(events) BY <1>t, <1>1, QueueTail
    <2>3. QED BY <2>1, <2>2
  <1>r. deal.totalReceived <= deal'.totalReceived
    <2>1. h = events[1] /\ 1 \in 1..Len(events) BY <1>t, <1>1, QueueTail
    <2>2. QED BY <2>1, <1>0, <1>1, <1>t DEF EventEffect, CountsInv, IsCount
  <1> HIDE DEF h, V, W
  <1>8. deal'.status \notin Sunk => deal.status \notin Sunk BY <1>1 DEF StatusEffect
  <1>9. ASSUME deal'.status \notin Sunk, deal.status \in SendStates, ~Outcome(h)
        PROVE  /\ deal'.status = deal.status /\ stage' = "idle" /\ SameMoney
               /\ events' = Tail(events)
    BY <1>1, <1>9, <1>s DEF StatusEffect, h
  <1>10. PaymentInv'
    <2>1. stage' # "sent" BY <1>1 DEF StatusEffect
    <2>2. ASSUME deal'.status \notin Sunk,
                 deal'.status \notin SendStates \/ stage' \in {"handler", "sent"}
          PROVE  NoOutcome'
      <3>1. CASE deal.status \notin SendStates BY <2>2, <3>1, <1>1, <1>3, <1>4, <1>7, <1>8
      <3>2. CASE deal.status \in SendStates /\ Outcome(h)
        BY <2>2, <3>2, <1>1, <1>3, <1>7, <1>8
      <3>3. CASE deal.status \in SendStates /\ ~Outcome(h) BY <2>2, <3>3, <1>9
      <3>4. QED BY <3>1, <3>2, <3>3
    <2>3. ASSUME deal'.status \notin Sunk
          PROVE  \A i, j \in 1..Len(events') : Outcome(events'[i]) /\ Outcome(events'[j]) => i = j
      <3>1. CASE events' = <<>>
        BY <3>1, <1>3 DEF NoOutcome
      <3>2. CASE events' = Tail(events) BY <2>3, <3>2, <1>7, <1>8
      <3>3. QED BY <1>1, <3>1, <3>2
    <2>4. ASSUME deal'.status \notin Sunk, W PROVE ~TooMuchRequested'
      <3>1. events' = Tail(events) BY <2>4, <1>1, <1>3
      <3>2. ~NoOutcome' BY <2>4, <1>m
      <3>3. deal.status \in SendStates /\ ~Outcome(h) BY <2>4, <3>1, <3>2, <1>4, <1>7, <1>8
      <3>4. V BY <2>4, <3>1, <3>3, <1>7, <1>8
      <3>5. ~TooMuchRequested BY <2>4, <3>4, <1>6, <1>8
      <3>6. SameMoney BY <2>4, <3>3, <1>9
      <3>7. deal'.totalReceived \in Nat
        BY <1>r, <1>0, <1>1, <1>t, QueueTail DEF EventEffect, Event
      <3>a. deal.paymentRequested <= (deal.totalReceived - deal.bytesPaidFor) * PricePerByte
        BY <3>5, <1>t DEF TooMuchRequested
      <3>b. (deal.totalReceived - deal.bytesPaidFor) * PricePerByte
              <= (deal'.totalReceived - deal.bytesPaidFor) * PricePerByte
        BY <3>7, <1>r, <1>t
      <3>c. deal.paymentRequested <= (deal'.totalReceived - deal.bytesPaidFor) * PricePerByte
        <4> DEFINE a == (deal.totalReceived - deal.bytesPaidFor) * PricePerByte
                   b == (deal'.totalReceived - deal.bytesPaidFor) * PricePerByte
        <4>1. a \in Int /\ b \in Int BY <3>7, <1>t
        <4> HIDE DEF a, b
        <4>2. deal.paymentRequested <= a /\ a <= b => deal.paymentRequested <= b BY <4>1, <1>t
        <4>3. QED BY <4>2, <3>a, <3>b DEF a, b
      <3>8. QED BY <3>c, <3>6, <3>7, <1>t DEF TooMuchRequested, SameMoney
    <2>5. QED BY <2>1, <2>2, <2>3, <2>4, <1>2 DEF PaymentInv
  <1>11. deal'.bytesPaidFor <= deal'.totalReceived
    <2>1. CASE deal'.bytesPaidFor = deal.bytesPaidFor
      <3>1. deal'.totalReceived \in Nat
        BY <1>0, <1>1, <1>t, QueueTail DEF EventEffect, Event
      <3>2. QED BY <2>1, <3>1, <1>0, <1>r, <1>t
    <2>2. CASE /\ h.name = "PaymentSent" /\ deal.status \in SendStates
               /\ deal'.bytesPaidFor = deal.bytesPaidFor + (deal.paymentRequested \div PricePerByte)
      <3> DEFINE paid == deal.paymentRequested \div PricePerByte
      <3>1. paid \in Nat /\ PricePerByte * paid = deal.paymentRequested
        BY <1>0, WholeBytesFacts DEF UnitsInv
      <3>2. ~TooMuchRequested BY <2>2, <1>p, <1>6, <1>s
      <3>3. deal'.bytesPaidFor = deal.bytesPaidFor + paid BY <2>2
      <3>4. deal'.totalReceived = deal.totalReceived
        BY <2>2, <1>1 DEF EventEffect, h
      <3> HIDE DEF paid
      <3>5. PricePerByte * paid <= (deal.totalReceived - deal.bytesPaidFor) * PricePerByte
        BY <3>1, <3>2, <1>t DEF TooMuchRequested
      <3>6. paid <= deal.totalReceived - deal.bytesPaidFor
        <4>1. SUFFICES ASSUME paid >= deal.totalReceived - deal.bytesPaidFor + 1 PROVE FALSE
          BY <3>1, <1>t
        <4>2. PricePerByte * paid >= PricePerByte * (deal.totalReceived - deal.bytesPaidFor + 1)
          BY <4>1, <3>1, <1>t
        <4>3. QED BY <4>2, <3>5, <3>1, <1>t
      <3>7. QED BY <3>3, <3>4, <3>6, <3>1, <1>t
    <2>3. QED BY <2>1, <2>2, <1>1 DEF EventEffect, SameMoney, h
  <1>12. VouchersAccountedFor'
    <2> SUFFICES ASSUME deal'.status \notin Sunk
                 PROVE  vouched' = deal'.fundsSpent + IF W THEN deal'.paymentRequested ELSE 0
      BY <1>2 DEF VouchersAccountedFor
    <2>0. deal.status \notin Sunk BY <1>8
    <2>1. vouched' = deal.fundsSpent + IF V THEN deal.paymentRequested ELSE 0
      BY <2>0, <1>0, <1>1, <1>2 DEF VouchersAccountedFor
    <2>2. CASE deal.status \notin SendStates
      <3>1. ~V /\ ~W BY <2>0, <2>2, <1>1, <1>3, <1>4, <1>7, <1>n, <1>m
      <3>2. deal'.fundsSpent = deal.fundsSpent BY <2>2, <1>1 DEF EventEffect, SameMoney
      <3>3. QED BY <2>1, <3>1, <3>2
    <2>3. CASE deal.status \in SendStates /\ Outcome(h)
      <3>1. ~W BY <2>0, <2>3, <1>1, <1>3, <1>7, <1>m
      <3>2. CASE h.name = "PaymentSent"
        BY <2>1, <2>3, <3>1, <3>2, <1>1, <1>p, <1>t DEF StatusEffect, h
      <3>3. CASE h.name = "WriteDealPaymentErrored"
        BY <2>3, <3>3, <1>1 DEF StatusEffect, h
      <3>4. CASE h.name \notin {"PaymentSent", "WriteDealPaymentErrored"}
        <4>1. ~Voucher(h) BY <3>4 DEF Voucher
        <4>2. SameMoney BY <2>3, <3>4, <1>1 DEF StatusEffect, h
        <4>3. CASE events' = Tail(events)
          BY <4>1, <4>2, <4>3, <2>0, <2>1, <2>3, <3>1, <1>7 DEF SameMoney
        <4>4. CASE events' = <<>> /\ deal'.status \in Final /\ events' # Tail(events)
          <5>1. ~V
            <6>1. \A i \in 1..Len(events) : Outcome(events[i]) => i = 1
              <7>1. h = events[1] /\ 1 \in 1..Len(events) BY <1>t, <1>1, QueueTail DEF h
              <7>2. QED BY <7>1, <2>0, <2>3, <1>5
            <6>2. h = events[1] BY <1>t, <1>1, QueueTail DEF h
            <6>3. QED BY <6>1, <6>2, <4>1 DEF V, Voucher, Outcome
          <5>2. QED BY <4>2, <5>1, <2>1, <3>1 DEF SameMoney
        <4>5. QED BY <4>3, <4>4, <1>1
      <3>5. QED BY <3>2, <3>3, <3>4
    <2>4. CASE deal.status \in SendStates /\ ~Outcome(h)
      BY <2>0, <2>1, <2>4, <1>7, <1>9 DEF SameMoney
    <2>5. QED BY <2>2, <2>3, <2>4
  <1>13. QED BY <1>10, <1>11, <1>12

\* A handler leaves the books right: a voucher is made only within the bytes
\* received, with no other outcome on its way.
LEMMA HandlerBooks ==
    ASSUME Books, RunHandler
    PROVE  /\ PaymentInv' /\ VouchersAccountedFor'
           /\ vouched' = vouched \/ vouched' <= PricePerByte * deal.totalReceived
  <1>t. /\ events \in Seq(Event) /\ PricePerByte \in Nat
        /\ deal.totalReceived \in Nat /\ deal.bytesPaidFor \in Nat
        /\ deal.paymentRequested \in Nat /\ deal.fundsSpent \in Nat
    BY ClientDealAssumption DEF Books, TypeOK, ClientDealState
  <1>0. /\ TypeOK /\ UnitsInv /\ PaymentInv /\ VouchersAccountedFor
    BY DEF Books
  <1>1. HandlerEffect BY <1>0, HandlerShape
  <1> DEFINE V == \E i \in 1..Len(events) : Voucher(events[i])
             W == \E i \in 1..Len(events') : Voucher(events'[i])
             alone(q) == \A i, j \in 1..Len(q) : Outcome(q[i]) /\ Outcome(q[j]) => i = j
  <1>2. /\ PaymentPending <=> stage = "sent" \/ V
        /\ PaymentPending' <=> stage' = "sent" \/ W
    BY DEF PaymentPending, Voucher
  <1>u. UNCHANGED deal /\ (TooMuchRequested' <=> TooMuchRequested)
    BY <1>1 DEF HandlerEffect, TooMuchRequested
  <1>a. stage' = "sent" => deal.status \in SendStates BY <1>1 DEF HandlerEffect
  <1>b. stage = "sent" => deal.status \in SendStates BY <1>0 DEF PaymentInv
  <1>n. NoOutcome => ~V BY DEF NoOutcome, Outcome, Voucher
  <1>3. ASSUME deal.status \notin Sunk
        PROVE  /\ deal.status \notin SendStates \/ stage \in {"handler", "sent"} => NoOutcome
               /\ alone(events)
               /\ PaymentPending => ~TooMuchRequested
    BY <1>0, <1>3 DEF PaymentInv
  <1>4. deal.status \notin Sunk =>
            vouched = deal.fundsSpent + IF stage = "sent" \/ V THEN deal.paymentRequested ELSE 0
    BY <1>0, <1>2 DEF VouchersAccountedFor
  <1>5. CASE UNCHANGED events
    <2>1. (W <=> V) /\ (NoOutcome' <=> NoOutcome) /\ (alone(events') <=> alone(events))
      BY <1>5 DEF NoOutcome
    <2>s. deal.status \in SendStates => stage' = "sent"
      <3>1. ASSUME NEW e \in Event, events' = Append(events, e) PROVE FALSE
        <4>1. Len(Append(events, e)) = Len(events) + 1 BY <1>t, QueueAppend
        <4>2. Len(events) \in Nat BY <1>t, LenProperties
        <4>3. Append(events, e) = events BY <3>1, <1>5
        <4>4. QED BY <4>1, <4>2, <4>3
      <3>2. QED BY <3>1, <1>1, EvType DEF HandlerEffect
    <2> HIDE DEF V, W, alone
    <2>2. deal.status \in SendStates =>
            /\ stage' = "sent" /\ stage = "handler" /\ ~TooMuchRequested
            /\ vouched' = deal.fundsSpent + deal.paymentRequested
      BY <1>1, <2>s DEF HandlerEffect
    <2>3. deal.status \notin SendStates => vouched' = vouched /\ stage' # "sent" /\ stage # "sent"
      BY <1>1, <1>a, <1>b DEF HandlerEffect
    <2>4. PaymentInv'
      <3>1. ASSUME deal.status \notin Sunk
            PROVE  /\ deal.status \notin SendStates \/ stage' \in {"handler", "sent"} => NoOutcome'
                   /\ alone(events')
                   /\ PaymentPending' => ~TooMuchRequested
        <4>1. CASE deal.status \in SendStates BY <4>1, <3>1, <2>1, <2>2, <1>3
        <4>2. CASE deal.status \notin SendStates BY <4>2, <3>1, <2>1, <2>3, <1>2, <1>3, <1>n
        <4>3. QED BY <4>1, <4>2
      <3>2. QED BY <3>1, <1>a, <1>u DEF PaymentInv, alone
    <2>5. VouchersAccountedFor'
      <3>1. ASSUME deal.status \notin Sunk
            PROVE  vouched' = deal.fundsSpent +
                        IF PaymentPending' THEN deal.paymentRequested ELSE 0
        BY <3>1, <2>1, <2>2, <2>3, <1>2, <1>4
      <3>2. QED BY <3>1, <1>u DEF VouchersAccountedFor
    <2>6. vouched' = vouched \/ (~TooMuchRequested /\ vouched' = deal.fundsSpent + deal.paymentRequested)
      BY <2>2, <2>3
    <2>7. QED BY <2>4, <2>5, <2>6, <1>0, <1>t DEF TooMuchRequested, UnitsInv
  <1>6. CASE ~ UNCHANGED events
    <2>0. PICK name \in EventNames :
            /\ events' = Append(events, Ev(name, 0))
            /\ stage' = "idle"
            /\ Outcome(Ev(name, 0)) => deal.status \in SendStates /\ stage \in {"handler", "sent"}
            /\ name = "PaymentSent" <=> stage = "sent"
            /\ name = "WriteDealPaymentErrored" =>
                    ~TooMuchRequested /\ vouched' = deal.fundsSpent + deal.paymentRequested
      BY <1>1, <1>6 DEF HandlerEffect
    <2> DEFINE e == Ev(name, 0)
    <2>e. e \in Event /\ (Voucher(e) <=> name \in {"PaymentSent", "WriteDealPaymentErrored"})
          /\ (Voucher(e) => Outcome(e))
      BY EvType DEF Voucher, Outcome
    <2>1. /\ ~Outcome(e) => (NoOutcome' <=> NoOutcome)
          /\ NoOutcome \/ ~Outcome(e) => (alone(events) => alone(events'))
          /\ W <=> (Voucher(e) \/ V)
      BY <1>t, <2>e, <2>0, AppendOutcomes
    <2>v. vouched' # vouched =>
            /\ stage = "handler" /\ ~TooMuchRequested /\ deal.status \in SendStates
            /\ vouched' = deal.fundsSpent + deal.paymentRequested
            /\ name = "WriteDealPaymentErrored"
      <3>1. ASSUME vouched' # vouched PROVE events' = Append(events, Ev("WriteDealPaymentErrored", 0))
        BY <3>1, <1>1, <2>0 DEF HandlerEffect
      <3>2. ASSUME NEW f \in Event, events' = Append(events, f) PROVE f = e
        <4>1. Append(events, f)[Len(events) + 1] = f BY <1>t, QueueAppend
        <4>2. Append(events, e)[Len(events) + 1] = e BY <1>t, <2>e, QueueAppend
        <4>3. QED BY <4>1, <4>2, <3>2, <2>0
      <3>3. ASSUME vouched' # vouched PROVE name = "WriteDealPaymentErrored"
        <4>1. Ev("WriteDealPaymentErrored", 0) \in Event
              /\ Ev("WriteDealPaymentErrored", 0).name = "WriteDealPaymentErrored"
          BY EvType, Names
        <4>2. e.name = name BY EvType
        <4>3. QED BY <4>1, <4>2, <3>1, <3>2, <3>3
      <3>4. QED BY <3>3, <1>1 DEF HandlerEffect
    <2> HIDE DEF V, W, alone, e
    <2>2. deal.status \notin Sunk /\ Outcome(e) => NoOutcome BY <1>3, <2>0 DEF e
    <2>3. PaymentInv'
      <3>1. ASSUME deal.status \notin Sunk
            PROVE  /\ deal.status \notin SendStates \/ stage' \in {"handler", "sent"} => NoOutcome'
                   /\ alone(events')
                   /\ PaymentPending' => ~TooMuchRequested
        <4>1. deal.status \notin SendStates \/ stage' \in {"handler", "sent"} => NoOutcome'
          BY <3>1, <2>0, <2>1, <1>3 DEF e
        <4>2. alone(events') BY <3>1, <2>1, <2>2, <1>3
        <4>3. PaymentPending' => ~TooMuchRequested
          BY <3>1, <2>0, <2>1, <2>e, <1>2, <1>3
        <4>4. QED BY <4>1, <4>2, <4>3
      <3>2. QED BY <3>1, <2>0, <1>u DEF PaymentInv, alone
    <2>4. VouchersAccountedFor'
      <3>1. ASSUME deal.status \notin Sunk
            PROVE  vouched' = deal.fundsSpent +
                        IF PaymentPending' THEN deal.paymentRequested ELSE 0
        <4>1. PaymentPending' <=> Voucher(e) \/ V BY <1>2, <2>0, <2>1
        <4>2. CASE name = "PaymentSent"
          BY <4>1, <4>2, <3>1, <2>0, <2>e, <2>v, <1>4
        <4>3. CASE name = "WriteDealPaymentErrored"
          BY <4>1, <4>3, <3>1, <2>0, <2>e
        <4>4. CASE name \notin {"PaymentSent", "WriteDealPaymentErrored"}
          BY <4>1, <4>4, <3>1, <2>0, <2>e, <2>v, <1>4
        <4>5. QED BY <4>2, <4>3, <4>4
      <3>2. QED BY <3>1, <1>u DEF VouchersAccountedFor
    <2>5. QED BY <2>3, <2>4, <2>v, <1>0, <1>t DEF TooMuchRequested, UnitsInv
  <1>7. QED BY <1>5, <1>6

\* What the environment posts changes no book.
LEMMA EnvironmentBooks ==
    ASSUME Books, Environment
    PROVE  PaymentInv' /\ VouchersAccountedFor' /\ UNCHANGED <<deal, vouched>>
  <1>0. events \in Seq(Event) /\ TypeOK /\ PaymentInv /\ VouchersAccountedFor
    BY DEF Books, TypeOK
  <1>1. UNCHANGED <<deal, stage, vouched>> BY <1>0, EnvironmentShape
  <1>2. TooMuchRequested' <=> TooMuchRequested BY <1>1 DEF TooMuchRequested
  <1>3. CASE UNCHANGED events
    BY <1>0, <1>1, <1>2, <1>3 DEF PaymentInv, VouchersAccountedFor, PaymentPending, NoOutcome
  <1>4. CASE ~ UNCHANGED events
    <2>1. PICK e : Posted(e) /\ events' = Append(events, e)
      BY <1>0, <1>4, EnvironmentShape
    <2>2. e \in Event /\ ~Outcome(e) /\ ~Voucher(e) BY <2>1 DEF Posted, Voucher, Outcome
    <2> DEFINE V == \E i \in 1..Len(events) : Voucher(events[i])
               W == \E i \in 1..Len(events') : Voucher(events'[i])
               alone(q) == \A i, j \in 1..Len(q) : Outcome(q[i]) /\ Outcome(q[j]) => i = j
    <2>3. (NoOutcome' <=> NoOutcome) /\ (alone(events) => alone(events')) /\ (W <=> V)
      BY <1>0, <2>1, <2>2, AppendOutcomes
    <2>4. PaymentPending' <=> PaymentPending
      BY <2>3, <1>1 DEF PaymentPending, Voucher
    <2>5. PaymentInv' BY <2>3, <2>4, <1>0, <1>1, <1>2 DEF PaymentInv
    <2>6. VouchersAccountedFor' BY <2>4, <1>0, <1>1 DEF VouchersAccountedFor
    <2>7. QED BY <2>5, <2>6, <1>1
  <1>5. QED BY <1>1, <1>3, <1>4

\* Init sets the books right, and every step keeps them.
LEMMA InitBooks == Init => Books
  <1> SUFFICES ASSUME Init PROVE Books OBVIOUS
  <1>1. TypeOK BY InitType
  <1>2. /\ Len(events) = 1 /\ events[1] = Ev("Open", 0) /\ Ev("Open", 0).name = "Open"
    BY EvType, Names DEF Init, ClientInit
  <1>3. 1..Len(events) = {1} BY <1>2
  <1>4. NoOutcome /\ ~PaymentPending
    BY <1>2, <1>3 DEF NoOutcome, Outcome, PaymentPending, Init, ClientInit
  <1>5. CountsInv
    BY <1>2, <1>3, ClientEnvAssumption DEF CountsInv, IsCount, Init, ClientInit
  <1>6. PricePerByte \in Nat /\ 0 \in Nat /\ 0 = 0 * PricePerByte BY ClientDealAssumption
  <1>7. WholeBytes(0) BY <1>6 DEF WholeBytes
  <1>8. UnitsInv
    BY <1>2, <1>3, <1>6, <1>7 DEF UnitsInv, Request, Init, ClientInit
  <1>9. PaymentInv
    BY <1>4 DEF PaymentInv, NoOutcome, SendStates, Init, ClientInit
  <1>10. deal.bytesPaidFor <= deal.totalReceived /\ VouchersAccountedFor /\ NeverOverpays
    BY <1>4, <1>6, ClientEnvAssumption
       DEF VouchersAccountedFor, NeverOverpays, Init, ClientInit
  <1>11. QED BY <1>1, <1>5, <1>8, <1>9, <1>10 DEF Books

\* A larger byte count has at least the price of a smaller one.
LEMMA PriceMonotone ==
    ASSUME NEW p \in Nat, NEW a \in Nat, NEW b \in Nat, a <= b
    PROVE  p * a \in Nat /\ p * b \in Nat /\ p * a <= p * b
  <1>1. PICK c \in Nat : b = a + c
    <2>1. b - a \in Nat /\ b = a + (b - a) OBVIOUS
    <2>2. QED BY <2>1
  <1>2. p * c \in Nat /\ p * a \in Nat /\ p * (a + c) = p * a + p * c OBVIOUS
  <1>3. QED BY <1>1, <1>2

\* Every step of the client and of what surrounds it keeps the books right.
LEMMA StepBooks == Books /\ [Next]_vars => Books'
  <1> SUFFICES ASSUME Books, [Next]_vars PROVE Books' OBVIOUS
  <1>0. /\ TypeOK /\ CountsInv /\ UnitsInv /\ PaymentInv /\ VouchersAccountedFor
        /\ deal.bytesPaidFor <= deal.totalReceived /\ NeverOverpays
    BY DEF Books
  <1>1. TypeOK' BY <1>0, StepType
  <1>2. CountsInv' /\ UnitsInv' BY <1>0, <1>1, StepCounts, StepUnits
  <1>3. /\ PaymentInv' /\ VouchersAccountedFor'
        /\ deal'.bytesPaidFor <= deal'.totalReceived
        /\ vouched' = vouched \/ vouched' <= PricePerByte * deal.totalReceived
    <2>1. CASE ProcessEvent BY <2>1, <1>0, ProcessBooks, ProcessShape
    <2>2. CASE RunHandler BY <2>2, <1>0, HandlerBooks, HandlerShape DEF HandlerEffect
    <2>3. CASE Environment BY <2>3, <1>0, EnvironmentBooks
    <2>4. CASE UNCHANGED vars
      BY <2>4, <1>0
         DEF vars, PaymentInv, VouchersAccountedFor, PaymentPending, NoOutcome, TooMuchRequested
    <2>5. QED BY <2>1, <2>2, <2>3, <2>4 DEF Next, Client, ClientNext
  <1>4. received' \in Nat /\ received <= received' /\ received \in Nat
    <2>1. received \in Nat /\ received' \in Nat
      BY <1>0, <1>1, ClientEnvAssumption DEF TypeOK
    <2>2. CASE Environment BY <2>1, <2>2, <1>0, EnvironmentShape
    <2>3. CASE Client \/ UNCHANGED vars BY <2>1, <2>3 DEF Client, vars
    <2>4. QED BY <2>1, <2>2, <2>3 DEF Next
  <1>5. NeverOverpays'
    <2>1. /\ vouched \in Nat /\ vouched' \in Nat /\ PricePerByte \in Nat
          /\ deal.totalReceived \in Nat /\ deal.totalReceived <= received
      BY <1>0, <1>1, ClientDealAssumption DEF TypeOK, ClientDealState, CountsInv
    <2>2. /\ PricePerByte * received <= PricePerByte * received'
          /\ PricePerByte * deal.totalReceived <= PricePerByte * received
      BY <2>1, <1>4, PriceMonotone
    <2>3. /\ PricePerByte * received \in Nat /\ PricePerByte * received' \in Nat
          /\ PricePerByte * deal.totalReceived \in Nat
      BY <2>1, <1>4, PriceMonotone
    <2>4. vouched <= PricePerByte * received BY <1>0 DEF NeverOverpays
    <2>5. vouched' <= PricePerByte * received'
      BY <2>1, <2>2, <2>3, <2>4, <1>3
    <2>6. QED BY <2>5 DEF NeverOverpays
  <1>6. QED BY <1>1, <1>2, <1>3, <1>5 DEF Books

\* The uint64 differences of bytes received and paid for never wrap, for any
\* provider that bills whole bytes.
THEOREM PaidBytesSafe == Spec => []PaidBytesAreHere
  <1>1. Books => PaidBytesAreHere BY DEF Books, CountsInv, PaidBytesAreHere
  <1>2. QED BY <1>1, InitBooks, StepBooks, PTL DEF Spec

\* FundsSpent and the vouchers agree whenever no payment is in between.
THEOREM BooksAgree == Spec => []VouchersAccountedFor
  <1>1. Books => VouchersAccountedFor BY DEF Books
  <1>2. QED BY <1>1, InitBooks, StepBooks, PTL DEF Spec

\* The client never vouches for more than the price of the bytes it holds.
THEOREM NoOverpayment == Spec => []NeverOverpays
  <1>1. Books => NeverOverpays BY DEF Books
  <1>2. QED BY <1>1, InitBooks, StepBooks, PTL DEF Spec
=============================================================================
