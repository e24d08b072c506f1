----------------------------- MODULE ClientDeal -----------------------------
(***************************************************************************)
(* The retrieval client's deal: the state machine of                       *)
(* rtmkt/lib/statemachine.go (FsmClientEvents, ClientStateEntryFuncs and   *)
(* the handlers they name) as the fsm library runs it.                     *)
(*                                                                         *)
(* The library keeps one queue of events per deal.  It takes the head      *)
(* event only when no state handler of the deal is running; an event with  *)
(* no transition from the current status is dropped.  A transition with    *)
(* To(..) or ToNoChange() runs the handler of the resulting status, one    *)
(* with ToJustRecord() does not.  A handler ends with at most one Trigger, *)
(* which joins the queue behind what arrived while the handler ran.        *)
(*                                                                         *)
(* Messages, addresses and CIDs are abstracted to what the handlers test:  *)
(* waitMsg says whether WaitMsgCID is set, payInfo whether PaymentInfo is  *)
(* nil, has a channel, or has a channel and a lane.  deal.Message, which   *)
(* nothing reads, is left out.                                             *)
(***************************************************************************)
EXTENDS Integers, Sequences

CONSTANTS PricePerByte,             \* Params.PricePerByte, the agreed price of a byte
          PaymentInterval,          \* Params.PaymentInterval
          PaymentIntervalIncrease,  \* Params.PaymentIntervalIncrease
          Word,                     \* 2^64: what a uint64 subtraction wraps at
          Faults                    \* which calls may fail: see FaultKinds

FaultKinds == {"node", "transfer", "shortfall"}

ASSUME ClientDealAssumption ==
    /\ PricePerByte \in Nat \ {0}
    /\ PaymentInterval \in Nat
    /\ PaymentIntervalIncrease \in Nat
    /\ Word \in Nat \ {0}
    /\ Faults \subseteq FaultKinds

VARIABLES deal,     \* the ClientDealState record
          events,   \* the events Send and Trigger queued for this deal
          stage,    \* what the machine is doing: see Stages
          vouched   \* the largest voucher the node made on the deal's lane

clientVars == <<deal, events, stage, vouched>>
-----------------------------------------------------------------------------
(* Statuses, events and the shape of the state *)

CreationStates == {"WaitForAcceptance", "Accepted", "PaymentChannelCreating",
                   "PaymentChannelAllocatingLane"}

Live == CreationStates \cup
        {"New", "PaymentChannelAddingFunds", "Ongoing", "FundsNeeded",
         "FundsNeededLastPayment", "SendFunds", "SendFundsLastPayment",
         "CheckFunds", "InsufficientFunds", "Finalizing", "BlocksComplete",
         "CheckComplete", "Failing", "Cancelling"}

Final == {"Errored", "Completed", "Cancelled", "Rejected", "DealNotFound"}

\* Mutant of HasHandler: no entry for Failing
HasHandlerButFailing == Live \ {"WaitForAcceptance", "Finalizing", "BlocksComplete", "Failing"}

\* Statuses with an entry in ClientStateEntryFuncs
HasHandler == Live \ {"WaitForAcceptance", "Finalizing", "BlocksComplete"}

\* "handler": the status' handler is about to run or running; "opened" and
\* "sent": it is between its network call and its Trigger.
Stages == {"idle", "handler", "opened", "sent", "terminated"}

\* For each event of FsmClientEvents, the statuses it has a transition from
\* (Live for FromAny).  UnknownResponseReceived is left out: its one sender
\* passes no argument where the action takes one, and the library refuses such
\* a Send.
Sources ==
    [ Open                         |-> {"New"},
      WriteDealProposalErrored     |-> Live,
      DealProposed                 |-> {"New"},
      DealNotFound                 |-> {"WaitForAcceptance"},
      DealAccepted                 |-> {"WaitForAcceptance"},
      PaymentChannelErrored        |-> {"Accepted", "PaymentChannelCreating",
                                        "PaymentChannelAddingFunds", "CheckFunds"},
      PaymentChannelCreateInitiated |-> {"Accepted"},
      PaymentChannelAddingFunds    |-> {"Accepted", "CheckFunds", "InsufficientFunds"},
      PaymentChannelReady          |-> {"PaymentChannelCreating",
                                        "PaymentChannelAddingFunds", "CheckFunds"},
      AllocateLaneErrored          |-> {"PaymentChannelAllocatingLane"},
      LaneAllocated                |-> {"PaymentChannelAllocatingLane"},
      DataTransferError            |-> Live,
      LastPaymentRequested         |-> {"Ongoing", "FundsNeededLastPayment",
                                        "FundsNeeded"} \cup CreationStates,
      PaymentRequested             |-> {"Ongoing", "FundsNeeded"} \cup CreationStates,
      AllBlocksReceived            |-> {"Ongoing", "BlocksComplete", "SendFunds",
                                        "FundsNeeded", "FundsNeededLastPayment"}
                                       \cup CreationStates,
      BlocksReceived               |-> {"Ongoing", "FundsNeeded",
                                        "FundsNeededLastPayment"} \cup CreationStates,
      SendFunds                    |-> {"FundsNeeded", "FundsNeededLastPayment"},
      FundsExpended                |-> {"CheckFunds"},
      BadPaymentRequested          |-> {"SendFunds", "SendFundsLastPayment"},
      CreateVoucherFailed          |-> {"SendFunds", "SendFundsLastPayment"},
      VoucherShortfall             |-> {"SendFunds", "SendFundsLastPayment"},
      WriteDealPaymentErrored      |-> Live,
      PaymentSent                  |-> {"SendFunds", "SendFundsLastPayment"},
      Complete                     |-> {"Ongoing", "Finalizing"},
      CompleteVerified             |-> {"CheckComplete"},
      EarlyTermination             |-> {"CheckComplete"},
      CancelComplete               |-> {"Failing", "Cancelling"},
      ProviderCancelled            |-> Live,
      Cancel                       |-> Live,
      RecheckFunds                 |-> {"InsufficientFunds"} ]

EventNames == DOMAIN Sources
Event == [name : EventNames, n : Nat]
Ev(name, n) == [name |-> name, n |-> n]

ClientDealState ==
    [status : Live \cup Final, totalReceived : Nat, bytesPaidFor : Nat,
     currentInterval : Nat, paymentRequested : Nat, fundsSpent : Nat,
     lastPaymentRequested : BOOLEAN, allBlocksReceived : BOOLEAN,
     waitMsg : BOOLEAN, payInfo : {"nil", "channel", "lane"}]

\* a - b on uint64
USub(a, b) == IF b <= a THEN a - b ELSE a - b + Word
-----------------------------------------------------------------------------
(* The fsm library *)

\* Mutant of Send: undeclared events are queued
SendUndeclared(e) == IF stage # "terminated" THEN events' = Append(events, e) ELSE UNCHANGED events

\* Send: refused after a finality state and for an event the machine does not
\* declare; otherwise queued.
Send(e) == IF stage # "terminated" /\ e.name \in EventNames
             THEN events' = Append(events, e)
             ELSE UNCHANGED events

\* A handler's closing Trigger, or its return without one
Trigger(name, n) == events' = Append(events, Ev(name, n)) /\ stage' = "idle"
Return == stage' = "idle" /\ UNCHANGED events

\* The head event can be applied
Take(name) == /\ stage = "idle" /\ events # <<>>
              /\ Head(events).name = name
              /\ deal.status \in Sources[name]

\* To(s) and ToNoChange(): the deal becomes d with status s, then s's handler.
Enter(s, d) ==
    /\ deal' = [d EXCEPT !.status = s]
    /\ stage' = IF s \in Final THEN "terminated"
                ELSE IF s \in HasHandler THEN "handler" ELSE "idle"
    /\ events' = IF s \in Final THEN <<>> ELSE Tail(events)
    /\ UNCHANGED vouched

\* ToJustRecord(): the action only
Record(d) == deal' = d /\ events' = Tail(events) /\ UNCHANGED <<stage, vouched>>

\* No transition: the planner logs an error and the event is gone
DropEvent == /\ stage = "idle" /\ events # <<>>
             /\ deal.status \notin Sources[Head(events).name]
             /\ events' = Tail(events)
             /\ UNCHANGED <<deal, stage, vouched>>
-----------------------------------------------------------------------------
(* FsmClientEvents: what each event does *)

Open == Take("Open") /\ Enter("New", deal)

DealProposed == Take("DealProposed") /\ Enter("WaitForAcceptance", deal)

DealNotFound == Take("DealNotFound") /\ Enter("DealNotFound", deal)

DealAccepted == Take("DealAccepted") /\ Enter("Accepted", deal)

\* The events that only send the deal to Failing, and to Errored
FailingEvents == {"PaymentChannelErrored", "AllocateLaneErrored",
                  "BadPaymentRequested", "CreateVoucherFailed"}
ErroredEvents == {"WriteDealProposalErrored", "DataTransferError",
                  "WriteDealPaymentErrored", "EarlyTermination"}

FailDeal == \E name \in FailingEvents : Take(name) /\ Enter("Failing", deal)
ErrorDeal == \E name \in ErroredEvents : Take(name) /\ Enter("Errored", deal)

PaymentChannelCreateInitiated ==
    /\ Take("PaymentChannelCreateInitiated")
    /\ Enter("PaymentChannelCreating", [deal EXCEPT !.waitMsg = TRUE])

\* Mutant of WithChannel: only an existing PaymentInfo is written to
WithoutChannel(d) == d

\* PaymentInfo gets the channel's address unless it is already there
WithChannel(d) == [d EXCEPT !.payInfo = IF @ = "nil" THEN "channel" ELSE @]

PaymentChannelAddingFunds ==
    /\ Take("PaymentChannelAddingFunds")
    /\ Enter(IF deal.status = "Accepted" THEN "PaymentChannelAllocatingLane"
                                         ELSE "PaymentChannelAddingFunds",
             [WithChannel(deal) EXCEPT !.waitMsg = TRUE])

PaymentChannelReady ==
    /\ Take("PaymentChannelReady")
    /\ Enter(IF deal.status = "PaymentChannelCreating"
               THEN "PaymentChannelAllocatingLane" ELSE "Ongoing",
             [WithChannel(deal) EXCEPT !.waitMsg = FALSE])

LaneAllocated == Take("LaneAllocated")
                 /\ Enter("Ongoing", [deal EXCEPT !.payInfo = "lane"])

\* While the channel is being set up a request is only recorded
LastPaymentRequested ==
    /\ Take("LastPaymentRequested")
    /\ LET d == [deal EXCEPT !.paymentRequested = @ + Head(events).n,
                             !.lastPaymentRequested = TRUE]
       IN  IF deal.status \in CreationStates
             THEN Record(d) ELSE Enter("FundsNeededLastPayment", d)

PaymentRequested ==
    /\ Take("PaymentRequested")
    /\ LET d == [deal EXCEPT !.paymentRequested = @ + Head(events).n]
       IN  IF deal.status \in CreationStates
             THEN Record(d) ELSE Enter("FundsNeeded", d)

AllBlocksReceived ==
    /\ Take("AllBlocksReceived")
    /\ LET d == [deal EXCEPT !.allBlocksReceived = TRUE]
       IN  CASE deal.status \in {"Ongoing", "BlocksComplete"} -> Enter("BlocksComplete", d)
             [] deal.status = "FundsNeededLastPayment" -> Enter("SendFundsLastPayment", d)
             [] OTHER -> Record(d)

\* recordReceived; ToNoChange, so the status' handler looks again
BlocksReceived ==
    /\ Take("BlocksReceived")
    /\ LET d == [deal EXCEPT !.totalReceived = Head(events).n]
       IN  IF deal.status \in CreationStates
             THEN Record(d) ELSE Enter(deal.status, d)

SendFundsEvent ==
    /\ Take("SendFunds")
    /\ Enter(IF deal.status = "FundsNeeded" THEN "SendFunds" ELSE "SendFundsLastPayment", deal)

FundsExpended == Take("FundsExpended") /\ Enter("InsufficientFunds", deal)

VoucherShortfall == Take("VoucherShortfall") /\ Enter("CheckFunds", deal)

\* Mutant of PaymentSent: the request is reset before it is added to FundsSpent
PaymentSentAfterReset ==
    /\ Take("PaymentSent")
    /\ LET paid == deal.paymentRequested \div PricePerByte
       IN  Enter(IF deal.status = "SendFunds" THEN "Ongoing" ELSE "Finalizing",
                 [deal EXCEPT
                    !.currentInterval = IF paid >= @ THEN @ + PaymentIntervalIncrease ELSE @,
                    !.bytesPaidFor = @ + paid,
                    !.paymentRequested = 0])

\* Mutant of PaymentSent: a payment for exactly the interval does not raise it
PaymentSentBeyond ==
    /\ Take("PaymentSent")
    /\ LET paid == deal.paymentRequested \div PricePerByte
       IN  Enter(IF deal.status = "SendFunds" THEN "Ongoing" ELSE "Finalizing",
                 [deal EXCEPT
                    !.fundsSpent = @ + deal.paymentRequested,
                    !.currentInterval = IF paid > @ THEN @ + PaymentIntervalIncrease ELSE @,
                    !.bytesPaidFor = @ + paid,
                    !.paymentRequested = 0])

PaymentSent ==
    /\ Take("PaymentSent")
    /\ LET paid == deal.paymentRequested \div PricePerByte
       IN  Enter(IF deal.status = "SendFunds" THEN "Ongoing" ELSE "Finalizing",
                 [deal EXCEPT
                    !.fundsSpent = @ + deal.paymentRequested,
                    !.currentInterval = IF paid >= @ THEN @ + PaymentIntervalIncrease ELSE @,
                    !.bytesPaidFor = @ + paid,
                    !.paymentRequested = 0])

Complete == Take("Complete")
            /\ Enter(IF deal.status = "Ongoing" THEN "CheckComplete" ELSE "Completed", deal)

CompleteVerified == Take("CompleteVerified") /\ Enter("Completed", deal)

CancelComplete ==
    Take("CancelComplete")
    /\ Enter(IF deal.status = "Failing" THEN "Errored" ELSE "Cancelled", deal)

ProviderCancelled ==
    /\ Take("ProviderCancelled")
    /\ IF deal.status \in {"Failing", "Cancelling"}
         THEN Record(deal)
         ELSE Enter("Errored", deal)

Cancel == Take("Cancel") /\ Enter("Cancelling", deal)

RecheckFunds == Take("RecheckFunds") /\ Enter("CheckFunds", deal)

ProcessEvent ==
    \/ Open \/ DealProposed \/ DealNotFound \/ DealAccepted
    \/ FailDeal \/ ErrorDeal
    \/ PaymentChannelCreateInitiated \/ PaymentChannelAddingFunds
    \/ PaymentChannelReady \/ LaneAllocated
    \/ LastPaymentRequested \/ PaymentRequested
    \/ AllBlocksReceived \/ BlocksReceived
    \/ SendFundsEvent \/ FundsExpended \/ VoucherShortfall \/ PaymentSent
    \/ Complete \/ CompleteVerified \/ CancelComplete
    \/ ProviderCancelled \/ Cancel \/ RecheckFunds
    \/ DropEvent
-----------------------------------------------------------------------------
(* ClientStateEntryFuncs: the handlers.  What arrives while one runs is in  *)
(* the queue before its Trigger; a handler with a message to the provider   *)
(* is split at that message, so that the answer may overtake the Trigger.   *)

Running(S) == stage = "handler" /\ deal.status \in S
Fault(f, name) == f \in Faults /\ Trigger(name, 0)

\* OpenPullDataChannel, then the Trigger
ProposeDeal ==
    /\ Running({"New"})
    /\ \/ Fault("transfer", "WriteDealProposalErrored")
       \/ stage' = "opened" /\ UNCHANGED events
    /\ UNCHANGED <<deal, vouched>>

ProposeDealDone == /\ stage = "opened" /\ Trigger("DealProposed", 0)
                   /\ UNCHANGED <<deal, vouched>>

\* GetOrCreatePaymentChannel returns no address while the channel is created
SetupPaymentChannelStart ==
    /\ Running({"Accepted"})
    /\ \/ Fault("node", "PaymentChannelErrored")
       \/ Trigger("PaymentChannelCreateInitiated", 0)
       \/ Trigger("PaymentChannelAddingFunds", 0)
    /\ UNCHANGED <<deal, vouched>>

WaitPaymentChannelReady ==
    /\ Running({"PaymentChannelCreating", "PaymentChannelAddingFunds"})
    /\ Fault("node", "PaymentChannelErrored") \/ Trigger("PaymentChannelReady", 0)
    /\ UNCHANGED <<deal, vouched>>

AllocateLane ==
    /\ Running({"PaymentChannelAllocatingLane"})
    /\ Fault("node", "AllocateLaneErrored") \/ Trigger("LaneAllocated", 0)
    /\ UNCHANGED <<deal, vouched>>

Ongoing ==
    /\ Running({"Ongoing"})
    /\ IF deal.paymentRequested > 0
         THEN Trigger(IF deal.lastPaymentRequested THEN "LastPaymentRequested"
                                                   ELSE "PaymentRequested", 0)
         ELSE Return
    /\ UNCHANGED <<deal, vouched>>

ProcessPaymentRequested ==
    /\ Running({"FundsNeeded", "FundsNeededLastPayment"})
    /\ IF \/ USub(deal.totalReceived, deal.bytesPaidFor) >= deal.currentInterval
          \/ deal.allBlocksReceived
         THEN Trigger("SendFunds", 0) ELSE Return
    /\ UNCHANGED <<deal, vouched>>

\* Mutants of TooMuchRequested: the bytes already paid for are not subtracted,
\* and the check is missing
TooMuchRequestedOverall == deal.paymentRequested > deal.totalReceived * PricePerByte
TooMuchRequestedNever == FALSE

\* "too much money requested for bytes sent".  The code converts the uint64
\* difference to int64, which undoes a wrap.
TooMuchRequested ==
    deal.paymentRequested > (deal.totalReceived - deal.bytesPaidFor) * PricePerByte

\* The node makes a voucher for all that was spent on the lane and this
\* request; it is sent, and only then PaymentSent is queued.
SendFunds ==
    /\ Running({"SendFunds", "SendFundsLastPayment"})
    /\ IF TooMuchRequested
         THEN Trigger("BadPaymentRequested", 0) /\ UNCHANGED vouched
         ELSE \/ Fault("node", "CreateVoucherFailed") /\ UNCHANGED vouched
              \/ Fault("shortfall", "VoucherShortfall") /\ UNCHANGED vouched
              \/ /\ vouched' = deal.fundsSpent + deal.paymentRequested
                 /\ \/ Fault("transfer", "WriteDealPaymentErrored")
                    \/ stage' = "sent" /\ UNCHANGED events
    /\ UNCHANGED deal

SendFundsDone == /\ stage = "sent" /\ Trigger("PaymentSent", 0)
                 /\ UNCHANGED <<deal, vouched>>

\* Mutant of CheckFunds: with a deposit outstanding it leaves the wait to others
CheckFundsReturning ==
    /\ Running({"CheckFunds"})
    /\ \/ deal.waitMsg /\ Return
       \/ /\ ~deal.waitMsg
          /\ \/ Fault("node", "PaymentChannelErrored")
             \/ Trigger("PaymentChannelReady", 0)
             \/ Trigger("PaymentChannelAddingFunds", 0)
             \/ Trigger("FundsExpended", 0)
    /\ UNCHANGED <<deal, vouched>>

\* An outstanding deposit is awaited; otherwise the channel's funds decide.
CheckFunds ==
    /\ Running({"CheckFunds"})
    /\ \/ Trigger("PaymentChannelAddingFunds", 0)
       \/ /\ ~deal.waitMsg
          /\ \/ Fault("node", "PaymentChannelErrored")
             \/ Trigger("PaymentChannelReady", 0)
             \/ Trigger("FundsExpended", 0)
    /\ UNCHANGED <<deal, vouched>>

ReAddFunds ==
    /\ Running({"InsufficientFunds"})
    /\ Fault("node", "PaymentChannelErrored") \/ Trigger("PaymentChannelAddingFunds", 0)
    /\ UNCHANGED <<deal, vouched>>

\* CloseDataTransferChannel
ClientCancelDeal ==
    /\ Running({"Failing", "Cancelling"})
    /\ Fault("transfer", "DataTransferError") \/ Trigger("CancelComplete", 0)
    /\ UNCHANGED <<deal, vouched>>

CheckComplete ==
    /\ Running({"CheckComplete"})
    /\ Trigger(IF deal.allBlocksReceived THEN "CompleteVerified" ELSE "EarlyTermination", 0)
    /\ UNCHANGED <<deal, vouched>>

RunHandler ==
    \/ ProposeDeal \/ ProposeDealDone \/ SetupPaymentChannelStart
    \/ WaitPaymentChannelReady \/ AllocateLane \/ Ongoing
    \/ ProcessPaymentRequested \/ SendFunds \/ SendFundsDone
    \/ CheckFunds \/ ReAddFunds \/ ClientCancelDeal \/ CheckComplete

\* Retrieve begins the deal and sends Open
ClientInit ==
    /\ deal = [status |-> "New", totalReceived |-> 0, bytesPaidFor |-> 0,
               currentInterval |-> PaymentInterval, paymentRequested |-> 0,
               fundsSpent |-> 0, lastPaymentRequested |-> FALSE,
               allBlocksReceived |-> FALSE, waitMsg |-> FALSE,
               payInfo |-> "nil"]
    /\ events = <<Ev("Open", 0)>>
    /\ stage = "idle"
    /\ vouched = 0

ClientNext == ProcessEvent \/ RunHandler
-----------------------------------------------------------------------------
(* What other parts post to the queue *)

\* clientEventForResponse: the event of a DealResponse with this status.
\* DealRejected is not an event of FsmClientEvents, so Send refuses it.
EventForResponse(status, owed) ==
    CASE status = "Rejected"               -> Ev("DealRejected", 0)
      [] status = "DealNotFound"           -> Ev("DealNotFound", 0)
      [] status = "Accepted"               -> Ev("DealAccepted", 0)
      [] status = "FundsNeededLastPayment" -> Ev("LastPaymentRequested", owed)
      [] status = "FundsNeeded"            -> Ev("PaymentRequested", owed)
      [] status = "Completed"              -> Ev("Complete", 0)
      [] OTHER                             -> Ev("UnknownResponseReceived", 0)
=============================================================================
