----------------------------- MODULE ClientEnv ------------------------------
(***************************************************************************)
(* The client's deal among everything that posts events to it: a provider  *)
(* that answers with any response at any time, the data-transfer channel,  *)
(* and the user of the client.  Nothing is assumed of the provider but     *)
(* that it bills whole bytes (validators.go multiplies a byte count by the *)
(* price); Retrieval puts the provider of this repository in its place.    *)
(***************************************************************************)
EXTENDS ClientDeal

CONSTANTS FileSize,   \* bytes of the payload
          MaxPosts,   \* bound on responses, cancels and user calls
          MaxQueue    \* bound on the queue at which the others stop posting

ASSUME ClientEnvAssumption == FileSize \in Nat /\ MaxPosts \in Nat /\ MaxQueue \in Nat

VARIABLES received,   \* channelState.Received(), the bytes the channel counted
          finished,   \* the transfer has finished at the client
          posts       \* how many of MaxPosts were used

vars == <<deal, events, stage, vouched, received, finished, posts>>
-----------------------------------------------------------------------------
\* OpenPullDataChannel was called: the channel exists and the provider can act
ChannelOpen == \/ stage = "opened" \/ deal.status # "New"
               \/ \E i \in 1..Len(events) : events[i].name = "DealProposed"

Post(e) == /\ Len(events) < MaxQueue
           /\ Send(e) /\ UNCHANGED <<deal, stage, vouched>>
Count == posts < MaxPosts /\ posts' = posts + 1

\* datatransfer.Progress carries the channel's total
Progress == /\ ChannelOpen /\ ~finished
            /\ received' \in (received + 1)..FileSize
            /\ Post(Ev("BlocksReceived", received'))
            /\ UNCHANGED <<finished, posts>>

FinishTransfer == /\ ChannelOpen /\ ~finished /\ received = FileSize
                  /\ finished' = TRUE
                  /\ Post(Ev("AllBlocksReceived", 0))
                  /\ UNCHANGED <<received, posts>>

\* datatransfer.NewVoucherResult with a DealResponse.  One that asks for funds
\* asks for some bytes' price.  Any other status ends as Rejected does: Send
\* refuses its event.
NewVoucherResult ==
    /\ ChannelOpen /\ Count
    /\ \E status \in {"Rejected", "DealNotFound", "Accepted", "Completed",
                      "FundsNeeded", "FundsNeededLastPayment"}, bytes \in 1..FileSize :
            Post(EventForResponse(status, bytes * PricePerByte))
    /\ UNCHANGED <<received, finished>>

\* datatransfer.Cancel and datatransfer.Error
TransferEnds ==
    /\ ChannelOpen /\ Count
    /\ \/ Post(Ev("ProviderCancelled", 0))
       \/ "transfer" \in Faults /\ Post(Ev("DataTransferError", 0))
    /\ UNCHANGED <<received, finished>>

CancelDeal == /\ Count /\ Post(Ev("Cancel", 0))
              /\ UNCHANGED <<received, finished>>

\* Lists the deals, then sends to those that were short of funds
TryRestartInsufficientFunds ==
    /\ deal.status = "InsufficientFunds"
    /\ Count /\ Post(Ev("RecheckFunds", 0))
    /\ UNCHANGED <<received, finished>>

Client == ClientNext /\ UNCHANGED <<received, finished, posts>>

Environment == \/ Progress \/ FinishTransfer \/ NewVoucherResult \/ TransferEnds
               \/ CancelDeal \/ TryRestartInsufficientFunds

Init == ClientInit /\ received = 0 /\ finished = FALSE /\ posts = 0
Next == Client \/ Environment

\* The library always takes the next event and every handler returns: its
\* calls end with a result or an error.  Nothing is promised of the others.
Fairness == WF_vars(Client)
Spec == Init /\ [][Next]_vars /\ Fairness
-----------------------------------------------------------------------------
(* Properties *)

\* The shape of the deal, its queue and its environment.
TypeOK == /\ deal \in ClientDealState
          /\ events \in Seq(Event)
          /\ stage \in Stages
          /\ vouched \in Nat
          /\ received \in 0..FileSize
          /\ finished \in BOOLEAN
          /\ posts \in 0..MaxPosts

\* No handler dereferences a nil pointer: WaitPaymentChannelReady reads
\* *deal.WaitMsgCID, AllocateLane, SendFunds and CheckFunds read
\* deal.PaymentInfo, and the action of LaneAllocated writes through it,
\* whatever was recorded or dropped on the way there.
NoNilDereference ==
    /\ deal.status \in {"PaymentChannelCreating", "PaymentChannelAddingFunds"} => deal.waitMsg
    /\ deal.status \in {"PaymentChannelAllocatingLane", "PaymentChannelAddingFunds",
                        "CheckFunds", "InsufficientFunds"} => deal.payInfo # "nil"
    /\ deal.status \in {"SendFunds", "SendFundsLastPayment"} => deal.payInfo = "lane"

\* The uint64 subtractions TotalReceived - BytesPaidFor never wrap, and the
\* deal never counts more bytes than the channel received: a payment is only
\* ever for bytes that are here.
PaidBytesAreHere == deal.bytesPaidFor <= deal.totalReceived /\ deal.totalReceived <= received

Sunk == {"Failing", "Cancelling", "Errored", "Cancelled"}

\* A voucher was made and the deal does not know yet
PaymentPending ==
    \/ stage = "sent"
    \/ \E i \in 1..Len(events) :
            events[i].name \in {"PaymentSent", "WriteDealPaymentErrored"}

\* The deal's books agree with the vouchers in the provider's hands: FundsSpent
\* is what was vouched, but for the request a voucher was just made for.  A
\* request that reached the deal between the voucher and PaymentSent, or a
\* PaymentSent that was dropped or applied twice, would break it.
VouchersAccountedFor ==
    deal.status \notin Sunk =>
        vouched = deal.fundsSpent + IF PaymentPending THEN deal.paymentRequested ELSE 0

\* Whatever the provider asks and however its responses, the data and the
\* client's own events interleave, the vouchers never exceed the price of the
\* bytes the client holds.
NeverOverpays == vouched <= PricePerByte * received

\* A payment under way is never stranded: from the voucher through a shortfall,
\* the look at the channel's funds and the wait for a deposit, each status is
\* left again, whatever event was recorded or dropped meanwhile.
PaymentStatuses == {"SendFunds", "SendFundsLastPayment", "CheckFunds",
                    "PaymentChannelAddingFunds"}
PaymentMovesOn == \A s \in PaymentStatuses : deal.status = s ~> deal.status # s

\* A deal that is failing or was cancelled reaches a finality status
WindsUp == deal.status \in {"Failing", "Cancelling"} ~> stage = "terminated"
=============================================================================
