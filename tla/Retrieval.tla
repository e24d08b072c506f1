----------------------------- MODULE Retrieval ------------------------------
(***************************************************************************)
(* One deal between this client and this provider: ClientDeal and          *)
(* ProviderDeal joined by the data-transfer channel.  Three streams run    *)
(* between them, each in order and none ordered with another: the blocks,  *)
(* the voucher results, and the vouchers.                                  *)
(***************************************************************************)
EXTENDS ProviderDeal

CONSTANTS Faults,      \* the client's calls that may fail
          MaxCancels   \* bound on the user's cancels

VARIABLES deal, events, stage, vouched,  \* the client's, see ClientDeal
          proposed,   \* the client sent its proposal
          transit,    \* sizes of the blocks on their way
          received,   \* bytes the client's channel counted
          finished,   \* the client saw the transfer finish
          payments,   \* amounts of the vouchers on their way
          leaving,    \* the client closed the channel and the provider does not know
          cancels

C == INSTANCE ClientDeal

clientSide == <<deal, events, stage, vouched>>
channel == <<proposed, transit, received, finished, payments, leaving, cancels>>
vars == <<providerVars, clientSide, channel>>
-----------------------------------------------------------------------------
\* A step of the client's machine, with the proposal or voucher it sends or the
\* channel it closes.
Closes == /\ stage = "handler" /\ deal.status \in {"Failing", "Cancelling"}
          /\ events' = Append(events, C!Ev("CancelComplete", 0))
ClientStep ==
    /\ C!ClientNext
    /\ payments' = IF stage' = "sent" THEN Append(payments, vouched') ELSE payments
    /\ proposed' = (proposed \/ stage' = "opened")
    /\ leaving' = (leaving \/ Closes)
    /\ UNCHANGED <<transit, received, finished, cancels>> /\ UNCHANGED providerVars

\* A step of the provider, with the block it sends
ProviderStep ==
    /\ ProviderNext
    /\ transit' = IF wire' > wire THEN Append(transit, wire' - wire) ELSE transit
    /\ UNCHANGED <<proposed, received, finished, payments, leaving, cancels>>
    /\ UNCHANGED clientSide

\* The proposal reaches the provider
ReceiveProposal == /\ proposed /\ ~leaving /\ ValidatePull
                   /\ UNCHANGED clientSide /\ UNCHANGED channel

ReceivePayment == /\ payments # <<>>
                  /\ IF ChannelIsOpen THEN Revalidate(Head(payments)) ELSE UNCHANGED providerVars
                  /\ payments' = Tail(payments)
                  /\ UNCHANGED <<proposed, transit, received, finished, leaving, cancels>>
                  /\ UNCHANGED clientSide

\* The client's close reaches the provider
ReceiveCancel == /\ leaving /\ ChannelEnds("ClientCancelled")
                 /\ UNCHANGED clientSide /\ UNCHANGED channel

\* An event for the client's machine
Post(e) == C!Send(e) /\ UNCHANGED <<deal, stage, vouched>>

ReceiveBlock == /\ transit # <<>> /\ ~leaving
                /\ received' = received + Head(transit)
                /\ transit' = Tail(transit)
                /\ Post(C!Ev("BlocksReceived", received'))
                /\ UNCHANGED <<proposed, finished, payments, leaving, cancels>>
                /\ UNCHANGED providerVars

\* The response ended: all is here, and the last block was not paused on
FinishTransfer == /\ received = FileSize /\ ~finished /\ ~leaving
                  /\ flow \notin {"paused", "closed"}
                  /\ finished' = TRUE
                  /\ Post(C!Ev("AllBlocksReceived", 0))
                  /\ UNCHANGED <<proposed, transit, received, payments, leaving, cancels>>
                  /\ UNCHANGED providerVars

\* What the provider's answer becomes at the client
EventFor(a) == CASE a.status = "Cancel" -> C!Ev("ProviderCancelled", 0)
                 [] a.status = "Error" -> C!Ev("DataTransferError", 0)
                 [] OTHER -> C!EventForResponse(a.status, a.owed)

ReceiveAnswer == /\ answers # <<>> /\ ~leaving
                 /\ Post(EventFor(Head(answers)))
                 /\ answers' = Tail(answers)
                 /\ UNCHANGED <<pdeal, pevents, pstage, track, pull, reval, saved, flow, wire, notices>>
                 /\ UNCHANGED channel

CancelDealByUser == /\ cancels < MaxCancels /\ cancels' = cancels + 1
                    /\ Post(C!Ev("Cancel", 0))
                    /\ UNCHANGED <<proposed, transit, received, finished, payments, leaving>>
                    /\ UNCHANGED providerVars

Network == \/ ReceiveProposal \/ ReceivePayment \/ ReceiveCancel
           \/ ReceiveBlock \/ FinishTransfer \/ ReceiveAnswer

Init == /\ ProviderInit /\ C!ClientInit
        /\ proposed = FALSE /\ transit = <<>> /\ received = 0 /\ finished = FALSE
        /\ payments = <<>> /\ leaving = FALSE /\ cancels = 0
Next == ClientStep \/ ProviderStep \/ Network \/ CancelDealByUser

Spec == Init /\ [][Next]_vars
        /\ WF_vars(ClientStep) /\ WF_vars(ProviderStep) /\ WF_vars(Network)
-----------------------------------------------------------------------------
(* Properties *)

\* The shape of both deals and of the channel between them.
TypeOK ==
    /\ deal \in C!ClientDealState /\ events \in Seq(C!Event) /\ stage \in C!Stages
    /\ pdeal \in ProviderDealState /\ pevents \in Seq(PEvent) /\ pstage \in PStages
    /\ track \subseteq ChannelData /\ flow \in Flows
    /\ wire \in 0..FileSize /\ received \in 0..wire
    /\ payments \in Seq(Nat) /\ finished \in BOOLEAN

\* How the deal ended for the client
Ended == CASE deal.status = "Completed" -> "completed"
           [] deal.status \in C!Final \ {"Completed"} -> "aborted"
           [] OTHER -> "open"

X == INSTANCE FairExchange WITH
        Price <- PricePerByte, Size <- FileSize,
        sent <- wire, held <- received, paid <- vouched,
        credited <- pdeal.fundsReceived, end <- Ended

\* Through every interleaving of the two machines, the blocks, the answers and
\* the vouchers, and every failure of a call, the deal is a fair exchange: the
\* client never vouches for bytes it does not hold, the provider never books
\* more than was vouched or takes back what it booked, and the client's deal is
\* Completed only with the whole payload, and pays nothing after it ended.
FairExchange == X!Spec

Asks(a) == a.status \in {"FundsNeeded", "FundsNeededLastPayment"}

\* OnPullDataSent and OnComplete work with the table's copy of the deal, which
\* lags behind the machine's.  Still they never ask again for what a stored
\* voucher already covers, nor for a byte that was not sent.
NeverAsksTwice ==
    [][Len(answers') > Len(answers) /\ Asks(answers'[Len(answers')])
         => answers'[Len(answers')].owed <= PricePerByte * wire' - Best]_vars

\* The uint64 difference totalSent - totalPaidFor of the table never wraps,
\* though TrackTransfer writes an older totalSent over a newer one.
PaidForWasSent == \A c \in track : c.totalPaidFor <= c.totalSent

\* A paused channel goes on only when a stored voucher covers all the bytes
\* counted on it.  Revalidate decides with what GetSync returned before it.
ResumesPaid == [][flow = "paused" /\ flow' = "running" =>
                    \A c \in track : Best' >= PricePerByte * c.totalSent]_vars

\* Nothing is being done or under way for the machines
Quiet == /\ events = <<>> /\ pevents = <<>> /\ stage = "idle" /\ pstage = "idle"
         /\ payments = <<>> /\ answers = <<>>

\* Each side raises the payment interval by rules of its own: the client when a
\* payment was for at least the interval, the provider at every payment it
\* booked.  Between payments they agree.
IntervalsAgree == Quiet /\ deal.status = "Ongoing" /\ pdeal.status = "Ongoing"
                    => deal.currentInterval = pdeal.currentInterval
-----------------------------------------------------------------------------
(* What comments say of the program, and the program does not do *)

Posted(name) == \E i \in 1..Len(events) : events[i].name = name

\* "EarlyTermination indications a provider send a deal complete without
\* sending all data" (clientevents.go:98-99).  CheckComplete posts it also when
\* the provider's answer overtook the end of the transfer.
EarlyMeansUnsent == Posted("EarlyTermination") => wire < FileSize

\* "BadPaymentRequested indicates the provider asked for funds in a way that
\* does not match the terms of the deal" (clientevents.go:76-77).  SendFunds
\* posts it for a request within the price of the unpaid bytes too, when the
\* count of these bytes was dropped by the machine.
BadMeansTooMuch == Posted("BadPaymentRequested")
                     => deal.paymentRequested > PricePerByte * wire - vouched

\* "FundsNeededLastPayment indicates the provider needs a payment voucher in
\* order to complete a deal" (dealstatus.go:48-50).  OnComplete asks for that
\* voucher, but queues BlocksCompleted first, and the deal never gets there.
LastPaymentIsNeeded == flow = "finalizing" /\ Quiet
                         => pdeal.status = "FundsNeededLastPayment"

\* OnPullDataSent "should return a VoucherResult + ErrPause to request
\* revalidation or nil to continue uninterrupted, other errors will terminate
\* the request" (validators.go:243-246): whichever it is, it returns.
ReportsReturn == pull.pc = "waiting" ~> pull.pc = "idle"
=============================================================================
