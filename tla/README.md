# A TLA+ model of the Myel retrieval market

The repository implements a paid file retrieval between two peers: `rtmkt/lib`
holds a retrieval client, a retrieval provider and a payment channel manager,
built on go-statemachine (`fsm`), go-data-transfer and graphsync; `oracle` holds
Solidity contracts that report on payment channels. This directory models the
retrieval market: how a client asks for terms and proposes a deal; the deal's
state machines at both sides, the provider's revalidator, and the two joined by
the data-transfer channel; and the payment channel manager that pays for it, from
the funding of a channel to the redemption of its vouchers.

## The system

| Part | Source | State | Operations | Interacts by |
|---|---|---|---|---|
| Client deal | `statemachine.go` 28-477 | `ClientDealState` per deal, a queue of events | 30 events, 13 handlers | handlers call the node and the transfer; the data-transfer subscriber and the user post events |
| Provider deal | `statemachine.go` 491-648 | `ProviderDealState` per deal, a queue of events | 14 events, 3 handlers | revalidator and subscriber post events; handlers track and untrack channels |
| Validation | `validators.go` 46-91 | none | `ValidatePull` | starts the provider's machine, lets the transfer begin |
| Revalidation | `validators.go` 101-331 | `trackedChannels` under an RWMutex | `Revalidate`, `OnPullDataSent`, `OnComplete`, `TrackChannel`, `UntrackChannel` | called by the transport and for vouchers; reads the machine with `GetSync`, posts events to it |
| Subscribers | `dtutils.go` | none | data-transfer event to deal event | channel to machine, at both sides |
| Client API | `client.go` | deals, the stored counter | `Retrieve`, `CancelDeal`, `TryRestartInsufficientFunds`, `Query` | posts events |
| Provider API | `provider.go`, `askstore.go` | the ask, in memory and stored | `SetAsk`, `GetAsk`, `Start`, `Stop`, `HandleQueryStream` | the query stream |
| Query streams | `network.go` | the receiver and the host's handler | `NewQueryStream` with retries, reads and writes, `SetDelegate`, `StopHandlingRequests` | libp2p streams |
| Payment channels | `paychmgr.go` | `ChannelInfo` in a store, request queues, locks per channel, message listeners | `getPaych`, `processQueue`, `createVoucher`, `addVoucher`, `submitVoucher`, `settle`, `RedeemAll` | called by the node adapter; waits for chain messages |
| Peer resolver | `discovery.go` | peers by content, in a datastore | `AddPeer`, `GetPeers` | |
| Oracle | `oracle/truffle` | commitments, withdrawable LINK | request, fulfil, cancel, withdraw | contract calls |
| Command line | `api`, `client`, `provider`, `filground` | | JSON-RPC, printing | subscribe to both machines |

What is hard here: a machine takes events only between handlers and *drops* an
event that has no transition from its status; answers, blocks and vouchers
travel in three streams that are not ordered with each other; the provider keeps
the count of bytes twice, in the machine and in the table, and copies one over
the other; the revalidator waits for the machine under a lock that the machine's
handlers take; and any call to the node, the store or the transfer may fail
between two steps. `PROJECT.json` lists these hazards at their lines, with the
properties that watch them.

What makes each part correct, in a sentence: the client never pays for what it
does not hold and its books agree with its vouchers; the provider never books
more than was vouched, never bills more than it sent, and does not send on past
an unpaid request; the table's entry outlives the calls that use it; the channel
manager answers every request for funds, keeps one message in flight per channel
and its books like the chain's, never promises more than a channel holds, and
submits each voucher once; a provider accepts terms it offered, and keeps deals
of different clients apart.

How the parts meet: `ClientDeal` sees the channel manager as the node's answers,
`SendFunds` being an arbitrary outcome of `CreateVoucher` and `GetPaych`;
`ProviderDeal` sees it as `saved`, the vouchers stored. `PaychFunds` and
`PaychVouchers` are what stands behind these answers. `Market` ends where a deal
is accepted, which is where `ProviderDeal` starts.

## The modules

* `ClientDeal` is the client's machine. Variables: `deal` (the fields of
  `ClientDealState` that handlers read), `events` (the fsm queue), `stage` (the
  handler that is running), `vouched` (the largest voucher the node made on the
  deal's lane). One action per event of `FsmClientEvents` and per handler of
  `ClientStateEntryFuncs`; the two handlers with a message to the provider are
  split at the message, so that the answer can overtake their closing `Trigger`.
  `FailDeal` and `ErrorDeal` gather the events whose only effect is the new
  status. `DropEvent` is the library's answer to an event without a transition.
* `ClientEnv` puts it among everything that posts to its queue: an arbitrary
  provider, the channel, the user. Nothing is assumed of the provider except
  that it asks for whole bytes.
* `ProviderDeal` is the provider's machine together with `validators.go`. `track`
  is the channel's entry in the table, `pull` and `reval` the calls that hold the
  read lock, `pstage = "locking"` a handler that waits for the write lock,
  `flow` the channel as data-transfer has it, `saved` the vouchers of the lane,
  `wire` the bytes sent, `notices` and `answers` what is under way to the machine
  and to the client. A call is one action when its data is current, and two with
  `GetSync` between them (`Report` and `FinishReport`, `Revalidate` and
  `FinishRevalidate`) when it must ask the machine first.
* `ProviderEnv` puts it under an arbitrary client.
* `Retrieval` EXTENDS `ProviderDeal`, INSTANCEs `ClientDeal` and adds the streams
  between them.
* `FairExchange` is the abstract specification: bytes sent and held, money paid
  and credited, and how the exchange ended. `Retrieval` implements it under the
  mapping in its definition of `X`.
* `PaychFunds` is the channel manager as the payer uses it: one outbound
  `channelAccessor` and its store. `call` is where each caller of `PaychGet` and
  `PaychGetWaitReady` stands, `queue` the slice `fundsReqQueue` and `arrays` the
  memory behind the slices, because `filterQueue` moves requests within an array
  that `append` and the earlier merges share. `step` is how far `processQueue`
  has come, which holds the lock; `chain` the messages the node accepted,
  `channels` and `messages` the store's records, `waits` the goroutines in
  `StateWaitMsg`. A section between `Lock` and `Unlock` is one action;
  `processQueue` is three (`StartProcessing`, `Merge`, `ProcessTask`), as `cancel`
  takes no lock and comes in between. `cancel` itself is two, as it makes the
  request inactive before it looks at the merge.
* `PaychVouchers` is one channel with a manager at either side: `info` is each
  side's `ChannelInfo`, `actor` the channel's actor, `mpool` the payee's messages
  in the order of their nonces. The payer's operations are one action each. The
  payee's lock one of two accessors, copy the record, call the chain and write
  the copy back (`Lock`, `Put`, `Unlock`); `AddVoucherInbound` uses the accessor
  from Target to Control, everything else the one from Control to Target, so
  that they interleave. `lost` remembers a write over a copy that was no longer
  current, `credited` the sum of what `AddVoucherInbound` returned.
* `Redemption` EXTENDS it with `RedeemAll`, `Settle` and `SubmitVoucher`: `redeem`
  holds the local variables, the WaitGroup's count among them.
* `Market` is everything before a deal: the ask store (`ask`, `stored`), the
  provider's `receiver` and `handler`, which `Start` and `Stop` assign one after
  the other, each call of `Query` with its stream and the provider's goroutine
  (`query`, `stream`, `serving`), and the deals proposed, whose ids come from a
  counter of each client. `handleNewQueryStream` is split between its check of the
  receiver and its call.
* `MCClient`, `MCProvider`, `MCRetrieval`, `MCFunds`, `MCVouchers` and `MCMarket`
  are the modules TLC runs.
* `ClientProofs`, `ProviderProofs`, `FundsProofs`, `VoucherProofs` and
  `MarketProofs` prove the invariants of `ClientEnv`, `ProviderEnv`, `PaychFunds`,
  `Redemption` and `Market`. `RetrievalProofs` proves those of `Retrieval`, and that
  it implements `FairExchange`. `FoldLemmas` has what they share about finite sets
  and sums over them; `ProviderSteps` what each step of the provider keeps, for
  `ProviderProofs` and `RetrievalProofs`.

A definition whose comment begins with "Mutant of" is a plausible mistake in the
definition after it. `PROJECT.json` pairs each property with a mutant that
violates it.

### What stands for what is outside the repository

The fsm library: one queue per deal; while a handler runs events only queue; an
event without a transition is logged and dropped; `To` and `ToNoChange` run the
handler of the resulting status, `ToJustRecord` does not; after a finality
status everything queued is dropped and a later `Send` fails; `GetSync` queues a
request of its own and returns when the machine reaches it. Data-transfer: a
nil error of `ValidatePull` starts the transfer, and `DealAccepted` is posted
separately; blocks flow at once; `ErrPause` pauses after the block it was
returned for and sends its result; any other error closes the channel at both
ends; a voucher that `Revalidate` accepts resumes a paused channel and completes
a finalizing one. Blocks keep their order and so do results, but not one
relative to the other. The repository keeps its datastore in a directory it
makes anew, so there is no restart to recover from and none is modelled.
A machine's notifications come one at a time, and so does the provider's
`RedeemAll`.

The chain, the way the manager uses it: a pushed message is executed in the order
of its sender's nonces and succeeds or fails; the estimate of its gas refuses one
that would fail now; `StateWaitMsg` returns the receipt, or an error that says
nothing of the message; the payment channel actor takes a voucher of a higher
nonce than its lane's that its balance covers, and is gone once collected. The
node may have taken a message although the push returned an error. The store
never fails, but for `SetAsk`'s `Put`. Sections under a Go mutex are atomic. A
stream may be reset at any time and delivers in order otherwise.

## What is checked

| Run | Question | Result |
|---|---|---|
| `client` | under any provider: pointers, byte and money books, no overpayment, payments and failing deals move on | holds |
| `provider` | under any client: credit bounded by vouchers, counts bounded by what was sent, table entries outlive calls, data flows on only when a voucher covers what the deal had counted, failing and completing deals end | holds |
| `retrieval` | both together: implement `FairExchange`, never ask twice, never resume unpaid, intervals agree, no wrap | holds |
| `funds` | callers that ask for funds at once, give up and wait for messages: books like the chain's, no channel reported ready that is not funded, no request lost from the queue, one message at a time, every request answered, every wait ended | holds |
| `vouchers` | vouchers created, added in any order, redeemed, while the payee's two accessors overwrite each other: credit equals vouchers held, vouchers within the balance, newer ones valid at both sides, submitted once and in order, `RedeemAll` waits and ends | holds |
| `market` | two clients query and propose while asks change and the provider starts, stops or crashes: accepted terms stood while the client asked, deals do not collide, queries end | holds |
| `early_termination` | `EarlyTermination` means data is missing (clientevents.go:98-99) | violated |
| `bad_payment` | `BadPaymentRequested` means too much was asked (clientevents.go:76-77) | violated |
| `last_payment` | the deal is in `FundsNeededLastPayment` when the last payment is awaited (dealstatus.go:48-50) | violated |
| `lock_held` | `OnPullDataSent` returns (validators.go:243-246) | violated |
| `waiting_requests` | requests that wait behind a failed one are still attempted (paychmgr.go:628-629) | violated |
| `redeem_again` | `RedeemAll` survives a `Settle` that fails (paychmgr.go:233-234) | violated |

The first four violations need no failing call. `early_termination`: the answer
`Completed` overtakes the end of the transfer. `bad_payment`: the machine drops
`BlocksReceived` in `SendFunds`, and the request for those bytes looks too high.
`last_payment`: `OnComplete` posts `BlocksCompleted` before `PaymentRequested`,
so the machine drops the request and then the payment; the client then waits in
`Finalizing`. `lock_held`: `OnPullDataSent` holds the read lock and waits for the
machine, whose `TrackTransfer` waits for the write lock. `waiting_requests`: when
`StateWaitMsg` returns an error the `ChannelInfo` keeps its pending message, and
`processTask` holds everything back for it from then on. `redeem_again`: the
channel is settled since the deal before, so `Settle` fails, and the goroutine
that waits for the undefined cid dereferences a nil lookup.

Some of the new properties hold under a condition, each of which names a flaw
that is among the behaviours:

* `RequestsAreAnswered` excepts the state `Stuck` that `waiting_requests` reaches,
  and the crash of `checkActive` on a slot that `filterQueue` has set to nil.
* `CreditedIsHeld` and `SubmittedInOrder` except runs in which an accessor of the
  payee wrote over the other's change (`lost`): a voucher, or its mark of
  submission, is then gone.
* `RedeemAllEnds` excepts a voucher that was passed over (`skipped`): its
  `continue` leaves out the `Done`, and `wg.Wait` does not return.
* `QueryEnds` is about a payload that is at the provider. For another one
  `GetSize` looks in the network without a deadline, and `Query` waits as long.
* `AcceptedTermsStood` is about a user that proposes the answer's terms or better
  ones, as the comment of `Retrieve` asks. Nothing else keeps the terms: the
  provider's check has no effect, although its comment says to "reject outright".

### Bounds

A payload of two or three bytes with an interval of one takes two or three
payments, the last one of them after the end of the data: every cycle of the
machines is taken and repeated. Blocks of one and of two bytes meet the growing
interval exactly and overshoot it. A price of 2 distinguishes money from bytes.
`Word` is far above every count, so that a wrapped difference cannot be mistaken
for a small one. In `client`, `MaxPosts = 3` bounds what others may send and
`MaxQueue = 3` the queue at which they wait; three posts are enough for two
requests and a cancel, or for a request, an early completion and a recheck. In
`provider`, three vouchers of up to three units include a repeated, an early, an
excessive and an insufficient one; the interval does not grow there, so that an
old voucher can come again between two requests. In `retrieval` the streams need
no bound, as each is fed by a bounded payload; `MaxCancels = 1`.

In `funds`, two callers ask for different amounts: they can be merged, one can
cancel before, during or after the merge, and the second can find no channel, one
with a message under way, a confirmed or a settling one (`MaxSettles = 1`). With a
third, which asks for nothing, the safety properties were checked as well
(`Three`, 3.2 million states); it is no run of its own. In `vouchers`, two lanes
and vouchers of 1 and 2 over a balance of 2 that may grow to 3 make a voucher that
replaces another, one in another lane, and one the channel cannot cover. Two
vouchers and two calls of `RedeemAll` allow an added voucher between listing and
submitting, and a second round after settling. `collect` is called once. In
`market`, two calls by two nodes, a cheap ask and a dear one,
two attempts to open a stream, two deals a call and one `Stop` cover each pair of
races; `MCMarket` has the constants of a third call by the same node, too.

Deadlock is not checked: a deal waits for good when the other side is silent, and
where the findings say so.

### Fairness

The fsm library always takes the next event and a handler's calls return, with a
result or an error: weak fairness of the client's steps in `ClientEnv`, of the
provider's in `ProviderEnv`. Nothing is promised of the other side there. In
`Retrieval` both are fair and the network delivers. No liveness is claimed for a
whole retrieval: the findings show that it may stop. What is claimed is that a
payment under way leaves each of its statuses (`PaymentMovesOn`) and that a deal
that fails, is cancelled or completes reaches a finality status (`WindsUp` of
both sides).

In `PaychFunds` goroutines run and a caller that got a message waits for it (weak
fairness), and a mutex is given to each goroutine that asks for it again and again
(strong fairness: Go's mutexes hand themselves to a waiter that starves). The chain
executes or fails what it was sent. Nothing is fair about callers that ask, cancel
or settle. `Redemption` assumes the same of `RedeemAll`, and that operations end.
In `Market` a call of `Query` and the provider's goroutine for its stream go on;
`Start`, `Stop`, `AddFile` and proposals need never happen.

## What is proved

`ClientProofs` proves the five invariants of the `client` run for every price,
interval, increase, payload and bound, with TLAPS. The assumptions are
`ClientDealAssumption` (the price is a positive integer; the rest naturals) and
`ClientEnvAssumption`.

* `TypeCorrect` and `PointersSafe` (`NoNilDereference`). The latter needs to know
  which events can be queued in which status: `PaymentInfo` and `WaitMsgCID` are
  set by the event that leads to the status whose handler reads them.
* `PaidBytesSafe`, `BooksAgree` and `NoOverpayment` share the inductive invariant
  `Books`. On their own they are not inductive, for three reasons. A queued
  `BlocksReceived` must not carry more than the channel received, nor less than
  the deal counted (`CountsInv`). Requests are sums of whole bytes' prices, so
  that `paymentRequested \div PricePerByte` loses nothing (`UnitsInv`). And
  between the voucher and `PaymentSent` nothing else may change
  `paymentRequested`, of which there is at most one in the queue and only in
  `SendFunds` or after a failure (`PaymentInv`).

Each of the inductive steps has one case per action of `ClientNext` and per post
of the environment; the lemmas on queues (what `Append` and `Tail` keep) come
first in the module.

`MarketProofs` proves the three invariants of the `market` run for every set of
calls, nodes, asks and faults, from `MarketAssumption` (asks are records of
naturals, the default is one of them, bounds are naturals).

* `TypeCorrect` needs to know that a call that reads or writes, and a goroutine
  that serves one, has a stream (`StreamsInv`).
* `TermsStood` (`AcceptedTermsStood`) follows an ask along its way: memory and
  datastore agree and the stored ask stood (`AskInv`), then so do the one the
  goroutine took, the one in the stream, the answer, and the terms of every
  proposal made with it (`ServingInv`, `StreamInv`, `AnswerInv`,
  `ProposedStood`). A goroutine whose client has given up may hold any ask: its
  answer is never read.
* `NoCollision` (`DealsDoNotCollide`) rests on the counters: ids are below their
  node's, so that identifiers are unique (`CountedInv`, `IdentifierInv`).

`ProviderProofs` proves the five invariants and the action property of the
`provider` run for every price, interval, payload, set of block sizes, and number
and amount of vouchers, from `ProviderDealAssumption` and `ProviderEnvAssumption`
(the price is positive, blocks are not empty, the rest are naturals). All follow
from one inductive invariant, `ProviderInv`, which the steps of `ProviderDeal` keep
(`ProviderSteps`) under any client that queues what fits:

* `QueueInv`: what a queued event says is so for as long as it is queued (`Fits`):
  a count is of bytes that were sent, a payment fits under the best voucher, an
  event of `GetSync` has its caller waiting. It is kept because some events are
  never queued together (`Clash`): no two payments, and no payment behind
  Revalidate's `GetSync`. So a payment's amount, computed from the state that
  `GetSync` returned, is still right when it is booked, which is
  `CreditedWasVouched`.
* `CreditInv`, `SentInv`: the states that the calls took with `GetSync` and have
  not used yet: the money in Revalidate's is the deal's, the bytes in the
  transport's were sent.
* `StageInv`, `EndInv`, `NoticeInv`: a deal is tracked between its beginning and
  its end only, and whatever makes it complete came after the last byte.
  `CompletedIsSettled` and `CalledIsTracked` follow.

`SeenIsPaid` replaced a stronger property, that a voucher covers all the bytes of
the *table's* entry whenever data flows on. That one holds on the small instance
and is not true in general: `Revalidate` decides by the machine's count, of which
the table's may be ahead or, after a late `TrackTransfer`, behind.

`FundsProofs` proves the five invariants of the `funds` run for every finite set
of requests, amounts and bounds (`FundsAssumption`). The inductive invariant
`FundsInv` has a part for the store and one for the callers:

* `StoreInv`: a message is for a channel that it, or an earlier message, creates
  (`ToInv`); a channel has an address unless its creation is pending
  (`ChannelInv`); a message that is not executed or not booked is the pending one
  of its channel (`PendingInv`); and one that was waited for with success is booked
  (`BookedInv`). Hence `BooksMatchChain` and `OneMessageAtATime`.
* `CallInv`: the slice in use holds requests, each once, and everyone who waits
  (`QueueInv`), through `append`, merge and the in-place filter; a message is worth
  at least what those asked for who were answered with it (`QueueWorth`,
  `MessageWorth`). With `AnsweredInv` and the store this gives `ReadyIsFunded`.

`VoucherProofs` proves the seven invariants of the `vouchers` run for any number
of lanes, vouchers, amounts and deals (`VouchersAssumption`,
`RedemptionAssumption`, and `NullAssumption`: what stands for nil is no record).
`VoucherInv` follows a voucher from the payer, in whose record amounts rise with
nonces (`PayerInv`), to the payee's copies, calls and messages (`MadeInv`).

* `RedeemedWithinBalance` compares sums over lanes: the payer's best vouchers are
  covered, and the payee's are among the payer's.
* `NewerIsValid` needs the funds that were read from the chain *before* the
  payee's record changed: `AddInv` keeps a set of the payer's vouchers that holds
  everything the payee may know and fits into the balance that was read.
* `CreditedIsHeld` and `SubmittedInOrder` rest on `KeptInv`: while no write was
  lost the payee's record has every voucher that was in it.
* `RedeemAllWaits` rests on `WaitInv`, which counts what the WaitGroup counts.

What a sum over a set is could not be proved by the library's induction on finite
sets, whose theorems take an operator as a parameter. `FoldLemmas` argues by a
smallest counterexample instead, which needs only that a set of naturals has a
least element.

`RetrievalProofs` proves the properties of the `retrieval` run for any payload,
price, intervals, block sizes, faults and cancellations, from
`ProviderDealAssumption` and `ClientDealAssumption`. The inductive invariant is
`Joint`, which TLC checked before it was proved; it has three parts.

* `ProviderSide` is `ProviderInv` with what is so when the client at the other end
  is this one: which events may not stand behind which in the provider's queue
  (`PQueueInv`), that the deal counts blocks as long as any can be reported
  (`LiveInv`), and that no more is booked than the bytes counted are worth
  (`PaidInv`, hence `PaidForWasSent`).
* `ClientInv`: at most one voucher is made that the deal does not know of yet
  (`PaymentInv`), nothing is counted that did not arrive (`BytesInv`), the blocks
  under way lead from what the client has to what was sent (`ChannelInv`), and a
  request for payment is in one place at a time: among the answers, in the
  client's queue or in its deal (`OneInv`).
* `Turns` says whose turn it is. Vouchers on their way rise above the best one
  stored (`OrderInv`). In `Ongoing` and `FundsNeeded` all that was asked for is
  vouched for and booked (`EvenTurn`), or the price of a number of bytes is asked
  for and perhaps vouched for (`AskedTurn`), or a voucher is stored and not yet
  booked (`PaidTurn`); and the intervals of both sides go with the turn. What
  Revalidate read with `GetSync` is still so when it decides (`SnapInv`), because
  nothing that changes it can be queued behind that call.

`IntervalsAgree` is `EvenTurn` seen between payments. `NeverAsksTwice` needs that
what the table says is paid for is what the best voucher pays for whenever a
report is counted; `ResumesPaid` that the voucher which resumes the channel is the
last one under way. `RetrievalIsFair` maps each step to a step of `FairExchange` or
a stutter. Beyond `Joint` it needs `EndingInv`: the provider ends by asking for a
last payment or by saying that it completed, never both, and says neither before
the transfer has ended (`OneEnd`). A client that completes therefore did so through
`CheckComplete`, after `AllBlocksReceived`, with the whole payload (`AllHere`).

Only model-checked: liveness (`PaymentMovesOn`, `WindsUp` at both sides,
`RequestsAreAnswered`, `WaitsEnd`, `RedeemAllEnds`, `QueryEnds`), which is beyond
the prover.

## What is not modelled, and why

* Wording, logging, encoding, and the two store configurers: no property is about
  them.
* `UnknownResponseReceived`: its only sender passes no argument where the action
  takes one, so that the library refuses it.
* `UnpauseDeal`: no entry table names it. `DealDecider`: nothing sets it.
* A response of `DealRejected` reaches the client's `Send` and is refused there,
  as `FsmClientEvents` has no such event; the models have it so.
* Several deals at once: deals share the table's lock only, and the lock's
  waiting is modelled for one channel. `Market` has several deals up to their
  acceptance, `PaychFunds` and `PaychVouchers` several requests and lanes of the
  channel that deals share.
* The manager's table of accessors, its read-write lock and the lookup of a key:
  one accessor is modelled for the payer, and two for the payee.
* Merged lanes, secrets and time locks of vouchers: nothing here makes such ones.
* The peer resolver (`discovery.go`): `AddPeer` and `FindProviders` have no caller.
* `ipfs.go`, `spawn.go`, `datatransfer.go`: wiring, without a protocol of their
  own. `api`, `client`, `provider`, `filground`: input and output around the
  library; what they call is modelled.
* The generated CBOR encoders, and everything under `oracle`: Chainlink's
  contracts, a contract of 95 lines that sends one request, and bindings, none of
  which the Go program calls.

## The plan

Done: all the modules above, and the proofs of every invariant, action property
and refinement that the `client`, `provider`, `retrieval`, `funds`, `vouchers` and
`market` runs check. What is left:

1. Liveness. The prover reaches neither fairness nor ENABLED, so the leads-to
   properties stay with TLC. The safety part of each, that no step but the
   expected one leaves a status, could be stated and proved.
2. The three hazards without a property: `AllBlocksReceived` applied in `Ongoing`,
   the acceptance applied before `DealProposed`, and the subscriber that blocks the
   notifier. `PROJECT.json` says of each why no property covers it.
3. `RetrievalProofs` is the longest module; its lemmas about turns could be shared
   with proofs about a client that pays otherwise.
