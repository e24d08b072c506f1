---------------------------- MODULE ProviderDeal ----------------------------
(***************************************************************************)
(* The retrieval provider's side of one deal: the state machine of         *)
(* FsmProviderEvents, the revalidator of validators.go with its table of   *)
(* tracked channels under a read-write lock, and as much of the            *)
(* data-transfer library as calls them.                                    *)
(*                                                                         *)
(* Three activities run at once: the machine (one event or one handler at  *)
(* a time), the transport, which reports every block and the end of the    *)
(* payload to OnPullDataSent and OnComplete, and the arrival of vouchers,  *)
(* which Revalidate checks.  The last two hold the table's read lock for   *)
(* the whole call, also while GetSync waits for the machine; TrackTransfer *)
(* and UntrackTransfer, which the machine's handlers call, take the write  *)
(* lock, and a waiting writer keeps new readers out.                       *)
(***************************************************************************)
EXTENDS Integers, Sequences, FiniteSets

CONSTANTS PricePerByte, PaymentInterval, PaymentIntervalIncrease,
          FileSize,        \* bytes of the payload
          BlockSizes,      \* the sizes a block may have
          Word,            \* 2^64
          ProviderFaults   \* which calls may fail: see ProviderFaultKinds

\* node: the chain head or the voucher's check; store: the multistore;
\* transfer: closing the channel
ProviderFaultKinds == {"node", "store", "transfer"}

ASSUME ProviderDealAssumption ==
    /\ PricePerByte \in Nat \ {0}
    /\ PaymentInterval \in Nat /\ PaymentIntervalIncrease \in Nat
    /\ FileSize \in Nat /\ BlockSizes \subseteq Nat \ {0} /\ Word \in Nat \ {0}
    /\ ProviderFaults \subseteq ProviderFaultKinds

VARIABLES pdeal,    \* the ProviderDealState record
          pevents,  \* the events queued for the deal's machine
          pstage,   \* what the machine is doing: see PStages
          track,    \* trackedChannels[channelID], a set of at most one record
          pull,     \* the transport's call of OnPullDataSent or OnComplete
          reval,    \* the call of Revalidate
          saved,    \* the amounts of the vouchers stored for the lane
          flow,     \* data-transfer's status of the channel: see Flows
          wire,     \* bytes handed to the transport
          notices,  \* data-transfer events on their way to the machine
          answers   \* what is on its way to the client, in order

providerVars == <<pdeal, pevents, pstage, track, pull, reval, saved, flow, wire, notices, answers>>
-----------------------------------------------------------------------------
(* Shapes *)

PLive == {"New", "Ongoing", "FundsNeeded", "FundsNeededLastPayment", "BlocksComplete",
          "Finalizing", "Completing", "Failing"}
PFinal == {"Errored", "Completed", "Cancelled"}

\* Statuses with an entry in ProviderStateEntryFuncs
PHasHandler == {"Ongoing", "Failing", "Completing"}

\* "none" before BeginTracking; "locking" while a handler waits for the table
PStages == {"none", "idle", "handler", "locking", "terminated"}

\* For each event of FsmProviderEvents, the statuses it has a transition from
PSources ==
    [ Open                   |-> {"New"},
      DealAccepted           |-> {"New"},
      BlockSent              |-> {"Ongoing"},
      BlocksCompleted        |-> {"Ongoing"},
      PaymentRequested       |-> {"Ongoing"},
      SaveVoucherFailed      |-> {"FundsNeeded", "FundsNeededLastPayment"},
      PartialPaymentReceived |-> {"FundsNeeded", "FundsNeededLastPayment"},
      PaymentReceived        |-> {"FundsNeeded", "FundsNeededLastPayment"},
      Complete               |-> {"BlocksComplete", "Finalizing"},
      CleanupComplete        |-> {"Completing"},
      CancelComplete         |-> {"Failing"},
      DataTransferError      |-> PLive,
      MultiStoreError        |-> PLive,
      ClientCancelled        |-> PLive ]

PEventNames == DOMAIN PSources

\* GetSync queues an event of its own that only asks for the state
Syncs == {"SyncPull", "SyncReval"}

PEvent == [name : PEventNames \cup Syncs, n : Int]
PEv(name, n) == [name |-> name, n |-> n]

ProviderDealState == [status : PLive \cup PFinal, totalSent : Nat, fundsReceived : Int,
                      currentInterval : Nat]

ChannelData == [totalSent : Nat, totalPaidFor : Nat, interval : Nat, reload : BOOLEAN]

\* A call that holds the read lock waits for GetSync, then has its answer.
\* op and n are its arguments.
CallStates == {"idle", "waiting", "answered"}
Call == [pc : CallStates, op : {"none", "block", "end", "voucher"}, n : Nat,
         snap : SUBSET ProviderDealState]
NoCall == [pc |-> "idle", op |-> "none", n |-> 0, snap |-> {}]

\* The channel at the provider: nothing yet, sending, paused for a payment,
\* all sent and waiting for the last payment, or over.
Flows == {"none", "running", "paused", "finalizing", "completed", "closed"}

\* A DealResponse, or the end of the channel
Response(status, owed) == [status |-> status, owed |-> owed]

PUSub(a, b) == IF b <= a THEN a - b ELSE a - b + Word
MaxOf(a, b) == IF a >= b THEN a ELSE b
-----------------------------------------------------------------------------
(* The fsm library, as in ClientDeal *)

Alive == pstage \notin {"none", "terminated"}
SendAll(q) == pevents' = IF Alive THEN pevents \o q ELSE pevents
PTrigger(name) == pevents' = Append(pevents, PEv(name, 0)) /\ pstage' = "idle"

PTake(name) == /\ pstage = "idle" /\ pevents # <<>>
               /\ Head(pevents).name = name
               /\ pdeal.status \in PSources[name]

PEnter(s, d) ==
    /\ pdeal' = [d EXCEPT !.status = s]
    /\ pstage' = IF s \in PFinal THEN "terminated"
                 ELSE IF s \in PHasHandler THEN "handler" ELSE "idle"
    /\ pevents' = IF s \in PFinal THEN <<>> ELSE Tail(pevents)

Others == <<track, pull, reval, saved, flow, wire, notices, answers>>

\* Open keeps the status New, which has no handler
Open == /\ PTake("Open")
        /\ PEnter("New", [pdeal EXCEPT !.totalSent = 0, !.fundsReceived = 0,
                                       !.currentInterval = PaymentInterval])
        /\ UNCHANGED Others

DealAccepted == PTake("DealAccepted") /\ PEnter("Ongoing", pdeal) /\ UNCHANGED Others

\* ToNoChange: TrackTransfer runs again
BlockSent == /\ PTake("BlockSent")
             /\ PEnter("Ongoing", [pdeal EXCEPT !.totalSent = Head(pevents).n])
             /\ UNCHANGED Others

BlocksCompleted == PTake("BlocksCompleted") /\ PEnter("BlocksComplete", pdeal) /\ UNCHANGED Others

PaymentRequested == /\ PTake("PaymentRequested")
                    /\ PEnter("FundsNeeded", [pdeal EXCEPT !.totalSent = Head(pevents).n])
                    /\ UNCHANGED Others

SaveVoucherFailed == PTake("SaveVoucherFailed") /\ PEnter("Failing", pdeal) /\ UNCHANGED Others

PartialPaymentReceived ==
    /\ PTake("PartialPaymentReceived")
    /\ PEnter(pdeal.status, [pdeal EXCEPT !.fundsReceived = @ + Head(pevents).n])
    /\ UNCHANGED Others

PaymentReceived ==
    /\ PTake("PaymentReceived")
    /\ PEnter(IF pdeal.status = "FundsNeeded" THEN "Ongoing" ELSE "Finalizing",
              [pdeal EXCEPT !.fundsReceived = @ + Head(pevents).n,
                            !.currentInterval = @ + PaymentIntervalIncrease])
    /\ UNCHANGED Others

Complete == PTake("Complete") /\ PEnter("Completing", pdeal) /\ UNCHANGED Others

CleanupComplete == PTake("CleanupComplete") /\ PEnter("Completed", pdeal) /\ UNCHANGED Others

CancelComplete == PTake("CancelComplete") /\ PEnter("Errored", pdeal) /\ UNCHANGED Others

ErrorDeal == /\ \E name \in {"DataTransferError", "MultiStoreError"} :
                    PTake(name) /\ PEnter("Errored", pdeal)
             /\ UNCHANGED Others

ClientCancelled ==
    /\ PTake("ClientCancelled")
    /\ IF pdeal.status = "Failing"
         THEN pevents' = Tail(pevents) /\ UNCHANGED <<pdeal, pstage>>
         ELSE PEnter("Cancelled", pdeal)
    /\ UNCHANGED Others

\* The event of a GetSync hands its caller the state as it is now
AnswerGet ==
    /\ pstage = "idle" /\ pevents # <<>> /\ Head(pevents).name \in Syncs
    /\ IF Head(pevents).name = "SyncPull"
         THEN pull' = [pull EXCEPT !.pc = "answered", !.snap = {pdeal}] /\ UNCHANGED reval
         ELSE reval' = [reval EXCEPT !.pc = "answered", !.snap = {pdeal}] /\ UNCHANGED pull
    /\ pevents' = Tail(pevents)
    /\ UNCHANGED <<pdeal, pstage, track, saved, flow, wire, notices, answers>>

DropEvent == /\ pstage = "idle" /\ pevents # <<>>
             /\ Head(pevents).name \in PEventNames
             /\ pdeal.status \notin PSources[Head(pevents).name]
             /\ pevents' = Tail(pevents)
             /\ UNCHANGED <<pdeal, pstage>> /\ UNCHANGED Others

ProcessEvent ==
    \/ Open \/ DealAccepted \/ BlockSent \/ BlocksCompleted \/ PaymentRequested
    \/ SaveVoucherFailed \/ PartialPaymentReceived \/ PaymentReceived
    \/ Complete \/ CleanupComplete \/ CancelComplete \/ ErrorDeal \/ ClientCancelled
    \/ AnswerGet \/ DropEvent
-----------------------------------------------------------------------------
(* The table of tracked channels and the machine's handlers *)

Readers == {c \in {pull, reval} : c.pc # "idle"}

\* RLock is granted unless a writer is waiting or writing
MayRead == pstage # "locking"

\* Lock blocks while a call holds the read lock
Running(S) == pstage \in {"handler", "locking"} /\ pdeal.status \in S
WaitForLock == /\ pstage = "handler" /\ Readers # {}
               /\ pstage' = "locking"
               /\ UNCHANGED <<pdeal, pevents>> /\ UNCHANGED Others

\* Mutant of FromDeal: money is taken for bytes
FromDealUnpriced(d) == [totalSent |-> d.totalSent,
                        totalPaidFor |-> MaxOf(d.fundsReceived, 0),
                        interval |-> d.currentInterval,
                        reload |-> FALSE]

\* writeDealState
FromDeal(d) == [totalSent |-> d.totalSent,
                totalPaidFor |-> MaxOf(d.fundsReceived, 0) \div PricePerByte,
                interval |-> d.currentInterval,
                reload |-> FALSE]

\* Mutant of TrackTransfer: a second entry instead of a new one
TrackTransferTwice ==
    /\ Running({"Ongoing"}) /\ Readers = {}
    /\ track' = track \cup {FromDeal(pdeal)}
    /\ pstage' = "idle"
    /\ UNCHANGED <<pdeal, pevents, pull, reval, saved, flow, wire, notices, answers>>

\* TrackTransfer ends without a Trigger
TrackTransfer == /\ Running({"Ongoing"}) /\ Readers = {}
                 /\ track' = {FromDeal(pdeal)}
                 /\ pstage' = "idle"
                 /\ UNCHANGED <<pdeal, pevents, pull, reval, saved, flow, wire, notices, answers>>

\* Mutant of CancelDeal: a failed close ends the handler without an event
CancelDealSilently ==
    /\ Running({"Failing"}) /\ Readers = {}
    /\ track' = {}
    /\ \/ "store" \in ProviderFaults /\ PTrigger("MultiStoreError") /\ UNCHANGED <<flow, answers>>
       \/ "transfer" \in ProviderFaults /\ pstage' = "idle"
          /\ UNCHANGED <<pevents, flow, answers>>
       \/ /\ PTrigger("CancelComplete")
          /\ flow' = "closed" /\ answers' = Append(answers, Response("Cancel", 0))
    /\ UNCHANGED <<pdeal, pull, reval, saved, wire, notices>>

\* UntrackTransfer, DeleteStore, CloseDataTransfer, each only if the last did
\* not fail
CancelDeal ==
    /\ Running({"Failing"}) /\ Readers = {}
    /\ track' = {}
    /\ \/ "store" \in ProviderFaults /\ PTrigger("MultiStoreError") /\ UNCHANGED <<flow, answers>>
       \/ "transfer" \in ProviderFaults /\ PTrigger("DataTransferError")
          /\ UNCHANGED <<flow, answers>>
       \/ /\ PTrigger("CancelComplete")
          /\ flow' = "closed" /\ answers' = Append(answers, Response("Cancel", 0))
    /\ UNCHANGED <<pdeal, pull, reval, saved, wire, notices>>

\* Mutants of CleanupDeal: the table is written without its lock, and the
\* channel stays in the table
CleanupDealUnlocked ==
    /\ Running({"Completing"})
    /\ track' = {}
    /\ \/ "store" \in ProviderFaults /\ PTrigger("MultiStoreError")
       \/ PTrigger("CleanupComplete")
    /\ UNCHANGED <<pdeal, pull, reval, saved, flow, wire, notices, answers>>

CleanupDealLeaking ==
    /\ Running({"Completing"}) /\ Readers = {}
    /\ \/ "store" \in ProviderFaults /\ PTrigger("MultiStoreError")
       \/ PTrigger("CleanupComplete")
    /\ UNCHANGED <<pdeal, track, pull, reval, saved, flow, wire, notices, answers>>

CleanupDeal ==
    /\ Running({"Completing"}) /\ Readers = {}
    /\ track' = {}
    /\ \/ "store" \in ProviderFaults /\ PTrigger("MultiStoreError")
       \/ PTrigger("CleanupComplete")
    /\ UNCHANGED <<pdeal, pull, reval, saved, flow, wire, notices, answers>>

RunHandler == WaitForLock \/ TrackTransfer \/ CancelDeal \/ CleanupDeal
-----------------------------------------------------------------------------
(* What the calls on the table lead to at the data-transfer library: answers *)
(* to the client and a new flow.                                             *)

ChannelIsOpen == flow \in {"running", "paused", "finalizing"}

Go == UNCHANGED <<flow, notices, answers>>

\* A result with ErrPause
Pause(to, status, owed) == /\ flow' = to
                           /\ answers' = Append(answers, Response(status, owed))
                           /\ UNCHANGED notices

\* The transfer completed; said is the last voucher result, if any
Finish(said) == /\ flow' = "completed"
                /\ notices' = Append(notices, "Complete")
                /\ answers' = answers \o said

\* Any other error ends the channel at both sides.  The client hears of a
\* refused voucher as of a rejection, of anything else as of an error.
Break(heard) == IF ChannelIsOpen THEN /\ flow' = "closed"
                                      /\ notices' = Append(notices, "DataTransferError")
                                      /\ answers' = Append(answers, Response(heard, 0))
                                 ELSE Go

\* A voucher was accepted
Resume(said) == CASE flow = "paused" -> /\ flow' = "running" /\ answers' = answers \o said
                                        /\ UNCHANGED notices
                  [] flow = "finalizing" -> Finish(said)
                  [] OTHER -> /\ answers' = answers \o said /\ UNCHANGED <<flow, notices>>
-----------------------------------------------------------------------------
(* ValidatePull, OnPullDataSent and OnComplete *)

\* No proposal is turned down: the outcome of CheckDealParams is overwritten
\* and no DealDecider is ever set.  Without a store the answer is Errored, yet
\* the nil error lets the transfer go on with no deal behind it.
ValidatePull ==
    /\ flow = "none" /\ flow' = "running"
    /\ \/ /\ pevents' = <<PEv("Open", 0)>> /\ pstage' = "idle"
          /\ answers' = Append(answers, Response("Accepted", 0))
          /\ notices' = <<"DealAccepted">>
       \/ /\ "store" \in ProviderFaults
          /\ answers' = Append(answers, Response("Errored", 0))
          /\ UNCHANGED <<pevents, pstage, notices>>
    /\ UNCHANGED <<pdeal, track, pull, reval, saved, wire>>

\* ProviderDataTransferSubscriber
DeliverNotice ==
    /\ notices # <<>> /\ notices' = Tail(notices)
    /\ SendAll(<<PEv(Head(notices), 0)>>)
    /\ UNCHANGED <<pdeal, pstage, track, pull, reval, saved, flow, wire, answers>>

\* Mutant of Owed: what was paid is not subtracted
OwedInAll(c) == c.totalSent * PricePerByte

Owed(c) == (c.totalSent - c.totalPaidFor) * PricePerByte

\* The rest of OnPullDataSent: c is the channel's data with the block counted
AccountBlock(c) ==
    /\ track' = {c}
    /\ IF PUSub(c.totalSent, c.totalPaidFor) >= c.interval
         THEN /\ SendAll(<<PEv("PaymentRequested", c.totalSent)>>)
              /\ IF Alive THEN Pause("paused", "FundsNeeded", Owed(c)) ELSE Break("Error")
         ELSE /\ SendAll(<<PEv("BlockSent", c.totalSent)>>)
              /\ IF Alive THEN Go ELSE Break("Error")

\* The rest of OnComplete.  BlocksCompleted is queued even when a payment is
\* still owed.
AccountEnd(c) ==
    /\ track' = {c}
    /\ SendAll(<<PEv("BlocksCompleted", 0)>>
               \o IF Owed(c) = 0 THEN <<>> ELSE <<PEv("PaymentRequested", c.totalSent)>>)
    /\ CASE ~Alive -> Break("Error")
         [] Alive /\ Owed(c) = 0 -> Finish(<<Response("Completed", 0)>>)
         [] OTHER -> Pause("finalizing", "FundsNeededLastPayment", Owed(c))

\* Mutant of Counted: the block is counted twice
CountedTwice(c, op, n) == IF op = "block" THEN AccountBlock([c EXCEPT !.totalSent = @ + n + n])
                                          ELSE AccountEnd(c)

Counted(c, op, n) == IF op = "block" THEN AccountBlock([c EXCEPT !.totalSent = @ + n])
                                     ELSE AccountEnd(c)

\* The transport reports a block of n bytes or, with all sent, the end.  An
\* untracked channel goes on without the provider; data marked for reload is
\* fetched from the machine first.
Report(op, n) ==
    /\ flow = "running" /\ pull.pc = "idle" /\ MayRead
    /\ \/ /\ track = {}
          /\ wire' = wire + n
          /\ IF op = "block" THEN Go ELSE Finish(<<>>)
          /\ UNCHANGED <<track, pull, pevents>>
       \/ \E c \in track :
            \/ /\ ~c.reload /\ Counted(c, op, n)
               /\ wire' = wire + n /\ UNCHANGED pull
            \/ /\ c.reload /\ Alive
               /\ pull' = [pc |-> "waiting", op |-> op, n |-> n, snap |-> {}]
               /\ SendAll(<<PEv("SyncPull", 0)>>) /\ Go /\ UNCHANGED <<track, wire>>
            \/ /\ c.reload /\ ~Alive
               /\ Break("Error") /\ wire' = wire + n /\ UNCHANGED <<track, pull, pevents>>
    /\ UNCHANGED <<pdeal, pstage, reval, saved>>

OnPullDataSent == \E n \in BlockSizes \cap 1..(FileSize - wire) : Report("block", n)
OnComplete == wire = FileSize /\ Report("end", 0)

\* GetSync answered: load the deal's data and go on
FinishReport ==
    /\ pull.pc = "answered"
    /\ \E d \in pull.snap : Counted(FromDeal(d), pull.op, pull.n)
    /\ wire' = wire + pull.n
    /\ pull' = NoCall
    /\ UNCHANGED <<pdeal, pstage, reval, saved>>
-----------------------------------------------------------------------------
(* Revalidate *)

\* Mutant of RevalidateFails: the response is returned without the error
RevalidateFailsSilently == /\ SendAll(<<PEv("SaveVoucherFailed", 0)>>)
                           /\ Resume(<<Response("Errored", 0)>>)
                           /\ UNCHANGED <<track, saved>>

RevalidateFails == /\ SendAll(<<PEv("SaveVoucherFailed", 0)>>) /\ Break("Rejected")
                   /\ UNCHANGED <<track, saved>>

\* A voucher with this amount arrives
Revalidate(amount) ==
    /\ ChannelIsOpen /\ reval.pc = "idle" /\ MayRead
    /\ \/ track = {} /\ Resume(<<>>) /\ UNCHANGED <<pevents, reval, track, saved>>
       \/ /\ track # {} /\ "node" \in ProviderFaults
          /\ RevalidateFails /\ UNCHANGED reval
       \/ /\ track # {} /\ Alive
          /\ reval' = [pc |-> "waiting", op |-> "voucher", n |-> amount, snap |-> {}]
          /\ SendAll(<<PEv("SyncReval", 0)>>) /\ Go /\ UNCHANGED <<track, saved>>
       \/ /\ track # {} /\ ~Alive
          /\ Break("Rejected") /\ UNCHANGED <<pevents, reval, track, saved>>
    /\ UNCHANGED <<pdeal, pstage, pull, wire>>

\* AddVoucherInbound: a voucher already stored adds nothing, a new one must
\* exceed the best by what is owed.
Best == CHOOSE a \in saved \cup {0} : \A b \in saved \cup {0} : b <= a
Acceptable(amount, owed) == amount \in saved \/ (amount > Best /\ amount - Best >= owed)
\* Mutant of Added: all of the voucher, not what it adds to the best
AddedInAll(amount) == IF amount \in saved THEN 0 ELSE amount

Added(amount) == IF amount \in saved THEN 0 ELSE amount - Best

\* GetSync answered: d is the deal as the machine had it.  What was received is
\* compared with what d owes; only a full payment marks the data for reload.
ProcessPayment(d, amount) ==
    LET owed     == d.totalSent * PricePerByte - d.fundsReceived
        received == IF Added(amount) = 0 THEN amount - d.fundsReceived ELSE Added(amount)
    IN  \/ "node" \in ProviderFaults /\ RevalidateFails
        \/ ~Acceptable(amount, owed) /\ RevalidateFails
        \/ /\ Acceptable(amount, owed) /\ saved' = saved \cup {amount}
           /\ IF received < owed
                THEN /\ SendAll(<<PEv("PartialPaymentReceived", received)>>)
                     /\ answers' = Append(answers, Response(d.status, owed - received))
                     /\ UNCHANGED <<track, flow, notices>>
                ELSE /\ SendAll(<<PEv("PaymentReceived", received)>>)
                     /\ track' = {[c EXCEPT !.reload = TRUE] : c \in track}
                     /\ Resume(IF d.status = "FundsNeededLastPayment"
                                 THEN <<Response("Completed", 0)>> ELSE <<>>)

FinishRevalidate ==
    /\ reval.pc = "answered"
    /\ \E d \in reval.snap : ProcessPayment(d, reval.n)
    /\ reval' = NoCall
    /\ UNCHANGED <<pdeal, pstage, pull, wire>>

\* The client closed the channel, or its host reported an error
ChannelEnds(event) ==
    /\ ChannelIsOpen /\ flow' = "closed"
    /\ notices' = Append(notices, event)
    /\ UNCHANGED <<pdeal, pevents, pstage, track, pull, reval, saved, wire, answers>>
-----------------------------------------------------------------------------
ProviderInit ==
    /\ pdeal = [status |-> "New", totalSent |-> 0, fundsReceived |-> 0, currentInterval |-> 0]
    /\ pevents = <<>> /\ pstage = "none"
    /\ track = {} /\ pull = NoCall /\ reval = NoCall /\ saved = {}
    /\ flow = "none" /\ wire = 0 /\ notices = <<>> /\ answers = <<>>

\* What the machine, the table and the transport do by themselves
ProviderNext == \/ ProcessEvent \/ RunHandler \/ DeliverNotice
                \/ OnPullDataSent \/ OnComplete \/ FinishReport \/ FinishRevalidate
=============================================================================
