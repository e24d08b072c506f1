---------------------------- MODULE ProviderProofs ----------------------------
(***************************************************************************)
(* The invariants of the provider's deal under any client.  What each of   *)
(* its steps keeps is in ProviderSteps.                                    *)
(***************************************************************************)
EXTENDS ProviderEnv, ProviderSteps

\* How many vouchers arrived
Arrivals == arrived \in 0..MaxVouchers

LEMMA VoucherKeeps ==
    ASSUME ProviderInv, Arrivals, ReceiveVoucher
    PROVE  ProviderInv' /\ Arrivals'
<1>1. PICK amount \in 1..MaxAmount : Revalidate(amount) BY DEF ReceiveVoucher
<1>2. amount \in Nat BY ProviderEnvAssumption
<1>3. Arrivals' BY ProviderEnvAssumption DEF Arrivals, ReceiveVoucher
<1> QED BY <1>1, <1>2, <1>3, RevalidateKeeps

LEMMA StepKeeps ==
    ASSUME ProviderInv, Arrivals, [Next]_vars
    PROVE  ProviderInv' /\ Arrivals'
<1>1. CASE ValidatePull /\ UNCHANGED arrived BY <1>1, ValidatePullKeeps DEF Arrivals
<1>2. CASE Provider BY <1>2, ProviderStepKeeps DEF Provider, Arrivals
<1>3. CASE ReceiveVoucher BY <1>3, VoucherKeeps
<1>4. CASE ClientLeaves
  <2>1. PICK event \in {"ClientCancelled", "DataTransferError"} : ChannelEnds(event)
    BY <1>4 DEF ClientLeaves
  <2> QED BY <1>4, <2>1, ChannelEndsKeeps DEF ClientLeaves, Arrivals
<1>5. CASE UNCHANGED vars
  <2>1. UNCHANGED providerVars /\ UNCHANGED arrived BY <1>5 DEF vars, providerVars
  <2> QED BY <2>1, StutterKeeps DEF Arrivals
<1> QED BY <1>1, <1>2, <1>3, <1>4, <1>5 DEF Next

\* The inductive invariant: the deal, the table, the calls on it and the events
\* queued for the machine agree, whatever the client sends
THEOREM ProviderAlways == Spec => [](ProviderInv /\ Arrivals)
<1>1. Init => ProviderInv /\ Arrivals
  BY BeginsRight, ProviderEnvAssumption DEF Init, Arrivals
<1>2. (ProviderInv /\ Arrivals) /\ [Next]_vars => (ProviderInv /\ Arrivals)' BY StepKeeps
<1> QED BY <1>1, <1>2, PTL DEF Spec

\* The deal record, the table and the calls that hold it keep their shape
THEOREM ProviderTypeCorrect == Spec => []TypeOK
<1>1. ProviderInv /\ Arrivals => TypeOK
  BY DEF ProviderInv, ProviderTyped, Arrivals, TypeOK
<1> QED BY <1>1, ProviderAlways, PTL

\* processPayment never books more than the best voucher, also for a voucher
\* that comes again or before the last was booked
THEOREM CreditedAlwaysVouched == Spec => []CreditedWasVouched
<1>1. ProviderInv => CreditedWasVouched
  BY DEF ProviderInv, CreditInv, Credited, CreditedWasVouched
<1> QED BY <1>1, ProviderAlways, PTL

\* Neither the machine nor the table counts a byte that OnPullDataSent did not
\* report
THEOREM CountedAlwaysSent == Spec => []CountedWasSent
<1>1. ProviderInv => CountedWasSent
  BY DEF ProviderInv, SentInv, Tallied, CountedWasSent
<1> QED BY <1>1, ProviderAlways, PTL

\* The read lock keeps the entry of a call in the table: UntrackTransfer waits
THEOREM CalledAlwaysTracked == Spec => []CalledIsTracked
<1>1. ProviderInv => CalledIsTracked BY DEF ProviderInv, Tracked, CalledIsTracked
<1> QED BY <1>1, ProviderAlways, PTL

\* ProviderEventCleanupComplete finds the payload sent and the table empty
THEOREM CompletedAlwaysSettled == Spec => []CompletedIsSettled
<1>1. ProviderInv => CompletedIsSettled BY DEF ProviderInv, EndInv, CompletedIsSettled
<1> QED BY <1>1, ProviderAlways, PTL

\* A voucher that resumes the channel pays for all that the deal had counted
LEMMA ResumesSeen ==
    ASSUME ProviderInv, Next, flow = "paused", flow' = "running", NEW d \in reval.snap
    PROVE  Best' >= PricePerByte * d.totalSent
<1>1. reval.pc = "answered" /\ reval.snap = {d} /\ reval \in Call /\ d \in ProviderDealState
  <2>1. reval \in Call BY RevalidationFacts
  <2> QED BY <2>1 DEF ProviderInv, CreditInv, Call
<1>2. track # {} BY <1>1, RevalidationFacts
<1>3. CASE Provider
  <2>1. ~ProcessEvent
    BY DEF ProcessEvent, Others, Open, DealAccepted, BlockSent, BlocksCompleted,
           PaymentRequested, SaveVoucherFailed, PartialPaymentReceived, PaymentReceived,
           Complete, CleanupComplete, CancelComplete, ErrorDeal, ClientCancelled, AnswerGet,
           DropEvent
  <2>2. ~RunHandler BY DEF RunHandler, WaitForLock, TrackTransfer, CancelDeal, CleanupDeal, Others
  <2>3. ~DeliverNotice /\ ~OnPullDataSent /\ ~OnComplete
    BY DEF DeliverNotice, OnPullDataSent, OnComplete, Report
  <2>4. ~FinishReport
    <3>1. \A heard : Break(heard) => flow' # "running" BY DEF Break, Go
    <3>2. \A c : AccountBlock(c) => flow' # "running" BY <3>1 DEF AccountBlock, Pause, Go
    <3>3. \A c : AccountEnd(c) => flow' # "running"
      <4>1. ASSUME NEW c, AccountEnd(c) PROVE flow' # "running"
        <5>1. CASE ~Alive BY <3>1, <4>1, <5>1 DEF AccountEnd
        <5>2. CASE Alive /\ Owed(c) = 0 BY <4>1, <5>2 DEF AccountEnd, Finish
        <5>3. CASE Alive /\ Owed(c) # 0 BY <4>1, <5>3 DEF AccountEnd, Pause
        <5> QED BY <5>1, <5>2, <5>3
      <4> QED BY <4>1
    <3> QED BY <3>2, <3>3 DEF FinishReport, Counted
  <2>5. PICK e \in reval.snap : ProcessPayment(e, reval.n)
    BY <1>3, <2>1, <2>2, <2>3, <2>4 DEF Provider, ProviderNext, FinishRevalidate
  <2>6. e = d /\ d.fundsReceived = pdeal.fundsReceived /\ reval.n \in Nat
    BY <1>1, <2>5 DEF ProviderInv, CreditInv, Call
  <2> DEFINE amount == reval.n
             owed == d.totalSent * PricePerByte - d.fundsReceived
             gained == IF Added(amount) = 0 THEN amount - d.fundsReceived ELSE Added(amount)
  <2>7. ~RevalidateFails BY DEF RevalidateFails, Break, Go
  <2>8. Acceptable(amount, owed) /\ saved' = saved \cup {amount} /\ ~(gained < owed)
    BY <2>5, <2>6, <2>7 DEF ProcessPayment
  <2>9. d.totalSent \in Nat /\ PricePerByte \in Nat /\ d.totalSent * PricePerByte \in Nat
        /\ d.fundsReceived \in Int /\ d.totalSent * PricePerByte = PricePerByte * d.totalSent
    BY <1>1, ProviderDealAssumption DEF ProviderDealState
  <2>10. owed \in Int /\ owed = d.totalSent * PricePerByte - d.fundsReceived BY <2>9
  <2>11. gained \in Int /\ pdeal.fundsReceived + gained <= Best'
    <3> HIDE DEF owed
    <3> QED BY <2>6, <2>8, <2>10, CreditIsCovered
  <2>12. Best' \in Nat BY <2>6, <2>8, BestGrows DEF ProviderInv
  <2> HIDE DEF gained, owed
  <2>13. Best' >= d.totalSent * PricePerByte BY <2>6, <2>8, <2>9, <2>10, <2>11, <2>12
  <2> QED BY <2>9, <2>13
<1>4. ~ReceiveVoucher
  <2>1. reval.pc # "idle" BY <1>1
  <2> QED BY <2>1 DEF ReceiveVoucher, Revalidate
<1>5. ~ClientLeaves BY DEF ClientLeaves, ChannelEnds
<1>6. ~ValidatePull BY DEF ValidatePull
<1> QED BY <1>3, <1>4, <1>5, <1>6 DEF Next

\* A paused channel goes on only for a voucher that covers the bytes Revalidate
\* saw counted
THEOREM ResumesAlwaysPaid == Spec => SeenIsPaid
<1>1. ProviderInv /\ [Next]_vars
        => [flow = "paused" /\ flow' = "running" =>
              \A d \in reval.snap : Best' >= PricePerByte * d.totalSent]_vars
  BY ResumesSeen
<1> QED BY <1>1, ProviderAlways, PTL DEF Spec, SeenIsPaid
=============================================================================
