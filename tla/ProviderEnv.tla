---------------------------- MODULE ProviderEnv -----------------------------
(***************************************************************************)
(* The provider's deal under any client: vouchers of any amount at any     *)
(* time, again and again, and a channel that may end at any time.          *)
(***************************************************************************)
EXTENDS ProviderDeal

CONSTANTS MaxVouchers,  \* bound on the vouchers that arrive
          MaxAmount     \* and on their amounts

ASSUME ProviderEnvAssumption == MaxVouchers \in Nat /\ MaxAmount \in Nat

VARIABLE arrived   \* how many vouchers arrived

vars == <<pdeal, pevents, pstage, track, pull, reval, saved, flow, wire, notices, answers, arrived>>

ReceiveVoucher == /\ arrived < MaxVouchers /\ arrived' = arrived + 1
                  /\ \E amount \in 1..MaxAmount : Revalidate(amount)

ClientLeaves == /\ ChannelEnds("ClientCancelled") \/ ChannelEnds("DataTransferError")
                /\ UNCHANGED arrived

Provider == ProviderNext /\ UNCHANGED arrived

Init == ProviderInit /\ arrived = 0
Next == \/ ValidatePull /\ UNCHANGED arrived
        \/ Provider \/ ReceiveVoucher \/ ClientLeaves

\* The library takes the next event, every call that is answered returns and
\* the transport goes on sending.  Nothing is promised of the client.
Fairness == WF_vars(Provider)
Spec == Init /\ [][Next]_vars /\ Fairness
-----------------------------------------------------------------------------
(* Properties *)

\* The shape of the deal, the table and the calls on it.
TypeOK == /\ pdeal \in ProviderDealState
          /\ pevents \in Seq(PEvent)
          /\ pstage \in PStages
          /\ track \subseteq ChannelData /\ \A c, d \in track : c = d
          /\ pull \in Call /\ reval \in Call
          /\ saved \subseteq Nat /\ IsFiniteSet(saved)
          /\ flow \in Flows /\ wire \in 0..FileSize
          /\ notices \in Seq(PEventNames)
          /\ arrived \in 0..MaxVouchers

\* FundsReceived never exceeds the best voucher stored, whatever vouchers come,
\* come again or come early: what a voucher adds is computed from a deal that
\* GetSync returned before, and booked by an event that may be dropped.
CreditedWasVouched == pdeal.fundsReceived <= Best

\* The machine and the table may disagree on what was sent, as each writes its
\* count over the other's, but neither ever counts a byte that was not sent.
CountedWasSent == pdeal.totalSent <= wire /\ \A c \in track : c.totalSent <= wire

\* While OnPullDataSent, OnComplete or Revalidate is in progress its channel
\* stays in the table: both write to the entry after GetSync, and writeDealState
\* would dereference nil.
CalledIsTracked == Readers # {} => track # {}

\* A deal is Completed only with the whole payload sent, and leaves no entry
\* in the table behind: no handler that runs late enters it again.
CompletedIsSettled == pdeal.status = "Completed" => wire = FileSize /\ track = {}

\* A paused channel goes on only when a stored voucher covers all the bytes the
\* deal counted as Revalidate looked, whatever was booked or sent since.  The
\* table may count more than the deal did, or less.
SeenIsPaid == [][flow = "paused" /\ flow' = "running" =>
                   \A d \in reval.snap : Best' >= PricePerByte * d.totalSent]_vars

\* A deal that is failing or completing reaches a finality status, also when
\* the store or the channel cannot be closed.
WindsUp == pdeal.status \in {"Failing", "Completing"} ~> pstage = "terminated"
=============================================================================
