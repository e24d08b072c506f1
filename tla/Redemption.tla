----------------------------- MODULE Redemption -----------------------------
(***************************************************************************)
(* RedeemAll on the payee's channel, while vouchers go on coming: settle,  *)
(* submit the best voucher of each lane, and wait for the messages.  The   *)
(* provider runs it for every deal that completes, one after the other,    *)
(* as its machines' events are reported one after the other               *)
(* (rtmkt/provider/provider.go).                                           *)
(***************************************************************************)
EXTENDS PaychVouchers

CONSTANT MaxRedeems   \* bound on the deals that complete

ASSUME RedemptionAssumption == MaxRedeems \in Nat

VARIABLES redeem,    \* where RedeemAll stands, and its local variables
          redeems    \* how often it was called

vars == <<channelVars, redeem, redeems>>

\* The cid of a message that Settle did not send
Undef == 0

\* skipped is a history variable: a continue left out a Done
NoRedeem == [at |-> "idle", best |-> {}, waitFor |-> {}, wg |-> 0, skipped |-> FALSE]
-----------------------------------------------------------------------------
\* ListChannels, under the manager's exclusive lock
StartRedeem ==
    /\ redeem.at = "idle" /\ redeems < MaxRedeems
    /\ Free("inbound") /\ Free("outbound") /\ info["payee"] # Null
    /\ redeem' = [NoRedeem EXCEPT !.at = "listed"]
    /\ redeems' = redeems + 1
    /\ UNCHANGED channelVars

BestByLane(vouchers) ==
    {v \in vouchers : \A w \in vouchers : w.lane = v.lane => w.amount <= v.amount}

\* Mutant of Goroutines: Settle's is counted twice
SettleTwice(best) == Cardinality(best) + 2

\* Mutant of Goroutines: Settle's is not counted
SubmitGoroutines(best) == Cardinality(best)

Goroutines(best) == Cardinality(best) + 1

\* BestSpendableByLane: listVouchers under the accessor's lock
BestSpendableByLane ==
    /\ redeem.at = "listed" /\ Free("outbound")
    /\ LET best == BestByLane(info["payee"].vouchers)
       IN  redeem' = [redeem EXCEPT !.at = "settle", !.best = best, !.wg = Goroutines(best)]
    /\ UNCHANGED <<channelVars, redeems>>

\* Settle: lock and copy
StartSettle ==
    /\ redeem.at = "settle" /\ Free("outbound")
    /\ Lock("outbound", "settle", Null)
    /\ UNCHANGED <<info, actor, mpool, credited, lost, crashed, redeem, redeems>>

\* The goroutine waits for Undef when Settle failed
FinishSettle ==
    /\ ~crashed /\ op["outbound"] # Null /\ op["outbound"].kind = "settle"
    /\ \/ /\ Push("settle", Null)
          /\ Put("outbound", [op["outbound"].ci EXCEPT !.settling = TRUE])
          /\ redeem' = [redeem EXCEPT !.at = "submit", !.waitFor = @ \cup {Len(mpool')}]
       \/ /\ PushFails("settle", Null)
          /\ redeem' = [redeem EXCEPT !.at = "submit", !.waitFor = @ \cup {Undef}]
          /\ UNCHANGED <<info, lost>>
    /\ Unlock("outbound")
    /\ UNCHANGED <<actor, credited, crashed, redeems>>

\* Mutant of WasSubmitted: a voucher is submitted again
NeverSubmitted(ci, v) == FALSE

WasSubmitted(ci, v) == v \in ci.vouchers /\ v \in ci.submitted

\* SubmitVoucher: lock and copy.  For a voucher that was submitted before the
\* loop goes on without Done.
StartSubmit ==
    /\ redeem.at = "submit" /\ Free("outbound")
    /\ \E v \in redeem.best :
          IF WasSubmitted(info["payee"], v)
          THEN /\ redeem' = [redeem EXCEPT !.best = @ \ {v}, !.skipped = TRUE]
               /\ UNCHANGED op
          ELSE /\ Lock("outbound", "submit", v)
               /\ UNCHANGED redeem
    /\ UNCHANGED <<info, actor, mpool, credited, lost, crashed, redeems>>

\* MarkVoucherSubmitted: the voucher, stored if it was not, and those of its
\* lane with lower nonces
MarkVoucherSubmitted(ci, v) ==
    LET held == ci.vouchers \cup {v}
    IN  [ci EXCEPT !.vouchers = held,
                   !.submitted = @ \cup {v} \cup
                       {w \in held : w.lane = v.lane /\ w.nonce < v.nonce}]

\* A push that fails goes on without Done, too
FinishSubmit ==
    /\ ~crashed /\ op["outbound"] # Null /\ op["outbound"].kind = "submit"
    /\ LET v == op["outbound"].voucher
       IN  \/ /\ Push("update", v)
              /\ Put("outbound", MarkVoucherSubmitted(op["outbound"].ci, v))
              /\ redeem' = [redeem EXCEPT !.best = @ \ {v}, !.waitFor = @ \cup {Len(mpool')}]
           \/ /\ PushFails("update", v)
              /\ redeem' = [redeem EXCEPT !.best = @ \ {v}, !.skipped = TRUE]
              /\ UNCHANGED <<info, lost>>
    /\ Unlock("outbound")
    /\ UNCHANGED <<actor, credited, crashed, redeems>>

\* A goroutine's StateWaitMsg.  It cannot find Undef; after any error the
\* goroutine goes on and dereferences the nil lookup.
Await(i) ==
    /\ ~crashed /\ i \in redeem.waitFor
    /\ \/ /\ i # Undef /\ mpool[i].state # "pending"
          /\ redeem' = [redeem EXCEPT !.waitFor = @ \ {i}, !.wg = @ - 1]
          /\ UNCHANGED crashed
       \/ /\ i = Undef \/ "wait" \in Faults
          /\ crashed' = TRUE
          /\ UNCHANGED redeem
    /\ UNCHANGED <<info, op, actor, mpool, credited, lost, redeems>>

\* wg.Wait
FinishRedeem ==
    /\ ~crashed /\ redeem.at = "submit" /\ redeem.best = {} /\ redeem.wg = 0
    /\ redeem' = NoRedeem
    /\ UNCHANGED <<channelVars, redeems>>

RedeemAll == \/ StartRedeem \/ BestSpendableByLane \/ StartSettle \/ FinishSettle
             \/ StartSubmit \/ FinishSubmit \/ FinishRedeem
             \/ \E i \in redeem.waitFor : Await(i)
-----------------------------------------------------------------------------
Init == ChannelInit /\ redeem = NoRedeem /\ redeems = 0

Next == \/ RedeemAll
        \/ ChannelNext /\ UNCHANGED <<redeem, redeems>>

\* RedeemAll runs on, a lock is given to each that waits for it, operations
\* end, and the chain takes the messages it was sent.
Fairness ==
    /\ SF_vars(BestSpendableByLane \/ StartSettle \/ StartSubmit)
    /\ WF_vars(FinishSettle \/ FinishSubmit \/ FinishRedeem)
    /\ WF_vars(\E i \in redeem.waitFor : Await(i))
    /\ WF_vars(UNCHANGED <<redeem, redeems>> /\ \E i \in DOMAIN mpool : Execute(i))

Spec == Init /\ [][Next]_vars /\ Fairness
-----------------------------------------------------------------------------
Tracked == {s \in Sides : info[s] # Null}
Held(side) == LaneStates(info[side].vouchers, actor)

Operation == [kind : {"add", "submit", "settle"}, voucher : Voucher \cup {Null},
              ci : ChannelInfo, act : Actor \cup {Null}]

TypeOK ==
    /\ info \in [Sides -> ChannelInfo \cup {Null}] /\ info["payer"] \in ChannelInfo
    /\ op \in [Accessors -> Operation \cup {Null}]
    /\ actor \in Actor
    /\ mpool \in Seq(Message)
    /\ credited \in Nat /\ lost \in BOOLEAN /\ crashed \in BOOLEAN
    /\ redeem \in [at : {"idle", "listed", "settle", "submit"}, best : SUBSET Voucher,
                   waitFor : SUBSET (0..Len(mpool)), wg : Nat, skipped : BOOLEAN]
    /\ redeems \in 0..MaxRedeems

\* What the payee was told it got is what the vouchers it holds and those the
\* chain redeemed are worth, in whatever order vouchers came, were refused and
\* were submitted, unless a write of its other accessor went over one
\* (the delta of addVoucherUnlocked, which the provider books as received)
CreditedIsHeld ==
    info["payee"] # Null /\ ~lost => credited = TotalRedeemed(Held("payee"))

\* On either side the vouchers stored never add up to more than the channel
\* holds, though each is checked against the chain as it was some calls before
\* (checkVoucherValidUnlocked)
RedeemedWithinBalance ==
    actor.phase # "collected" =>
        \A s \in Tracked : TotalRedeemed(Held(s)) <= actor.balance

\* In the vouchers of a lane the amount rises with the nonce, on both sides:
\* the one the chain redeems last is the best one (nextNonceForLane,
\* checkVoucherValidUnlocked; BestSpendableByLane picks by the amount)
AmountsRise ==
    \A s \in Tracked : \A v, w \in info[s].vouchers :
        v.lane = w.lane /\ v # w => /\ v.nonce # w.nonce
                                   /\ v.nonce < w.nonce <=> v.amount < w.amount

\* The payee refuses none of the payer's vouchers that is newer than those it
\* has: the two sides' checks agree, on the amount and on the funds, though
\* they run against two stores and the chain at two times
NewerIsValid ==
    LET o == op["inbound"]
        lanes == LaneStates(info["payee"].vouchers, o.act)
    IN  o # Null /\ o.act # Null =>
            (o.voucher.nonce > lanes[o.voucher.lane].nonce
                => CheckVoucherValid(lanes, o.act, o.voucher))

\* The vouchers of a lane are submitted once and in the order of their nonces,
\* unless a write of the other accessor went over the mark
\* (submitVoucher, MarkVoucherSubmitted)
SubmittedInOrder ==
    ~lost => \A j \in DOMAIN mpool : \A i \in 1..(j - 1) :
        /\ mpool[i].kind = "update" /\ mpool[j].kind = "update"
        /\ mpool[i].voucher.lane = mpool[j].voucher.lane
        => mpool[i].voucher.nonce < mpool[j].voucher.nonce

\* RedeemAll returns when all its messages were executed (its WaitGroup)
RedeemAllWaits ==
    redeem.at = "idle" => \A i \in DOMAIN mpool : mpool[i].kind # "collect" => mpool[i].state # "pending"

\* RedeemAll returns, unless the process crashes or a voucher was passed over
RedeemAllEnds ==
    redeem.at # "idle" ~> redeem.at = "idle" \/ redeem.skipped \/ crashed

\* The comment of RedeemAll: it is ok if Settle fails because the channel may
\* already be settled
SettleMayFail == ~crashed
=============================================================================
