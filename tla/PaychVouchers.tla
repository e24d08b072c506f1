---------------------------- MODULE PaychVouchers ----------------------------
(***************************************************************************)
(* Vouchers of one payment channel: the payer creates them, the payee adds *)
(* and submits them, and the channel's actor on the chain redeems them     *)
(* (paychmgr.go, with a payment channel manager on either side).           *)
(*                                                                         *)
(* An operation locks its channelAccessor, copies the ChannelInfo from the *)
(* store, calls the chain, and writes the copy back.  The payer has one    *)
(* accessor for the channel, whose lock keeps everything but the chain     *)
(* out, and its operations are one action each.  The payee has two, each   *)
(* with a lock of its own: AddVoucherInbound makes one from Target to      *)
(* Control, and accessorByAddress one from Control to Target.  There an    *)
(* operation is two actions or three, and those of the two interleave.     *)
(***************************************************************************)
EXTENDS Integers, Sequences, FiniteSets, FiniteSetsExt, Functions

CONSTANTS MaxLane,       \* bound on the lanes that are allocated
          Amounts,       \* the amounts vouchers are made for
          Null,
          FirstBalance,  \* what the channel was created with
          LastBalance,   \* bound on the funds that are added
          MaxVouchers,   \* bound on the vouchers the payer creates
          Faults         \* which calls may fail: "push", "wait"

ASSUME VouchersAssumption == /\ MaxLane \in Nat
                             /\ Amounts \subseteq Nat \ {0} /\ IsFiniteSet(Amounts)
                             /\ FirstBalance \in Nat /\ LastBalance \in Nat
                             /\ MaxVouchers \in Nat
                             /\ Faults \subseteq {"push", "wait"}

VARIABLES info,       \* each side's ChannelInfo of the channel, Null if not tracked
          op,         \* the operation that holds the lock of each of the payee's accessors
          actor,      \* the channel's actor on the chain
          mpool,      \* the payee's messages, in the order of their nonces
          credited,   \* the sum of what AddVoucherInbound returned
          lost,       \* a write went over a copy that was no longer current
          crashed     \* a nil dereference ended the payee's process

channelVars == <<info, op, actor, mpool, credited, lost, crashed>>

Sides == {"payer", "payee"}
Accessors == {"inbound", "outbound"}
Lanes == 0..MaxLane

Voucher == [lane : Lanes, amount : Amounts, nonce : 1..MaxVouchers]
ChannelInfo == [vouchers : SUBSET Voucher, submitted : SUBSET Voucher,
                nextLane : Nat, settling : BOOLEAN]
LaneState == [redeemed : Nat, nonce : Nat]

\* A nil pointer is none of the records
ASSUME NullAssumption == Null \notin ChannelInfo

Actor == [balance : Nat, lanes : [Lanes -> LaneState],
          phase : {"open", "settling", "expired", "collected"}]
-----------------------------------------------------------------------------
\* Lane states.  A lane the actor does not have yet has nonce zero.

\* Mutant of LaneStates: a stored voucher adds to what the actor redeemed
LaneStatesAdded(stored, act) ==
    [l \in Lanes |->
        LET newer == {v \in stored : v.lane = l /\ v.nonce >= act.lanes[l].nonce}
        IN  IF newer = {} THEN act.lanes[l]
            ELSE LET v == CHOOSE w \in newer : \A x \in newer : w.nonce >= x.nonce
                 IN  [redeemed |-> act.lanes[l].redeemed + v.amount, nonce |-> v.nonce]]

\* laneState: the stored vouchers of a nonce not below the actor's, over the
\* actor's lanes
LaneStates(stored, act) ==
    [l \in Lanes |->
        LET newer == {v \in stored : v.lane = l /\ v.nonce >= act.lanes[l].nonce}
        IN  IF newer = {} THEN act.lanes[l]
            ELSE LET v == CHOOSE w \in newer : \A x \in newer : w.nonce >= x.nonce
                 IN  [redeemed |-> v.amount, nonce |-> v.nonce]]

\* The VoucherReedeemedAmt of currentAvailableFunds
TotalRedeemed(lanes) == SumFunction([l \in Lanes |-> lanes[l].redeemed])

\* Mutant of TotalWithVoucher: the other lanes are forgotten
LaneWithVoucher(lanes, v) == v.amount

\* totalRedeemedWithVoucher, for a voucher of a higher nonce than its lane's
TotalWithVoucher(lanes, v) ==
    TotalRedeemed(lanes) + v.amount - lanes[v.lane].redeemed

\* nextNonceForLane looks at the stored vouchers only
NextNonceForLane(ci, lane) ==
    1 + Max({0} \cup {v.nonce : v \in {w \in ci.vouchers : w.lane = lane}})

\* Mutant of CheckVoucherValid: a voucher for a smaller amount is taken, too
CheckNonceOnly(lanes, act, v) ==
    /\ v.nonce > lanes[v.lane].nonce
    /\ act.balance >= TotalWithVoucher(lanes, v)

\* checkVoucherValidUnlocked.  The vouchers here have the right address and
\* signature, and merge no lanes.
CheckVoucherValid(lanes, act, v) ==
    /\ v.nonce > lanes[v.lane].nonce
    /\ v.amount > lanes[v.lane].redeemed
    /\ act.balance >= TotalWithVoucher(lanes, v)
-----------------------------------------------------------------------------
\* Operations

Free(a) == ~crashed /\ op[a] = Null

\* Locks the accessor and reads the channel from the store: a copy, made anew
\* by each unmarshalling
Lock(a, kind, v) ==
    op' = [op EXCEPT ![a] = [kind |-> kind, voucher |-> v, ci |-> info["payee"], act |-> Null]]

Unlock(a) == op' = [op EXCEPT ![a] = Null]

\* putChannelInfo writes the whole record
Put(a, ci) ==
    /\ info' = [info EXCEPT !["payee"] = ci]
    /\ lost' = (lost \/ info["payee"] # op[a].ci)

AddVoucher(ci, v) ==
    [ci EXCEPT !.vouchers = @ \cup {v},
               !.nextLane = IF @ <= v.lane THEN v.lane + 1 ELSE @]

\* PaychAllocateLane
AllocateLane ==
    /\ info["payer"].nextLane \in Lanes
    /\ info' = [info EXCEPT !["payer"].nextLane = @ + 1]
    /\ UNCHANGED <<op, actor, mpool, credited, lost, crashed>>

NextVoucher(lane, amount) ==
    [lane |-> lane, amount |-> amount, nonce |-> NextNonceForLane(info["payer"], lane)]

\* createVoucher, for a lane that was allocated.  Short of funds or without an
\* actor, nothing is stored.
CreateVoucher ==
    /\ Cardinality(info["payer"].vouchers) < MaxVouchers
    /\ actor.phase # "collected"
    /\ \E lane \in 0..(info["payer"].nextLane - 1), amount \in Amounts :
          LET v == NextVoucher(lane, amount)
          IN  /\ CheckVoucherValid(LaneStates(info["payer"].vouchers, actor), actor, v)
              /\ info' = [info EXCEPT !["payer"] = AddVoucher(@, v)]
    /\ UNCHANGED <<op, actor, mpool, credited, lost, crashed>>

\* nextLaneFromState: the lane above the actor's
NextLaneFromState(act) == Max({0} \cup {l + 1 : l \in {k \in Lanes : act.lanes[k].nonce > 0}})

\* loadStateChannelInfo
StateChannelInfo(act) ==
    [vouchers |-> {}, submitted |-> {}, nextLane |-> NextLaneFromState(act), settling |-> FALSE]

\* trackInboundChannel, under the manager's exclusive lock
TrackInboundChannel ==
    /\ Free("inbound") /\ Free("outbound") /\ info["payee"] = Null
    /\ actor.phase # "collected"
    /\ info' = [info EXCEPT !["payee"] = StateChannelInfo(actor)]
    /\ UNCHANGED <<op, actor, mpool, credited, lost, crashed>>

\* AddVoucherInbound: any voucher that the payer made may come, and come again.
\* A voucher that is there already is worth nothing more.
AddVoucherInbound ==
    /\ Free("inbound") /\ info["payee"] # Null
    /\ \E v \in info["payer"].vouchers \ info["payee"].vouchers : Lock("inbound", "add", v)
    /\ UNCHANGED <<info, actor, mpool, credited, lost, crashed>>

\* loadPaychActorState, which fails when the actor is gone
LoadPaychActorState ==
    /\ ~crashed /\ op["inbound"] # Null /\ op["inbound"].act = Null
    /\ IF actor.phase = "collected" THEN Unlock("inbound")
       ELSE op' = [op EXCEPT !["inbound"].act = actor]
    /\ UNCHANGED <<info, actor, mpool, credited, lost, crashed>>

\* Mutant of Delta: the operands are swapped
DeltaSwapped(lanes, v) == lanes[v.lane].redeemed - v.amount

\* Mutant of Delta: the whole amount is taken to be new
WholeAmount(lanes, v) == v.amount

Delta(lanes, v) == v.amount - lanes[v.lane].redeemed

\* The rest of addVoucherUnlocked.  The lanes are those of the store now, and
\* the copy that is written is the one from before the calls.  The delta must
\* not be less than what is owed to the payee.
FinishAdd ==
    /\ ~crashed /\ op["inbound"] # Null /\ op["inbound"].act # Null
    /\ LET o == op["inbound"]
           lanes == LaneStates(info["payee"].vouchers, o.act)
           valid == CheckVoucherValid(lanes, o.act, o.voucher)
           delta == Delta(lanes, o.voucher)
       IN  \/ /\ valid
              /\ Put("inbound", AddVoucher(o.ci, o.voucher))
              /\ credited' = credited + delta
           \/ /\ ~valid \/ \E minDelta \in Amounts : minDelta > delta
              /\ UNCHANGED <<info, credited, lost>>
    /\ Unlock("inbound")
    /\ UNCHANGED <<actor, mpool, crashed>>
-----------------------------------------------------------------------------
\* The chain

Message == [kind : {"update", "settle", "collect"}, voucher : Voucher \cup {Null},
            state : {"pending", "ok", "failed"}]

\* What the payment channel actor checks
Valid(kind, v) ==
    CASE kind = "update"  -> /\ actor.phase \in {"open", "settling"}
                             /\ v.nonce > actor.lanes[v.lane].nonce
                             /\ TotalWithVoucher(actor.lanes, v) <= actor.balance
      [] kind = "settle"  -> actor.phase = "open"
      [] kind = "collect" -> actor.phase = "expired"

\* mpoolPush: the gas estimate refuses a message that would fail, and the other
\* calls may fail as well
Push(kind, v) ==
    /\ Valid(kind, v)
    /\ mpool' = Append(mpool, [kind |-> kind, voucher |-> v, state |-> "pending"])

PushFails(kind, v) ==
    /\ "push" \in Faults \/ ~Valid(kind, v)
    /\ mpool' = mpool

Apply(m) ==
    CASE m.kind = "update"  -> [actor EXCEPT !.lanes[m.voucher.lane] =
                                   [redeemed |-> m.voucher.amount, nonce |-> m.voucher.nonce]]
      [] m.kind = "settle"  -> [actor EXCEPT !.phase = "settling"]
      [] m.kind = "collect" -> [actor EXCEPT !.phase = "collected", !.balance = 0]

\* The next of the payee's messages is executed; it may run out of gas
Execute(i) ==
    /\ mpool[i].state = "pending" /\ \A j \in 1..(i - 1) : mpool[j].state # "pending"
    /\ \/ /\ Valid(mpool[i].kind, mpool[i].voucher)
          /\ actor' = Apply(mpool[i])
          /\ mpool' = [mpool EXCEPT ![i].state = "ok"]
       \/ /\ mpool' = [mpool EXCEPT ![i].state = "failed"]
          /\ UNCHANGED actor
    /\ UNCHANGED <<info, op, credited, lost, crashed>>

\* The payer's add-funds message, and the end of the settling period
Deposit == /\ actor.balance < LastBalance /\ actor.phase # "collected"
           /\ actor' = [actor EXCEPT !.balance = @ + 1]
           /\ UNCHANGED <<info, op, mpool, credited, lost, crashed>>

SettlingEnds == /\ actor.phase = "settling"
                /\ actor' = [actor EXCEPT !.phase = "expired"]
                /\ UNCHANGED <<info, op, mpool, credited, lost, crashed>>

\* collect writes nothing to the store.  Bound: it is called once.
Collect == /\ Free("outbound") /\ info["payee"] # Null
           /\ \A i \in DOMAIN mpool : mpool[i].kind # "collect"
           /\ Push("collect", Null)
           /\ UNCHANGED <<info, op, actor, credited, lost, crashed>>
-----------------------------------------------------------------------------
ChannelInit ==
    /\ info = [s \in Sides |-> IF s = "payee" THEN Null
                               ELSE [vouchers |-> {}, submitted |-> {},
                                     nextLane |-> 0, settling |-> FALSE]]
    /\ op = [a \in Accessors |-> Null]
    /\ actor = [balance |-> FirstBalance, phase |-> "open",
                lanes |-> [l \in Lanes |-> [redeemed |-> 0, nonce |-> 0]]]
    /\ mpool = <<>> /\ credited = 0 /\ lost = FALSE /\ crashed = FALSE

ChannelNext ==
    \/ AllocateLane \/ CreateVoucher \/ TrackInboundChannel \/ AddVoucherInbound
    \/ LoadPaychActorState \/ FinishAdd
    \/ \E i \in DOMAIN mpool : Execute(i)
    \/ Deposit \/ SettlingEnds \/ Collect
=============================================================================
