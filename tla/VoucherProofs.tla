---------------------------- MODULE VoucherProofs ----------------------------
(***************************************************************************)
(* The invariants of the vouchers and their redemption, for any number of  *)
(* lanes, vouchers, amounts and deals.  Whatever the payee holds, copies   *)
(* and submits was made by the payer, in whose vouchers the amounts of a   *)
(* lane rise; the funds that cover the payer's best vouchers cover the     *)
(* payee's.  As long as no write is lost the payee forgets nothing either. *)
(***************************************************************************)
EXTENDS Redemption, FoldLemmas, TLAPS

\* The state a voucher puts its lane into, and that of a lane without one
StateOf(v) == [redeemed |-> v.amount, nonce |-> v.nonce]
NoState == [redeemed |-> 0, nonce |-> 0]

\* In the vouchers of each lane the amount rises with the nonce
Rising(vouchers) ==
    \A v, w \in vouchers :
        v.lane = w.lane /\ v # w => /\ v.nonce # w.nonce
                                   /\ (v.nonce < w.nonce <=> v.amount < w.amount)

\* What the actor redeemed in each lane is one of these vouchers
Backed(act, vouchers) ==
    \A l \in Lanes : \/ act.lanes[l] = NoState
                     \/ \E v \in vouchers : v.lane = l /\ act.lanes[l] = StateOf(v)

Made == info["payer"].vouchers
IsTracked == info["payee"] # Null

\* The vouchers that the payee's store has, now or when a copy is written back
Known ==
    UNION {IF IsTracked THEN info["payee"].vouchers ELSE {}, redeem.best,
           IF op["outbound"] # Null THEN op["outbound"].ci.vouchers ELSE {}}

\* The payer's vouchers and the actor
PayerInv ==
    /\ Rising(Made)
    /\ \A v \in Made : v.nonce <= Cardinality(Made)
    /\ info["payer"].nextLane <= MaxLane + 1
    /\ Backed(actor, Made)
    /\ actor.phase # "collected" => TotalRedeemed(LaneStates(Made, actor)) <= actor.balance

\* What the payee deals with was made by the payer
MadeInv ==
    /\ Known \subseteq Made
    /\ \A i \in DOMAIN mpool : mpool[i].kind = "update" => mpool[i].voucher \in Made
    /\ ~IsTracked => /\ \A a \in Accessors : op[a] = Null
                     /\ redeem = NoRedeem /\ mpool = <<>> /\ credited = 0
                     /\ \A l \in Lanes : actor.lanes[l] = NoState

\* The voucher to be added, and funds that were there when the actor was read
\* for it and for all the payee knows
AddInv ==
    LET o == op["inbound"]
    IN  o # Null => /\ o.kind = "add" /\ o.voucher \in Made
                    /\ o.ci.vouchers \subseteq Made
                    /\ o.act # Null =>
                          /\ Backed(o.act, Made)
                          /\ \E S \in SUBSET Made :
                                /\ Known \cup {o.voucher} \subseteq S
                                /\ TotalRedeemed(LaneStates(S, o.act)) <= o.act.balance

\* The operation of RedeemAll
OutboundInv ==
    LET u == op["outbound"]
    IN  u # Null =>
           \/ u.kind = "settle" /\ redeem.at = "settle"
           \/ /\ u.kind = "submit" /\ redeem.at = "submit"
              /\ u.voucher \in redeem.best /\ ~WasSubmitted(u.ci, u.voucher)

\* While no write was lost the payee's store has all that was ever in it
KeptInv ==
    IsTracked /\ ~lost =>
        /\ Backed(actor, info["payee"].vouchers)
        /\ redeem.best \subseteq info["payee"].vouchers
        /\ \A i \in DOMAIN mpool : mpool[i].kind = "update" =>
              /\ mpool[i].voucher \in info["payee"].vouchers
              /\ \A w \in info["payee"].vouchers :
                    w.lane = mpool[i].voucher.lane /\ w.nonce <= mpool[i].voucher.nonce
                        => w \in info["payee"].submitted
        /\ op["inbound"] # Null /\ op["inbound"].act # Null
               => Backed(op["inbound"].act, info["payee"].vouchers)

\* The messages that RedeemAll has to wait for, and those it counts
WaitInv ==
    /\ \A i \in DOMAIN mpool : mpool[i].kind # "collect" /\ mpool[i].state = "pending"
                                   => i \in redeem.waitFor
    /\ redeem.at \in {"idle", "listed", "settle"} => redeem.waitFor = {}
    /\ redeem.at = "settle" => redeem.wg >= Cardinality(redeem.best) + 1
    /\ redeem.at = "submit" => redeem.wg >= Cardinality(redeem.waitFor) + Cardinality(redeem.best)

VoucherInv ==
    /\ TypeOK /\ PayerInv /\ MadeInv /\ AddInv /\ OutboundInv /\ WaitInv
    /\ KeptInv /\ CreditedIsHeld /\ SubmittedInOrder
-----------------------------------------------------------------------------
(* Lane states *)

LEMMA VoucherFinite == IsFiniteSet(Voucher) /\ \A S \in SUBSET Voucher : IsFiniteSet(S)
<1>1. IsFiniteSet(Lanes) /\ IsFiniteSet(1..MaxVouchers) /\ IsFiniteSet(Amounts)
  BY FS_Interval, VouchersAssumption DEF Lanes
<1>2. IsFiniteSet((Lanes \X Amounts) \X (1..MaxVouchers)) BY <1>1, FS_Product
<1> DEFINE T == (Lanes \X Amounts) \X (1..MaxVouchers)
           f == [t \in T |-> [lane |-> t[1][1], amount |-> t[1][2], nonce |-> t[2]]]
           image == {f[t] : t \in T}
<1>3. Voucher \subseteq image
  <2>1. SUFFICES ASSUME NEW v \in Voucher PROVE \E t \in T : v = f[t] OBVIOUS
  <2>2. /\ v = [lane |-> v.lane, amount |-> v.amount, nonce |-> v.nonce]
        /\ v.lane \in Lanes /\ v.amount \in Amounts /\ v.nonce \in 1..MaxVouchers
    BY DEF Voucher
  <2>3. <<<<v.lane, v.amount>>, v.nonce>> \in T BY <2>2
  <2>4. f[<<<<v.lane, v.amount>>, v.nonce>>] = v BY <2>2, <2>3
  <2> QED BY <2>3, <2>4
<1>4. IsFiniteSet(image)
  <2> HIDE DEF f, T
  <2> QED BY <1>2, ImageIsFinite DEF T
<1> QED BY <1>3, <1>4, FS_Subset

LEMMA VoucherTypes ==
    ASSUME NEW v \in Voucher
    PROVE  v.lane \in Lanes /\ v.amount \in Nat /\ v.amount > 0 /\ v.nonce \in Nat /\ v.nonce > 0
<1>1. v.lane \in Lanes /\ v.amount \in Amounts /\ v.nonce \in 1..MaxVouchers BY DEF Voucher
<1>2. v.amount \in Nat /\ v.amount # 0 BY <1>1, VouchersAssumption
<1>3. v.nonce \in Nat /\ v.nonce > 0 BY <1>1, VouchersAssumption
<1> QED BY <1>1, <1>2, <1>3

LEMMA ActorTypes ==
    ASSUME NEW act \in Actor
    PROVE  /\ act.balance \in Nat
           /\ \A l \in Lanes : /\ act.lanes[l] \in LaneState
                               /\ act.lanes[l].redeemed \in Nat /\ act.lanes[l].nonce \in Nat
BY DEF Actor, LaneState

\* The voucher of a lane that laneState takes, if there is one
LEMMA BestOfLane ==
    ASSUME NEW S \in SUBSET Voucher, NEW act, NEW l \in Lanes
    PROVE  LET newer == {v \in S : v.lane = l /\ v.nonce >= act.lanes[l].nonce}
           IN  \/ newer = {} /\ LaneStates(S, act)[l] = act.lanes[l]
               \/ \E v \in newer : /\ LaneStates(S, act)[l] = StateOf(v)
                                   /\ \A w \in newer : v.nonce >= w.nonce
<1> DEFINE newer == {v \in S : v.lane = l /\ v.nonce >= act.lanes[l].nonce}
           best == CHOOSE w \in newer : \A x \in newer : w.nonce >= x.nonce
           nonce == [v \in Voucher |-> v.nonce]
<1>1. LaneStates(S, act)[l] = IF newer = {} THEN act.lanes[l]
                              ELSE [redeemed |-> best.amount, nonce |-> best.nonce]
  BY DEF LaneStates
<1>2. CASE newer = {} BY <1>1, <1>2
<1>3. CASE newer # {}
  <2>1. IsFiniteSet(newer) BY VoucherFinite
  <2>2. newer \subseteq Voucher /\ \A v \in newer : nonce[v] = v.nonce /\ nonce[v] \in Int
    BY VoucherTypes
  <2>3. \E w \in newer : \A x \in newer : w.nonce >= x.nonce
    <3> HIDE DEF newer, nonce
    <3>1. \E w \in newer : \A x \in newer : nonce[w] >= nonce[x] BY <1>3, <2>1, <2>2, SomeMaximum
    <3> QED BY <2>2, <3>1
  <2>4. best \in newer /\ \A x \in newer : best.nonce >= x.nonce
    <3> HIDE DEF newer
    <3> QED BY <2>3
  <2> HIDE DEF newer, best
  <2> QED BY <1>1, <1>3, <2>4 DEF StateOf, newer
<1> QED BY <1>2, <1>3

\* The state of a lane comes from the actor or from a stored voucher, and is
\* not behind either
LEMMA LaneFacts ==
    ASSUME NEW T \in SUBSET Voucher, Rising(T), NEW S \in SUBSET T,
           NEW act \in Actor, Backed(act, T), NEW l \in Lanes
    PROVE  /\ LaneStates(S, act)[l].redeemed \in Nat /\ LaneStates(S, act)[l].nonce \in Nat
           /\ \/ LaneStates(S, act)[l] = NoState
              \/ \E v \in T : v.lane = l /\ LaneStates(S, act)[l] = StateOf(v)
           /\ \/ LaneStates(S, act)[l] = act.lanes[l]
              \/ \E v \in S : v.lane = l /\ LaneStates(S, act)[l] = StateOf(v)
           /\ LaneStates(S, act)[l].nonce >= act.lanes[l].nonce
           /\ LaneStates(S, act)[l].redeemed >= act.lanes[l].redeemed
           /\ \A v \in S : v.lane = l => /\ v.nonce <= LaneStates(S, act)[l].nonce
                                         /\ v.amount <= LaneStates(S, act)[l].redeemed
<1> DEFINE newer == {v \in S : v.lane = l /\ v.nonce >= act.lanes[l].nonce}
           st == LaneStates(S, act)[l]
           old == act.lanes[l]
<1>1. \/ newer = {} /\ st = old
      \/ \E v \in newer : st = StateOf(v) /\ \A w \in newer : v.nonce >= w.nonce
  <2>1. S \in SUBSET Voucher OBVIOUS
  <2> QED BY <2>1, BestOfLane
<1>2. old = NoState \/ \E v \in T : v.lane = l /\ old = StateOf(v) BY DEF Backed
<1>3. old.redeemed \in Nat /\ old.nonce \in Nat BY ActorTypes
<1>4. \A v \in T : v.nonce \in Nat /\ v.nonce > 0 /\ v.amount \in Nat /\ v.amount > 0 BY VoucherTypes
<1>5. \A v, w \in T : v.lane = w.lane /\ v.nonce <= w.nonce => v.amount <= w.amount
  BY <1>4 DEF Rising
<1> HIDE DEF st, old
<1>6. \A v \in S : v.lane = l => v \in newer \/ v.nonce < old.nonce BY <1>3, <1>4 DEF old
<1>7. \A v \in newer : v \in S /\ v \in T /\ v.lane = l /\ v.nonce >= old.nonce BY DEF old
<1> HIDE DEF newer
<1>8. \A v : StateOf(v).redeemed = v.amount /\ StateOf(v).nonce = v.nonce BY DEF StateOf
<1>9. NoState.redeemed = 0 /\ NoState.nonce = 0 BY DEF NoState
<1>10. CASE newer = {} /\ st = old
  <2>1. ASSUME NEW v \in S, v.lane = l PROVE v.nonce <= st.nonce /\ v.amount <= st.redeemed
    <3>1. v.nonce < old.nonce /\ v \in T BY <1>6, <1>10, <2>1
    <3>2. PICK w \in T : w.lane = l /\ old = StateOf(w) BY <1>2, <1>4, <1>9, <3>1
    <3> QED BY <1>4, <1>5, <1>8, <1>10, <2>1, <3>1, <3>2
  <2> QED BY <1>2, <1>3, <1>10, <2>1 DEF st, old
<1>11. CASE \E v \in newer : st = StateOf(v) /\ \A w \in newer : v.nonce >= w.nonce
  <2>1. PICK v \in newer : st = StateOf(v) /\ \A w \in newer : v.nonce >= w.nonce BY <1>11
  <2>2. /\ v \in S /\ v \in T /\ v.lane = l /\ v.nonce >= old.nonce
        /\ st.nonce = v.nonce /\ st.redeemed = v.amount
    BY <1>7, <1>8, <2>1
  <2>3. st.redeemed >= old.redeemed BY <1>2, <1>4, <1>5, <1>8, <1>9, <2>2
  <2>4. ASSUME NEW w \in S, w.lane = l PROVE w.nonce <= st.nonce /\ w.amount <= st.redeemed
    <3>1. w \in T OBVIOUS
    <3>2. w.nonce <= v.nonce BY <1>3, <1>4, <1>6, <2>1, <2>2, <2>4, <3>1
    <3> QED BY <1>5, <2>2, <2>4, <3>1, <3>2
  <2> QED BY <1>3, <1>4, <2>1, <2>2, <2>3, <2>4 DEF st, old
<1> QED BY <1>1, <1>10, <1>11

\* Fewer vouchers, or another state of the actor, leave no lane further on
LEMMA LanesGrow ==
    ASSUME NEW T \in SUBSET Voucher, Rising(T), NEW S \in SUBSET T,
           NEW a \in Actor, Backed(a, T), NEW b \in Actor, Backed(b, T), NEW l \in Lanes
    PROVE  /\ LaneStates(S, a)[l].redeemed <= LaneStates(T, b)[l].redeemed
           /\ LaneStates(S, a)[l].nonce <= LaneStates(T, b)[l].nonce
<1>1. \/ LaneStates(S, a)[l] = NoState
      \/ \E v \in T : v.lane = l /\ LaneStates(S, a)[l] = StateOf(v)
  BY LaneFacts
<1>2. T \in SUBSET T OBVIOUS
<1>3. /\ LaneStates(T, b)[l].redeemed \in Nat /\ LaneStates(T, b)[l].nonce \in Nat
      /\ \A v \in T : v.lane = l => /\ v.nonce <= LaneStates(T, b)[l].nonce
                                    /\ v.amount <= LaneStates(T, b)[l].redeemed
  BY <1>2, LaneFacts
<1>4. CASE LaneStates(S, a)[l] = NoState BY <1>3, <1>4 DEF NoState
<1>5. CASE \E v \in T : v.lane = l /\ LaneStates(S, a)[l] = StateOf(v) BY <1>3, <1>5 DEF StateOf
<1> QED BY <1>1, <1>4, <1>5

LEMMA TotalOf ==
    ASSUME NEW lanes, \A l \in Lanes : lanes[l].redeemed \in Nat
    PROVE  TotalRedeemed(lanes) \in Nat
<1> DEFINE f == [l \in Lanes |-> lanes[l].redeemed]
<1>1. IsFiniteSet(Lanes) BY FS_Interval, VouchersAssumption DEF Lanes
<1>2. \A l \in Lanes : f[l] \in Nat OBVIOUS
<1>3. TotalRedeemed(lanes) = SumFunctionOnSet(f, Lanes) BY DEF TotalRedeemed, SumFunction
<1> HIDE DEF f
<1> QED BY <1>1, <1>2, <1>3, SumRecursion

LEMMA TotalsGrow ==
    ASSUME NEW lanes, NEW more,
           \A l \in Lanes : /\ lanes[l].redeemed \in Nat /\ more[l].redeemed \in Nat
                            /\ lanes[l].redeemed <= more[l].redeemed
    PROVE  TotalRedeemed(lanes) <= TotalRedeemed(more)
<1> DEFINE f == [l \in Lanes |-> lanes[l].redeemed]
           g == [l \in Lanes |-> more[l].redeemed]
<1>1. IsFiniteSet(Lanes) BY FS_Interval, VouchersAssumption DEF Lanes
<1>2. \A l \in Lanes : f[l] \in Nat /\ g[l] \in Nat /\ f[l] <= g[l] OBVIOUS
<1>3. /\ TotalRedeemed(lanes) = SumFunctionOnSet(f, Lanes)
      /\ TotalRedeemed(more) = SumFunctionOnSet(g, Lanes)
  BY DEF TotalRedeemed, SumFunction
<1>4. Lanes \in SUBSET Lanes OBVIOUS
<1> HIDE DEF f, g
<1> QED BY <1>1, <1>2, <1>3, <1>4, SumLeq

\* A lane that goes on adds to the total what its voucher is worth more
LEMMA TotalChanges ==
    ASSUME NEW lanes, NEW more, NEW k \in Lanes,
           \A l \in Lanes : lanes[l].redeemed \in Nat /\ more[l].redeemed \in Nat,
           \A l \in Lanes : l # k => more[l].redeemed = lanes[l].redeemed
    PROVE  TotalRedeemed(more) = TotalRedeemed(lanes) + more[k].redeemed - lanes[k].redeemed
<1> DEFINE f == [l \in Lanes |-> lanes[l].redeemed]
           g == [l \in Lanes |-> more[l].redeemed]
           rest == Lanes \ {k}
<1>1. IsFiniteSet(Lanes) BY FS_Interval, VouchersAssumption DEF Lanes
<1>2. \A l \in Lanes : /\ f[l] \in Nat /\ g[l] \in Nat /\ f[l] = lanes[l].redeemed
                       /\ g[l] = more[l].redeemed
  OBVIOUS
<1>3. /\ TotalRedeemed(lanes) = SumFunctionOnSet(f, Lanes)
      /\ TotalRedeemed(more) = SumFunctionOnSet(g, Lanes)
  BY DEF TotalRedeemed, SumFunction
<1>4. IsFiniteSet(rest) /\ \A l \in rest : f[l] \in Nat /\ g[l] = f[l] BY <1>1, FS_Subset
<1> HIDE DEF f, g
<1>5. /\ SumFunctionOnSet(f, Lanes) = f[k] + SumFunctionOnSet(f, rest)
      /\ SumFunctionOnSet(g, Lanes) = g[k] + SumFunctionOnSet(g, rest)
  BY <1>1, <1>2, SumRemove
<1>6. SumFunctionOnSet(g, rest) = SumFunctionOnSet(f, rest) /\ SumFunctionOnSet(f, rest) \in Nat
  <2> HIDE DEF rest
  <2> QED BY <1>4, SumAgree, SumRecursion
<1>7. f[k] \in Nat /\ g[k] \in Nat /\ f[k] = lanes[k].redeemed /\ g[k] = more[k].redeemed BY <1>2
<1> HIDE DEF rest
<1> QED BY <1>3, <1>5, <1>6, <1>7

LEMMA TotalsWithin ==
    ASSUME NEW T \in SUBSET Voucher, Rising(T), NEW S \in SUBSET T,
           NEW a \in Actor, Backed(a, T), NEW b \in Actor, Backed(b, T)
    PROVE  /\ TotalRedeemed(LaneStates(S, a)) \in Nat
           /\ TotalRedeemed(LaneStates(T, b)) \in Nat
           /\ TotalRedeemed(LaneStates(S, a)) <= TotalRedeemed(LaneStates(T, b))
<1>1. T \in SUBSET T OBVIOUS
<1>2. \A l \in Lanes : /\ LaneStates(S, a)[l].redeemed \in Nat
                       /\ LaneStates(T, b)[l].redeemed \in Nat
                       /\ LaneStates(S, a)[l].redeemed <= LaneStates(T, b)[l].redeemed
  BY <1>1, LaneFacts, LanesGrow
<1> QED BY <1>2, TotalOf, TotalsGrow

\* The same, for a part of the vouchers that need not back the actor
LEMMA PartsWithin ==
    ASSUME NEW T \in SUBSET Voucher, Rising(T), NEW R \in SUBSET T, NEW S \in SUBSET R,
           NEW act \in Actor, Backed(act, T)
    PROVE  TotalRedeemed(LaneStates(S, act)) <= TotalRedeemed(LaneStates(R, act))
<1>1. S \in SUBSET T OBVIOUS
<1>2. ASSUME NEW l \in Lanes
      PROVE  /\ LaneStates(S, act)[l].redeemed \in Nat /\ LaneStates(R, act)[l].redeemed \in Nat
             /\ LaneStates(S, act)[l].redeemed <= LaneStates(R, act)[l].redeemed
  <2>1. /\ LaneStates(S, act)[l].redeemed \in Nat
        /\ \/ LaneStates(S, act)[l] = act.lanes[l]
           \/ \E v \in S : v.lane = l /\ LaneStates(S, act)[l] = StateOf(v)
    BY <1>1, LaneFacts
  <2>2. /\ LaneStates(R, act)[l].redeemed \in Nat
        /\ LaneStates(R, act)[l].redeemed >= act.lanes[l].redeemed
        /\ \A v \in R : v.lane = l => v.amount <= LaneStates(R, act)[l].redeemed
    BY LaneFacts
  <2>3. CASE LaneStates(S, act)[l] = act.lanes[l] BY <2>1, <2>2, <2>3
  <2>4. CASE \E v \in S : v.lane = l /\ LaneStates(S, act)[l] = StateOf(v)
    <3>1. PICK v \in S : v.lane = l /\ LaneStates(S, act)[l] = StateOf(v) BY <2>4
    <3>2. v \in R /\ LaneStates(S, act)[l].redeemed = v.amount BY <3>1 DEF StateOf
    <3> QED BY <2>1, <2>2, <3>1, <3>2
  <2> QED BY <2>1, <2>3, <2>4
<1> QED BY <1>2, TotalsGrow

\* A newer voucher becomes the state of its lane
LEMMA VoucherAdds ==
    ASSUME NEW T \in SUBSET Voucher, Rising(T), NEW S \in SUBSET T,
           NEW act \in Actor, Backed(act, T), NEW v \in Voucher,
           v.nonce > LaneStates(S, act)[v.lane].nonce
    PROVE  /\ TotalRedeemed(LaneStates(S \cup {v}, act)) = TotalWithVoucher(LaneStates(S, act), v)
           /\ TotalRedeemed(LaneStates(S, act)) \in Nat
           /\ LaneStates(S, act)[v.lane].redeemed \in Nat
<1> DEFINE k == v.lane
           more == S \cup {v}
           before == LaneStates(S, act)
           after == LaneStates(more, act)
<1>1. k \in Lanes /\ v.nonce \in Nat /\ v.amount \in Nat BY VoucherTypes
<1>2. S \in SUBSET Voucher /\ more \in SUBSET Voucher OBVIOUS
<1>3. \A l \in Lanes : before[l].redeemed \in Nat BY LaneFacts
<1>4. \A l \in Lanes : l # k => after[l] = before[l]
  <2>1. SUFFICES ASSUME NEW l \in Lanes, l # k PROVE after[l] = before[l] OBVIOUS
  <2> DEFINE newer(stored) == {w \in stored : w.lane = l /\ w.nonce >= act.lanes[l].nonce}
             state(N) == IF N = {} THEN act.lanes[l]
                         ELSE LET b == CHOOSE w \in N : \A x \in N : w.nonce >= x.nonce
                              IN  [redeemed |-> b.amount, nonce |-> b.nonce]
  <2>2. newer(more) = newer(S) BY <2>1
  <2>3. after[l] = state(newer(more)) /\ before[l] = state(newer(S)) BY DEF LaneStates
  <2> HIDE DEF newer, state, more, after, before
  <2> QED BY <2>2, <2>3
<1>5. after[k] = StateOf(v)
  <2> DEFINE newer == {w \in more : w.lane = k /\ w.nonce >= act.lanes[k].nonce}
  <2>1. /\ before[k].nonce \in Nat /\ before[k].nonce >= act.lanes[k].nonce
        /\ \A w \in S : w.lane = k => w.nonce <= before[k].nonce
    BY <1>1, LaneFacts
  <2>2. \/ newer = {} /\ after[k] = act.lanes[k]
        \/ \E w \in newer : after[k] = StateOf(w) /\ \A x \in newer : w.nonce >= x.nonce
    BY <1>1, <1>2, BestOfLane
  <2>3. act.lanes[k].nonce \in Nat BY <1>1, ActorTypes
  <2>4. before[k].nonce < v.nonce OBVIOUS
  <2> HIDE DEF before, after
  <2>5. v \in newer BY <1>1, <2>1, <2>3, <2>4
  <2>6. \A w \in newer : w = v \/ (w \in S /\ w.lane = k) OBVIOUS
  <2>7. \A w \in newer : w # v => w.nonce \in Nat /\ w.nonce < v.nonce
    BY <1>1, <1>2, <2>1, <2>4, <2>6, VoucherTypes
  <2> HIDE DEF newer
  <2> QED BY <1>1, <2>2, <2>5, <2>7
<1>6. \A l \in Lanes : after[l].redeemed \in Nat BY <1>1, <1>3, <1>4, <1>5 DEF StateOf
<1>7. after[k].redeemed = v.amount BY <1>5 DEF StateOf
<1> HIDE DEF before, after, k
<1>8. TotalRedeemed(after) = TotalRedeemed(before) + after[k].redeemed - before[k].redeemed
  BY <1>1, <1>3, <1>4, <1>6, TotalChanges DEF k
<1>9. TotalRedeemed(before) \in Nat /\ before[k].redeemed \in Nat BY <1>1, <1>3, TotalOf DEF k
<1>10. TotalWithVoucher(before, v) = TotalRedeemed(before) + v.amount - before[k].redeemed
  BY DEF TotalWithVoucher, k
<1> QED BY <1>7, <1>8, <1>9, <1>10 DEF before, after, k

\* A valid voucher keeps the amounts rising
LEMMA ValidRises ==
    ASSUME NEW T \in SUBSET Voucher, Rising(T), NEW act \in Actor, Backed(act, T),
           NEW v \in Voucher, CheckVoucherValid(LaneStates(T, act), act, v)
    PROVE  Rising(T \cup {v})
<1> DEFINE st == LaneStates(T, act)[v.lane]
<1>1. v.lane \in Lanes /\ v.nonce \in Nat /\ v.amount \in Nat BY VoucherTypes
<1>2. /\ st.nonce \in Nat /\ st.redeemed \in Nat
      /\ \A w \in T : w.lane = v.lane => w.nonce <= st.nonce /\ w.amount <= st.redeemed
  <2>1. T \in SUBSET T OBVIOUS
  <2> QED BY <1>1, <2>1, LaneFacts
<1>3. v.nonce > st.nonce /\ v.amount > st.redeemed BY DEF CheckVoucherValid
<1> HIDE DEF st
<1>4. ASSUME NEW w \in T, w.lane = v.lane PROVE w.nonce < v.nonce /\ w.amount < v.amount
  <2>1. w.nonce \in Nat /\ w.amount \in Nat BY VoucherTypes
  <2> QED BY <1>1, <1>2, <1>3, <1>4, <2>1
<1>5. \A w \in T : w.nonce \in Nat /\ w.amount \in Nat BY VoucherTypes
<1> QED BY <1>1, <1>4, <1>5 DEF Rising

\* A voucher of the payer's that is newer than those the payee has is valid, if
\* there are funds for it and for what the payee has
LEMMA NewerVoucherIsValid ==
    ASSUME NEW T \in SUBSET Voucher, Rising(T), NEW R \in SUBSET T, NEW S \in SUBSET R,
           NEW v \in R, NEW act \in Actor, Backed(act, T),
           TotalRedeemed(LaneStates(R, act)) <= act.balance,
           v.nonce > LaneStates(S, act)[v.lane].nonce
    PROVE  CheckVoucherValid(LaneStates(S, act), act, v)
<1> DEFINE st == LaneStates(S, act)[v.lane]
<1>1. S \in SUBSET T /\ v \in Voucher /\ v \in T /\ S \cup {v} \in SUBSET R
      /\ S \cup {v} \in SUBSET T /\ v.lane \in Lanes
  BY VoucherTypes
<1>2. v.amount > st.redeemed
  <2>1. st = NoState \/ \E w \in T : w.lane = v.lane /\ st = StateOf(w) BY <1>1, LaneFacts
  <2>2. v.nonce > st.nonce OBVIOUS
  <2> HIDE DEF st
  <2>3. CASE st = NoState BY <1>1, <2>3, VoucherTypes DEF NoState
  <2>4. CASE \E w \in T : w.lane = v.lane /\ st = StateOf(w)
    <3>1. PICK w \in T : w.lane = v.lane /\ st = StateOf(w) BY <2>4
    <3>2. st.nonce = w.nonce /\ st.redeemed = w.amount BY <3>1 DEF StateOf
    <3>3. /\ w.nonce \in Nat /\ v.nonce \in Nat /\ w.amount \in Nat /\ v.amount \in Nat
      BY <1>1, VoucherTypes
    <3>4. w # v /\ w.nonce < v.nonce BY <2>2, <3>2, <3>3
    <3> QED BY <1>1, <3>1, <3>2, <3>3, <3>4 DEF Rising
  <2> QED BY <2>1, <2>3, <2>4
<1>3. TotalRedeemed(LaneStates(S \cup {v}, act)) = TotalWithVoucher(LaneStates(S, act), v)
  BY <1>1, VoucherAdds
<1> DEFINE x == TotalRedeemed(LaneStates(S \cup {v}, act))
           y == TotalRedeemed(LaneStates(R, act))
<1>4. x \in Nat /\ y \in Nat
  <2>1. \A l \in Lanes : /\ LaneStates(S \cup {v}, act)[l].redeemed \in Nat
                         /\ LaneStates(R, act)[l].redeemed \in Nat
    BY <1>1, LaneFacts
  <2> QED BY <2>1, TotalOf
<1>5. x <= y BY <1>1, PartsWithin
<1>6. act.balance \in Nat BY ActorTypes
<1>7. y <= act.balance OBVIOUS
<1> HIDE DEF x, y
<1>8. act.balance >= x BY <1>4, <1>5, <1>6, <1>7
<1> QED BY <1>2, <1>3, <1>8 DEF CheckVoucherValid, x
-----------------------------------------------------------------------------
(* Types *)

LEMMA InfoTypes ==
    ASSUME TypeOK
    PROVE  /\ Made \in SUBSET Voucher
           /\ info["payer"] \in ChannelInfo
           /\ IsTracked => /\ info["payee"] \in ChannelInfo
                           /\ info["payee"].vouchers \in SUBSET Voucher
           /\ \A a \in Accessors : op[a] # Null =>
                 /\ op[a] \in Operation /\ op[a].ci \in ChannelInfo
                 /\ op[a].ci.vouchers \in SUBSET Voucher
                 /\ op[a].voucher \in Voucher \cup {Null} /\ op[a].act \in Actor \cup {Null}
BY DEF TypeOK, Made, IsTracked, ChannelInfo, Sides, Operation

LEMMA RedeemTypes ==
    ASSUME TypeOK
    PROVE  /\ redeem.best \in SUBSET Voucher /\ IsFiniteSet(redeem.best)
           /\ redeem.waitFor \in SUBSET (0..Len(mpool)) /\ IsFiniteSet(redeem.waitFor)
           /\ redeem.wg \in Nat /\ redeem.skipped \in BOOLEAN
           /\ redeem.at \in {"idle", "listed", "settle", "submit"}
           /\ Len(mpool) \in Nat /\ Cardinality(redeem.best) \in Nat
           /\ Cardinality(redeem.waitFor) \in Nat
           /\ redeem = [at |-> redeem.at, best |-> redeem.best, waitFor |-> redeem.waitFor,
                        wg |-> redeem.wg, skipped |-> redeem.skipped]
<1>1. /\ redeem.best \in SUBSET Voucher /\ redeem.waitFor \in SUBSET (0..Len(mpool))
      /\ redeem.wg \in Nat /\ redeem.skipped \in BOOLEAN
      /\ redeem.at \in {"idle", "listed", "settle", "submit"} /\ Len(mpool) \in Nat
      /\ redeem = [at |-> redeem.at, best |-> redeem.best, waitFor |-> redeem.waitFor,
                   wg |-> redeem.wg, skipped |-> redeem.skipped]
  BY DEF TypeOK
<1>2. IsFiniteSet(redeem.best) BY <1>1, VoucherFinite
<1>3. IsFiniteSet(0..Len(mpool))
  <2> DEFINE n == Len(mpool)
  <2>1. 0 \in Int /\ n \in Int BY <1>1
  <2> HIDE DEF n
  <2>2. IsFiniteSet(0..n) BY <2>1, FS_Interval
  <2> QED BY <2>2 DEF n
<1>4. IsFiniteSet(redeem.waitFor) BY <1>1, <1>3, FS_Subset
<1> QED BY <1>1, <1>2, <1>4, FS_CardinalityType

LEMMA SameLanes ==
    ASSUME NEW a, NEW b, a.lanes = b.lanes
    PROVE  \A S : LaneStates(S, a) = LaneStates(S, b) /\ (Backed(a, S) <=> Backed(b, S))
BY DEF LaneStates, Backed

LEMMA BackedGrows ==
    ASSUME NEW act, NEW S, NEW T, S \subseteq T, Backed(act, S)
    PROVE  Backed(act, T)
BY DEF Backed
-----------------------------------------------------------------------------
(* Steps that change neither the store nor the chain *)

LEMMA AddStays ==
    ASSUME AddInv, op'["inbound"] = op["inbound"], Made \subseteq Made', Known' \subseteq Known
    PROVE  AddInv'
<1> DEFINE o == op["inbound"]
<1>1. SUFFICES ASSUME o # Null
               PROVE  /\ o.kind = "add" /\ o.voucher \in Made'
                      /\ o.ci.vouchers \subseteq Made'
                      /\ o.act # Null =>
                            /\ Backed(o.act, Made')
                            /\ \E S \in SUBSET Made' :
                                  /\ Known' \cup {o.voucher} \subseteq S
                                  /\ TotalRedeemed(LaneStates(S, o.act)) <= o.act.balance
  BY DEF AddInv
<1>2. /\ o.kind = "add" /\ o.voucher \in Made /\ o.ci.vouchers \subseteq Made
      /\ o.act # Null =>
            /\ Backed(o.act, Made)
            /\ \E S \in SUBSET Made :
                  /\ Known \cup {o.voucher} \subseteq S
                  /\ TotalRedeemed(LaneStates(S, o.act)) <= o.act.balance
  BY <1>1 DEF AddInv
<1>3. ASSUME o.act # Null
      PROVE  /\ Backed(o.act, Made')
             /\ \E S \in SUBSET Made' :
                   /\ Known' \cup {o.voucher} \subseteq S
                   /\ TotalRedeemed(LaneStates(S, o.act)) <= o.act.balance
  <2>1. Backed(o.act, Made') BY <1>2, <1>3, BackedGrows
  <2>2. PICK S \in SUBSET Made : /\ Known \cup {o.voucher} \subseteq S
                                 /\ TotalRedeemed(LaneStates(S, o.act)) <= o.act.balance
    BY <1>2, <1>3
  <2>3. S \in SUBSET Made' /\ Known' \cup {o.voucher} \subseteq S BY <2>2
  <2> HIDE DEF o
  <2> QED BY <2>1, <2>2, <2>3
<1> QED BY <1>2, <1>3

LEMMA QuietKeeps ==
    ASSUME VoucherInv, TypeOK', OutboundInv', WaitInv',
           UNCHANGED <<info, actor, mpool, credited, lost>>, op'["inbound"] = op["inbound"],
           Known' \subseteq Known,
           redeem'.best \subseteq redeem.best \cup info["payee"].vouchers,
           IsTracked \/ (op' = op /\ redeem' = redeem)
    PROVE  VoucherInv'
<1>1. PayerInv'
  BY DEF VoucherInv, PayerInv, Made, Backed, LaneStates, TotalRedeemed, SumFunction
<1>2. MadeInv' BY DEF VoucherInv, MadeInv, Made, IsTracked
<1>3. AddInv'
  <2>1. Made' = Made BY DEF Made
  <2> QED BY <2>1, AddStays DEF VoucherInv
<1>4. KeptInv' BY DEF VoucherInv, KeptInv, IsTracked, Backed
<1>5. CreditedIsHeld'
  BY DEF VoucherInv, CreditedIsHeld, Held, LaneStates, TotalRedeemed, SumFunction
<1>6. SubmittedInOrder' BY DEF VoucherInv, SubmittedInOrder
<1> QED BY <1>1, <1>2, <1>3, <1>4, <1>5, <1>6 DEF VoucherInv
-----------------------------------------------------------------------------
(* RedeemAll *)

\* TypeOK when only the payee's accessor for the channel's funds and RedeemAll move
LEMMA TypesStay ==
    ASSUME TypeOK, UNCHANGED <<info, actor, mpool, credited, lost>>, crashed' \in BOOLEAN,
           op' \in [Accessors -> Operation \cup {Null}], redeems' \in 0..MaxRedeems,
           redeem'.at \in {"idle", "listed", "settle", "submit"}, redeem'.best \in SUBSET Voucher,
           redeem'.waitFor \in SUBSET (0..Len(mpool)), redeem'.wg \in Nat,
           redeem'.skipped \in BOOLEAN,
           redeem' = [at |-> redeem'.at, best |-> redeem'.best, waitFor |-> redeem'.waitFor,
                      wg |-> redeem'.wg, skipped |-> redeem'.skipped]
    PROVE  TypeOK'
<1>1. redeem' \in [at : {"idle", "listed", "settle", "submit"}, best : SUBSET Voucher,
                   waitFor : SUBSET (0..Len(mpool)), wg : Nat, skipped : BOOLEAN]
  BY Zenon
<1> QED BY <1>1 DEF TypeOK

LEMMA StartRedeemKeeps ==
    ASSUME VoucherInv, StartRedeem
    PROVE  VoucherInv'
<1>1. /\ redeem.at = "idle" /\ redeems < MaxRedeems /\ op["outbound"] = Null /\ IsTracked
      /\ redeem' = [at |-> "listed", best |-> {}, waitFor |-> {}, wg |-> 0, skipped |-> FALSE]
      /\ redeems' = redeems + 1
      /\ UNCHANGED <<info, op, actor, mpool, credited, lost, crashed>>
  BY DEF StartRedeem, Free, NoRedeem, channelVars, IsTracked
<1>2. TypeOK'
  <2>1. TypeOK BY DEF VoucherInv
  <2>2. redeems' \in 0..MaxRedeems BY <1>1, <2>1, RedemptionAssumption DEF TypeOK
  <2> QED BY <1>1, <2>1, <2>2 DEF TypeOK
<1>3. OutboundInv' BY <1>1 DEF OutboundInv
<1>4. WaitInv' BY <1>1 DEF VoucherInv, WaitInv
<1>5. Known' \subseteq Known BY <1>1 DEF Known, IsTracked
<1> QED BY <1>1, <1>2, <1>3, <1>4, <1>5, QuietKeeps

LEMMA BestSpendableKeeps ==
    ASSUME VoucherInv, BestSpendableByLane
    PROVE  VoucherInv'
<1> DEFINE best == BestByLane(info["payee"].vouchers)
<1>1. /\ redeem.at = "listed" /\ op["outbound"] = Null /\ redeems' = redeems
      /\ redeem' = [redeem EXCEPT !.at = "settle", !.best = best, !.wg = Cardinality(best) + 1]
      /\ UNCHANGED <<info, op, actor, mpool, credited, lost, crashed>>
  BY DEF BestSpendableByLane, Free, Goroutines, channelVars
<1>2. TypeOK /\ IsTracked BY <1>1 DEF VoucherInv, MadeInv, NoRedeem
<1>3. best \subseteq info["payee"].vouchers /\ best \in SUBSET Voucher
  BY <1>2, InfoTypes DEF BestByLane
<1>4. Cardinality(best) \in Nat
  <2> HIDE DEF best
  <2> QED BY <1>3, VoucherFinite, FS_CardinalityType
<1> HIDE DEF best
<1>5. redeem' = [at |-> "settle", best |-> best, waitFor |-> redeem.waitFor,
                 wg |-> Cardinality(best) + 1, skipped |-> redeem.skipped]
  BY <1>1, <1>2, RedeemTypes
<1>6. TypeOK'
  <2>1. op' \in [Accessors -> Operation \cup {Null}] /\ redeems' \in 0..MaxRedeems
        /\ crashed' \in BOOLEAN
    BY <1>1, <1>2 DEF TypeOK
  <2>2. Cardinality(best) + 1 \in Nat BY <1>4
  <2>3. /\ redeem'.at = "settle" /\ redeem'.best = best /\ redeem'.waitFor = redeem.waitFor
        /\ redeem'.wg = Cardinality(best) + 1 /\ redeem'.skipped = redeem.skipped
    BY <1>5
  <2> QED BY <1>1, <1>2, <1>3, <1>5, <2>1, <2>2, <2>3, RedeemTypes, TypesStay
<1>7. OutboundInv' BY <1>1 DEF OutboundInv
<1>8. WaitInv' BY <1>1, <1>4, <1>5 DEF VoucherInv, WaitInv
<1>9. Known' \subseteq Known BY <1>1, <1>2, <1>3, <1>5 DEF Known, IsTracked
<1> QED BY <1>1, <1>2, <1>3, <1>5, <1>6, <1>7, <1>8, <1>9, QuietKeeps

\* The accessor for the channel's funds is locked, and its copy is the store's
LEMMA LockTypes ==
    ASSUME TypeOK, IsTracked, NEW a \in Accessors, NEW kind \in {"add", "submit", "settle"},
           NEW v \in Voucher \cup {Null}, Lock(a, kind, v)
    PROVE  /\ op' \in [Accessors -> Operation \cup {Null}]
           /\ op'[a].kind = kind /\ op'[a].voucher = v /\ op'[a].ci = info["payee"]
           /\ op'[a].act = Null
           /\ \A b \in Accessors : b # a => op'[b] = op[b]
<1> DEFINE o == [kind |-> kind, voucher |-> v, ci |-> info["payee"], act |-> Null]
<1>1. o \in Operation BY InfoTypes DEF Operation
<1>2. op \in [Accessors -> Operation \cup {Null}] /\ op' = [op EXCEPT ![a] = o] BY DEF TypeOK, Lock
<1> HIDE DEF o
<1> QED BY <1>1, <1>2 DEF o

LEMMA TwoAccessors == "inbound" \in Accessors /\ "outbound" \in Accessors /\ "inbound" # "outbound"
BY DEF Accessors

LEMMA UnlockTypes ==
    ASSUME TypeOK, NEW a \in Accessors, Unlock(a)
    PROVE  /\ op' \in [Accessors -> Operation \cup {Null}] /\ op'[a] = Null
           /\ \A b \in Accessors : b # a => op'[b] = op[b]
BY DEF TypeOK, Unlock

LEMMA StartSettleKeeps ==
    ASSUME VoucherInv, StartSettle
    PROVE  VoucherInv'
<1>1. /\ redeem.at = "settle" /\ op["outbound"] = Null /\ redeems' = redeems /\ redeem' = redeem
      /\ Lock("outbound", "settle", Null)
      /\ UNCHANGED <<info, actor, mpool, credited, lost, crashed>>
  BY DEF StartSettle, Free
<1>2. TypeOK /\ IsTracked BY <1>1 DEF VoucherInv, MadeInv, NoRedeem
<1>3. /\ op' \in [Accessors -> Operation \cup {Null}] /\ op'["inbound"] = op["inbound"]
      /\ op'["outbound"].kind = "settle" /\ op'["outbound"].ci = info["payee"]
  <2>1. Null \in Voucher \cup {Null} OBVIOUS
  <2> QED BY <1>1, <1>2, <2>1, LockTypes, TwoAccessors
<1>4. TypeOK' BY <1>1, <1>2, <1>3 DEF TypeOK
<1>5. OutboundInv' BY <1>1, <1>3 DEF OutboundInv
<1>6. WaitInv' BY <1>1 DEF VoucherInv, WaitInv
<1>7. Known' \subseteq Known BY <1>1, <1>2, <1>3 DEF Known, IsTracked
<1> QED BY <1>1, <1>2, <1>3, <1>4, <1>5, <1>6, <1>7, QuietKeeps

\* One of the best vouchers is left out, for which nothing is sent
LEMMA SkipKeeps ==
    ASSUME VoucherInv, IsTracked, redeem.at = "submit", NEW v \in redeem.best,
           UNCHANGED <<info, actor, mpool, credited, lost, crashed, redeems>>,
           redeem' = [redeem EXCEPT !.best = @ \ {v}, !.skipped = TRUE],
           op' \in [Accessors -> Operation \cup {Null}], op'["inbound"] = op["inbound"],
           op'["outbound"] = Null
    PROVE  VoucherInv'
<1>1. TypeOK BY DEF VoucherInv
<1>2. redeem' = [at |-> "submit", best |-> redeem.best \ {v}, waitFor |-> redeem.waitFor,
                 wg |-> redeem.wg, skipped |-> TRUE]
  BY <1>1, RedeemTypes
<1>3. TypeOK'
  <2>1. redeems' \in 0..MaxRedeems /\ crashed' \in BOOLEAN BY <1>1 DEF TypeOK
  <2> QED BY <1>1, <1>2, <2>1, RedeemTypes, TypesStay
<1>4. OutboundInv' BY DEF OutboundInv
<1>5. Cardinality(redeem.best \ {v}) = Cardinality(redeem.best) - 1
  BY <1>1, RedeemTypes, FS_RemoveElement
<1>6. WaitInv'
  <2>1. redeem.wg >= Cardinality(redeem.waitFor) + Cardinality(redeem.best)
    BY DEF VoucherInv, WaitInv
  <2>2. /\ redeem.wg \in Nat /\ Cardinality(redeem.waitFor) \in Nat
        /\ Cardinality(redeem.best) \in Nat
    BY <1>1, RedeemTypes
  <2>3. redeem.wg >= Cardinality(redeem.waitFor) + Cardinality(redeem.best \ {v})
    BY <1>5, <2>1, <2>2
  <2> QED BY <1>2, <2>3 DEF VoucherInv, WaitInv
<1>7. Known' \subseteq Known BY <1>2 DEF Known, IsTracked
<1> QED BY <1>2, <1>3, <1>4, <1>6, <1>7, QuietKeeps

LEMMA StartSubmitKeeps ==
    ASSUME VoucherInv, StartSubmit
    PROVE  VoucherInv'
<1>1. /\ redeem.at = "submit" /\ op["outbound"] = Null /\ redeems' = redeems
      /\ UNCHANGED <<info, actor, mpool, credited, lost, crashed>>
  BY DEF StartSubmit, Free
<1>2. TypeOK /\ IsTracked BY <1>1 DEF VoucherInv, MadeInv, NoRedeem
<1>3. PICK v \in redeem.best :
         IF WasSubmitted(info["payee"], v)
         THEN redeem' = [redeem EXCEPT !.best = @ \ {v}, !.skipped = TRUE] /\ op' = op
         ELSE Lock("outbound", "submit", v) /\ redeem' = redeem
  BY DEF StartSubmit
<1>4. CASE WasSubmitted(info["payee"], v)
  <2>1. op \in [Accessors -> Operation \cup {Null}] BY <1>2 DEF TypeOK
  <2> QED BY <1>1, <1>2, <1>3, <1>4, <2>1, SkipKeeps
<1>5. CASE ~WasSubmitted(info["payee"], v)
  <2>1. Lock("outbound", "submit", v) /\ redeem' = redeem BY <1>3, <1>5
  <2>2. v \in Voucher BY <1>2, RedeemTypes
  <2>3. /\ op' \in [Accessors -> Operation \cup {Null}] /\ op'["inbound"] = op["inbound"]
        /\ op'["outbound"].kind = "submit" /\ op'["outbound"].ci = info["payee"]
        /\ op'["outbound"].voucher = v
    BY <1>2, <2>1, <2>2, LockTypes, TwoAccessors
  <2>4. TypeOK' BY <1>1, <1>2, <2>1, <2>3 DEF TypeOK
  <2>5. OutboundInv' BY <1>1, <1>5, <2>1, <2>3 DEF OutboundInv, WasSubmitted
  <2>6. WaitInv' BY <1>1, <2>1 DEF VoucherInv, WaitInv
  <2>7. Known' \subseteq Known BY <1>1, <1>2, <2>1, <2>3 DEF Known, IsTracked
  <2> QED BY <1>1, <1>2, <2>1, <2>3, <2>4, <2>5, <2>6, <2>7, QuietKeeps
<1> QED BY <1>4, <1>5

LEMMA UnlockOutbound ==
    ASSUME TypeOK, Unlock("outbound")
    PROVE  /\ op' \in [Accessors -> Operation \cup {Null}] /\ op'["outbound"] = Null
           /\ op'["inbound"] = op["inbound"]
BY UnlockTypes, TwoAccessors

\* The outbound operation and what RedeemAll knows of it
LEMMA OutboundFacts ==
    ASSUME VoucherInv, op["outbound"] # Null
    PROVE  /\ TypeOK /\ IsTracked /\ info["payee"] # Null
           /\ op["outbound"].ci \in ChannelInfo /\ op["outbound"].ci.vouchers \subseteq Known
           /\ op["outbound"].kind = "settle" => redeem.at = "settle"
           /\ op["outbound"].kind = "submit" =>
                 /\ redeem.at = "submit" /\ op["outbound"].voucher \in redeem.best
                 /\ op["outbound"].voucher \in Voucher
                 /\ ~WasSubmitted(op["outbound"].ci, op["outbound"].voucher)
<1>1. TypeOK BY DEF VoucherInv
<1>2. IsTracked BY TwoAccessors DEF VoucherInv, MadeInv
<1>3. op["outbound"].ci \in ChannelInfo BY <1>1, InfoTypes, TwoAccessors
<1>4. op["outbound"].ci.vouchers \subseteq Known BY DEF Known
<1>5. \/ op["outbound"].kind = "settle" /\ redeem.at = "settle"
      \/ /\ op["outbound"].kind = "submit" /\ redeem.at = "submit"
         /\ op["outbound"].voucher \in redeem.best
         /\ ~WasSubmitted(op["outbound"].ci, op["outbound"].voucher)
  BY DEF VoucherInv, OutboundInv
<1>6. redeem.best \subseteq Voucher BY <1>1, RedeemTypes
<1> QED BY <1>1, <1>2, <1>3, <1>4, <1>5, <1>6 DEF IsTracked

LEMMA MarkedRecord ==
    ASSUME NEW ci \in ChannelInfo, NEW v \in Voucher
    PROVE  /\ MarkVoucherSubmitted(ci, v) \in ChannelInfo
           /\ MarkVoucherSubmitted(ci, v).vouchers = ci.vouchers \cup {v}
           /\ MarkVoucherSubmitted(ci, v).submitted =
                 ci.submitted \cup {v} \cup
                     {w \in ci.vouchers \cup {v} : w.lane = v.lane /\ w.nonce < v.nonce}
<1> DEFINE held == ci.vouchers \cup {v}
           marked == ci.submitted \cup {v} \cup {w \in held : w.lane = v.lane /\ w.nonce < v.nonce}
<1>1. held \in SUBSET Voucher /\ marked \in SUBSET Voucher BY DEF ChannelInfo
<1>2. MarkVoucherSubmitted(ci, v) = [ci EXCEPT !.vouchers = held, !.submitted = marked]
  BY DEF MarkVoucherSubmitted, ChannelInfo
<1> HIDE DEF held, marked
<1>3. /\ [ci EXCEPT !.vouchers = held, !.submitted = marked] \in ChannelInfo
      /\ [ci EXCEPT !.vouchers = held, !.submitted = marked].vouchers = held
      /\ [ci EXCEPT !.vouchers = held, !.submitted = marked].submitted = marked
  BY <1>1 DEF ChannelInfo
<1> QED BY <1>2, <1>3 DEF held, marked

\* The payee's next message
LEMMA PushedMessage ==
    ASSUME TypeOK, NEW kind \in {"update", "settle", "collect"}, NEW v \in Voucher \cup {Null},
           mpool' = Append(mpool, [kind |-> kind, voucher |-> v, state |-> "pending"])
    PROVE  /\ mpool' \in Seq(Message) /\ Len(mpool) \in Nat /\ Len(mpool') = Len(mpool) + 1
           /\ DOMAIN mpool = 1..Len(mpool) /\ DOMAIN mpool' = 1..Len(mpool')
           /\ \A i \in DOMAIN mpool : mpool'[i] = mpool[i]
           /\ \A i \in DOMAIN mpool' : i \in DOMAIN mpool \/ i = Len(mpool')
           /\ mpool'[Len(mpool')].kind = kind /\ mpool'[Len(mpool')].voucher = v
           /\ mpool'[Len(mpool')].state = "pending"
           /\ \A i \in DOMAIN mpool : i < Len(mpool')
<1> DEFINE msg == [kind |-> kind, voucher |-> v, state |-> "pending"]
<1>1. msg \in Message BY DEF Message
<1>2. mpool \in Seq(Message) /\ mpool' = Append(mpool, msg) BY DEF TypeOK
<1>3. msg.kind = kind /\ msg.voucher = v /\ msg.state = "pending" OBVIOUS
<1> HIDE DEF msg
<1> QED BY <1>1, <1>2, <1>3

\* What is left to RedeemAll when it has sent a message
LEMMA WaitsForMessage ==
    ASSUME VoucherInv, NEW kind \in {"update", "settle"}, NEW v \in Voucher \cup {Null},
           mpool' = Append(mpool, [kind |-> kind, voucher |-> v, state |-> "pending"]),
           \/ /\ redeem.at = "settle"
              /\ redeem' = [redeem EXCEPT !.at = "submit", !.waitFor = @ \cup {Len(mpool')}]
           \/ /\ redeem.at = "submit" /\ v \in redeem.best
              /\ redeem' = [redeem EXCEPT !.best = @ \ {v}, !.waitFor = @ \cup {Len(mpool')}]
    PROVE  /\ WaitInv' /\ redeem'.best \subseteq redeem.best
           /\ redeem' \in [at : {"idle", "listed", "settle", "submit"}, best : SUBSET Voucher,
                           waitFor : SUBSET (0..Len(mpool')), wg : Nat, skipped : BOOLEAN]
<1> DEFINE n == Len(mpool')
           best == IF redeem.at = "settle" THEN redeem.best ELSE redeem.best \ {v}
           waitFor == redeem.waitFor \cup {n}
<1>1. TypeOK BY DEF VoucherInv
<1>2. /\ redeem' = [at |-> "submit", best |-> best, waitFor |-> waitFor,
                    wg |-> redeem.wg, skipped |-> redeem.skipped]
  BY <1>1, RedeemTypes
<1>3. /\ Len(mpool) \in Nat /\ n = Len(mpool) + 1
      /\ \A i \in DOMAIN mpool' : i \in DOMAIN mpool \/ i = n
      /\ \A i \in DOMAIN mpool : mpool'[i] = mpool[i]
  BY <1>1, PushedMessage
<1> HIDE DEF n
<1>4. n \notin redeem.waitFor /\ waitFor \in SUBSET (0..n) /\ best \in SUBSET Voucher
  BY <1>1, <1>3, RedeemTypes
<1>5. /\ Cardinality(waitFor) = Cardinality(redeem.waitFor) + 1
      /\ Cardinality(redeem.waitFor) \in Nat /\ Cardinality(redeem.best) \in Nat
      /\ redeem.wg \in Nat
  BY <1>1, <1>4, RedeemTypes, FS_AddElement
<1>6. CASE redeem.at = "settle"
  <2>1. redeem.waitFor = {} /\ redeem.wg >= Cardinality(redeem.best) + 1
    BY <1>6 DEF VoucherInv, WaitInv
  <2>2. Cardinality(redeem.waitFor) = 0 BY <2>1, FS_EmptySet
  <2> QED BY <1>1, <1>2, <1>3, <1>4, <1>5, <1>6, <2>1, <2>2, RedeemTypes
          DEF VoucherInv, WaitInv, n
<1>7. CASE redeem.at = "submit" /\ v \in redeem.best
  <2>1. redeem.wg >= Cardinality(redeem.waitFor) + Cardinality(redeem.best)
    BY <1>7 DEF VoucherInv, WaitInv
  <2>2. Cardinality(best) = Cardinality(redeem.best) - 1
    BY <1>1, <1>7, RedeemTypes, FS_RemoveElement
  <2> HIDE DEF best
  <2>3. best \subseteq redeem.best BY <1>7 DEF best
  <2> QED BY <1>1, <1>2, <1>3, <1>4, <1>5, <1>7, <2>1, <2>2, <2>3, RedeemTypes
          DEF VoucherInv, WaitInv, n
<1> QED BY <1>6, <1>7

\* A message of RedeemAll is pushed, and the copy is written back
LEMMA SentKeeps ==
    ASSUME VoucherInv, op["outbound"] # Null, NEW kind \in {"update", "settle"},
           NEW v \in Voucher \cup {Null}, NEW ci \in ChannelInfo,
           mpool' = Append(mpool, [kind |-> kind, voucher |-> v, state |-> "pending"]),
           Put("outbound", ci), Unlock("outbound"), UNCHANGED <<actor, credited, crashed, redeems>>,
           \/ /\ kind = "settle" /\ op["outbound"].kind = "settle"
              /\ ci.vouchers = op["outbound"].ci.vouchers
              /\ ci.submitted = op["outbound"].ci.submitted
              /\ redeem' = [redeem EXCEPT !.at = "submit", !.waitFor = @ \cup {Len(mpool')}]
           \/ /\ kind = "update" /\ op["outbound"].kind = "submit" /\ v = op["outbound"].voucher
              /\ ci = MarkVoucherSubmitted(op["outbound"].ci, v)
              /\ redeem' = [redeem EXCEPT !.best = @ \ {v}, !.waitFor = @ \cup {Len(mpool')}]
    PROVE  VoucherInv'
<1> DEFINE u == op["outbound"]
           n == Len(mpool')
<1>1. /\ TypeOK /\ IsTracked /\ u.ci \in ChannelInfo /\ u.ci.vouchers \subseteq Known
      /\ u.kind = "settle" => redeem.at = "settle"
      /\ u.kind = "submit" => /\ redeem.at = "submit" /\ u.voucher \in redeem.best
                              /\ u.voucher \in Voucher /\ ~WasSubmitted(u.ci, u.voucher)
  BY OutboundFacts
<1>2. /\ WaitInv' /\ redeem'.best \subseteq redeem.best
      /\ redeem' \in [at : {"idle", "listed", "settle", "submit"}, best : SUBSET Voucher,
                      waitFor : SUBSET (0..Len(mpool')), wg : Nat, skipped : BOOLEAN]
  BY <1>1, WaitsForMessage
<1>3. /\ mpool' \in Seq(Message) /\ DOMAIN mpool' = 1..n
      /\ \A i \in DOMAIN mpool : mpool'[i] = mpool[i] /\ i \in Nat /\ i < n
      /\ \A i \in DOMAIN mpool' : i \in DOMAIN mpool \/ i = n
      /\ mpool'[n].kind = kind /\ mpool'[n].voucher = v
  <2>1. kind \in {"update", "settle", "collect"} OBVIOUS
  <2>2. \A i \in 1..Len(mpool) : i \in Nat BY <1>1 DEF TypeOK
  <2> QED BY <1>1, <2>1, <2>2, PushedMessage
<1>4. /\ op' \in [Accessors -> Operation \cup {Null}] /\ op'["outbound"] = Null
      /\ op'["inbound"] = op["inbound"]
  BY <1>1, UnlockOutbound
<1>5. /\ info' = [info EXCEPT !["payee"] = ci] /\ lost' = (lost \/ info["payee"] # u.ci)
  BY DEF Put
<1>6. /\ info' \in [Sides -> ChannelInfo \cup {Null}] /\ info'["payer"] = info["payer"]
      /\ info'["payee"] = ci /\ ci # Null /\ lost' \in BOOLEAN
  BY <1>1, <1>5, NullAssumption DEF TypeOK, Sides
<1>7. /\ ci.vouchers \subseteq u.ci.vouchers \cup redeem.best
      /\ u.ci.submitted \subseteq ci.submitted
      /\ kind = "settle" => ci.vouchers = u.ci.vouchers
      /\ kind = "update" => /\ v \in Voucher /\ v \in redeem.best /\ ci.vouchers = u.ci.vouchers \cup {v}
                            /\ ~WasSubmitted(u.ci, v)
                            /\ ci.submitted = u.ci.submitted \cup {v} \cup
                                  {w \in u.ci.vouchers \cup {v} :
                                       w.lane = v.lane /\ w.nonce < v.nonce}
  <2>1. CASE kind = "settle" BY <2>1
  <2>2. CASE kind = "update"
    <3>1. v \in Voucher /\ v \in redeem.best /\ ~WasSubmitted(u.ci, v) BY <1>1, <2>2
    <3>2. ci = MarkVoucherSubmitted(u.ci, v) BY <2>2
    <3> HIDE DEF u
    <3>3. /\ ci.vouchers = u.ci.vouchers \cup {v}
          /\ ci.submitted = u.ci.submitted \cup {v} \cup
                 {w \in u.ci.vouchers \cup {v} : w.lane = v.lane /\ w.nonce < v.nonce}
      BY <1>1, <3>1, <3>2, MarkedRecord
    <3> QED BY <2>2, <3>1, <3>3
  <2> QED BY <2>1, <2>2
<1> HIDE DEF n
<1>8. TypeOK' BY <1>1, <1>2, <1>3, <1>4, <1>6 DEF TypeOK
<1>9. Made' = Made BY <1>6 DEF Made
<1>10. PayerInv' BY <1>6, <1>9 DEF VoucherInv, PayerInv, Backed, LaneStates, TotalRedeemed, SumFunction
<1>11. Known' \subseteq Known /\ Known \subseteq Made
  <2>1. redeem.best \subseteq Known BY DEF Known
  <2>2. Known' = ci.vouchers \cup redeem'.best BY <1>4, <1>6 DEF Known, IsTracked
  <2>3. Known' \subseteq Known BY <1>1, <1>2, <1>7, <2>1, <2>2
  <2> QED BY <2>3 DEF VoucherInv, MadeInv
<1>12. MadeInv'
  <2>1. IsTracked' BY <1>6 DEF IsTracked
  <2>2. kind = "update" => v \in Made BY <1>7, <1>11 DEF Known
  <2> QED BY <1>3, <1>9, <1>11, <2>1, <2>2 DEF VoucherInv, MadeInv
<1>13. AddInv' BY <1>4, <1>9, <1>11, AddStays DEF VoucherInv
<1>14. OutboundInv' BY <1>4 DEF OutboundInv
<1>15. ASSUME ~lost'
       PROVE  /\ ~lost /\ info["payee"] = u.ci /\ ci.vouchers = info["payee"].vouchers
              /\ redeem.best \subseteq info["payee"].vouchers
              /\ Backed(actor, info["payee"].vouchers)
              /\ \A i \in DOMAIN mpool : mpool[i].kind = "update" =>
                    /\ mpool[i].voucher \in info["payee"].vouchers
                    /\ \A w \in info["payee"].vouchers :
                          w.lane = mpool[i].voucher.lane /\ w.nonce <= mpool[i].voucher.nonce
                              => w \in info["payee"].submitted
              /\ op["inbound"] # Null /\ op["inbound"].act # Null
                     => Backed(op["inbound"].act, info["payee"].vouchers)
  <2>1. ~lost /\ info["payee"] = u.ci BY <1>5, <1>15
  <2> HIDE DEF u
  <2>2. redeem.best \subseteq info["payee"].vouchers BY <1>1, <2>1 DEF VoucherInv, KeptInv
  <2>3. ci.vouchers = info["payee"].vouchers BY <1>7, <2>1, <2>2
  <2> QED BY <1>1, <2>1, <2>2, <2>3 DEF VoucherInv, KeptInv
<1> HIDE DEF u
<1>16. KeptInv'
  <2>1. SUFFICES ASSUME ~lost'
                 PROVE  /\ Backed(actor, ci.vouchers) /\ redeem'.best \subseteq ci.vouchers
                        /\ \A i \in DOMAIN mpool' : mpool'[i].kind = "update" =>
                              /\ mpool'[i].voucher \in ci.vouchers
                              /\ \A w \in ci.vouchers :
                                    w.lane = mpool'[i].voucher.lane
                                    /\ w.nonce <= mpool'[i].voucher.nonce => w \in ci.submitted
                        /\ op["inbound"] # Null /\ op["inbound"].act # Null
                               => Backed(op["inbound"].act, ci.vouchers)
    BY <1>4, <1>6 DEF KeptInv
  <2>2. ASSUME kind = "update", NEW w \in ci.vouchers, w.lane = v.lane, w.nonce <= v.nonce
        PROVE  w \in ci.submitted
    <3>1. w \in Made /\ v \in Made /\ Rising(Made)
      BY <1>1, <1>7, <1>11, <1>15, <2>1, <2>2 DEF VoucherInv, PayerInv
    <3>2. w.nonce \in Nat /\ v.nonce \in Nat
      BY <1>7, <2>2, VoucherTypes DEF ChannelInfo
    <3>3. w = v \/ w.nonce < v.nonce BY <2>2, <3>1, <3>2 DEF Rising
    <3> QED BY <1>7, <2>2, <3>3, Zenon
  <2>3. kind = "update" => v \in ci.vouchers BY <1>7
  <2> QED BY <1>2, <1>3, <1>7, <1>15, <2>1, <2>2, <2>3
<1>17. CreditedIsHeld'
  <2>1. SUFFICES ASSUME ~lost' PROVE credited = TotalRedeemed(LaneStates(ci.vouchers, actor))
    BY <1>6 DEF CreditedIsHeld, Held
  <2> QED BY <1>1, <1>15, <2>1 DEF VoucherInv, CreditedIsHeld, Held, IsTracked
<1>18. SubmittedInOrder'
  <2>1. SUFFICES ASSUME ~lost', NEW j \in DOMAIN mpool', NEW i \in 1..(j - 1),
                        mpool'[i].kind = "update", mpool'[j].kind = "update",
                        mpool'[i].voucher.lane = mpool'[j].voucher.lane
                 PROVE  mpool'[i].voucher.nonce < mpool'[j].voucher.nonce
    BY DEF SubmittedInOrder
  <2>2. n \in Nat /\ i < j /\ i \in DOMAIN mpool' /\ i \in Nat /\ j \in Nat
    BY <1>3 DEF TypeOK
  <2>3. i \in DOMAIN mpool BY <1>3, <2>2
  <2>4. CASE j \in DOMAIN mpool
    BY <1>3, <1>15, <2>1, <2>3, <2>4 DEF VoucherInv, SubmittedInOrder
  <2>5. CASE j = n
    <3>1. kind = "update" /\ mpool'[i] = mpool[i] /\ mpool'[j].voucher = v
      BY <1>3, <2>1, <2>3, <2>5
    <3>2. v \in info["payee"].vouchers /\ v \notin info["payee"].submitted
      BY <1>7, <1>15, <2>1, <3>1 DEF WasSubmitted
    <3>3. /\ mpool[i].voucher \in info["payee"].vouchers
          /\ ~(v.nonce <= mpool[i].voucher.nonce)
      BY <1>15, <2>1, <2>3, <3>1, <3>2
    <3>4. v.nonce \in Nat /\ mpool[i].voucher.nonce \in Nat
      BY <1>1, <3>2, <3>3, InfoTypes, VoucherTypes
    <3> QED BY <3>1, <3>3, <3>4
  <2> QED BY <1>3, <2>4, <2>5
<1> QED BY <1>2, <1>8, <1>10, <1>12, <1>13, <1>14, <1>16, <1>17, <1>18 DEF VoucherInv

LEMMA FinishSettleKeeps ==
    ASSUME VoucherInv, FinishSettle
    PROVE  VoucherInv'
<1> DEFINE u == op["outbound"]
           ci == [u.ci EXCEPT !.settling = TRUE]
<1>1. u # Null /\ u.kind = "settle" /\ Unlock("outbound")
      /\ UNCHANGED <<actor, credited, crashed, redeems>>
  BY DEF FinishSettle
<1>2. /\ TypeOK /\ IsTracked /\ u.ci \in ChannelInfo /\ redeem.at = "settle"
  BY <1>1, OutboundFacts
<1>3. ci \in ChannelInfo /\ ci.vouchers = u.ci.vouchers /\ ci.submitted = u.ci.submitted
  <2> HIDE DEF u
  <2> QED BY <1>2 DEF ChannelInfo
<1>4. CASE /\ Push("settle", Null) /\ Put("outbound", ci)
           /\ redeem' = [redeem EXCEPT !.at = "submit", !.waitFor = @ \cup {Len(mpool')}]
  <2>1. mpool' = Append(mpool, [kind |-> "settle", voucher |-> Null, state |-> "pending"])
    BY <1>4 DEF Push
  <2>2. "settle" \in {"update", "settle"} /\ Null \in Voucher \cup {Null} OBVIOUS
  <2> HIDE DEF ci
  <2> QED BY <1>1, <1>3, <1>4, <2>1, <2>2, SentKeeps
<1>5. CASE /\ PushFails("settle", Null)
           /\ redeem' = [redeem EXCEPT !.at = "submit", !.waitFor = @ \cup {Undef}]
           /\ UNCHANGED <<info, lost>>
  <2>1. mpool' = mpool BY <1>5 DEF PushFails
  <2>2. /\ op' \in [Accessors -> Operation \cup {Null}] /\ op'["outbound"] = Null
        /\ op'["inbound"] = op["inbound"]
    BY <1>1, <1>2, UnlockOutbound
  <2>3. redeem.waitFor = {} /\ redeem.wg >= Cardinality(redeem.best) + 1
    BY <1>2 DEF VoucherInv, WaitInv
  <2>4. redeem' = [at |-> "submit", best |-> redeem.best, waitFor |-> {0},
                   wg |-> redeem.wg, skipped |-> redeem.skipped]
    BY <1>2, <1>5, <2>3, RedeemTypes DEF Undef
  <2>5. {0} \in SUBSET (0..Len(mpool)) BY <1>2, RedeemTypes
  <2>6. TypeOK'
    <3>1. redeems' \in 0..MaxRedeems /\ crashed' \in BOOLEAN BY <1>1, <1>2 DEF TypeOK
    <3>2. /\ redeem'.at = "submit" /\ redeem'.best = redeem.best /\ redeem'.waitFor = {0}
          /\ redeem'.wg = redeem.wg /\ redeem'.skipped = redeem.skipped
      BY <2>4
    <3>3. UNCHANGED <<info, actor, mpool, credited, lost>> BY <1>1, <1>5, <2>1
    <3>4. redeem' = [at |-> redeem'.at, best |-> redeem'.best, waitFor |-> redeem'.waitFor,
                     wg |-> redeem'.wg, skipped |-> redeem'.skipped]
      BY <2>4
    <3> HIDE DEF u, ci
    <3> QED BY <1>2, <2>2, <2>5, <3>1, <3>2, <3>3, <3>4, RedeemTypes, TypesStay
  <2>7. OutboundInv' BY <2>2 DEF OutboundInv
  <2>8. WaitInv'
    <3>1. Cardinality({0}) = 1 BY FS_Singleton
    <3>2. \A i \in DOMAIN mpool : ~(mpool[i].kind # "collect" /\ mpool[i].state = "pending")
      BY <2>3 DEF VoucherInv, WaitInv
    <3>3. redeem.wg >= Cardinality({0}) + Cardinality(redeem.best)
      BY <1>2, <2>3, <3>1, RedeemTypes
    <3> QED BY <2>1, <2>4, <3>2, <3>3 DEF WaitInv
  <2>9. Known' \subseteq Known BY <1>5, <2>2, <2>4 DEF Known, IsTracked
  <2> QED BY <1>1, <1>2, <1>5, <2>1, <2>2, <2>4, <2>6, <2>7, <2>8, <2>9, QuietKeeps
<1> QED BY <1>4, <1>5 DEF FinishSettle

LEMMA FinishSubmitKeeps ==
    ASSUME VoucherInv, FinishSubmit
    PROVE  VoucherInv'
<1> DEFINE u == op["outbound"]
           v == u.voucher
<1>1. u # Null /\ u.kind = "submit" /\ Unlock("outbound")
      /\ UNCHANGED <<actor, credited, crashed, redeems>>
  BY DEF FinishSubmit
<1>2. /\ TypeOK /\ IsTracked /\ u.ci \in ChannelInfo /\ redeem.at = "submit"
      /\ v \in redeem.best /\ v \in Voucher
  BY <1>1, OutboundFacts
<1>3. CASE /\ Push("update", v) /\ Put("outbound", MarkVoucherSubmitted(u.ci, v))
           /\ redeem' = [redeem EXCEPT !.best = @ \ {v}, !.waitFor = @ \cup {Len(mpool')}]
  <2>1. mpool' = Append(mpool, [kind |-> "update", voucher |-> v, state |-> "pending"])
    BY <1>3 DEF Push
  <2>2. "update" \in {"update", "settle"} /\ v \in Voucher \cup {Null} BY <1>2
  <2>3. MarkVoucherSubmitted(u.ci, v) \in ChannelInfo
    <3> HIDE DEF u
    <3> QED BY <1>2, MarkedRecord
  <2> QED BY <1>1, <1>3, <2>1, <2>2, <2>3, SentKeeps
<1>4. CASE /\ PushFails("update", v)
           /\ redeem' = [redeem EXCEPT !.best = @ \ {v}, !.skipped = TRUE]
           /\ UNCHANGED <<info, lost>>
  <2>1. mpool' = mpool BY <1>4 DEF PushFails
  <2>2. /\ op' \in [Accessors -> Operation \cup {Null}] /\ op'["outbound"] = Null
        /\ op'["inbound"] = op["inbound"]
    BY <1>1, <1>2, UnlockOutbound
  <2> QED BY <1>1, <1>2, <1>4, <2>1, <2>2, SkipKeeps
<1> QED BY <1>3, <1>4 DEF FinishSubmit

\* A goroutine has its message, or crashes the process
LEMMA AwaitKeeps ==
    ASSUME VoucherInv, NEW i \in redeem.waitFor, Await(i)
    PROVE  VoucherInv'
<1>1. TypeOK /\ UNCHANGED <<info, op, actor, mpool, credited, lost, redeems>>
  BY DEF VoucherInv, Await
<1>2. redeem.at = "submit"
      /\ redeem.wg >= Cardinality(redeem.waitFor) + Cardinality(redeem.best)
  BY <1>1, RedeemTypes DEF VoucherInv, WaitInv
<1>3. IsTracked BY <1>2 DEF VoucherInv, MadeInv, NoRedeem
<1>5. CASE /\ i # Undef /\ mpool[i].state # "pending" /\ crashed' = crashed
           /\ redeem' = [redeem EXCEPT !.waitFor = @ \ {i}, !.wg = @ - 1]
  <2> DEFINE rest == redeem.waitFor \ {i}
  <2>1. redeem' = [at |-> "submit", best |-> redeem.best, waitFor |-> rest,
                   wg |-> redeem.wg - 1, skipped |-> redeem.skipped]
    BY <1>1, <1>2, <1>5, RedeemTypes
  <2>2. Cardinality(rest) = Cardinality(redeem.waitFor) - 1
    BY <1>1, RedeemTypes, FS_RemoveElement
  <2>3. rest \in SUBSET (0..Len(mpool)) /\ IsFiniteSet(rest) BY <1>1, RedeemTypes, FS_Subset
  <2>4. Cardinality(rest) \in Nat BY <2>3, FS_CardinalityType
  <2>5. \A j \in DOMAIN mpool : mpool[j].kind # "collect" /\ mpool[j].state = "pending" => j \in rest
    BY <1>5 DEF VoucherInv, WaitInv
  <2> HIDE DEF rest
  <2>6. redeem.wg - 1 \in Nat /\ redeem.wg - 1 >= Cardinality(rest) + Cardinality(redeem.best)
    BY <1>1, <1>2, <2>2, <2>4, RedeemTypes
  <2>7. TypeOK'
    <3>1. op' \in [Accessors -> Operation \cup {Null}] /\ redeems' \in 0..MaxRedeems
          /\ crashed' \in BOOLEAN
      BY <1>1, <1>5 DEF TypeOK
    <3> QED BY <1>1, <2>1, <2>3, <2>6, <3>1, RedeemTypes, TypesStay
  <2>8. OutboundInv' BY <1>1, <1>2, <2>1 DEF VoucherInv, OutboundInv
  <2>9. WaitInv' BY <1>1, <2>1, <2>5, <2>6 DEF WaitInv
  <2>10. Known' \subseteq Known BY <1>1, <2>1 DEF Known, IsTracked
  <2> QED BY <1>1, <1>3, <2>1, <2>7, <2>8, <2>9, <2>10, QuietKeeps
<1>6. CASE crashed' = TRUE /\ redeem' = redeem
  <2>1. TypeOK' BY <1>1, <1>6 DEF TypeOK
  <2>2. OutboundInv' BY <1>1, <1>6 DEF VoucherInv, OutboundInv
  <2>3. WaitInv' BY <1>1, <1>6 DEF VoucherInv, WaitInv
  <2>4. Known' \subseteq Known BY <1>1, <1>6 DEF Known, IsTracked
  <2> QED BY <1>1, <1>3, <1>6, <2>1, <2>2, <2>3, <2>4, QuietKeeps
<1> QED BY <1>5, <1>6 DEF Await

LEMMA FinishRedeemKeeps ==
    ASSUME VoucherInv, FinishRedeem
    PROVE  VoucherInv'
<1>1. /\ redeem.at = "submit" /\ redeem.best = {} /\ redeem.wg = 0 /\ redeems' = redeems
      /\ redeem' = [at |-> "idle", best |-> {}, waitFor |-> {}, wg |-> 0, skipped |-> FALSE]
      /\ UNCHANGED <<info, op, actor, mpool, credited, lost, crashed>>
  BY DEF FinishRedeem, NoRedeem, channelVars
<1>2. TypeOK BY DEF VoucherInv
<1>3. IsTracked BY <1>1 DEF VoucherInv, MadeInv, NoRedeem
<1>4. redeem.waitFor = {}
  <2>1. redeem.wg >= Cardinality(redeem.waitFor) + Cardinality(redeem.best)
    BY <1>1 DEF VoucherInv, WaitInv
  <2>2. Cardinality(redeem.waitFor) = 0 BY <1>1, <1>2, <2>1, RedeemTypes
  <2> QED BY <1>2, <2>2, RedeemTypes, FS_EmptySet
<1>5. TypeOK' BY <1>1, <1>2 DEF TypeOK
<1>6. op["outbound"] = Null BY <1>1 DEF VoucherInv, OutboundInv
<1>7. OutboundInv' BY <1>1, <1>6 DEF OutboundInv
<1>8. WaitInv' BY <1>1, <1>4 DEF VoucherInv, WaitInv
<1>9. Known' \subseteq Known BY <1>1 DEF Known, IsTracked
<1> QED BY <1>1, <1>3, <1>5, <1>7, <1>8, <1>9, QuietKeeps
-----------------------------------------------------------------------------
(* The payer's side *)

\* Only the payer's record changes
LEMMA PayerKeeps ==
    ASSUME VoucherInv, TypeOK', PayerInv', Made \subseteq Made', info'["payee"] = info["payee"],
           UNCHANGED <<op, actor, mpool, credited, lost, crashed, redeem, redeems>>
    PROVE  VoucherInv'
<1>1. Known' = Known BY DEF Known, IsTracked
<1>2. MadeInv' BY <1>1 DEF VoucherInv, MadeInv, IsTracked
<1>3. AddInv' BY <1>1, AddStays DEF VoucherInv
<1>4. OutboundInv' BY DEF VoucherInv, OutboundInv
<1>5. WaitInv' BY DEF VoucherInv, WaitInv
<1>6. KeptInv' BY DEF VoucherInv, KeptInv, IsTracked
<1>7. CreditedIsHeld' BY DEF VoucherInv, CreditedIsHeld, Held
<1>8. SubmittedInOrder' BY DEF VoucherInv, SubmittedInOrder
<1> QED BY <1>2, <1>3, <1>4, <1>5, <1>6, <1>7, <1>8 DEF VoucherInv

LEMMA NextLaneRecord ==
    ASSUME NEW ci \in ChannelInfo
    PROVE  /\ [ci EXCEPT !.nextLane = @ + 1] \in ChannelInfo
           /\ [ci EXCEPT !.nextLane = @ + 1].vouchers = ci.vouchers
           /\ [ci EXCEPT !.nextLane = @ + 1].nextLane = ci.nextLane + 1
BY DEF ChannelInfo

LEMMA AllocateLaneKeeps ==
    ASSUME VoucherInv, AllocateLane, UNCHANGED <<redeem, redeems>>
    PROVE  VoucherInv'
<1> DEFINE ci == info["payer"]
           new == [ci EXCEPT !.nextLane = @ + 1]
<1>1. TypeOK /\ ci \in ChannelInfo BY InfoTypes DEF VoucherInv
<1>2. /\ ci.nextLane \in Lanes /\ info' = [info EXCEPT !["payer"] = new]
      /\ UNCHANGED <<op, actor, mpool, credited, lost, crashed>>
  BY DEF AllocateLane
<1>3. new \in ChannelInfo /\ new.vouchers = ci.vouchers /\ new.nextLane = ci.nextLane + 1
  <2> HIDE DEF ci
  <2> QED BY <1>1, NextLaneRecord
<1> HIDE DEF new
<1>4. /\ info' \in [Sides -> ChannelInfo \cup {Null}] /\ info'["payer"] = new
      /\ info'["payee"] = info["payee"]
  BY <1>1, <1>2, <1>3 DEF TypeOK, Sides
<1>5. TypeOK' BY <1>1, <1>2, <1>3, <1>4 DEF TypeOK
<1>6. Made' = Made BY <1>3, <1>4 DEF Made
<1>7. info'["payer"].nextLane <= MaxLane + 1
  BY <1>2, <1>3, <1>4, VouchersAssumption DEF Lanes
<1>8. PayerInv' BY <1>2, <1>6, <1>7 DEF VoucherInv, PayerInv
<1> QED BY <1>2, <1>4, <1>5, <1>6, <1>8, PayerKeeps

LEMMA AddedRecord ==
    ASSUME NEW ci \in ChannelInfo, NEW v \in Voucher
    PROVE  /\ AddVoucher(ci, v) \in ChannelInfo
           /\ AddVoucher(ci, v).vouchers = ci.vouchers \cup {v}
           /\ AddVoucher(ci, v).submitted = ci.submitted
           /\ AddVoucher(ci, v).nextLane = IF ci.nextLane <= v.lane THEN v.lane + 1 ELSE ci.nextLane
<1> DEFINE held == ci.vouchers \cup {v}
           next == IF ci.nextLane <= v.lane THEN v.lane + 1 ELSE ci.nextLane
<1>1. held \in SUBSET Voucher BY DEF ChannelInfo
<1>2. next \in Nat BY VoucherTypes, VouchersAssumption DEF ChannelInfo, Lanes
<1>3. AddVoucher(ci, v) = [ci EXCEPT !.vouchers = held, !.nextLane = next]
  BY DEF AddVoucher, ChannelInfo
<1> HIDE DEF held, next
<1>4. /\ [ci EXCEPT !.vouchers = held, !.nextLane = next] \in ChannelInfo
      /\ [ci EXCEPT !.vouchers = held, !.nextLane = next].vouchers = held
      /\ [ci EXCEPT !.vouchers = held, !.nextLane = next].nextLane = next
      /\ [ci EXCEPT !.vouchers = held, !.nextLane = next].submitted = ci.submitted
  BY <1>1, <1>2 DEF ChannelInfo
<1> QED BY <1>3, <1>4 DEF held, next

\* The nonces of a lane's vouchers are below the next one, which is no higher
\* than the number of the vouchers asks for
LEMMA NextNonce ==
    ASSUME NEW ci \in ChannelInfo, NEW l \in Lanes, NEW m \in Nat,
           \A v \in ci.vouchers : v.nonce <= m
    PROVE  NextNonceForLane(ci, l) \in 1..(m + 1)
<1> DEFINE mine == {w \in ci.vouchers : w.lane = l}
           nonce == [v \in Voucher |-> v.nonce]
           taken == {v.nonce : v \in mine}
<1>1. mine \in SUBSET Voucher /\ mine \subseteq ci.vouchers BY DEF ChannelInfo
<1>2. IsFiniteSet(taken)
  <2>1. taken = {nonce[v] : v \in mine} BY <1>1
  <2>2. IsFiniteSet(mine) BY <1>1, VoucherFinite
  <2> HIDE DEF taken, nonce, mine
  <2>3. IsFiniteSet({nonce[v] : v \in mine}) BY <2>2, ImageIsFinite
  <2> QED BY <2>1, <2>3
<1>3. \A n \in taken : n \in Nat /\ n <= m
  <2>1. \A v \in mine : v.nonce \in Nat /\ v.nonce <= m BY <1>1, VoucherTypes
  <2> QED BY <2>1
<1>4. NextNonceForLane(ci, l) = 1 + Max({0} \cup taken) BY DEF NextNonceForLane
<1> HIDE DEF taken
<1> DEFINE N == {0} \cup taken
<1>5. IsFiniteSet(N) BY <1>2, FS_Singleton, FS_Union
<1>6. N # {} /\ \A n \in N : n \in Int /\ n <= m BY <1>3
<1>7. Max(N) \in N /\ \A n \in N : Max(N) >= n
  <2> HIDE DEF N
  <2> QED BY <1>5, <1>6, MaxIsMax
<1>8. 0 \in N OBVIOUS
<1> HIDE DEF N
<1>9. Max(N) \in Int /\ Max(N) >= 0 /\ Max(N) <= m BY <1>6, <1>7, <1>8
<1> QED BY <1>4, <1>9 DEF N

LEMMA CreateVoucherKeeps ==
    ASSUME VoucherInv, CreateVoucher, UNCHANGED <<redeem, redeems>>
    PROVE  VoucherInv'
<1> DEFINE ci == info["payer"]
<1>1. /\ Cardinality(ci.vouchers) < MaxVouchers /\ actor.phase # "collected"
      /\ UNCHANGED <<op, actor, mpool, credited, lost, crashed>>
  BY DEF CreateVoucher
<1>2. PICK lane \in 0..(ci.nextLane - 1), amount \in Amounts :
         LET v == NextVoucher(lane, amount)
         IN  /\ CheckVoucherValid(LaneStates(ci.vouchers, actor), actor, v)
             /\ info' = [info EXCEPT !["payer"] = AddVoucher(@, v)]
  BY DEF CreateVoucher
<1> DEFINE v == NextVoucher(lane, amount)
           new == AddVoucher(ci, v)
<1>3. TypeOK /\ ci \in ChannelInfo /\ Made = ci.vouchers /\ Made \in SUBSET Voucher /\ actor \in Actor
  BY InfoTypes DEF VoucherInv, TypeOK, Made
<1>4. /\ Rising(Made) /\ \A w \in Made : w.nonce <= Cardinality(Made)
      /\ ci.nextLane <= MaxLane + 1 /\ Backed(actor, Made)
  BY DEF VoucherInv, PayerInv
<1>5. /\ CheckVoucherValid(LaneStates(Made, actor), actor, v)
      /\ info' = [info EXCEPT !["payer"] = new]
  BY <1>2, <1>3
<1> DEFINE c == Cardinality(Made)
<1>6. IsFiniteSet(Made) /\ c \in Nat BY <1>3, VoucherFinite, FS_CardinalityType
<1>7. v \in Voucher /\ v.lane = lane /\ v.nonce <= c + 1
  <2>1. ci.nextLane \in Nat
    <3> HIDE DEF ci
    <3> QED BY <1>3 DEF ChannelInfo
  <2>2. lane \in Lanes BY <1>2, <1>4, <2>1, VouchersAssumption DEF Lanes
  <2>3. NextNonceForLane(ci, lane) \in 1..(c + 1)
    <3> HIDE DEF ci, c
    <3>1. \A w \in ci.vouchers : w.nonce <= c BY <1>3, <1>4 DEF c
    <3> QED BY <1>3, <1>6, <2>2, <3>1, NextNonce
  <2>4. c + 1 <= MaxVouchers BY <1>1, <1>3, <1>6, VouchersAssumption
  <2>5. v = [lane |-> lane, amount |-> amount, nonce |-> NextNonceForLane(ci, lane)]
    BY DEF NextVoucher
  <2> HIDE DEF v, c, ci
  <2>6. NextNonceForLane(ci, lane) \in 1..MaxVouchers BY <1>6, <2>3, <2>4, VouchersAssumption
  <2> QED BY <1>2, <1>6, <2>2, <2>3, <2>5, <2>6 DEF Voucher
<1> HIDE DEF v
<1>8. /\ new \in ChannelInfo /\ new.vouchers = Made \cup {v}
      /\ new.nextLane = IF ci.nextLane <= v.lane THEN v.lane + 1 ELSE ci.nextLane
  <2> HIDE DEF ci
  <2> QED BY <1>3, <1>7, AddedRecord
<1> HIDE DEF new
<1>9. /\ info' \in [Sides -> ChannelInfo \cup {Null}] /\ info'["payer"] = new
      /\ info'["payee"] = info["payee"]
  BY <1>3, <1>5, <1>8 DEF TypeOK, Sides
<1>10. TypeOK' BY <1>1, <1>3, <1>8, <1>9 DEF TypeOK
<1>11. Made' = Made \cup {v} BY <1>8, <1>9 DEF Made
<1> DEFINE st == LaneStates(Made, actor)[v.lane]
<1>12. v.nonce > st.nonce BY <1>5 DEF CheckVoucherValid
<1>13. v \notin Made
  <2>1. Made \in SUBSET Made /\ v.lane \in Lanes BY <1>7, VoucherTypes
  <2>2. st.nonce \in Nat /\ \A w \in Made : w.lane = v.lane => w.nonce <= st.nonce
    BY <1>3, <1>4, <2>1, LaneFacts
  <2>3. v.nonce \in Nat BY <1>7, VoucherTypes
  <2> HIDE DEF st
  <2> QED BY <1>12, <2>2, <2>3
<1>14. Cardinality(Made \cup {v}) = c + 1 BY <1>6, <1>13, FS_AddElement
<1>15. PayerInv'
  <2>1. Rising(Made \cup {v}) BY <1>3, <1>4, <1>5, <1>7, ValidRises
  <2>2. \A w \in Made \cup {v} : w.nonce <= Cardinality(Made \cup {v})
    <3>1. \A w \in Made : w.nonce \in Nat BY <1>3, VoucherTypes
    <3> HIDE DEF c
    <3> QED BY <1>4, <1>6, <1>7, <1>14, <3>1 DEF c
  <2>3. new.nextLane <= MaxLane + 1
    <3>1. v.lane \in Lanes BY <1>7, VoucherTypes
    <3> QED BY <1>4, <1>8, <3>1, VouchersAssumption DEF Lanes
  <2>4. Backed(actor, Made \cup {v}) BY <1>4, BackedGrows
  <2>5. TotalRedeemed(LaneStates(Made \cup {v}, actor)) <= actor.balance
    <3> DEFINE total == TotalRedeemed(LaneStates(Made \cup {v}, actor))
    <3>1. Made \in SUBSET Made OBVIOUS
    <3>2. total = TotalWithVoucher(LaneStates(Made, actor), v)
      BY <1>3, <1>4, <1>7, <1>12, <3>1, VoucherAdds
    <3>3. actor.balance >= total BY <1>5, <3>2 DEF CheckVoucherValid
    <3>4. total \in Nat /\ actor.balance \in Nat
      <4>1. Made \cup {v} \in SUBSET Voucher /\ Made \cup {v} \in SUBSET (Made \cup {v})
        BY <1>3, <1>7
      <4> QED BY <1>3, <2>1, <2>4, <4>1, TotalsWithin, ActorTypes
    <3> HIDE DEF total
    <3>5. total <= actor.balance BY <3>3, <3>4
    <3> QED BY <3>5 DEF total
  <2> QED BY <1>1, <1>9, <1>11, <2>1, <2>2, <2>3, <2>4, <2>5 DEF PayerInv
<1>16. Made \subseteq Made' BY <1>11
<1> QED BY <1>1, <1>9, <1>10, <1>15, <1>16, PayerKeeps
-----------------------------------------------------------------------------
(* The payee's side *)

\* Nothing redeemed
LEMMA NothingRedeemed ==
    ASSUME NEW act, \A l \in Lanes : act.lanes[l] = NoState
    PROVE  TotalRedeemed(LaneStates({}, act)) = 0
<1> DEFINE lanes == LaneStates({}, act)
           f == [l \in Lanes |-> lanes[l].redeemed]
<1>1. \A l \in Lanes : lanes[l] = act.lanes[l] BY DEF LaneStates
<1>2. \A l \in Lanes : lanes[l].redeemed = 0 BY <1>1 DEF NoState
<1> HIDE DEF lanes
<1>3. \A l \in Lanes : f[l] = 0 BY <1>2
<1>4. IsFiniteSet(Lanes) BY FS_Interval, VouchersAssumption DEF Lanes
<1>5. TotalRedeemed(lanes) = SumFunctionOnSet(f, Lanes) BY DEF TotalRedeemed, SumFunction
<1> HIDE DEF f
<1>6. TotalRedeemed(lanes) = 0 BY <1>3, <1>4, <1>5, SumZero
<1> QED BY <1>6 DEF lanes

LEMMA StateRecord ==
    ASSUME NEW act \in Actor
    PROVE  /\ StateChannelInfo(act) \in ChannelInfo
           /\ StateChannelInfo(act).vouchers = {} /\ StateChannelInfo(act).submitted = {}
<1> DEFINE used == {k \in Lanes : act.lanes[k].nonce > 0}
           above == {l + 1 : l \in used}
           N == {0} \cup above
           next == [l \in Lanes |-> l + 1]
<1>1. IsFiniteSet(Lanes) /\ \A l \in Lanes : l \in Nat
  BY FS_Interval, VouchersAssumption DEF Lanes
<1>2. IsFiniteSet(above)
  <2>1. above = {next[l] : l \in used} OBVIOUS
  <2>2. IsFiniteSet(used) BY <1>1, FS_Subset
  <2> HIDE DEF above, used, next
  <2>3. IsFiniteSet({next[l] : l \in used}) BY <2>2, ImageIsFinite
  <2> QED BY <2>1, <2>3
<1>3. \A n \in above : n \in Nat BY <1>1
<1>4. NextLaneFromState(act) = Max(N) BY DEF NextLaneFromState
<1> HIDE DEF above
<1>5. IsFiniteSet(N) BY <1>2, FS_Singleton, FS_Union
<1>6. N # {} /\ (\A n \in N : n \in Int) /\ N \subseteq Nat BY <1>3
<1> HIDE DEF N
<1>7. Max(N) \in Nat BY <1>5, <1>6, MaxIsMax
<1> QED BY <1>4, <1>7 DEF StateChannelInfo, ChannelInfo

LEMMA TrackKeeps ==
    ASSUME VoucherInv, TrackInboundChannel, UNCHANGED <<redeem, redeems>>
    PROVE  VoucherInv'
<1> DEFINE new == StateChannelInfo(actor)
<1>1. /\ ~IsTracked /\ info' = [info EXCEPT !["payee"] = new]
      /\ UNCHANGED <<op, actor, mpool, credited, lost, crashed>>
  BY DEF TrackInboundChannel, IsTracked
<1>2. TypeOK /\ actor \in Actor BY DEF VoucherInv, TypeOK
<1>3. new \in ChannelInfo /\ new.vouchers = {} BY <1>2, StateRecord
<1> HIDE DEF new
<1>4. /\ info' \in [Sides -> ChannelInfo \cup {Null}] /\ info'["payee"] = new
      /\ info'["payer"] = info["payer"] /\ new # Null
  BY <1>1, <1>2, <1>3, NullAssumption DEF TypeOK, Sides
<1>5. /\ op["inbound"] = Null /\ op["outbound"] = Null /\ redeem = NoRedeem /\ mpool = <<>>
      /\ credited = 0 /\ \A l \in Lanes : actor.lanes[l] = NoState
  BY <1>1, TwoAccessors DEF VoucherInv, MadeInv
<1>6. IsTracked' /\ Made' = Made BY <1>4 DEF IsTracked, Made
<1>7. TypeOK' BY <1>1, <1>2, <1>4 DEF TypeOK
<1>8. PayerInv' BY <1>1, <1>4, <1>6 DEF VoucherInv, PayerInv
<1>9. Known' = {} BY <1>1, <1>3, <1>4, <1>5, <1>6 DEF Known, NoRedeem
<1>10. MadeInv' BY <1>1, <1>5, <1>6, <1>9 DEF MadeInv
<1>11. AddInv' BY <1>1, <1>5 DEF AddInv
<1>12. OutboundInv' BY <1>1, <1>5 DEF OutboundInv
<1>13. WaitInv' BY <1>1 DEF VoucherInv, WaitInv
<1>14. KeptInv'
  <2>1. Backed(actor, {}) BY <1>5 DEF Backed
  <2>2. info'["payee"].vouchers = {} /\ actor' = actor BY <1>1, <1>3, <1>4
  <2>3. redeem'.best = {} /\ mpool' = <<>> /\ op'["inbound"] = Null BY <1>1, <1>5 DEF NoRedeem
  <2>4. \A i \in DOMAIN mpool' : FALSE BY <2>3
  <2> QED BY <2>1, <2>2, <2>3, <2>4 DEF KeptInv
<1>15. CreditedIsHeld'
  <2>1. TotalRedeemed(LaneStates({}, actor)) = 0 BY <1>5, NothingRedeemed
  <2> QED BY <1>1, <1>3, <1>4, <1>5, <2>1 DEF CreditedIsHeld, Held
<1>16. SubmittedInOrder' BY <1>1, <1>5 DEF SubmittedInOrder
<1> QED BY <1>7, <1>8, <1>10, <1>11, <1>12, <1>13, <1>14, <1>15, <1>16 DEF VoucherInv

\* Only the operation of AddVoucherInbound moves
LEMMA InboundKeeps ==
    ASSUME VoucherInv, IsTracked, AddInv', op' \in [Accessors -> Operation \cup {Null}],
           op'["outbound"] = op["outbound"],
           ~lost /\ op'["inbound"] # Null /\ op'["inbound"].act # Null
               => Backed(op'["inbound"].act, info["payee"].vouchers),
           UNCHANGED <<info, actor, mpool, credited, lost, crashed, redeem, redeems>>
    PROVE  VoucherInv'
<1>1. Made' = Made /\ IsTracked' /\ Known' = Known BY DEF Made, IsTracked, Known
<1>2. TypeOK' BY DEF VoucherInv, TypeOK
<1>3. PayerInv' BY <1>1 DEF VoucherInv, PayerInv
<1>4. MadeInv' BY <1>1 DEF VoucherInv, MadeInv
<1>5. OutboundInv' BY DEF VoucherInv, OutboundInv
<1>6. WaitInv' BY DEF VoucherInv, WaitInv
<1>7. KeptInv' BY <1>1 DEF VoucherInv, KeptInv
<1>8. CreditedIsHeld' BY DEF VoucherInv, CreditedIsHeld, Held
<1>9. SubmittedInOrder' BY DEF VoucherInv, SubmittedInOrder
<1> QED BY <1>2, <1>3, <1>4, <1>5, <1>6, <1>7, <1>8, <1>9 DEF VoucherInv

LEMMA AddVoucherKeeps ==
    ASSUME VoucherInv, AddVoucherInbound, UNCHANGED <<redeem, redeems>>
    PROVE  VoucherInv'
<1>1. /\ IsTracked /\ UNCHANGED <<info, actor, mpool, credited, lost, crashed>>
  BY DEF AddVoucherInbound, IsTracked
<1>2. TypeOK BY DEF VoucherInv
<1>3. PICK v \in info["payer"].vouchers : Lock("inbound", "add", v) BY DEF AddVoucherInbound
<1>4. v \in Made /\ v \in Voucher BY <1>2, InfoTypes DEF Made
<1>5. /\ op' \in [Accessors -> Operation \cup {Null}]
      /\ op'["inbound"].kind = "add" /\ op'["inbound"].voucher = v
      /\ op'["inbound"].ci = info["payee"] /\ op'["inbound"].act = Null
      /\ op'["outbound"] = op["outbound"]
  <2>1. v \in Voucher \cup {Null} BY <1>4
  <2> QED BY <1>1, <1>2, <1>3, <2>1, LockTypes, TwoAccessors
<1>6. AddInv'
  <2>1. Made' = Made BY <1>1 DEF Made
  <2>2. info["payee"].vouchers \subseteq Made BY <1>1 DEF VoucherInv, MadeInv, Known
  <2> QED BY <1>4, <1>5, <2>1, <2>2 DEF AddInv
<1> QED BY <1>1, <1>5, <1>6, InboundKeeps

LEMMA LoadActorKeeps ==
    ASSUME VoucherInv, LoadPaychActorState, UNCHANGED <<redeem, redeems>>
    PROVE  VoucherInv'
<1>1. /\ op["inbound"] # Null /\ op["inbound"].act = Null
      /\ UNCHANGED <<info, actor, mpool, credited, lost, crashed>>
  BY DEF LoadPaychActorState
<1>2. TypeOK /\ IsTracked BY <1>1, TwoAccessors DEF VoucherInv, MadeInv
<1>3. CASE actor.phase = "collected"
  <2>1. Unlock("inbound") BY <1>3 DEF LoadPaychActorState
  <2>2. /\ op' \in [Accessors -> Operation \cup {Null}] /\ op'["inbound"] = Null
        /\ op'["outbound"] = op["outbound"]
    BY <1>2, <2>1, UnlockTypes, TwoAccessors
  <2>3. AddInv' BY <2>2 DEF AddInv
  <2> QED BY <1>1, <1>2, <2>2, <2>3, InboundKeeps
<1>4. CASE actor.phase # "collected"
  <2> DEFINE o == op["inbound"]
             n == [o EXCEPT !.act = actor]
  <2>1. o \in Operation /\ actor \in Actor BY <1>1, <1>2, InfoTypes, TwoAccessors DEF TypeOK
  <2>2. op' = [op EXCEPT !["inbound"] = n] BY <1>4 DEF LoadPaychActorState
  <2>3. /\ n \in Operation /\ n.act = actor /\ n.kind = o.kind /\ n.voucher = o.voucher
        /\ n.ci = o.ci
    <3> HIDE DEF o
    <3> QED BY <2>1 DEF Operation
  <2> HIDE DEF n
  <2>4. /\ op' \in [Accessors -> Operation \cup {Null}] /\ op'["inbound"] = n
        /\ op'["outbound"] = op["outbound"]
    BY <1>2, <2>2, <2>3, TwoAccessors DEF TypeOK
  <2>5. /\ o.kind = "add" /\ o.voucher \in Made /\ o.ci.vouchers \subseteq Made
        /\ Known \subseteq Made /\ Backed(actor, Made)
        /\ TotalRedeemed(LaneStates(Made, actor)) <= actor.balance
    BY <1>1, <1>4 DEF VoucherInv, AddInv, MadeInv, PayerInv
  <2>6. Made' = Made /\ Known' = Known BY <1>1, <2>4 DEF Made, Known, IsTracked
  <2>7. \E S \in SUBSET Made :
            /\ Known \cup {n.voucher} \subseteq S
            /\ TotalRedeemed(LaneStates(S, n.act)) <= n.act.balance
    <3>1. Made \in SUBSET Made /\ Known \cup {n.voucher} \subseteq Made BY <2>3, <2>5
    <3> HIDE DEF o
    <3> QED BY <2>3, <2>5, <3>1
  <2>8. /\ n.kind = "add" /\ n.voucher \in Made /\ n.ci.vouchers \subseteq Made
        /\ Backed(n.act, Made)
    BY <2>3, <2>5
  <2>9. AddInv' BY <2>4, <2>6, <2>7, <2>8 DEF AddInv
  <2>10. ~lost => Backed(n.act, info["payee"].vouchers)
    BY <1>2, <2>3 DEF VoucherInv, KeptInv
  <2> QED BY <1>1, <1>2, <2>4, <2>9, <2>10, InboundKeeps
<1> QED BY <1>3, <1>4

\* The total is the same for any state of the actor that the vouchers back
LEMMA SameTotal ==
    ASSUME NEW T \in SUBSET Voucher, Rising(T), NEW a \in Actor, Backed(a, T),
           NEW b \in Actor, Backed(b, T)
    PROVE  TotalRedeemed(LaneStates(T, a)) = TotalRedeemed(LaneStates(T, b))
<1> DEFINE x == TotalRedeemed(LaneStates(T, a))
           y == TotalRedeemed(LaneStates(T, b))
<1>1. T \in SUBSET T OBVIOUS
<1>2. x \in Nat /\ y \in Nat /\ x <= y /\ y <= x BY <1>1, TotalsWithin
<1> HIDE DEF x, y
<1>3. x = y BY <1>2
<1> QED BY <1>3 DEF x, y

\* What a new voucher adds to the total, whatever state the actor is in
LEMMA TotalGains ==
    ASSUME NEW T \in SUBSET Voucher, Rising(T), NEW S \in SUBSET T, NEW v \in T,
           NEW a \in Actor, Backed(a, S), NEW b \in Actor, Backed(b, S),
           v.nonce > LaneStates(S, a)[v.lane].nonce
    PROVE  TotalRedeemed(LaneStates(S \cup {v}, b)) =
               TotalRedeemed(LaneStates(S, b)) + Delta(LaneStates(S, a), v)
<1> DEFINE more == S \cup {v}
           before == TotalRedeemed(LaneStates(S, a))
           old == LaneStates(S, a)[v.lane].redeemed
<1>1. /\ S \in SUBSET Voucher /\ more \in SUBSET Voucher /\ v \in Voucher /\ Rising(S)
      /\ Rising(more) /\ Backed(a, T)
  BY BackedGrows DEF Rising
<1>2. Backed(a, more) /\ Backed(b, more)
  <2>1. S \subseteq more OBVIOUS
  <2> HIDE DEF more
  <2> QED BY <2>1, BackedGrows
<1>3. TotalRedeemed(LaneStates(more, b)) = TotalRedeemed(LaneStates(more, a))
  <2> HIDE DEF more
  <2> QED BY <1>1, <1>2, SameTotal
<1>4. TotalRedeemed(LaneStates(S, b)) = before BY <1>1, SameTotal
<1>5. /\ TotalRedeemed(LaneStates(more, a)) = TotalWithVoucher(LaneStates(S, a), v)
      /\ before \in Nat /\ old \in Nat
  BY <1>1, VoucherAdds
<1>6. TotalWithVoucher(LaneStates(S, a), v) = before + v.amount - old BY DEF TotalWithVoucher
<1>7. Delta(LaneStates(S, a), v) = v.amount - old BY DEF Delta
<1>8. v.amount \in Nat BY <1>1, VoucherTypes
<1> HIDE DEF before, old, more
<1>9. before + v.amount - old = before + (v.amount - old) BY <1>5, <1>8
<1> QED BY <1>3, <1>4, <1>5, <1>6, <1>7, <1>9 DEF more

LEMMA FinishAddKeeps ==
    ASSUME VoucherInv, FinishAdd, UNCHANGED <<redeem, redeems>>
    PROVE  VoucherInv'
<1> DEFINE o == op["inbound"]
           Q == info["payee"].vouchers
           lanes == LaneStates(Q, o.act)
           v == o.voucher
           delta == Delta(lanes, v)
           new == AddVoucher(o.ci, v)
<1>1. /\ o # Null /\ o.act # Null /\ Unlock("inbound") /\ UNCHANGED <<actor, mpool, crashed>>
  BY DEF FinishAdd
<1>2. TypeOK /\ IsTracked BY <1>1, TwoAccessors DEF VoucherInv, MadeInv
<1>3. /\ op' \in [Accessors -> Operation \cup {Null}] /\ op'["inbound"] = Null
      /\ op'["outbound"] = op["outbound"]
  BY <1>1, <1>2, UnlockTypes, TwoAccessors
<1>4. AddInv' BY <1>3 DEF AddInv
<1>5. CASE UNCHANGED <<info, credited, lost>>
  BY <1>1, <1>2, <1>3, <1>4, <1>5, InboundKeeps
<1>6. CASE /\ CheckVoucherValid(lanes, o.act, v)
           /\ Put("inbound", new) /\ credited' = credited + delta
  <2>1. /\ Made \in SUBSET Voucher /\ actor \in Actor /\ o.ci \in ChannelInfo /\ o.act \in Actor
        /\ Q \in SUBSET Voucher
    BY <1>1, <1>2, InfoTypes, TwoAccessors DEF TypeOK
  <2>2. /\ v \in Made /\ o.ci.vouchers \subseteq Made /\ Backed(o.act, Made) /\ Rising(Made)
    BY <1>1 DEF VoucherInv, AddInv, PayerInv
  <2>3. Known \subseteq Made /\ Q \in SUBSET Made /\ v \in Voucher
    BY <1>2, <2>1, <2>2 DEF VoucherInv, MadeInv, Known
  <2>4. /\ new \in ChannelInfo /\ new.vouchers = o.ci.vouchers \cup {v}
        /\ new.submitted = o.ci.submitted
    <3> HIDE DEF o, v
    <3> QED BY <2>1, <2>3, AddedRecord
  <2>5. /\ info' = [info EXCEPT !["payee"] = new] /\ lost' = (lost \/ info["payee"] # o.ci)
    BY <1>6 DEF Put
  <2> HIDE DEF new
  <2>6. /\ info' \in [Sides -> ChannelInfo \cup {Null}] /\ info'["payer"] = info["payer"]
        /\ info'["payee"] = new /\ new # Null /\ lost' \in BOOLEAN
    BY <1>2, <2>4, <2>5, NullAssumption DEF TypeOK, Sides
  <2>7. v.nonce > lanes[v.lane].nonce /\ v.amount > lanes[v.lane].redeemed
    BY <1>6 DEF CheckVoucherValid
  <2>8. /\ lanes[v.lane].nonce \in Nat /\ lanes[v.lane].redeemed \in Nat
        /\ \A w \in Q : w.lane = v.lane => w.nonce <= lanes[v.lane].nonce
    <3>1. v.lane \in Lanes BY <2>3, VoucherTypes
    <3> HIDE DEF v, o, Q
    <3> QED BY <2>1, <2>2, <2>3, <3>1, LaneFacts
  <2>9. v.nonce \in Nat /\ v.amount \in Nat BY <2>3, VoucherTypes
  <2>10. TypeOK'
    <3>1. credited \in Nat BY <1>2 DEF TypeOK
    <3>2. delta = v.amount - lanes[v.lane].redeemed BY DEF Delta
    <3> HIDE DEF v, lanes, delta, o
    <3>3. credited' \in Nat BY <1>6, <2>7, <2>8, <2>9, <3>1, <3>2
    <3> QED BY <1>1, <1>2, <1>3, <2>4, <2>6, <3>3 DEF TypeOK
  <2>11. Made' = Made /\ IsTracked' BY <2>6 DEF Made, IsTracked
  <2>12. PayerInv' BY <1>1, <2>6, <2>11 DEF VoucherInv, PayerInv
  <2>13. MadeInv'
    <3>1. redeem.best \subseteq Known /\ (op["outbound"] # Null => op["outbound"].ci.vouchers \subseteq Known)
      BY DEF Known
    <3>2. Known' \subseteq Made
      BY <1>3, <2>2, <2>3, <2>4, <2>6, <2>11, <3>1 DEF Known
    <3> QED BY <1>1, <2>11, <3>2 DEF VoucherInv, MadeInv
  <2>14. OutboundInv' BY <1>3 DEF VoucherInv, OutboundInv
  <2>15. WaitInv' BY <1>1 DEF VoucherInv, WaitInv
  <2>16. ASSUME ~lost'
         PROVE  /\ ~lost /\ new.vouchers = Q \cup {v} /\ new.submitted = info["payee"].submitted
                /\ Backed(actor, Q) /\ Backed(o.act, Q) /\ redeem.best \subseteq Q
                /\ \A i \in DOMAIN mpool : mpool[i].kind = "update" =>
                      /\ mpool[i].voucher \in Q
                      /\ \A w \in Q : w.lane = mpool[i].voucher.lane
                                      /\ w.nonce <= mpool[i].voucher.nonce
                                          => w \in info["payee"].submitted
    <3>1. ~lost /\ info["payee"] = o.ci BY <2>5, <2>16
    <3> HIDE DEF new, v, lanes
    <3> QED BY <1>1, <1>2, <2>4, <3>1 DEF VoucherInv, KeptInv
  <2>17. KeptInv'
    <3>1. SUFFICES ASSUME ~lost'
                   PROVE  /\ Backed(actor, new.vouchers) /\ redeem.best \subseteq new.vouchers
                          /\ \A i \in DOMAIN mpool : mpool[i].kind = "update" =>
                                /\ mpool[i].voucher \in new.vouchers
                                /\ \A w \in new.vouchers :
                                      w.lane = mpool[i].voucher.lane
                                      /\ w.nonce <= mpool[i].voucher.nonce => w \in new.submitted
      BY <1>1, <1>3, <2>6 DEF KeptInv
    <3>2. Backed(actor, new.vouchers) /\ redeem.best \subseteq new.vouchers
      <4>1. Q \subseteq new.vouchers /\ Backed(actor, Q) /\ redeem.best \subseteq Q
        BY <2>16, <3>1
      <4> HIDE DEF Q
      <4> QED BY <4>1, BackedGrows
    <3>3. ASSUME NEW i \in DOMAIN mpool, mpool[i].kind = "update",
                 NEW w \in new.vouchers, w.lane = mpool[i].voucher.lane,
                 w.nonce <= mpool[i].voucher.nonce
          PROVE  w \in new.submitted
      <4> DEFINE m == mpool[i].voucher
      <4>1. m \in Q /\ \A x \in Q : x.lane = m.lane /\ x.nonce <= m.nonce => x \in new.submitted
        BY <2>16, <3>1, <3>3
      <4>2. w \in Q \/ w = v BY <2>16, <3>1, <3>3
      <4>3. m.nonce \in Nat BY <2>1, <4>1, VoucherTypes
      <4>4. CASE w = v
        <5>1. m.lane = v.lane /\ v.nonce <= m.nonce BY <3>3, <4>4
        <5>2. m.nonce <= lanes[v.lane].nonce BY <2>8, <4>1, <5>1
        <5> HIDE DEF m, v, lanes
        <5> QED BY <2>7, <2>8, <2>9, <4>3, <5>1, <5>2
      <4> HIDE DEF Q
      <4> QED BY <3>3, <4>1, <4>2, <4>4
    <3>4. \A i \in DOMAIN mpool : mpool[i].kind = "update" => mpool[i].voucher \in new.vouchers
      BY <2>16, <3>1
    <3> QED BY <3>2, <3>3, <3>4
  <2>18. CreditedIsHeld'
    <3>1. SUFFICES ASSUME ~lost' PROVE credited' = TotalRedeemed(LaneStates(new.vouchers, actor))
      BY <1>1, <2>6 DEF CreditedIsHeld, Held
    <3>2. ~lost /\ new.vouchers = Q \cup {v} /\ Backed(actor, Q) /\ Backed(o.act, Q)
      BY <2>16, <3>1
    <3>3. credited = TotalRedeemed(LaneStates(Q, actor))
      BY <1>2, <3>2 DEF VoucherInv, CreditedIsHeld, Held, IsTracked
    <3>4. TotalRedeemed(LaneStates(Q \cup {v}, actor)) = TotalRedeemed(LaneStates(Q, actor)) + delta
      <4> HIDE DEF v, o, Q
      <4> QED BY <2>1, <2>2, <2>3, <2>7, <3>2, TotalGains
    <3> QED BY <1>6, <3>2, <3>3, <3>4
  <2>19. SubmittedInOrder'
    <3>1. lost => lost' BY <2>5
    <3> QED BY <1>1, <3>1 DEF VoucherInv, SubmittedInOrder
  <2> QED BY <1>4, <2>10, <2>12, <2>13, <2>14, <2>15, <2>17, <2>18, <2>19 DEF VoucherInv
<1> QED BY <1>5, <1>6 DEF FinishAdd
-----------------------------------------------------------------------------
(* The chain *)

\* The actor goes on, and the messages it was sent are executed
LEMMA ChainKeeps ==
    ASSUME VoucherInv, actor' \in Actor, mpool' \in Seq(Message), Len(mpool') = Len(mpool),
           \A i \in DOMAIN mpool :
              /\ mpool'[i].kind = mpool[i].kind /\ mpool'[i].voucher = mpool[i].voucher
              /\ mpool'[i].state = "pending" => mpool[i].state = "pending",
           Backed(actor', Made),
           IsTracked /\ ~lost => Backed(actor', info["payee"].vouchers),
           actor'.phase # "collected" => actor.phase # "collected" /\ actor'.balance >= actor.balance,
           ~IsTracked => mpool' = mpool /\ actor'.lanes = actor.lanes,
           UNCHANGED <<info, op, credited, lost, crashed, redeem, redeems>>
    PROVE  VoucherInv'
<1>1. /\ TypeOK /\ PayerInv /\ MadeInv /\ AddInv /\ OutboundInv /\ WaitInv /\ KeptInv
      /\ CreditedIsHeld /\ SubmittedInOrder
  BY DEF VoucherInv
<1>2. /\ Made \in SUBSET Voucher /\ Rising(Made) /\ Backed(actor, Made) /\ actor \in Actor
      /\ IsTracked => info["payee"].vouchers \in SUBSET Voucher
  BY <1>1, InfoTypes DEF PayerInv, TypeOK
<1>3. /\ DOMAIN mpool' = 1..Len(mpool) /\ DOMAIN mpool = 1..Len(mpool) BY <1>1 DEF TypeOK
<1>4. Made' = Made /\ (IsTracked' <=> IsTracked) /\ Known' = Known BY DEF Made, IsTracked, Known
<1>5. TypeOK' BY <1>1 DEF TypeOK
<1>6. PayerInv'
  <2>1. ASSUME actor'.phase # "collected"
        PROVE  TotalRedeemed(LaneStates(Made, actor')) <= actor'.balance
    <3> DEFINE x == TotalRedeemed(LaneStates(Made, actor))
               y == TotalRedeemed(LaneStates(Made, actor'))
    <3>1. x <= actor.balance /\ actor'.balance >= actor.balance BY <1>1, <2>1 DEF PayerInv
    <3>2. y = x BY <1>2, SameTotal
    <3>3. x \in Nat
      <4>1. Made \in SUBSET Made OBVIOUS
      <4> QED BY <1>2, <4>1, TotalsWithin
    <3>4. actor.balance \in Nat /\ actor'.balance \in Nat BY <1>2, ActorTypes
    <3> HIDE DEF x, y
    <3>5. y <= actor'.balance BY <3>1, <3>2, <3>3, <3>4
    <3> QED BY <3>5 DEF y
  <2> QED BY <1>1, <1>4, <2>1 DEF PayerInv
<1>7. MadeInv'
  <2>1. \A i \in DOMAIN mpool' : mpool'[i].kind = "update" => mpool'[i].voucher \in Made
    BY <1>1, <1>3 DEF MadeInv
  <2> QED BY <1>1, <1>4, <2>1 DEF MadeInv
<1>8. AddInv' BY <1>1, <1>4, AddStays
<1>9. OutboundInv' BY <1>1 DEF OutboundInv
<1>10. WaitInv' BY <1>1, <1>3 DEF WaitInv
<1>11. KeptInv' BY <1>1, <1>3, <1>4 DEF KeptInv
<1>12. CreditedIsHeld'
  <2>1. SUFFICES ASSUME IsTracked, ~lost
                 PROVE  credited = TotalRedeemed(LaneStates(info["payee"].vouchers, actor'))
    BY <1>4 DEF CreditedIsHeld, Held, IsTracked
  <2> DEFINE Q == info["payee"].vouchers
  <2>2. credited = TotalRedeemed(LaneStates(Q, actor))
    BY <1>1, <2>1 DEF CreditedIsHeld, Held, IsTracked
  <2>3. Q \in SUBSET Voucher /\ Q \subseteq Made BY <1>1, <1>2, <2>1 DEF MadeInv, Known
  <2>4. Backed(actor, Q) /\ Backed(actor', Q) BY <1>1, <2>1 DEF KeptInv
  <2> HIDE DEF Q
  <2>5. Rising(Q) BY <1>2, <2>3 DEF Rising
  <2>6. TotalRedeemed(LaneStates(Q, actor)) = TotalRedeemed(LaneStates(Q, actor'))
    BY <1>2, <2>3, <2>4, <2>5, SameTotal
  <2> QED BY <2>2, <2>6 DEF Q
<1>13. SubmittedInOrder'
  <2>1. SUFFICES ASSUME ~lost, NEW j \in DOMAIN mpool', NEW i \in 1..(j - 1),
                        mpool'[i].kind = "update", mpool'[j].kind = "update",
                        mpool'[i].voucher.lane = mpool'[j].voucher.lane
                 PROVE  mpool'[i].voucher.nonce < mpool'[j].voucher.nonce
    BY DEF SubmittedInOrder
  <2>2. j \in DOMAIN mpool /\ i \in DOMAIN mpool
    <3>1. Len(mpool) \in Nat BY <1>1 DEF TypeOK
    <3> QED BY <1>3, <2>1, <3>1
  <2> QED BY <1>1, <2>1, <2>2 DEF SubmittedInOrder
<1> QED BY <1>5, <1>6, <1>7, <1>8, <1>9, <1>10, <1>11, <1>12, <1>13 DEF VoucherInv

LEMMA RedeemedLane ==
    ASSUME NEW act \in Actor, NEW v \in Voucher
    PROVE  LET new == [act EXCEPT !.lanes[v.lane] = [redeemed |-> v.amount, nonce |-> v.nonce]]
           IN  /\ new \in Actor /\ new.phase = act.phase /\ new.balance = act.balance
               /\ \A S : Backed(act, S) /\ v \in S => Backed(new, S)
<1> DEFINE st == [redeemed |-> v.amount, nonce |-> v.nonce]
           lanes == [act.lanes EXCEPT ![v.lane] = st]
           new == [act EXCEPT !.lanes = lanes]
<1>1. v.lane \in Lanes /\ st \in LaneState /\ st = StateOf(v)
  BY VoucherTypes DEF LaneState, StateOf
<1>2. [act EXCEPT !.lanes[v.lane] = [redeemed |-> v.amount, nonce |-> v.nonce]] = new OBVIOUS
<1> HIDE DEF st
<1>3. act.lanes \in [Lanes -> LaneState] BY DEF Actor
<1>4. /\ lanes \in [Lanes -> LaneState] /\ lanes[v.lane] = st
      /\ \A l \in Lanes : l # v.lane => lanes[l] = act.lanes[l]
  BY <1>1, <1>3
<1> HIDE DEF lanes
<1>5. new \in Actor /\ new.phase = act.phase /\ new.balance = act.balance /\ new.lanes = lanes
  BY <1>4 DEF Actor
<1> HIDE DEF new
<1>6. ASSUME NEW S, Backed(act, S), v \in S PROVE Backed(new, S)
  BY <1>1, <1>4, <1>5, <1>6 DEF Backed
<1> QED BY <1>2, <1>5, <1>6

LEMMA ExecuteKeeps ==
    ASSUME VoucherInv, NEW i \in DOMAIN mpool, Execute(i), UNCHANGED <<redeem, redeems>>
    PROVE  VoucherInv'
<1> DEFINE m == mpool[i]
<1>1. TypeOK /\ actor \in Actor /\ UNCHANGED <<info, op, credited, lost, crashed>>
  BY DEF VoucherInv, TypeOK, Execute
<1>2. mpool \in Seq(Message) /\ m \in Message /\ m.state = "pending" BY <1>1 DEF TypeOK, Execute
<1>3. IsTracked
  <2>1. mpool # <<>> BY <1>1, <1>2
  <2> QED BY <2>1 DEF VoucherInv, MadeInv
<1>4. Backed(actor, Made) /\ (~lost => Backed(actor, info["payee"].vouchers))
  BY <1>3 DEF VoucherInv, PayerInv, KeptInv
<1>5. ASSUME NEW s \in {"ok", "failed"}, mpool' = [mpool EXCEPT ![i].state = s]
      PROVE  /\ mpool' \in Seq(Message) /\ Len(mpool') = Len(mpool)
             /\ \A j \in DOMAIN mpool :
                   /\ mpool'[j].kind = mpool[j].kind /\ mpool'[j].voucher = mpool[j].voucher
                   /\ mpool'[j].state = "pending" => mpool[j].state = "pending"
  <2> DEFINE n == [m EXCEPT !.state = s]
  <2>1. n \in Message /\ n.kind = m.kind /\ n.voucher = m.voucher /\ n.state = s
    <3> HIDE DEF m
    <3> QED BY <1>2 DEF Message
  <2>2. mpool' = [mpool EXCEPT ![i] = n] BY <1>5
  <2> HIDE DEF n
  <2>3. mpool' \in Seq(Message) /\ Len(mpool') = Len(mpool) BY <1>2, <2>1, <2>2
  <2>4. \A j \in DOMAIN mpool : mpool'[j] = IF j = i THEN n ELSE mpool[j] BY <1>2, <2>2
  <2> QED BY <2>1, <2>3, <2>4
<1>6. CASE mpool' = [mpool EXCEPT ![i].state = "failed"] /\ actor' = actor
  <2>1. actor.balance >= actor.balance BY <1>1, ActorTypes
  <2> QED BY <1>1, <1>3, <1>4, <1>5, <1>6, <2>1, ChainKeeps
<1>7. CASE /\ Valid(m.kind, m.voucher) /\ actor' = Apply(m)
           /\ mpool' = [mpool EXCEPT ![i].state = "ok"]
  <2>1. m.kind \in {"update", "settle", "collect"} BY <1>2 DEF Message
  <2>2. CASE m.kind = "update"
    <3>1. m.voucher \in Made /\ (~lost => m.voucher \in info["payee"].vouchers)
      BY <1>3, <2>2 DEF VoucherInv, MadeInv, KeptInv
    <3>2. m.voucher \in Voucher BY <1>1, <3>1, InfoTypes
    <3>3. actor' = [actor EXCEPT !.lanes[m.voucher.lane] =
                        [redeemed |-> m.voucher.amount, nonce |-> m.voucher.nonce]]
      BY <1>7, <2>2 DEF Apply
    <3>4. /\ actor' \in Actor /\ actor'.phase = actor.phase /\ actor'.balance = actor.balance
          /\ \A S : Backed(actor, S) /\ m.voucher \in S => Backed(actor', S)
      <4> HIDE DEF m
      <4> QED BY <1>1, <3>2, <3>3, RedeemedLane
    <3>5. actor'.balance >= actor.balance BY <1>1, <3>4, ActorTypes
    <3>6. Backed(actor', Made) /\ (~lost => Backed(actor', info["payee"].vouchers))
      BY <1>4, <3>1, <3>4
    <3> QED BY <1>1, <1>3, <1>5, <1>7, <3>4, <3>5, <3>6, ChainKeeps
  <2>3. CASE m.kind = "settle"
    <3>1. actor' = [actor EXCEPT !.phase = "settling"] /\ actor.phase = "open"
      BY <1>7, <2>3 DEF Apply, Valid
    <3>2. /\ actor' \in Actor /\ actor'.lanes = actor.lanes /\ actor'.balance = actor.balance
      BY <1>1, <3>1 DEF Actor
    <3>3. actor'.balance >= actor.balance BY <1>1, <3>2, ActorTypes
    <3>4. Backed(actor', Made) /\ (~lost => Backed(actor', info["payee"].vouchers))
      BY <1>4, <3>2, SameLanes
    <3> QED BY <1>1, <1>3, <1>5, <1>7, <3>1, <3>2, <3>3, <3>4, ChainKeeps
  <2>4. CASE m.kind = "collect"
    <3>1. actor' = [actor EXCEPT !.phase = "collected", !.balance = 0]
      BY <1>7, <2>4 DEF Apply
    <3>2. actor' \in Actor /\ actor'.lanes = actor.lanes /\ actor'.phase = "collected"
      BY <1>1, <3>1 DEF Actor
    <3>3. Backed(actor', Made) /\ (~lost => Backed(actor', info["payee"].vouchers))
      BY <1>4, <3>2, SameLanes
    <3> QED BY <1>1, <1>3, <1>5, <1>7, <3>2, <3>3, ChainKeeps
  <2> QED BY <2>1, <2>2, <2>3, <2>4
<1> QED BY <1>6, <1>7 DEF Execute

LEMMA DepositKeeps ==
    ASSUME VoucherInv, Deposit, UNCHANGED <<redeem, redeems>>
    PROVE  VoucherInv'
<1>1. TypeOK /\ actor \in Actor /\ mpool \in Seq(Message) BY DEF VoucherInv, TypeOK
<1>2. /\ actor.phase # "collected" /\ actor' = [actor EXCEPT !.balance = @ + 1]
      /\ UNCHANGED <<info, op, mpool, credited, lost, crashed>>
  BY DEF Deposit
<1>3. /\ actor' \in Actor /\ actor'.lanes = actor.lanes /\ actor'.balance >= actor.balance
  BY <1>1, <1>2 DEF Actor
<1>4. Backed(actor', Made) /\ (IsTracked /\ ~lost => Backed(actor', info["payee"].vouchers))
  BY <1>3, SameLanes DEF VoucherInv, PayerInv, KeptInv
<1> QED BY <1>1, <1>2, <1>3, <1>4, ChainKeeps

LEMMA SettlingEndsKeeps ==
    ASSUME VoucherInv, SettlingEnds, UNCHANGED <<redeem, redeems>>
    PROVE  VoucherInv'
<1>1. TypeOK /\ actor \in Actor /\ mpool \in Seq(Message) BY DEF VoucherInv, TypeOK
<1>2. /\ actor.phase = "settling" /\ actor' = [actor EXCEPT !.phase = "expired"]
      /\ UNCHANGED <<info, op, mpool, credited, lost, crashed>>
  BY DEF SettlingEnds
<1>3. /\ actor' \in Actor /\ actor'.lanes = actor.lanes /\ actor'.balance >= actor.balance
  BY <1>1, <1>2 DEF Actor
<1>4. Backed(actor', Made) /\ (IsTracked /\ ~lost => Backed(actor', info["payee"].vouchers))
  BY <1>3, SameLanes DEF VoucherInv, PayerInv, KeptInv
<1> QED BY <1>1, <1>2, <1>3, <1>4, ChainKeeps

LEMMA CollectKeeps ==
    ASSUME VoucherInv, Collect, UNCHANGED <<redeem, redeems>>
    PROVE  VoucherInv'
<1>1. /\ IsTracked /\ UNCHANGED <<info, op, actor, credited, lost, crashed>>
      /\ mpool' = Append(mpool, [kind |-> "collect", voucher |-> Null, state |-> "pending"])
  BY DEF Collect, Push, IsTracked
<1>2. /\ TypeOK /\ PayerInv /\ MadeInv /\ AddInv /\ OutboundInv /\ WaitInv /\ KeptInv
      /\ CreditedIsHeld /\ SubmittedInOrder
  BY DEF VoucherInv
<1> DEFINE n == Len(mpool')
<1>3. /\ mpool' \in Seq(Message) /\ Len(mpool) \in Nat /\ n = Len(mpool) + 1
      /\ DOMAIN mpool = 1..Len(mpool) /\ DOMAIN mpool' = 1..n
      /\ \A i \in DOMAIN mpool : mpool'[i] = mpool[i]
      /\ \A i \in DOMAIN mpool' : i \in DOMAIN mpool \/ i = n
      /\ mpool'[n].kind = "collect"
  <2>1. "collect" \in {"update", "settle", "collect"} /\ Null \in Voucher \cup {Null} OBVIOUS
  <2> QED BY <1>1, <1>2, <2>1, PushedMessage
<1> HIDE DEF n
<1>4. Made' = Made /\ IsTracked' /\ Known' = Known BY <1>1 DEF Made, IsTracked, Known
<1>5. TypeOK'
  <2>1. redeem' \in [at : {"idle", "listed", "settle", "submit"}, best : SUBSET Voucher,
                     waitFor : SUBSET (0..Len(mpool')), wg : Nat, skipped : BOOLEAN]
    <3>1. 0..Len(mpool) \subseteq 0..n BY <1>3
    <3> QED BY <1>2, <1>3, <3>1, RedeemTypes DEF n
  <2> QED BY <1>1, <1>2, <1>3, <2>1 DEF TypeOK
<1>6. PayerInv' BY <1>1, <1>2, <1>4 DEF PayerInv
<1>7. MadeInv'
  <2>1. \A i \in DOMAIN mpool' : mpool'[i].kind = "update" => mpool'[i].voucher \in Made
    BY <1>2, <1>3 DEF MadeInv
  <2> QED BY <1>2, <1>4, <2>1 DEF MadeInv
<1>8. AddInv' BY <1>1, <1>2, <1>4, AddStays
<1>9. OutboundInv' BY <1>1, <1>2 DEF OutboundInv
<1>10. WaitInv' BY <1>2, <1>3 DEF WaitInv
<1>11. KeptInv' BY <1>1, <1>2, <1>3 DEF KeptInv, IsTracked
<1>12. CreditedIsHeld' BY <1>1, <1>2 DEF CreditedIsHeld, Held
<1>13. SubmittedInOrder'
  <2>1. SUFFICES ASSUME ~lost, NEW j \in DOMAIN mpool', NEW i \in 1..(j - 1),
                        mpool'[i].kind = "update", mpool'[j].kind = "update",
                        mpool'[i].voucher.lane = mpool'[j].voucher.lane
                 PROVE  mpool'[i].voucher.nonce < mpool'[j].voucher.nonce
    BY <1>1 DEF SubmittedInOrder
  <2>2. j \in DOMAIN mpool BY <1>3, <2>1
  <2>3. i \in DOMAIN mpool BY <1>3, <2>1, <2>2
  <2> QED BY <1>2, <1>3, <2>1, <2>2, <2>3 DEF SubmittedInOrder
<1> QED BY <1>5, <1>6, <1>7, <1>8, <1>9, <1>10, <1>11, <1>12, <1>13 DEF VoucherInv
-----------------------------------------------------------------------------
(* The invariant *)

LEMMA VouchersStart ==
    ASSUME Init
    PROVE  VoucherInv
<1> DEFINE first == [vouchers |-> {}, submitted |-> {}, nextLane |-> 0, settling |-> FALSE]
           fresh == [l \in Lanes |-> [redeemed |-> 0, nonce |-> 0]]
<1>1. /\ info = [s \in Sides |-> IF s = "payee" THEN Null ELSE first]
      /\ op = [a \in Accessors |-> Null]
      /\ actor = [balance |-> FirstBalance, phase |-> "open", lanes |-> fresh]
      /\ mpool = <<>> /\ credited = 0 /\ lost = FALSE /\ crashed = FALSE
      /\ redeem = [at |-> "idle", best |-> {}, waitFor |-> {}, wg |-> 0, skipped |-> FALSE]
      /\ redeems = 0
  BY DEF Init, ChannelInit, NoRedeem
<1>2. first \in ChannelInfo BY DEF ChannelInfo
<1>3. info["payer"] = first /\ info["payee"] = Null /\ ~IsTracked /\ Made = {}
      /\ \A a \in Accessors : op[a] = Null
  BY <1>1 DEF Sides, IsTracked, Made
<1>4. actor \in Actor /\ \A l \in Lanes : actor.lanes[l] = NoState
  BY <1>1, VouchersAssumption DEF Actor, LaneState, NoState
<1>5. TypeOK
  <2>1. info \in [Sides -> ChannelInfo \cup {Null}] /\ info["payer"] \in ChannelInfo
    BY <1>1, <1>2, <1>3
  <2>2. mpool \in Seq(Message) /\ Len(mpool) = 0 BY <1>1
  <2>3. redeems \in 0..MaxRedeems BY <1>1, RedemptionAssumption
  <2> QED BY <1>1, <1>4, <2>1, <2>2, <2>3 DEF TypeOK
<1>6. Backed(actor, {}) BY <1>4 DEF Backed
<1>7. PayerInv
  <2>1. TotalRedeemed(LaneStates({}, actor)) = 0 BY <1>4, NothingRedeemed
  <2>2. 0 <= actor.balance BY <1>1, VouchersAssumption
  <2>3. info["payer"].nextLane <= MaxLane + 1 BY <1>3, VouchersAssumption
  <2> QED BY <1>3, <1>6, <2>1, <2>2, <2>3 DEF PayerInv, Rising
<1>8. Known = {} BY <1>1, <1>3, TwoAccessors DEF Known
<1>9. \A i \in DOMAIN mpool : FALSE BY <1>1
<1>10. MadeInv BY <1>1, <1>3, <1>4, <1>8, <1>9 DEF MadeInv, NoRedeem
<1>11. AddInv /\ OutboundInv BY <1>3, TwoAccessors DEF AddInv, OutboundInv
<1>12. WaitInv BY <1>1, <1>9 DEF WaitInv
<1>13. KeptInv /\ CreditedIsHeld BY <1>3 DEF KeptInv, CreditedIsHeld, IsTracked
<1>14. SubmittedInOrder BY <1>9 DEF SubmittedInOrder
<1> QED BY <1>5, <1>7, <1>10, <1>11, <1>12, <1>13, <1>14 DEF VoucherInv

LEMMA VouchersStep ==
    ASSUME VoucherInv, [Next]_vars
    PROVE  VoucherInv'
<1>1. CASE RedeemAll
  <2>1. CASE \E i \in redeem.waitFor : Await(i) BY <2>1, AwaitKeeps
  <2> QED BY <1>1, <2>1, StartRedeemKeeps, BestSpendableKeeps, StartSettleKeeps, FinishSettleKeeps,
             StartSubmitKeeps, FinishSubmitKeeps, FinishRedeemKeeps DEF RedeemAll
<1>2. CASE ChannelNext /\ UNCHANGED <<redeem, redeems>>
  <2>1. CASE \E i \in DOMAIN mpool : Execute(i) BY <1>2, <2>1, ExecuteKeeps
  <2> QED BY <1>2, <2>1, AllocateLaneKeeps, CreateVoucherKeeps, TrackKeeps, AddVoucherKeeps,
             LoadActorKeeps, FinishAddKeeps, DepositKeeps, SettlingEndsKeeps, CollectKeeps
          DEF ChannelNext
<1>3. CASE UNCHANGED vars
  <2>1. UNCHANGED <<info, op, actor, mpool, credited, lost, crashed, redeem, redeems>>
    BY <1>3 DEF vars, channelVars
  <2>2. TypeOK' BY <2>1 DEF VoucherInv, TypeOK
  <2>3. OutboundInv' BY <2>1 DEF VoucherInv, OutboundInv
  <2>4. WaitInv' BY <2>1 DEF VoucherInv, WaitInv
  <2>5. Known' \subseteq Known BY <2>1 DEF Known, IsTracked
  <2> QED BY <2>1, <2>2, <2>3, <2>4, <2>5, QuietKeeps
<1> QED BY <1>1, <1>2, <1>3 DEF Next

\* The inductive invariant of the vouchers and their redemption
THEOREM VouchersAlways == Spec => []VoucherInv
<1>1. Init => VoucherInv BY VouchersStart
<1>2. VoucherInv /\ [Next]_vars => VoucherInv' BY VouchersStep
<1> QED BY <1>1, <1>2, PTL DEF Spec
-----------------------------------------------------------------------------
(* The properties *)

\* The stores, the operations, the chain and RedeemAll keep their types, and
\* RedeemAll waits for messages that were sent only
THEOREM VoucherTypeCorrect == Spec => []TypeOK
<1>1. VoucherInv => TypeOK BY DEF VoucherInv
<1> QED BY <1>1, VouchersAlways, PTL

\* In either store the amount of a lane's vouchers rises with the nonce
\* (nextNonceForLane, checkVoucherValidUnlocked)
THEOREM AmountsAlwaysRise == Spec => []AmountsRise
<1>1. ASSUME VoucherInv PROVE AmountsRise
  <2>1. TypeOK /\ Rising(Made) BY <1>1 DEF VoucherInv, PayerInv
  <2>2. \A s \in Tracked : info[s].vouchers \subseteq Made
    <3>1. IsTracked => info["payee"].vouchers \subseteq Made BY <1>1 DEF VoucherInv, MadeInv, Known
    <3> QED BY <3>1 DEF Tracked, Sides, IsTracked, Made
  <2> QED BY <2>1, <2>2 DEF Rising, AmountsRise
<1> QED BY <1>1, VouchersAlways, PTL

\* The payee refuses no voucher that is newer than those it has: the two sides'
\* checks agree (checkVoucherValidUnlocked on either side)
THEOREM NewerAlwaysValid == Spec => []NewerIsValid
<1>1. ASSUME VoucherInv PROVE NewerIsValid
  <2> DEFINE o == op["inbound"]
             Q == info["payee"].vouchers
             lanes == LaneStates(Q, o.act)
  <2>1. SUFFICES ASSUME o # Null, o.act # Null, o.voucher.nonce > lanes[o.voucher.lane].nonce
                 PROVE  CheckVoucherValid(lanes, o.act, o.voucher)
    BY DEF NewerIsValid
  <2>2. TypeOK /\ IsTracked BY <1>1, <2>1, TwoAccessors DEF VoucherInv, MadeInv
  <2>3. Made \in SUBSET Voucher /\ Rising(Made) /\ o.act \in Actor /\ Backed(o.act, Made)
    BY <1>1, <2>1, <2>2, InfoTypes, TwoAccessors DEF VoucherInv, PayerInv, AddInv
  <2>4. PICK S \in SUBSET Made : /\ Known \cup {o.voucher} \subseteq S
                                 /\ TotalRedeemed(LaneStates(S, o.act)) <= o.act.balance
    BY <1>1, <2>1 DEF VoucherInv, AddInv
  <2>5. Q \in SUBSET S /\ o.voucher \in S BY <2>2, <2>4 DEF Known
  <2> HIDE DEF o, Q
  <2> QED BY <2>1, <2>3, <2>4, <2>5, NewerVoucherIsValid
<1> QED BY <1>1, VouchersAlways, PTL

\* What a side's vouchers add up to is in the channel, though each was checked
\* against the chain as it was some calls before (checkVoucherValidUnlocked)
THEOREM AlwaysWithinBalance == Spec => []RedeemedWithinBalance
<1>1. ASSUME VoucherInv PROVE RedeemedWithinBalance
  <2>1. /\ Made \in SUBSET Voucher /\ Rising(Made) /\ Backed(actor, Made) /\ actor \in Actor
        /\ actor.phase # "collected" => TotalRedeemed(LaneStates(Made, actor)) <= actor.balance
    BY <1>1, InfoTypes DEF VoucherInv, TypeOK, PayerInv
  <2>2. SUFFICES ASSUME actor.phase # "collected", NEW s \in Tracked
                 PROVE  TotalRedeemed(LaneStates(info[s].vouchers, actor)) <= actor.balance
    BY DEF RedeemedWithinBalance, Held
  <2> DEFINE S == info[s].vouchers
             x == TotalRedeemed(LaneStates(S, actor))
             y == TotalRedeemed(LaneStates(Made, actor))
  <2>3. S \in SUBSET Made
    <3>1. IsTracked => info["payee"].vouchers \subseteq Made BY <1>1 DEF VoucherInv, MadeInv, Known
    <3> QED BY <2>2, <3>1 DEF Tracked, Sides, IsTracked, Made
  <2> HIDE DEF S
  <2>4. x \in Nat /\ y \in Nat /\ x <= y BY <2>1, <2>3, TotalsWithin
  <2>5. y <= actor.balance /\ actor.balance \in Nat BY <2>1, <2>2, ActorTypes
  <2> HIDE DEF x, y
  <2>6. x <= actor.balance BY <2>4, <2>5
  <2> QED BY <2>6 DEF x, S
<1> QED BY <1>1, VouchersAlways, PTL

\* The payee was told it got exactly what its vouchers are worth, as long as no
\* write went over another (the delta of addVoucherUnlocked)
THEOREM CreditedAlwaysHeld == Spec => []CreditedIsHeld
<1>1. VoucherInv => CreditedIsHeld BY DEF VoucherInv
<1> QED BY <1>1, VouchersAlways, PTL

\* A lane's vouchers are submitted once, in the order of their nonces, as long
\* as no write went over a mark (submitVoucher, MarkVoucherSubmitted)
THEOREM AlwaysSubmittedInOrder == Spec => []SubmittedInOrder
<1>1. VoucherInv => SubmittedInOrder BY DEF VoucherInv
<1> QED BY <1>1, VouchersAlways, PTL

\* RedeemAll returns when no message of its is pending (its WaitGroup)
THEOREM RedeemAllAlwaysWaits == Spec => []RedeemAllWaits
<1>1. ASSUME VoucherInv PROVE RedeemAllWaits BY <1>1 DEF VoucherInv, WaitInv, RedeemAllWaits
<1> QED BY <1>1, VouchersAlways, PTL
=============================================================================
