---------------------------- MODULE ProviderSteps ----------------------------
(***************************************************************************)
(* What every step of the provider keeps, whatever surrounds it: for a     *)
(* payload of any size, any prices and intervals, and vouchers of any      *)
(* amount.  The events queued for the machine carry what the provider      *)
(* counted and booked; each is right when it is taken because of those     *)
(* that cannot be queued with it.                                          *)
(***************************************************************************)
EXTENDS ProviderDeal, FoldLemmas, TLAPS

\* The shape of the deal, the table and the calls on it
ProviderTyped ==
    /\ pdeal \in ProviderDealState
    /\ pevents \in Seq(PEvent)
    /\ pstage \in PStages
    /\ track \subseteq ChannelData /\ \A c, d \in track : c = d
    /\ pull \in Call /\ reval \in Call
    /\ saved \subseteq Nat /\ IsFiniteSet(saved)
    /\ flow \in Flows /\ wire \in 0..FileSize
    /\ notices \in Seq(PEventNames)

\* No more is booked than was vouched for, and counted than was sent; a call
\* keeps its channel's entry
Credited == pdeal.fundsReceived <= Best
Tallied == pdeal.totalSent <= wire /\ \A c \in track : c.totalSent <= wire
Tracked == Readers # {} => track # {}

Payments == {"PartialPaymentReceived", "PaymentReceived"}
Counts == {"BlockSent", "PaymentRequested"}

\* What the queued events speak of; room is how much more may be booked
Now == [wire |-> wire, track |-> track, status |-> pdeal.status, pull |-> pull.pc,
        reval |-> reval.pc, room |-> Best - pdeal.fundsReceived]

\* What an event says is so, as long as it is queued
Fits(e, f) ==
    /\ e.name \in Counts => e.n >= 0 /\ e.n <= f.wire
    /\ e.name = "Complete" => f.wire = FileSize
    /\ e.name = "CleanupComplete" => f.track = {} /\ f.status = "Completing"
    /\ e.name = "SyncPull" => f.pull = "waiting"
    /\ e.name = "SyncReval" => f.reval = "waiting"
    /\ e.name \in Payments => e.n <= f.room /\ f.status # "New" /\ f.reval # "answered"

\* Two payments are never queued, nor a payment after Revalidate's GetSync, and
\* a call waits for one answer
Clash(a, b) == \/ a.name \in Payments \cup {"SyncReval"} /\ b.name \in Payments
               \/ a.name \in Syncs /\ b.name = a.name

Consistent(q, f) ==
    /\ \A i \in DOMAIN q : Fits(q[i], f)
    /\ \A i, j \in DOMAIN q : i < j => ~Clash(q[i], q[j])

QueueInv == Consistent(pevents, Now)

\* The machine ends with the deal, and does nothing before it began
StageInv ==
    /\ pdeal.status \in PFinal <=> pstage = "terminated"
    /\ pstage \in {"none", "terminated"} => pevents = <<>>
    /\ pstage = "none" => track = {}
    /\ flow = "none" => pstage = "none"

\* No byte is counted that was not sent, also not by a call that has read the
\* deal already
SentInv ==
    /\ Tallied
    /\ \A d \in pull.snap : d.totalSent <= wire
    /\ pull.pc # "idle" => /\ pull.op \in {"block", "end"} /\ wire + pull.n <= FileSize
                           /\ pull.op = "end" => pull.n = 0 /\ wire = FileSize

\* A channel that is ending has sent everything
NoticeNames == {"DealAccepted", "Complete", "DataTransferError", "ClientCancelled"}
NoticeInv ==
    /\ flow \in {"finalizing", "completed"} => wire = FileSize
    /\ notices \in Seq(NoticeNames)
    /\ \A i \in DOMAIN notices : notices[i] = "Complete" => wire = FileSize

\* And so has a deal, which is tracked between its beginning and its end only
EndInv ==
    /\ pdeal.status \in {"Completing", "Completed"} => wire = FileSize
    /\ pdeal.status \in {"New", "Completed"} => track = {}

\* What Revalidate read of the money is still so when it decides
CreditInv ==
    /\ Credited
    /\ reval.pc # "answered" => reval.snap = {}
    /\ \A d \in reval.snap : d.fundsReceived = pdeal.fundsReceived
    /\ \A c, d \in reval.snap : c = d

ProviderInv ==
    /\ ProviderTyped /\ StageInv /\ QueueInv /\ SentInv /\ NoticeInv /\ EndInv /\ CreditInv
    /\ Tracked
-----------------------------------------------------------------------------
(* Queues *)

LEMMA EventNames ==
    PEventNames = {"Open", "DealAccepted", "BlockSent", "BlocksCompleted", "PaymentRequested",
                   "SaveVoucherFailed", "PartialPaymentReceived", "PaymentReceived", "Complete",
                   "CleanupComplete", "CancelComplete", "DataTransferError", "MultiStoreError",
                   "ClientCancelled"}
BY DEF PEventNames, PSources

LEMMA EventType ==
    ASSUME NEW name \in PEventNames \cup Syncs, NEW n \in Int
    PROVE  PEv(name, n) \in PEvent /\ PEv(name, n).name = name /\ PEv(name, n).n = n
BY DEF PEv, PEvent

LEMMA TailOf ==
    ASSUME NEW S, NEW q \in Seq(S), q # <<>>
    PROVE  /\ Head(q) = q[1] /\ 1 \in DOMAIN q /\ Head(q) \in S /\ Tail(q) \in Seq(S)
           /\ \A i \in DOMAIN Tail(q) : /\ i + 1 \in DOMAIN q /\ Tail(q)[i] = q[i + 1]
                                        /\ i \in Nat /\ 1 < i + 1
<1>1. Len(q) \in Nat /\ Len(q) > 0 /\ DOMAIN q = 1..Len(q) OBVIOUS
<1>2. Head(q) = q[1] /\ 1 \in DOMAIN q /\ Head(q) \in S BY <1>1
<1>3. Tail(q) \in Seq(S) /\ DOMAIN Tail(q) = 1..(Len(q) - 1) OBVIOUS
<1>4. ASSUME NEW i \in 1..(Len(q) - 1) PROVE Tail(q)[i] = q[i + 1] BY <1>1
<1> QED BY <1>1, <1>2, <1>3, <1>4

LEMMA Concatenation ==
    ASSUME NEW S, NEW q \in Seq(S), NEW r \in Seq(S)
    PROVE  /\ q \o r \in Seq(S)
           /\ DOMAIN q = 1..Len(q) /\ DOMAIN r = 1..Len(r)
           /\ DOMAIN (q \o r) = 1..(Len(q) + Len(r)) /\ Len(q) \in Nat /\ Len(r) \in Nat
           /\ \A i \in DOMAIN q : (q \o r)[i] = q[i]
           /\ \A i \in DOMAIN (q \o r) :
                 i \notin DOMAIN q => i - Len(q) \in DOMAIN r /\ (q \o r)[i] = r[i - Len(q)]
OBVIOUS

LEMMA TwoInARow ==
    ASSUME NEW S, NEW x \in S, NEW y \in S
    PROVE  /\ <<x>> \o <<y>> \in Seq(S)
           /\ \A k \in DOMAIN (<<x>> \o <<y>>) : (<<x>> \o <<y>>)[k] \in {x, y}
<1>1. \A z \in S : <<z>> \in Seq(S) /\ DOMAIN <<z>> = {1} /\ <<z>>[1] = z OBVIOUS
<1>2. ASSUME NEW q \in Seq(S), NEW r \in Seq(S), DOMAIN q = {1}, q[1] = x,
             DOMAIN r = {1}, r[1] = y, NEW k \in DOMAIN (q \o r)
      PROVE  (q \o r)[k] \in {x, y}
  <2>1. CASE k \in DOMAIN q
    <3>1. (q \o r)[k] = q[k] BY <2>1, Concatenation
    <3> QED BY <1>2, <2>1, <3>1
  <2>2. CASE k \notin DOMAIN q
    <3>1. k - Len(q) \in DOMAIN r /\ (q \o r)[k] = r[k - Len(q)]
      BY <1>2, <2>2, Concatenation
    <3>2. k - Len(q) = 1 BY <1>2, <3>1
    <3> QED BY <1>2, <3>1, <3>2
  <2> QED BY <2>1, <2>2
<1>3. <<x>> \in Seq(S) /\ <<y>> \in Seq(S) BY <1>1
<1>4. <<x>> \o <<y>> \in Seq(S) BY <1>3
<1> QED BY <1>1, <1>2, <1>3, <1>4

LEMMA NothingQueued ==
    ASSUME NEW f
    PROVE  Consistent(<<>>, f)
<1>1. \A i \in DOMAIN <<>> : FALSE OBVIOUS
<1> QED BY <1>1 DEF Consistent

\* What is said by all that is queued
LEMMA HeadFits ==
    ASSUME NEW q \in Seq(PEvent), NEW f, Consistent(q, f), q # <<>>
    PROVE  Head(q) \in PEvent /\ Fits(Head(q), f)
BY TailOf DEF Consistent

\* The head is taken; what fits beside it fits without it
LEMMA QueueShrinks ==
    ASSUME NEW q \in Seq(PEvent), NEW f, NEW g, Consistent(q, f), q # <<>>,
           \A e \in PEvent : Fits(e, f) /\ ~Clash(Head(q), e) => Fits(e, g)
    PROVE  Consistent(Tail(q), g) /\ Tail(q) \in Seq(PEvent)
<1> DEFINE r == Tail(q)
<1>1. /\ Head(q) = q[1] /\ 1 \in DOMAIN q /\ r \in Seq(PEvent)
      /\ \A i \in DOMAIN r : /\ i + 1 \in DOMAIN q /\ r[i] = q[i + 1]
                             /\ i \in Nat /\ 1 < i + 1
  BY TailOf
<1> HIDE DEF r
<1>2. ASSUME NEW i \in DOMAIN r PROVE Fits(r[i], g)
  <2>1. r[i] \in PEvent BY <1>1
  <2>2. Fits(r[i], f) /\ ~Clash(Head(q), r[i]) BY <1>1, <1>2 DEF Consistent
  <2> QED BY <2>1, <2>2
<1>3. ASSUME NEW i \in DOMAIN r, NEW j \in DOMAIN r, i < j PROVE ~Clash(r[i], r[j])
  <2>1. i + 1 < j + 1 BY <1>1, <1>3
  <2> QED BY <1>1, <1>3, <2>1 DEF Consistent
<1> QED BY <1>1, <1>2, <1>3 DEF Consistent, r

\* Events are queued that fit and do not clash
LEMMA QueueGrows ==
    ASSUME NEW q \in Seq(PEvent), NEW f, NEW g, Consistent(q, f), NEW r \in Seq(PEvent),
           \A e \in PEvent : Fits(e, f) => Fits(e, g),
           \A k \in DOMAIN r : Fits(r[k], g),
           \A e \in PEvent, k \in DOMAIN r : Fits(e, f) => ~Clash(e, r[k]),
           \A k, l \in DOMAIN r : k < l => ~Clash(r[k], r[l])
    PROVE  Consistent(q \o r, g) /\ q \o r \in Seq(PEvent)
<1> DEFINE s == q \o r
<1>1. /\ s \in Seq(PEvent) /\ Len(q) \in Nat /\ Len(r) \in Nat
      /\ DOMAIN q = 1..Len(q) /\ DOMAIN r = 1..Len(r)
      /\ DOMAIN s = 1..(Len(q) + Len(r))
      /\ \A i \in DOMAIN q : s[i] = q[i]
      /\ \A i \in DOMAIN s : i \notin DOMAIN q => i - Len(q) \in DOMAIN r /\ s[i] = r[i - Len(q)]
  BY Concatenation
<1> HIDE DEF s
<1>2. \A i \in DOMAIN q : q[i] \in PEvent /\ Fits(q[i], f) BY DEF Consistent
<1>3. ASSUME NEW i \in DOMAIN s PROVE Fits(s[i], g)
  <2>1. CASE i \in DOMAIN q BY <1>1, <1>2, <2>1
  <2>2. CASE i \notin DOMAIN q BY <1>1, <2>2
  <2> QED BY <2>1, <2>2
<1>4. ASSUME NEW i \in DOMAIN s, NEW j \in DOMAIN s, i < j PROVE ~Clash(s[i], s[j])
  <2>1. i \in Nat /\ j \in Nat /\ i >= 1 BY <1>1
  <2>2. CASE j \in DOMAIN q
    <3>1. i \in DOMAIN q BY <1>1, <1>4, <2>1, <2>2
    <3> QED BY <1>1, <1>4, <2>2, <3>1 DEF Consistent
  <2>3. CASE i \in DOMAIN q /\ j \notin DOMAIN q BY <1>1, <1>2, <2>3
  <2>4. CASE i \notin DOMAIN q /\ j \notin DOMAIN q
    <3>1. i - Len(q) < j - Len(q) BY <1>1, <1>4, <2>1
    <3> QED BY <1>1, <2>4, <3>1
  <2> QED BY <2>2, <2>3, <2>4
<1> QED BY <1>1, <1>3, <1>4 DEF Consistent, s

LEMMA QueueStays ==
    ASSUME NEW q \in Seq(PEvent), NEW f, NEW g, Consistent(q, f),
           \A e \in PEvent : Fits(e, f) => Fits(e, g)
    PROVE  Consistent(q, g)
<1>1. \A i \in DOMAIN q : q[i] \in PEvent OBVIOUS
<1> QED BY <1>1 DEF Consistent

\* One event
LEMMA QueueGrowsByOne ==
    ASSUME NEW q \in Seq(PEvent), NEW f, NEW g, Consistent(q, f), NEW x \in PEvent,
           \A e \in PEvent : Fits(e, f) => Fits(e, g) /\ ~Clash(e, x),
           Fits(x, g)
    PROVE  /\ Consistent(q \o <<x>>, g) /\ q \o <<x>> \in Seq(PEvent)
           /\ Consistent(Append(q, x), g) /\ Append(q, x) \in Seq(PEvent)
<1> DEFINE r == <<x>>
<1>1. r \in Seq(PEvent) /\ DOMAIN r = {1} /\ r[1] = x OBVIOUS
<1>2. Append(q, x) = q \o <<x>> OBVIOUS
<1> HIDE DEF r
<1>3. \A k, l \in DOMAIN r : ~(k < l) BY <1>1
<1>4. Consistent(q \o r, g) /\ q \o r \in Seq(PEvent) BY <1>1, <1>3, QueueGrows
<1> QED BY <1>2, <1>4 DEF r

\* A call waits for nothing that was answered, and a payment for no second one
LEMMA ClashFree ==
    ASSUME NEW f, NEW x \in PEvent,
           x.name \in Payments => f.reval = "answered",
           x.name = "SyncPull" => f.pull # "waiting",
           x.name = "SyncReval" => f.reval # "waiting"
    PROVE  \A e \in PEvent : Fits(e, f) => ~Clash(e, x)
BY DEF Fits, Clash, Payments, Syncs
-----------------------------------------------------------------------------
(* The best voucher *)

LEMMA BestFacts ==
    ASSUME ProviderTyped
    PROVE  Best \in Nat /\ Best \in saved \cup {0} /\ \A b \in saved \cup {0} : b <= Best
<1> DEFINE S == saved \cup {0}
<1>1. IsFiniteSet(S) /\ S \subseteq Nat BY FS_AddElement DEF ProviderTyped
<1>2. S # {} /\ \A x \in S : x \in Int BY <1>1
<1> HIDE DEF S
<1>3. Max(S) \in S /\ \A y \in S : Max(S) >= y BY <1>1, <1>2, MaxIsMax
<1>4. \E a \in S : \A b \in S : b <= a BY <1>1, <1>3
<1>5. Best = CHOOSE a \in S : \A b \in S : b <= a BY DEF Best, S
<1>6. Best \in S /\ \A b \in S : b <= Best BY <1>4, <1>5
<1> QED BY <1>1, <1>6 DEF S

LEMMA BestStays ==
    ASSUME saved' = saved
    PROVE  Best' = Best
BY DEF Best

LEMMA BestGrows ==
    ASSUME ProviderTyped, NEW a \in Nat, saved' = saved \cup {a}
    PROVE  /\ Best' \in Nat /\ Best <= Best' /\ a <= Best'
           /\ saved' \subseteq Nat /\ IsFiniteSet(saved')
<1> DEFINE S == (saved \cup {a}) \cup {0}
<1>1. IsFiniteSet(saved \cup {a}) /\ saved \cup {a} \subseteq Nat BY FS_AddElement DEF ProviderTyped
<1>2. IsFiniteSet(S) /\ S \subseteq Nat BY <1>1, FS_AddElement
<1>3. S # {} /\ \A x \in S : x \in Int BY <1>2
<1>4. saved \cup {0} \subseteq S /\ a \in S OBVIOUS
<1>5. Best' = CHOOSE m \in S : \A b \in S : b <= m BY DEF Best, S
<1> HIDE DEF S
<1>6. Max(S) \in S /\ \A y \in S : Max(S) >= y BY <1>2, <1>3, MaxIsMax
<1>7. \E m \in S : \A b \in S : b <= m BY <1>3, <1>6
<1>8. Best' \in S /\ \A b \in S : b <= Best' BY <1>5, <1>7
<1>9. Best' \in Nat /\ Best <= Best' /\ a <= Best' BY <1>2, <1>4, <1>8, BestFacts
<1> QED BY <1>1, <1>9
-----------------------------------------------------------------------------
(* An event is taken *)

LEMMA StatusNames ==
    /\ PLive = {"New", "Ongoing", "FundsNeeded", "FundsNeededLastPayment", "BlocksComplete",
                "Finalizing", "Completing", "Failing"}
    /\ PFinal = {"Errored", "Completed", "Cancelled"}
BY DEF PLive, PFinal

\* The machine moves to a status s, with the record d; no event moves it back to
\* New, and from Completing it only ends
LEMMA EventKeeps ==
    ASSUME ProviderInv, pstage = "idle", pevents # <<>>,
           NEW s \in PLive \cup PFinal, NEW d \in ProviderDealState,
           PEnter(s, d), UNCHANGED Others,
           d.totalSent <= wire,
           \/ d.fundsReceived = pdeal.fundsReceived
           \/ Head(pevents).name \in Payments /\ d.fundsReceived <= Best
           \/ pdeal.status = "New" /\ d.fundsReceived = 0,
           s \in {"Completing", "Completed"} => wire = FileSize,
           s = "Completed" => track = {},
           s = "New" => pdeal.status = "New",
           pdeal.status = "Completing" => s \in PFinal
    PROVE  ProviderInv'
<1> USE StatusNames
<1>0. UNCHANGED <<track, pull, reval, saved, flow, wire, notices>> BY DEF Others
<1>1. /\ pdeal' = [d EXCEPT !.status = s] /\ pdeal' \in ProviderDealState
      /\ pdeal'.status = s /\ pdeal'.totalSent = d.totalSent
      /\ pdeal'.fundsReceived = d.fundsReceived
  BY DEF PEnter, ProviderDealState
<1>2. /\ pstage' \in PStages \ {"none", "locking"} /\ (s \in PFinal <=> pstage' = "terminated")
      /\ pevents' = IF s \in PFinal THEN <<>> ELSE Tail(pevents)
  BY DEF PEnter, PStages
<1>3. pevents \in Seq(PEvent) /\ QueueInv BY DEF ProviderInv, ProviderTyped
<1>4. Head(pevents) \in PEvent /\ Fits(Head(pevents), Now)
  BY <1>3, HeadFits DEF QueueInv
<1>5. Best' = Best /\ Best \in Nat BY <1>0, BestStays, BestFacts DEF ProviderInv
<1>6. pdeal \in ProviderDealState /\ d.fundsReceived \in Int /\ pdeal.fundsReceived \in Int
  BY DEF ProviderInv, ProviderTyped, ProviderDealState
<1>7. pdeal.status = "New" => track = {} /\ Readers = {} /\ reval.pc = "idle"
  <2>1. pdeal.status = "New" => track = {} BY DEF ProviderInv, EndInv
  <2>2. track = {} => Readers = {} BY DEF ProviderInv, Tracked
  <2>3. Readers = {} => reval.pc = "idle" BY DEF Readers
  <2> QED BY <2>1, <2>2, <2>3
<1>8. Consistent(pevents', Now') /\ pevents' \in Seq(PEvent)
  <2>1. CASE s \in PFinal BY <1>2, <2>1, NothingQueued
  <2>2. CASE s \notin PFinal
    <3>1. ASSUME NEW e \in PEvent, Fits(e, Now), ~Clash(Head(pevents), e)
          PROVE  Fits(e, Now')
      <4>1. /\ Now'.wire = Now.wire /\ Now'.track = Now.track /\ Now'.pull = Now.pull
            /\ Now'.reval = Now.reval /\ Now'.status = s /\ Now.status = pdeal.status
            /\ Now'.room = Best - d.fundsReceived /\ Now.room = Best - pdeal.fundsReceived
        BY <1>0, <1>1, <1>5 DEF Now
      <4>2. e.name # "CleanupComplete" BY <2>2, <3>1, <4>1 DEF Fits
      <4>3. e.name \in Payments => /\ Head(pevents).name \notin Payments
                                   /\ s # "New" /\ pdeal.status # "New"
        BY <3>1, <4>1 DEF Fits, Clash
      <4>4. e.name \in Payments => Now'.room = Now.room BY <4>1, <4>3
      <4> HIDE DEF Now
      <4> QED BY <3>1, <4>1, <4>2, <4>3, <4>4 DEF Fits
    <3>2. Consistent(Tail(pevents), Now') /\ Tail(pevents) \in Seq(PEvent)
      BY <1>3, <3>1, QueueShrinks DEF QueueInv
    <3> QED BY <1>2, <2>2, <3>2
  <2> QED BY <2>1, <2>2
<1>9. ProviderTyped' BY <1>0, <1>1, <1>2, <1>8 DEF ProviderInv, ProviderTyped
<1>10. StageInv'
  <2>1. pstage' \in {"none", "terminated"} => pevents' = <<>> BY <1>2
  <2>2. flow # "none" BY DEF ProviderInv, StageInv
  <2>3. pstage' # "none" BY <1>2
  <2> QED BY <1>0, <1>1, <1>2, <2>1, <2>2, <2>3 DEF StageInv
<1>11. SentInv' BY <1>0, <1>1 DEF ProviderInv, SentInv, Tallied
<1>12. NoticeInv' BY <1>0 DEF ProviderInv, NoticeInv
<1>13. EndInv' BY <1>0, <1>1, <1>7 DEF ProviderInv, EndInv
<1>14. CreditInv'
  <2>1. d.fundsReceived <= Best
    BY <1>5, <1>6 DEF ProviderInv, CreditInv, Credited
  <2>2. reval.snap = {} \/ d.fundsReceived = pdeal.fundsReceived
    <3>1. Head(pevents).name \in Payments => reval.pc # "answered" BY <1>4 DEF Fits, Now
    <3> QED BY <1>7, <3>1 DEF ProviderInv, CreditInv
  <2> QED BY <1>0, <1>1, <1>5, <2>1, <2>2 DEF ProviderInv, CreditInv, Credited
<1>15. Tracked' BY <1>0 DEF ProviderInv, Tracked, Readers
<1> QED BY <1>8, <1>9, <1>10, <1>11, <1>12, <1>13, <1>14, <1>15 DEF ProviderInv, QueueInv

\* An event is taken that leaves the deal as it is
LEMMA DropKeeps ==
    ASSUME ProviderInv, pstage = "idle", pevents # <<>>, pevents' = Tail(pevents),
           UNCHANGED <<pdeal, pstage>>, UNCHANGED Others
    PROVE  ProviderInv'
<1>0. UNCHANGED <<pdeal, pstage, track, pull, reval, saved, flow, wire, notices>>
  BY DEF Others
<1>1. Best' = Best BY <1>0, BestStays
<1>2. Now' = Now BY <1>0, <1>1 DEF Now
<1>3. Consistent(pevents', Now') /\ pevents' \in Seq(PEvent)
  BY <1>2, QueueShrinks DEF ProviderInv, ProviderTyped, QueueInv
<1>4. ProviderTyped' BY <1>0, <1>3 DEF ProviderInv, ProviderTyped
<1>5. StageInv' BY <1>0 DEF ProviderInv, StageInv
<1>6. SentInv' BY <1>0 DEF ProviderInv, SentInv, Tallied
<1>7. NoticeInv' BY <1>0 DEF ProviderInv, NoticeInv
<1>8. EndInv' BY <1>0 DEF ProviderInv, EndInv
<1>9. CreditInv' BY <1>0, <1>1 DEF ProviderInv, CreditInv, Credited
<1>10. Tracked' BY <1>0 DEF ProviderInv, Tracked, Readers
<1> QED BY <1>3, <1>4, <1>5, <1>6, <1>7, <1>8, <1>9, <1>10 DEF ProviderInv, QueueInv

\* What the head of the queue says
LEMMA Taken ==
    ASSUME ProviderInv, NEW name \in PEventNames, PTake(name)
    PROVE  /\ pstage = "idle" /\ pevents # <<>> /\ Head(pevents) \in PEvent
           /\ Head(pevents).name = name /\ Fits(Head(pevents), Now)
           /\ pdeal.status \in PSources[name]
           /\ pdeal \in ProviderDealState /\ pdeal.totalSent <= wire
BY HeadFits DEF PTake, ProviderInv, ProviderTyped, QueueInv, SentInv, Tallied

\* The events that change nothing of the deal but its status
LEMMA StatusEvents ==
    ASSUME ProviderInv,
           \/ DealAccepted \/ BlocksCompleted \/ SaveVoucherFailed \/ Complete
           \/ CleanupComplete \/ CancelComplete \/ ErrorDeal
    PROVE  ProviderInv'
<1> USE EventNames, StatusNames
<1>1. ASSUME NEW name \in PEventNames, NEW s \in PLive \cup PFinal, PTake(name),
             PEnter(s, pdeal), UNCHANGED Others,
             s \in {"Completing", "Completed"} => wire = FileSize,
             s = "Completed" => track = {}, s # "New",
             pdeal.status = "Completing" => s \in PFinal
      PROVE  ProviderInv'
  <2>1. /\ pstage = "idle" /\ pevents # <<>> /\ pdeal \in ProviderDealState
        /\ pdeal.totalSent <= wire
    BY <1>1, Taken
  <2> QED BY <1>1, <2>1, EventKeeps
<1>2. CASE DealAccepted
  <2>1. pdeal.status = "New" BY <1>2, Taken DEF DealAccepted, PSources
  <2> QED BY <1>1, <1>2, <2>1 DEF DealAccepted
<1>3. CASE BlocksCompleted
  <2>1. pdeal.status = "Ongoing" BY <1>3, Taken DEF BlocksCompleted, PSources
  <2> QED BY <1>1, <1>3, <2>1 DEF BlocksCompleted
<1>4. CASE SaveVoucherFailed
  <2>1. pdeal.status \in {"FundsNeeded", "FundsNeededLastPayment"}
    BY <1>4, Taken DEF SaveVoucherFailed, PSources
  <2> QED BY <1>1, <1>4, <2>1 DEF SaveVoucherFailed
<1>5. CASE Complete
  <2>1. pdeal.status \in {"BlocksComplete", "Finalizing"} BY <1>5, Taken DEF Complete, PSources
  <2>2. wire = FileSize BY <1>5, Taken DEF Complete, Fits, Now
  <2> QED BY <1>1, <1>5, <2>1, <2>2 DEF Complete
<1>6. CASE CleanupComplete
  <2>1. track = {} /\ pdeal.status = "Completing"
    BY <1>6, Taken DEF CleanupComplete, Fits, Now
  <2>2. wire = FileSize BY <2>1 DEF ProviderInv, EndInv
  <2> QED BY <1>1, <1>6, <2>1, <2>2 DEF CleanupComplete
<1>7. CASE CancelComplete
  BY <1>1, <1>7 DEF CancelComplete
<1>8. CASE ErrorDeal
  BY <1>1, <1>8 DEF ErrorDeal
<1> QED BY <1>2, <1>3, <1>4, <1>5, <1>6, <1>7, <1>8

LEMMA DealBegins ==
    ASSUME NEW r \in ProviderDealState, NEW c \in Nat
    PROVE  LET d == [r EXCEPT !.totalSent = 0, !.fundsReceived = 0, !.currentInterval = c]
           IN  d \in ProviderDealState /\ d.totalSent = 0 /\ d.fundsReceived = 0
<1>1. ASSUME NEW t \in Nat, NEW f \in Int
      PROVE  LET d == [r EXCEPT !.totalSent = t, !.fundsReceived = f, !.currentInterval = c]
             IN  d \in ProviderDealState /\ d.totalSent = t /\ d.fundsReceived = f
  BY DEF ProviderDealState
<1>2. 0 \in Nat /\ 0 \in Int OBVIOUS
<1> QED BY ONLY <1>1, <1>2, Zenon

LEMMA DealPays ==
    ASSUME NEW r \in ProviderDealState, NEW f \in Int, NEW c \in Nat
    PROVE  LET d == [r EXCEPT !.fundsReceived = f, !.currentInterval = c]
           IN  d \in ProviderDealState /\ d.totalSent = r.totalSent /\ d.fundsReceived = f
BY DEF ProviderDealState

\* The events that write what was sent, what was received or the interval
LEMMA RecordEvents ==
    ASSUME ProviderInv,
           \/ Open \/ BlockSent \/ PaymentRequested
           \/ PartialPaymentReceived \/ PaymentReceived
    PROVE  ProviderInv'
<1> USE EventNames, StatusNames
<1>0. Best \in Nat /\ FileSize \in Nat /\ wire \in Nat /\ pdeal \in ProviderDealState
  BY BestFacts, ProviderDealAssumption DEF ProviderInv, ProviderTyped
<1>1. CASE Open
  <2> DEFINE d == [pdeal EXCEPT !.totalSent = 0, !.fundsReceived = 0,
                                !.currentInterval = PaymentInterval]
  <2>1. pdeal.status = "New" /\ pstage = "idle" /\ pevents # <<>>
    BY <1>1, Taken DEF Open, PSources
  <2>2. d \in ProviderDealState /\ d.fundsReceived = 0 /\ d.totalSent = 0
    <3>1. PaymentInterval \in Nat /\ 0 \in Nat /\ 0 \in Int BY ProviderDealAssumption
    <3> QED BY <1>0, <3>1, DealBegins
  <2>3. PEnter("New", d) /\ UNCHANGED Others BY <1>1 DEF Open
  <2>4. d.totalSent <= wire BY <1>0, <2>2
  <2> HIDE DEF d
  <2> QED BY <2>1, <2>2, <2>3, <2>4, EventKeeps
<1>2. CASE BlockSent \/ PaymentRequested
  <2> DEFINE d == [pdeal EXCEPT !.totalSent = Head(pevents).n]
  <2>1. \E name \in Counts : PTake(name) BY <1>2 DEF BlockSent, PaymentRequested, Counts
  <2>2. /\ pdeal.status = "Ongoing" /\ pstage = "idle" /\ pevents # <<>>
        /\ Head(pevents).n \in Nat /\ Head(pevents).n <= wire
    BY <2>1, Taken DEF PSources, Counts, Fits, Now, PEvent
  <2>3. d \in ProviderDealState /\ d.fundsReceived = pdeal.fundsReceived /\ d.totalSent <= wire
    BY <1>0, <2>2 DEF ProviderDealState
  <2>4. (PEnter("Ongoing", d) \/ PEnter("FundsNeeded", d)) /\ UNCHANGED Others
    BY <1>2 DEF BlockSent, PaymentRequested
  <2> HIDE DEF d
  <2> QED BY <2>2, <2>3, <2>4, EventKeeps
<1>3. CASE PartialPaymentReceived \/ PaymentReceived
  <2>1. \E name \in Payments : PTake(name)
    BY <1>3 DEF PartialPaymentReceived, PaymentReceived, Payments
  <2>2. /\ pdeal.status \in {"FundsNeeded", "FundsNeededLastPayment"}
        /\ pstage = "idle" /\ pevents # <<>> /\ Head(pevents).name \in Payments
        /\ Head(pevents).n \in Int /\ pdeal.totalSent <= wire
        /\ Head(pevents).n <= Best - pdeal.fundsReceived
    BY <2>1, Taken DEF PSources, Payments, Fits, Now, PEvent
  <2>3. pdeal.fundsReceived \in Int /\ pdeal.currentInterval \in Nat
    BY <1>0 DEF ProviderDealState
  <2>4. ASSUME NEW d \in ProviderDealState, NEW s \in PLive, PEnter(s, d), UNCHANGED Others,
               s \in {"FundsNeeded", "FundsNeededLastPayment", "Ongoing", "Finalizing"},
               d.fundsReceived = pdeal.fundsReceived + Head(pevents).n,
               d.totalSent = pdeal.totalSent
        PROVE  ProviderInv'
    <3>1. d.fundsReceived <= Best BY <1>0, <2>2, <2>3, <2>4
    <3> QED BY <2>2, <2>4, <3>1, EventKeeps
  <2>5. CASE PartialPaymentReceived
    <3> DEFINE d == [pdeal EXCEPT !.fundsReceived = @ + Head(pevents).n]
    <3>1. /\ d \in ProviderDealState /\ d.totalSent = pdeal.totalSent
          /\ d.fundsReceived = pdeal.fundsReceived + Head(pevents).n
      BY <1>0, <2>2, <2>3 DEF ProviderDealState
    <3>2. PEnter(pdeal.status, d) /\ UNCHANGED Others BY <2>5 DEF PartialPaymentReceived
    <3> HIDE DEF d
    <3> QED BY <2>2, <2>4, <3>1, <3>2
  <2>6. CASE PaymentReceived
    <3> DEFINE d == [pdeal EXCEPT !.fundsReceived = @ + Head(pevents).n,
                                  !.currentInterval = @ + PaymentIntervalIncrease]
    <3>1. /\ d \in ProviderDealState /\ d.totalSent = pdeal.totalSent
          /\ d.fundsReceived = pdeal.fundsReceived + Head(pevents).n
      <4>1. /\ pdeal.fundsReceived + Head(pevents).n \in Int
            /\ pdeal.currentInterval + PaymentIntervalIncrease \in Nat
        BY <2>2, <2>3, ProviderDealAssumption
      <4> QED BY <1>0, <4>1, DealPays
    <3>2. /\ PEnter(IF pdeal.status = "FundsNeeded" THEN "Ongoing" ELSE "Finalizing", d)
          /\ UNCHANGED Others
      BY <2>6 DEF PaymentReceived
    <3> HIDE DEF d
    <3> QED BY <2>4, <3>1, <3>2
  <2> QED BY <1>3, <2>5, <2>6
<1> QED BY <1>1, <1>2, <1>3

LEMMA ClientCancelledKeeps ==
    ASSUME ProviderInv, ClientCancelled
    PROVE  ProviderInv'
<1>1. /\ pstage = "idle" /\ pevents # <<>> /\ UNCHANGED Others
      /\ pdeal \in ProviderDealState /\ pdeal.totalSent <= wire
  BY EventNames, Taken DEF ClientCancelled
<1>2. CASE pdeal.status = "Failing" BY <1>1, <1>2, DropKeeps DEF ClientCancelled
<1>3. CASE pdeal.status # "Failing"
  <2>1. PEnter("Cancelled", pdeal) BY <1>3 DEF ClientCancelled
  <2> QED BY <1>1, <2>1, EventKeeps, StatusNames
<1> QED BY <1>2, <1>3

\* GetSync's event takes the deal as it is; no payment is queued behind
\* Revalidate's
LEMMA AnswerGetKeeps ==
    ASSUME ProviderInv, AnswerGet
    PROVE  ProviderInv'
<1> DEFINE h == Head(pevents)
<1>0. /\ UNCHANGED <<pdeal, pstage, track, saved, flow, wire, notices>>
      /\ pstage = "idle" /\ pevents # <<>> /\ pevents' = Tail(pevents)
      /\ h.name \in Syncs
  BY DEF AnswerGet
<1>1. Best' = Best BY <1>0, BestStays
<1>2. h \in PEvent /\ Fits(h, Now) BY <1>0, HeadFits DEF ProviderInv, ProviderTyped, QueueInv
<1>3. /\ pdeal \in ProviderDealState /\ pull \in Call /\ reval \in Call
      /\ pevents \in Seq(PEvent)
  BY DEF ProviderInv, ProviderTyped
<1>4. \/ /\ h.name = "SyncPull" /\ pull.pc = "waiting" /\ UNCHANGED reval
         /\ pull' = [pull EXCEPT !.pc = "answered", !.snap = {pdeal}]
      \/ /\ h.name = "SyncReval" /\ reval.pc = "waiting" /\ UNCHANGED pull
         /\ reval' = [reval EXCEPT !.pc = "answered", !.snap = {pdeal}]
  BY <1>2 DEF AnswerGet, Syncs, Fits, Now
<1>5. \A r \in Call : LET a == [r EXCEPT !.pc = "answered", !.snap = {pdeal}]
                      IN  /\ a \in Call /\ a.pc = "answered" /\ a.snap = {pdeal}
                          /\ a.op = r.op /\ a.n = r.n
  BY <1>3 DEF Call, CallStates
<1>6. /\ pull' \in Call /\ reval' \in Call
      /\ h.name = "SyncPull" => /\ pull'.pc = "answered" /\ pull'.snap = {pdeal} /\ reval' = reval
                                /\ pull'.op = pull.op /\ pull'.n = pull.n
      /\ h.name = "SyncReval" => /\ reval'.pc = "answered" /\ reval'.snap = {pdeal}
                                 /\ pull' = pull
  BY <1>3, <1>4, <1>5
<1>7. Consistent(pevents', Now') /\ pevents' \in Seq(PEvent)
  <2>1. ASSUME NEW e \in PEvent, Fits(e, Now), ~Clash(h, e)
        PROVE  Fits(e, Now')
    <3>1. /\ Now'.wire = Now.wire /\ Now'.track = Now.track /\ Now'.status = Now.status
          /\ Now'.room = Now.room
          /\ h.name = "SyncPull" => Now'.reval = Now.reval
          /\ h.name = "SyncReval" => Now'.pull = Now.pull
      BY <1>0, <1>1, <1>6 DEF Now
    <3> HIDE DEF h
    <3>2. h.name = "SyncPull" \/ h.name = "SyncReval" BY <1>4
    <3>3. h.name = "SyncPull" => e.name # "SyncPull" BY <2>1 DEF Clash, Syncs
    <3>4. h.name = "SyncReval" => e.name # "SyncReval" /\ e.name \notin Payments
      BY <2>1 DEF Clash, Syncs
    <3> QED BY <2>1, <3>1, <3>2, <3>3, <3>4 DEF Fits
  <2> QED BY <1>0, <1>3, <2>1, QueueShrinks DEF ProviderInv, QueueInv
<1> HIDE DEF h
<1>8. ProviderTyped' BY <1>0, <1>6, <1>7 DEF ProviderInv, ProviderTyped
<1>9. StageInv' BY <1>0 DEF ProviderInv, StageInv
<1>10. SentInv'
  BY <1>0, <1>4, <1>6 DEF ProviderInv, SentInv, Tallied
<1>11. NoticeInv' BY <1>0 DEF ProviderInv, NoticeInv
<1>12. EndInv' BY <1>0 DEF ProviderInv, EndInv
<1>13. CreditInv' BY <1>0, <1>1, <1>4, <1>6 DEF ProviderInv, CreditInv, Credited
<1>14. Tracked' BY <1>0, <1>4, <1>6 DEF ProviderInv, Tracked, Readers
<1> QED BY <1>7, <1>8, <1>9, <1>10, <1>11, <1>12, <1>13, <1>14 DEF ProviderInv, QueueInv

LEMMA ProcessEventKeeps ==
    ASSUME ProviderInv, ProcessEvent
    PROVE  ProviderInv'
<1>1. CASE DropEvent BY <1>1, DropKeeps DEF DropEvent
<1> QED BY <1>1, StatusEvents, RecordEvents, ClientCancelledKeeps, AnswerGetKeeps
    DEF ProcessEvent
-----------------------------------------------------------------------------
(* The machine's handlers *)

LEMMA LockKeeps ==
    ASSUME ProviderInv, WaitForLock
    PROVE  ProviderInv'
<1>0. /\ UNCHANGED <<pdeal, pevents, track, pull, reval, saved, flow, wire, notices>>
      /\ pstage = "handler" /\ pstage' = "locking"
  BY DEF WaitForLock, Others
<1>1. Best' = Best BY <1>0, BestStays
<1>2. Now' = Now BY <1>0, <1>1 DEF Now
<1>3. ProviderTyped' BY <1>0 DEF ProviderInv, ProviderTyped, PStages
<1>4. StageInv' BY <1>0 DEF ProviderInv, StageInv
<1>5. SentInv' BY <1>0 DEF ProviderInv, SentInv, Tallied
<1>6. NoticeInv' BY <1>0 DEF ProviderInv, NoticeInv
<1>7. EndInv' BY <1>0 DEF ProviderInv, EndInv
<1>8. CreditInv' BY <1>0, <1>1 DEF ProviderInv, CreditInv, Credited
<1>9. Tracked' BY <1>0 DEF ProviderInv, Tracked, Readers
<1> QED BY <1>0, <1>2, <1>3, <1>4, <1>5, <1>6, <1>7, <1>8, <1>9 DEF ProviderInv, QueueInv

\* What the table is loaded with
LEMMA DealData ==
    ASSUME NEW d \in ProviderDealState
    PROVE  FromDeal(d) \in ChannelData /\ FromDeal(d).totalSent = d.totalSent
<1>1. MaxOf(d.fundsReceived, 0) \in Nat BY DEF MaxOf, ProviderDealState
<1>2. \A m \in Nat : m \div PricePerByte \in Nat BY ProviderDealAssumption
<1>3. MaxOf(d.fundsReceived, 0) \div PricePerByte \in Nat BY <1>1, <1>2
<1> QED BY <1>3 DEF FromDeal, ChannelData, ProviderDealState

\* The deal is tracked, while nobody holds the table
LEMMA TrackKeeps ==
    ASSUME ProviderInv, TrackTransfer
    PROVE  ProviderInv'
<1>0. /\ UNCHANGED <<pdeal, pevents, pull, reval, saved, flow, wire, notices>>
      /\ pstage \in {"handler", "locking"} /\ pstage' = "idle" /\ pdeal.status = "Ongoing"
      /\ track' = {FromDeal(pdeal)} /\ Readers = {}
  BY DEF TrackTransfer, Running
<1>1. Best' = Best BY <1>0, BestStays
<1>2. pdeal \in ProviderDealState BY DEF ProviderInv, ProviderTyped
<1>3. track' \subseteq ChannelData /\ \A c \in track' : c.totalSent <= wire
  BY <1>0, <1>2, DealData DEF ProviderInv, SentInv, Tallied
<1>4. Consistent(pevents', Now')
  <2>1. ASSUME NEW e \in PEvent, Fits(e, Now) PROVE Fits(e, Now')
    <3>1. /\ Now'.wire = Now.wire /\ Now'.status = Now.status /\ Now'.room = Now.room
          /\ Now'.reval = Now.reval /\ Now'.pull = Now.pull /\ Now.status = "Ongoing"
      BY <1>0, <1>1 DEF Now
    <3> QED BY <2>1, <3>1 DEF Fits
  <2>2. pevents \in Seq(PEvent) BY DEF ProviderInv, ProviderTyped
  <2> QED BY <1>0, <2>1, <2>2, QueueStays DEF ProviderInv, QueueInv
<1>5. ProviderTyped' BY <1>0, <1>3 DEF ProviderInv, ProviderTyped, PStages
<1>6. StageInv' BY <1>0 DEF ProviderInv, StageInv
<1>7. SentInv' BY <1>0, <1>3 DEF ProviderInv, SentInv, Tallied
<1>8. NoticeInv' BY <1>0 DEF ProviderInv, NoticeInv
<1>9. EndInv' BY <1>0 DEF ProviderInv, EndInv
<1>10. CreditInv' BY <1>0, <1>1 DEF ProviderInv, CreditInv, Credited
<1>11. Tracked' BY <1>0 DEF Tracked, Readers
<1> QED BY <1>4, <1>5, <1>6, <1>7, <1>8, <1>9, <1>10, <1>11 DEF ProviderInv, QueueInv

\* A handler takes the deal out of the table, while nobody holds it, and
\* triggers the event of its outcome
LEMMA TriggerKeeps ==
    ASSUME ProviderInv,
           UNCHANGED <<pdeal, pull, reval, saved, wire, notices>>,
           Running({"Failing", "Completing"}), Readers = {}, track' = {},
           flow' = flow \/ flow' = "closed",
           NEW name \in {"MultiStoreError", "DataTransferError", "CancelComplete",
                         "CleanupComplete"},
           name = "CleanupComplete" => pdeal.status = "Completing",
           PTrigger(name)
    PROVE  ProviderInv'
<1> DEFINE x == PEv(name, 0)
<1>0. /\ pstage \in {"handler", "locking"} /\ pstage' = "idle"
      /\ pdeal.status \in {"Failing", "Completing"}
      /\ pevents' = Append(pevents, x)
  BY DEF Running, PTrigger
<1>1. Best' = Best BY BestStays
<1>2. x \in PEvent /\ x.name = name BY EventNames, EventType
<1> HIDE DEF x
<1>3. name \notin Counts \cup Payments \cup Syncs \cup {"Complete"} BY DEF Counts, Payments, Syncs
<1>4. /\ Now'.wire = Now.wire /\ Now'.status = Now.status /\ Now'.room = Now.room
      /\ Now'.reval = Now.reval /\ Now'.pull = Now.pull
      /\ Now'.track = {} /\ Now'.status = pdeal.status
  BY <1>1 DEF Now
<1>5. Consistent(pevents', Now') /\ pevents' \in Seq(PEvent)
  <2>1. ASSUME NEW e \in PEvent, Fits(e, Now) PROVE Fits(e, Now') /\ ~Clash(e, x)
    <3>1. Fits(e, Now') BY <1>4, <2>1 DEF Fits
    <3>2. ~Clash(e, x) BY <1>2, <1>3 DEF Clash
    <3> QED BY <3>1, <3>2
  <2>2. Fits(x, Now') BY <1>2, <1>3, <1>4 DEF Fits, Syncs
  <2>3. pevents \in Seq(PEvent) /\ Consistent(pevents, Now) BY DEF ProviderInv, ProviderTyped, QueueInv
  <2> QED BY <1>0, <1>2, <2>1, <2>2, <2>3, QueueGrowsByOne
<1>6. ProviderTyped' BY <1>0, <1>5 DEF ProviderInv, ProviderTyped, PStages, Flows
<1>7. StageInv' BY <1>0, StatusNames DEF ProviderInv, StageInv
<1>8. SentInv' BY DEF ProviderInv, SentInv, Tallied
<1>9. NoticeInv' BY DEF ProviderInv, NoticeInv
<1>10. EndInv' BY DEF ProviderInv, EndInv
<1>11. CreditInv' BY <1>1 DEF ProviderInv, CreditInv, Credited
<1>12. Tracked' BY DEF Tracked, Readers
<1> QED BY <1>5, <1>6, <1>7, <1>8, <1>9, <1>10, <1>11, <1>12 DEF ProviderInv, QueueInv

LEMMA RunHandlerKeeps ==
    ASSUME ProviderInv, RunHandler
    PROVE  ProviderInv'
<1>1. CASE CancelDeal
  <2>1. /\ UNCHANGED <<pdeal, pull, reval, saved, wire, notices>> /\ Readers = {} /\ track' = {}
        /\ Running({"Failing", "Completing"}) /\ (flow' = flow \/ flow' = "closed")
        /\ \E name \in {"MultiStoreError", "DataTransferError", "CancelComplete"} :
              PTrigger(name)
    BY <1>1 DEF CancelDeal, Running
  <2> QED BY <2>1, TriggerKeeps
<1>2. CASE CleanupDeal
  <2>1. /\ UNCHANGED <<pdeal, pull, reval, saved, wire, notices, flow>> /\ Readers = {}
        /\ track' = {} /\ Running({"Failing", "Completing"}) /\ pdeal.status = "Completing"
        /\ \E name \in {"MultiStoreError", "CleanupComplete"} : PTrigger(name)
    BY <1>2 DEF CleanupDeal, Running
  <2> QED BY <2>1, TriggerKeeps
<1> QED BY <1>1, <1>2, LockKeeps, TrackKeeps DEF RunHandler
-----------------------------------------------------------------------------
(* The channel's flow *)

\* How a step may move the channel
Moves ==
    \/ UNCHANGED <<flow, notices>>
    \/ flow' \in {"running", "paused", "closed"} /\ UNCHANGED notices
    \/ flow' = "finalizing" /\ wire' = FileSize /\ UNCHANGED notices
    \/ flow' = "completed" /\ wire' = FileSize /\ notices' = Append(notices, "Complete")
    \/ /\ flow' = "closed"
       /\ \E name \in {"DataTransferError", "ClientCancelled"} : notices' = Append(notices, name)

LEMMA NoticesGrow ==
    ASSUME NEW q \in Seq(NoticeNames), NEW name \in NoticeNames
    PROVE  /\ Append(q, name) \in Seq(NoticeNames)
           /\ \A i \in DOMAIN Append(q, name) : \/ i \in DOMAIN q /\ Append(q, name)[i] = q[i]
                                                \/ Append(q, name)[i] = name
OBVIOUS

LEMMA NoticesAreEvents ==
    /\ Seq(NoticeNames) \subseteq Seq(PEventNames)
    /\ NoticeNames \subseteq PEventNames
<1>1. NoticeNames \subseteq PEventNames BY EventNames DEF NoticeNames
<1> QED BY <1>1

LEMMA FlowKeeps ==
    ASSUME ProviderInv, Moves, wire = FileSize => wire' = FileSize
    PROVE  /\ NoticeInv' /\ flow' \in Flows /\ notices' \in Seq(PEventNames)
           /\ flow' = "none" => flow = "none"
<1>1. flow \in Flows /\ NoticeInv BY DEF ProviderInv, ProviderTyped
<1>2. flow' \in Flows /\ (flow' = "none" => flow = "none") BY <1>1 DEF Moves, Flows
<1>3. CASE UNCHANGED notices BY <1>1, <1>3, NoticesAreEvents, <1>2 DEF NoticeInv, Moves
<1>4. ASSUME NEW name \in {"Complete", "DataTransferError", "ClientCancelled"},
             notices' = Append(notices, name), name = "Complete" => wire' = FileSize
      PROVE  /\ notices' \in Seq(NoticeNames)
             /\ \A i \in DOMAIN notices' : notices'[i] = "Complete" => wire' = FileSize
  <2>1. name \in NoticeNames /\ notices \in Seq(NoticeNames) BY <1>1 DEF NoticeNames, NoticeInv
  <2>2. /\ notices' \in Seq(NoticeNames)
        /\ \A i \in DOMAIN notices' : \/ i \in DOMAIN notices /\ notices'[i] = notices[i]
                                      \/ notices'[i] = name
    BY <1>4, <2>1, NoticesGrow
  <2> QED BY <1>1, <1>4, <2>2 DEF NoticeInv
<1>5. CASE flow' = "completed" /\ wire' = FileSize /\ notices' = Append(notices, "Complete")
  BY <1>2, <1>4, <1>5, NoticesAreEvents DEF NoticeInv
<1>6. CASE /\ flow' = "closed"
           /\ \E name \in {"DataTransferError", "ClientCancelled"} :
                 notices' = Append(notices, name)
  BY <1>2, <1>4, <1>6, NoticesAreEvents DEF NoticeInv
<1> QED BY <1>3, <1>5, <1>6 DEF Moves

\* The ways a call leaves the channel
LEMMA CallsMove ==
    /\ Go => Moves
    /\ \A status, owed : Pause("paused", status, owed) => Moves
    /\ \A status, owed : wire' = FileSize /\ Pause("finalizing", status, owed) => Moves
    /\ \A said : wire' = FileSize /\ Finish(said) => Moves
    /\ \A heard : Break(heard) => Moves
    /\ \A said : (flow = "finalizing" => wire' = FileSize) /\ Resume(said) => Moves
<1>1. Go => Moves BY DEF Go, Moves
<1>2. \A status, owed : Pause("paused", status, owed) => Moves BY DEF Pause, Moves
<1>3. \A status, owed : wire' = FileSize /\ Pause("finalizing", status, owed) => Moves
  BY DEF Pause, Moves
<1>4. \A said : wire' = FileSize /\ Finish(said) => Moves BY DEF Finish, Moves
<1>5. \A heard : Break(heard) => Moves BY <1>1 DEF Break, Moves
<1>6. ASSUME NEW said, flow = "finalizing" => wire' = FileSize, Resume(said) PROVE Moves
  <2>1. CASE flow = "paused" BY <1>6, <2>1 DEF Resume, Moves
  <2>2. CASE flow = "finalizing"
    <3>1. Finish(said) BY <1>6, <2>2 DEF Resume
    <3> QED BY <1>4, <1>6, <2>2, <3>1
  <2>3. CASE flow \notin {"paused", "finalizing"} BY <1>6, <2>3 DEF Resume, Moves
  <2> QED BY <2>1, <2>2, <2>3
<1> QED BY <1>1, <1>2, <1>3, <1>4, <1>5, <1>6
-----------------------------------------------------------------------------
(* What the calls on the table, and the library, queue for the machine *)

LEMMA SendKeeps ==
    ASSUME ProviderInv, NEW r \in Seq(PEvent), SendAll(r),
           UNCHANGED <<pdeal, pstage>>, flow' = "none" => flow = "none",
           track = {} => track' = {},
           \A e \in PEvent : Fits(e, Now) => Fits(e, Now'),
           \A k \in DOMAIN r : Fits(r[k], Now'),
           \A e \in PEvent, k \in DOMAIN r : Fits(e, Now) => ~Clash(e, r[k]),
           \A k, l \in DOMAIN r : k < l => ~Clash(r[k], r[l])
    PROVE  QueueInv' /\ StageInv' /\ pevents' \in Seq(PEvent)
<1>1. pevents \in Seq(PEvent) /\ Consistent(pevents, Now) BY DEF ProviderInv, ProviderTyped, QueueInv
<1>2. Consistent(pevents \o r, Now') /\ pevents \o r \in Seq(PEvent) BY <1>1, QueueGrows
<1>3. Consistent(pevents, Now') BY <1>1, QueueStays
<1>4. pevents' = pevents \o r \/ pevents' = pevents BY DEF SendAll
<1>5. pstage \in {"none", "terminated"} => pevents' = <<>>
  BY DEF SendAll, Alive, ProviderInv, StageInv
<1>6. StageInv' BY <1>5 DEF ProviderInv, StageInv
<1> QED BY <1>1, <1>2, <1>3, <1>4, <1>6 DEF QueueInv

LEMMA SendOneKeeps ==
    ASSUME ProviderInv, NEW x \in PEvent, SendAll(<<x>>),
           UNCHANGED <<pdeal, pstage>>, flow' = "none" => flow = "none",
           track = {} => track' = {},
           \A e \in PEvent : Fits(e, Now) => Fits(e, Now') /\ ~Clash(e, x),
           Fits(x, Now')
    PROVE  QueueInv' /\ StageInv' /\ pevents' \in Seq(PEvent)
<1> DEFINE r == <<x>>
<1>1. r \in Seq(PEvent) /\ DOMAIN r = {1} /\ r[1] = x /\ SendAll(r) OBVIOUS
<1> HIDE DEF r
<1>2. \A k, l \in DOMAIN r : ~(k < l) BY <1>1
<1> QED BY <1>1, <1>2, SendKeeps

LEMMA SendNoneKeeps ==
    ASSUME ProviderInv, UNCHANGED <<pdeal, pstage, pevents>>, flow' = "none" => flow = "none",
           track = {} => track' = {},
           \A e \in PEvent : Fits(e, Now) => Fits(e, Now')
    PROVE  QueueInv' /\ StageInv' /\ pevents' \in Seq(PEvent)
<1>1. pevents \in Seq(PEvent) /\ Consistent(pevents, Now) BY DEF ProviderInv, ProviderTyped, QueueInv
<1>2. Consistent(pevents, Now') BY <1>1, QueueStays
<1>3. StageInv' BY DEF ProviderInv, StageInv
<1> QED BY <1>1, <1>2, <1>3 DEF QueueInv

\* The library tells the machine what became of the channel
LEMMA DeliverKeeps ==
    ASSUME ProviderInv, DeliverNotice
    PROVE  ProviderInv'
<1> DEFINE x == PEv(Head(notices), 0)
<1>0. /\ UNCHANGED <<pdeal, pstage, track, pull, reval, saved, flow, wire>>
      /\ notices # <<>> /\ notices' = Tail(notices) /\ SendAll(<<x>>)
  BY DEF DeliverNotice
<1>1. Best' = Best /\ Now' = Now BY <1>0, BestStays DEF Now
<1>2. /\ Head(notices) \in NoticeNames /\ notices' \in Seq(NoticeNames)
      /\ Head(notices) = "Complete" => wire = FileSize
      /\ \A i \in DOMAIN notices' : notices'[i] = "Complete" => wire = FileSize
  <2>1. notices \in Seq(NoticeNames) BY DEF ProviderInv, NoticeInv
  <2>2. /\ Head(notices) = notices[1] /\ 1 \in DOMAIN notices
        /\ Head(notices) \in NoticeNames /\ Tail(notices) \in Seq(NoticeNames)
        /\ \A i \in DOMAIN Tail(notices) : /\ i + 1 \in DOMAIN notices
                                           /\ Tail(notices)[i] = notices[i + 1]
    BY <1>0, <2>1, TailOf
  <2> QED BY <1>0, <2>2 DEF ProviderInv, NoticeInv
<1>3. x \in PEvent /\ x.name = Head(notices) /\ x.name \in NoticeNames
  BY <1>2, NoticesAreEvents, EventType
<1>4. x.name \notin Counts \cup Payments \cup Syncs \cup {"CleanupComplete"}
  BY <1>3 DEF Counts, Payments, Syncs, NoticeNames
<1>5. Fits(x, Now') BY <1>1, <1>2, <1>3, <1>4 DEF Fits, Syncs, Now
<1>6. \A e \in PEvent : ~Clash(e, x) BY <1>4 DEF Clash
<1> HIDE DEF x
<1>7. QueueInv' /\ StageInv' /\ pevents' \in Seq(PEvent)
  BY <1>0, <1>1, <1>3, <1>5, <1>6, SendOneKeeps
<1>8. notices' \in Seq(PEventNames) BY <1>2, NoticesAreEvents
<1>9. ProviderTyped' BY <1>0, <1>7, <1>8 DEF ProviderInv, ProviderTyped
<1>10. SentInv' BY <1>0 DEF ProviderInv, SentInv, Tallied
<1>11. NoticeInv' BY <1>0, <1>2 DEF ProviderInv, NoticeInv
<1>12. EndInv' BY <1>0 DEF ProviderInv, EndInv
<1>13. CreditInv' BY <1>0, <1>1 DEF ProviderInv, CreditInv, Credited
<1>14. Tracked' BY <1>0 DEF ProviderInv, Tracked, Readers
<1> QED BY <1>7, <1>9, <1>10, <1>11, <1>12, <1>13, <1>14 DEF ProviderInv

\* A retrieval begins
LEMMA ValidatePullKeeps ==
    ASSUME ProviderInv, ValidatePull
    PROVE  ProviderInv'
<1>0. /\ UNCHANGED <<pdeal, track, pull, reval, saved, wire>>
      /\ flow = "none" /\ flow' = "running" /\ pstage = "none" /\ pevents = <<>>
  BY DEF ValidatePull, ProviderInv, StageInv
<1>1. Best' = Best /\ Now' = Now BY <1>0, BestStays DEF Now
<1>2. /\ pstage' \in {"none", "idle"} /\ (pstage' = "none" => pevents' = <<>>)
      /\ Consistent(pevents', Now') /\ pevents' \in Seq(PEvent)
  <2>1. CASE pevents' = <<PEv("Open", 0)>> /\ pstage' = "idle"
    <3> DEFINE x == PEv("Open", 0)
    <3>1. x \in PEvent /\ x.name = "Open" BY EventNames, EventType
    <3>2. <<>> \in Seq(PEvent) /\ Consistent(<<>>, Now) BY NothingQueued
    <3>3. Fits(x, Now') /\ \A e \in PEvent : ~Clash(e, x)
      BY <3>1 DEF Fits, Clash, Counts, Payments, Syncs
    <3>4. pevents' = Append(<<>>, x) BY <2>1
    <3> HIDE DEF x
    <3> QED BY <1>1, <2>1, <3>1, <3>2, <3>3, <3>4, QueueGrowsByOne
  <2>2. CASE UNCHANGED <<pevents, pstage>>
    <3>1. pevents' = <<>> /\ pstage' = "none" BY <1>0, <2>2
    <3> QED BY <3>1, NothingQueued
  <2> QED BY <2>1, <2>2 DEF ValidatePull
<1>3. notices' = <<"DealAccepted">> \/ notices' = notices BY DEF ValidatePull
<1>4. NoticeInv' /\ notices' \in Seq(PEventNames)
  <2> DEFINE q == <<"DealAccepted">>
  <2>1. q \in Seq(NoticeNames) /\ \A i \in DOMAIN q : q[i] # "Complete" BY DEF NoticeNames
  <2> HIDE DEF q
  <2>2. notices' = q \/ notices' = notices BY <1>3 DEF q
  <2> QED BY <1>0, <2>1, <2>2, NoticesAreEvents DEF ProviderInv, NoticeInv
<1>5. ProviderTyped' BY <1>0, <1>2, <1>4 DEF ProviderInv, ProviderTyped, Flows, PStages
<1>6. StageInv' BY <1>0, <1>2 DEF ProviderInv, StageInv
<1>7. SentInv' BY <1>0 DEF ProviderInv, SentInv, Tallied
<1>8. EndInv' BY <1>0 DEF ProviderInv, EndInv
<1>9. CreditInv' BY <1>0, <1>1 DEF ProviderInv, CreditInv, Credited
<1>10. Tracked' BY <1>0 DEF ProviderInv, Tracked, Readers
<1> QED BY <1>2, <1>4, <1>5, <1>6, <1>7, <1>8, <1>9, <1>10 DEF ProviderInv, QueueInv

LEMMA ChannelEndsKeeps ==
    ASSUME ProviderInv, NEW event \in {"ClientCancelled", "DataTransferError"},
           ChannelEnds(event)
    PROVE  ProviderInv'
<1>0. /\ UNCHANGED <<pdeal, pevents, pstage, track, pull, reval, saved, wire>> /\ Moves
  BY DEF ChannelEnds, Moves
<1>1. Best' = Best /\ Now' = Now BY <1>0, BestStays DEF Now
<1>2. /\ NoticeInv' /\ flow' \in Flows /\ notices' \in Seq(PEventNames)
      /\ flow' = "none" => flow = "none"
  BY <1>0, FlowKeeps
<1>3. QueueInv' /\ StageInv' /\ pevents' \in Seq(PEvent) BY <1>0, <1>1, <1>2, SendNoneKeeps
<1>4. ProviderTyped' BY <1>0, <1>2 DEF ProviderInv, ProviderTyped
<1>5. SentInv' BY <1>0 DEF ProviderInv, SentInv, Tallied
<1>6. EndInv' BY <1>0 DEF ProviderInv, EndInv
<1>7. CreditInv' BY <1>0, <1>1 DEF ProviderInv, CreditInv, Credited
<1>8. Tracked' BY <1>0 DEF ProviderInv, Tracked, Readers
<1> QED BY <1>2, <1>3, <1>4, <1>5, <1>6, <1>7, <1>8 DEF ProviderInv
-----------------------------------------------------------------------------
(* The transport's calls *)

\* What is so stays so while more is sent and vouched for
LEMMA FitsStay ==
    ASSUME NEW f, NEW g, f.wire \in Int, g.wire \in Int, f.room \in Int, g.room \in Int,
           f.wire <= g.wire, f.room <= g.room, f.wire = FileSize => g.wire = FileSize,
           f.track = {} => g.track = {}, g.status = f.status,
           f.pull = "waiting" => g.pull = "waiting",
           f.reval = "waiting" => g.reval = "waiting",
           f.reval # "answered" => g.reval # "answered"
    PROVE  \A e \in PEvent : Fits(e, f) => Fits(e, g)
BY DEF Fits, PEvent

LEMMA RoomIsInteger ==
    ASSUME ProviderInv
    PROVE  /\ Best \in Nat /\ pdeal.fundsReceived \in Int /\ Now.room \in Int
           /\ Now.room = Best - pdeal.fundsReceived
           /\ FileSize \in Nat /\ wire \in Nat /\ wire <= FileSize
<1>1. Best \in Nat BY BestFacts DEF ProviderInv
<1>2. pdeal.fundsReceived \in Int BY DEF ProviderInv, ProviderTyped, ProviderDealState
<1>3. FileSize \in Nat /\ wire \in Nat /\ wire <= FileSize
  BY ProviderDealAssumption DEF ProviderInv, ProviderTyped
<1> QED BY <1>1, <1>2, <1>3 DEF Now

LEMMA NowFields ==
    /\ Now.wire = wire /\ Now.track = track /\ Now.status = pdeal.status
    /\ Now.pull = pull.pc /\ Now.reval = reval.pc
    /\ Now'.wire = wire' /\ Now'.track = track' /\ Now'.status = pdeal'.status
    /\ Now'.pull = pull'.pc /\ Now'.reval = reval'.pc
    /\ Now.room = Best - pdeal.fundsReceived /\ Now'.room = Best' - pdeal'.fundsReceived
BY DEF Now

\* What is queued while the transport calls stays so
LEMMA TransportFits ==
    ASSUME ProviderInv, UNCHANGED <<pdeal, reval, saved>>,
           wire' \in Nat, wire <= wire', wire = FileSize => wire' = FileSize,
           track = {} => track' = {}, pull.pc = "waiting" => pull'.pc = "waiting"
    PROVE  \A e \in PEvent : Fits(e, Now) => Fits(e, Now')
<1>1. Best' = Best BY BestStays
<1>2. /\ wire \in Nat /\ Now.room \in Int /\ Now'.room = Now.room
  BY <1>1, RoomIsInteger, NowFields
<1> QED BY <1>2, NowFields, FitsStay

\* A call of the transport that keeps the entry in its place
LEMMA TransportKeeps ==
    ASSUME ProviderInv, UNCHANGED <<pdeal, pstage, reval, saved>>,
           QueueInv' /\ StageInv' /\ pevents' \in Seq(PEvent), Moves,
           wire' \in 0..FileSize, wire <= wire',
           track' \subseteq ChannelData, \A c, d \in track' : c = d,
           \A c \in track' : c.totalSent <= wire', track = {} <=> track' = {},
           pull' \in Call, \A d \in pull'.snap : d.totalSent <= wire',
           pull'.pc # "idle" => /\ pull'.op \in {"block", "end"} /\ wire' + pull'.n <= FileSize
                                /\ pull'.op = "end" => pull'.n = 0 /\ wire' = FileSize,
           pull'.pc # "idle" => track # {}
    PROVE  ProviderInv'
<1>1. Best' = Best BY BestStays
<1>2. /\ FileSize \in Nat /\ wire \in Nat /\ wire <= FileSize /\ wire' \in Nat
      /\ wire' <= FileSize
  BY RoomIsInteger
<1>3. wire = FileSize => wire' = FileSize BY <1>2
<1>4. /\ NoticeInv' /\ flow' \in Flows /\ notices' \in Seq(PEventNames) BY <1>3, FlowKeeps
<1>5. ProviderTyped' BY <1>4 DEF ProviderInv, ProviderTyped
<1>6. SentInv'
  <2>1. pdeal.totalSent \in Nat /\ pdeal.totalSent <= wire
    BY DEF ProviderInv, ProviderTyped, ProviderDealState, SentInv, Tallied
  <2>2. pdeal'.totalSent <= wire' BY <1>2, <2>1
  <2> QED BY <2>2 DEF SentInv, Tallied
<1>7. EndInv' BY <1>3 DEF ProviderInv, EndInv
<1>8. CreditInv' BY <1>1 DEF ProviderInv, CreditInv, Credited
<1>9. Tracked'
  <2>1. reval.pc # "idle" => track # {} BY DEF ProviderInv, Tracked, Readers
  <2> QED BY <2>1 DEF Tracked, Readers
<1> QED BY <1>4, <1>5, <1>6, <1>7, <1>8, <1>9 DEF ProviderInv

\* The step in which the rest of OnPullDataSent or OnComplete runs
Accounts(c, op, n) ==
    /\ UNCHANGED <<pdeal, pstage, reval, saved>>
    /\ Counted(c, op, n) /\ wire' = wire + n
    /\ \/ pull' = pull /\ pull.pc = "idle"
       \/ pull' = NoCall /\ pull.pc = "answered"

LEMMA BlockAccounted ==
    ASSUME ProviderInv, UNCHANGED <<pdeal, pstage, reval, saved>>, track # {},
           NEW c \in ChannelData, AccountBlock(c), c.totalSent <= wire', wire' \in Nat,
           \A e \in PEvent : Fits(e, Now) => Fits(e, Now')
    PROVE  QueueInv' /\ StageInv' /\ pevents' \in Seq(PEvent) /\ Moves /\ track' = {c}
<1>1. c.totalSent \in Nat BY DEF ChannelData
<1>2. Moves BY CallsMove DEF AccountBlock
<1>3. flow # "none" BY DEF ProviderInv, StageInv
<1>4. flow' = "none" => flow = "none"
  BY <1>2, <1>3 DEF Moves
<1>5. PICK name \in Counts : SendAll(<<PEv(name, c.totalSent)>>)
  BY DEF AccountBlock, Counts
<1> DEFINE x == PEv(name, c.totalSent)
<1>6. x \in PEvent /\ x.name \in Counts /\ x.n = c.totalSent /\ SendAll(<<x>>)
  BY <1>1, <1>5, EventNames, EventType DEF Counts
<1> HIDE DEF x
<1>7. x.name \notin Payments \cup Syncs \cup {"Complete", "CleanupComplete"}
  BY <1>6 DEF Counts, Payments, Syncs
<1>8. Fits(x, Now') BY <1>1, <1>6, <1>7, NowFields DEF Fits, Syncs
<1>9. \A e \in PEvent : ~Clash(e, x) BY <1>7 DEF Clash
<1>10. track' = {c} BY DEF AccountBlock
<1>11. QueueInv' /\ StageInv' /\ pevents' \in Seq(PEvent)
  BY <1>4, <1>6, <1>8, <1>9, SendOneKeeps
<1> QED BY <1>2, <1>10, <1>11

LEMMA EndAccounted ==
    ASSUME ProviderInv, UNCHANGED <<pdeal, pstage, reval, saved>>, track # {},
           NEW c \in ChannelData, AccountEnd(c), c.totalSent <= wire', wire' = FileSize,
           \A e \in PEvent : Fits(e, Now) => Fits(e, Now')
    PROVE  QueueInv' /\ StageInv' /\ pevents' \in Seq(PEvent) /\ Moves /\ track' = {c}
<1>1. c.totalSent \in Nat BY DEF ChannelData
<1>2. Moves
  <2>1. CASE ~Alive BY <2>1, CallsMove DEF AccountEnd
  <2>2. CASE Alive /\ Owed(c) = 0 BY <2>2, CallsMove DEF AccountEnd
  <2>3. CASE Alive /\ Owed(c) # 0 BY <2>3, CallsMove DEF AccountEnd
  <2> QED BY <2>1, <2>2, <2>3
<1>3. flow' = "none" => flow = "none" BY <1>2 DEF Moves
<1> DEFINE x == PEv("BlocksCompleted", 0)
           y == PEv("PaymentRequested", c.totalSent)
           r == <<x>> \o IF Owed(c) = 0 THEN <<>> ELSE <<y>>
<1>4. /\ x \in PEvent /\ x.name = "BlocksCompleted"
      /\ y \in PEvent /\ y.name = "PaymentRequested" /\ y.n = c.totalSent
  BY <1>1, EventNames, EventType
<1>5. SendAll(r) /\ track' = {c} BY DEF AccountEnd
<1> HIDE DEF x, y
<1>6. r \in Seq(PEvent) /\ \A k \in DOMAIN r : r[k] \in {x, y}
  <2>1. CASE Owed(c) = 0
    <3>1. r = <<x>> BY <2>1
    <3> QED BY <1>4, <3>1
  <2>2. CASE Owed(c) # 0
    <3>1. r = <<x>> \o <<y>> BY <2>2
    <3> QED BY <1>4, <3>1, TwoInARow
  <2> QED BY <2>1, <2>2
<1> HIDE DEF r
<1>7. Fits(x, Now') /\ Fits(y, Now')
  BY <1>1, <1>4, NowFields DEF Fits, Syncs, Payments, Counts
<1>8. \A e : ~Clash(e, x) /\ ~Clash(e, y) BY <1>4 DEF Clash, Payments, Syncs
<1>9. QueueInv' /\ StageInv' /\ pevents' \in Seq(PEvent)
  <2>1. \A k \in DOMAIN r : Fits(r[k], Now') BY <1>6, <1>7
  <2>2. \A k \in DOMAIN r : \A e : ~Clash(e, r[k]) BY <1>6, <1>8
  <2> QED BY <1>3, <1>5, <1>6, <2>1, <2>2, SendKeeps
<1> QED BY <1>2, <1>5, <1>9

LEMMA AccountsKeeps ==
    ASSUME ProviderInv, track # {}, NEW c \in ChannelData, NEW op \in {"block", "end"},
           NEW n \in Nat, Accounts(c, op, n), c.totalSent <= wire, wire + n <= FileSize,
           op = "end" => n = 0 /\ wire = FileSize
    PROVE  ProviderInv'
<1>0. /\ UNCHANGED <<pdeal, pstage, reval, saved>>
      /\ Counted(c, op, n) /\ wire' = wire + n
      /\ \/ pull' = pull /\ pull.pc = "idle"
         \/ pull' = NoCall /\ pull.pc = "answered"
  BY DEF Accounts
<1>1. /\ FileSize \in Nat /\ wire \in Nat /\ wire' \in 0..FileSize /\ wire <= wire'
      /\ wire = FileSize => wire' = FileSize
  BY <1>0, RoomIsInteger
<1>2. pull.pc = "waiting" => pull'.pc = "waiting" BY <1>0
<1>3. \A e \in PEvent : Fits(e, Now) => Fits(e, Now') BY <1>0, <1>1, <1>2, TransportFits
<1>4. c.totalSent \in Nat BY DEF ChannelData
<1>5. PICK b \in ChannelData : /\ b.totalSent <= wire' /\ track' = {b} /\ Moves
                               /\ QueueInv' /\ StageInv' /\ pevents' \in Seq(PEvent)
  <2>1. CASE op = "block"
    <3> DEFINE b == [c EXCEPT !.totalSent = @ + n]
    <3>1. b \in ChannelData /\ b.totalSent = c.totalSent + n BY DEF ChannelData
    <3>2. AccountBlock(b) BY <1>0, <2>1 DEF Counted
    <3> HIDE DEF b
    <3>3. b.totalSent <= wire' BY <1>0, <1>1, <1>4, <3>1
    <3> QED BY <1>0, <1>1, <1>3, <3>1, <3>2, <3>3, BlockAccounted
  <2>2. CASE op = "end"
    <3>1. AccountEnd(c) BY <1>0, <2>2 DEF Counted
    <3>2. wire' = FileSize /\ c.totalSent <= wire' BY <1>0, <1>1, <1>4, <2>2
    <3> QED BY <1>0, <1>3, <3>1, <3>2, EndAccounted
  <2> QED BY <2>1, <2>2
<1>6. /\ pull' \in Call /\ pull'.pc = "idle"
      /\ \A d \in pull'.snap : d.totalSent <= wire'
  <2>1. CASE pull' = pull /\ pull.pc = "idle"
    <3>1. pull \in Call BY DEF ProviderInv, ProviderTyped
    <3>2. \A d \in pull.snap : d.totalSent \in Nat /\ d.totalSent <= wire
      BY <3>1 DEF Call, ProviderDealState, ProviderInv, SentInv
    <3> QED BY <1>0, <1>1, <2>1, <3>1, <3>2
  <2>2. CASE pull' = NoCall BY <2>2 DEF NoCall, Call, CallStates
  <2> QED BY <1>0, <2>1, <2>2
<1>7. /\ track' \subseteq ChannelData /\ \A d, e \in track' : d = e
      /\ \A d \in track' : d.totalSent <= wire' /\ track' # {}
  BY <1>5
<1>8. track = {} <=> track' = {} BY <1>5
<1> QED BY <1>0, <1>1, <1>5, <1>6, <1>7, <1>8, TransportKeeps

LEMMA ReportKeeps ==
    ASSUME ProviderInv, NEW op \in {"block", "end"}, NEW n \in Nat,
           op = "block" => n > 0, wire + n <= FileSize, op = "end" => n = 0 /\ wire = FileSize,
           Report(op, n)
    PROVE  ProviderInv'
<1>0. /\ UNCHANGED <<pdeal, pstage, reval, saved>>
      /\ flow = "running" /\ pull.pc = "idle"
  BY DEF Report
<1>1. FileSize \in Nat /\ wire \in Nat /\ wire <= FileSize BY RoomIsInteger
<1>2. pull \in Call /\ \A d \in pull.snap : d.totalSent \in Nat /\ d.totalSent <= wire
  <2>1. pull \in Call BY DEF ProviderInv, ProviderTyped
  <2> QED BY <2>1 DEF Call, ProviderDealState, ProviderInv, SentInv
<1>3. /\ track \subseteq ChannelData /\ \A c, d \in track : c = d
      /\ \A c \in track : c.totalSent \in Nat /\ c.totalSent <= wire
  BY DEF ProviderInv, ProviderTyped, SentInv, Tallied, ChannelData
<1>4. ASSUME wire' = wire + n, UNCHANGED <<track, pull, pevents>>, Moves
      PROVE  ProviderInv'
  <2>1. wire' \in 0..FileSize /\ wire <= wire' /\ (wire = FileSize => wire' = FileSize)
    BY <1>1, <1>4
  <2>2. \A e \in PEvent : Fits(e, Now) => Fits(e, Now') BY <1>0, <1>1, <1>4, <2>1, TransportFits
  <2>3. flow' = "none" => flow = "none" BY <1>4, <1>0 DEF Moves
  <2>4. QueueInv' /\ StageInv' /\ pevents' \in Seq(PEvent)
    BY <1>0, <1>4, <2>2, <2>3, SendNoneKeeps
  <2>5. \A d \in pull'.snap : d.totalSent <= wire' BY <1>1, <1>2, <1>4, <2>1
  <2>6. \A c \in track' : c.totalSent <= wire' BY <1>1, <1>3, <1>4, <2>1
  <2> QED BY <1>0, <1>2, <1>3, <1>4, <2>1, <2>4, <2>5, <2>6, TransportKeeps
<1>5. CASE /\ track = {} /\ wire' = wire + n
           /\ IF op = "block" THEN Go ELSE Finish(<<>>)
           /\ UNCHANGED <<track, pull, pevents>>
  <2>1. op = "end" => wire' = FileSize BY <1>1, <1>5
  <2>2. Moves BY <1>5, <2>1, CallsMove
  <2> QED BY <1>4, <1>5, <2>2
<1>6. ASSUME NEW c \in track, Counted(c, op, n), wire' = wire + n, UNCHANGED pull
      PROVE  ProviderInv'
  <2>1. Accounts(c, op, n) BY <1>0, <1>6 DEF Accounts
  <2> QED BY <1>3, <1>6, <2>1, AccountsKeeps
<1>7. ASSUME NEW c \in track, Alive, SendAll(<<PEv("SyncPull", 0)>>), Go, UNCHANGED <<track, wire>>,
             pull' = [pc |-> "waiting", op |-> op, n |-> n, snap |-> {}]
      PROVE  ProviderInv'
  <2> DEFINE x == PEv("SyncPull", 0)
  <2>1. x \in PEvent /\ x.name = "SyncPull" /\ SendAll(<<x>>) BY <1>7, EventType DEF Syncs
  <2> HIDE DEF x
  <2>2. pull' \in Call /\ pull'.pc = "waiting" BY <1>7 DEF Call, CallStates
  <2>3. \A e \in PEvent : Fits(e, Now) => Fits(e, Now')
    BY <1>0, <1>1, <1>7, TransportFits
  <2>4. \A e \in PEvent : Fits(e, Now) => ~Clash(e, x)
    BY <1>0, <2>1, NowFields, ClashFree DEF Payments
  <2>5. Fits(x, Now') BY <2>1, <2>2, NowFields DEF Fits, Payments, Counts
  <2>6. Moves BY <1>7, CallsMove
  <2>7. flow' = "none" => flow = "none" BY <1>7 DEF Go
  <2>8. QueueInv' /\ StageInv' /\ pevents' \in Seq(PEvent)
    BY <1>0, <1>7, <2>1, <2>3, <2>4, <2>5, <2>7, SendOneKeeps
  <2>9. /\ pull'.snap = {} /\ pull'.op = op /\ pull'.n = n /\ wire' \in 0..FileSize
        /\ wire <= wire'
    BY <1>1, <1>7
  <2> QED BY <1>0, <1>3, <1>7, <2>2, <2>6, <2>8, <2>9, TransportKeeps
<1>8. ASSUME NEW c \in track, Break("Error"), wire' = wire + n, UNCHANGED <<track, pull, pevents>>
      PROVE  ProviderInv'
  <2>1. Moves BY <1>8, CallsMove
  <2> QED BY <1>4, <1>8, <2>1
<1>9. track = {} => ~\E c \in track : TRUE OBVIOUS
<1> QED BY <1>5, <1>6, <1>7, <1>8, <1>9 DEF Report

LEMMA TransportReports ==
    ASSUME ProviderInv, OnPullDataSent \/ OnComplete
    PROVE  ProviderInv'
<1>1. FileSize \in Nat /\ wire \in Nat /\ wire <= FileSize BY RoomIsInteger
<1>2. CASE OnPullDataSent
  <2>1. PICK n \in BlockSizes \cap 1..(FileSize - wire) : Report("block", n)
    BY <1>2 DEF OnPullDataSent
  <2>2. n \in Nat /\ n > 0 /\ wire + n <= FileSize BY <1>1, <2>1
  <2> QED BY <2>1, <2>2, ReportKeeps
<1>3. CASE OnComplete
  <2>1. wire = FileSize /\ Report("end", 0) /\ wire + 0 <= FileSize
    BY <1>1, <1>3 DEF OnComplete
  <2>2. 0 \in Nat OBVIOUS
  <2> QED BY <2>1, <2>2, ReportKeeps
<1> QED BY <1>2, <1>3

LEMMA FinishReportKeeps ==
    ASSUME ProviderInv, FinishReport
    PROVE  ProviderInv'
<1>1. PICK d \in pull.snap : Counted(FromDeal(d), pull.op, pull.n) BY DEF FinishReport
<1>2. /\ pull.pc = "answered" /\ wire' = wire + pull.n /\ pull' = NoCall
      /\ UNCHANGED <<pdeal, pstage, reval, saved>>
  BY DEF FinishReport
<1>3. pull \in Call /\ d \in ProviderDealState /\ pull.n \in Nat
  <2>1. pull \in Call BY DEF ProviderInv, ProviderTyped
  <2> QED BY <1>1, <2>1 DEF Call
<1>4. /\ pull.op \in {"block", "end"} /\ wire + pull.n <= FileSize /\ d.totalSent <= wire
      /\ pull.op = "end" => pull.n = 0 /\ wire = FileSize
  BY <1>1, <1>2 DEF ProviderInv, SentInv
<1>5. track # {} BY <1>2 DEF ProviderInv, Tracked, Readers
<1>6. FromDeal(d) \in ChannelData /\ FromDeal(d).totalSent <= wire BY <1>3, <1>4, DealData
<1>7. Accounts(FromDeal(d), pull.op, pull.n) BY <1>1, <1>2 DEF Accounts
<1> QED BY <1>3, <1>4, <1>5, <1>6, <1>7, AccountsKeeps
-----------------------------------------------------------------------------
(* Revalidate *)

\* What is queued while a voucher is looked at stays so
LEMMA RevalidationFits ==
    ASSUME ProviderInv, UNCHANGED <<pdeal, pull, wire>>, Best' \in Nat, Best <= Best',
           track = {} => track' = {}, reval.pc = "waiting" => reval'.pc = "waiting",
           reval'.pc # "answered"
    PROVE  \A e \in PEvent : Fits(e, Now) => Fits(e, Now')
<1>1. /\ wire \in Nat /\ Now.room \in Int /\ Now'.room \in Int /\ Now.room <= Now'.room
  BY RoomIsInteger, NowFields
<1> QED BY <1>1, NowFields, FitsStay

\* A step of Revalidate that keeps the entry in its place
LEMMA RevalidationKeeps ==
    ASSUME ProviderInv, UNCHANGED <<pdeal, pstage, pull, wire>>,
           QueueInv' /\ StageInv' /\ pevents' \in Seq(PEvent), Moves,
           saved' \subseteq Nat, IsFiniteSet(saved'), Best' \in Nat, Best <= Best',
           track' \subseteq ChannelData, \A c, d \in track' : c = d,
           \A c \in track' : c.totalSent <= wire, track = {} <=> track' = {},
           reval' \in Call, reval'.pc # "answered", reval'.snap = {},
           reval'.pc # "idle" => track # {}
    PROVE  ProviderInv'
<1>1. /\ NoticeInv' /\ flow' \in Flows /\ notices' \in Seq(PEventNames) BY FlowKeeps
<1>2. ProviderTyped' BY <1>1 DEF ProviderInv, ProviderTyped
<1>3. SentInv' BY DEF ProviderInv, SentInv, Tallied
<1>4. EndInv' BY DEF ProviderInv, EndInv
<1>5. CreditInv'
  <2>1. pdeal.fundsReceived \in Int /\ Best \in Nat /\ pdeal.fundsReceived <= Best
    BY RoomIsInteger DEF ProviderInv, CreditInv, Credited
  <2>2. pdeal'.fundsReceived <= Best' BY <2>1
  <2> QED BY <2>2 DEF CreditInv, Credited
<1>6. Tracked'
  <2>1. pull.pc # "idle" => track # {} BY DEF ProviderInv, Tracked, Readers
  <2> QED BY <2>1 DEF Tracked, Readers
<1> QED BY <1>1, <1>2, <1>3, <1>4, <1>5, <1>6 DEF ProviderInv

\* What every step of Revalidate finds
LEMMA RevalidationFacts ==
    ASSUME ProviderInv
    PROVE  /\ track \subseteq ChannelData /\ \A c, d \in track : c = d
           /\ \A c \in track : c.totalSent <= wire
           /\ saved \subseteq Nat /\ IsFiniteSet(saved)
           /\ flow = "finalizing" => wire = FileSize
           /\ reval \in Call /\ (reval.pc # "answered" => reval.snap = {})
           /\ reval.pc # "idle" => track # {}
           /\ Best \in Nat /\ Best <= Best
<1>1. Best \in Nat /\ Best <= Best BY RoomIsInteger
<1>2. reval.pc # "idle" => track # {} BY DEF ProviderInv, Tracked, Readers
<1> QED BY <1>1, <1>2
    DEF ProviderInv, ProviderTyped, SentInv, Tallied, NoticeInv, CreditInv

\* A step of Revalidate that queues nothing, or one event, and takes no money
LEMMA NothingCredited ==
    ASSUME ProviderInv, UNCHANGED <<pdeal, pstage, pull, wire, saved, track>>, Moves,
           reval' \in Call, reval'.pc # "answered", reval'.snap = {},
           reval.pc = "waiting" => reval'.pc = "waiting",
           reval'.pc # "idle" => track # {},
           \/ UNCHANGED pevents
           \/ SendAll(<<PEv("SaveVoucherFailed", 0)>>)
           \/ /\ SendAll(<<PEv("SyncReval", 0)>>)
              /\ reval.pc = "idle" /\ reval'.pc = "waiting"
    PROVE  ProviderInv'
<1>1. Best' = Best BY BestStays
<1>2. \A e \in PEvent : Fits(e, Now) => Fits(e, Now')
  BY <1>1, RevalidationFacts, RevalidationFits
<1>3. flow' = "none" => flow = "none" BY DEF Moves
<1>4. QueueInv' /\ StageInv' /\ pevents' \in Seq(PEvent)
  <2>1. CASE UNCHANGED pevents BY <1>2, <1>3, <2>1, SendNoneKeeps
  <2>2. CASE SendAll(<<PEv("SaveVoucherFailed", 0)>>)
    <3> DEFINE x == PEv("SaveVoucherFailed", 0)
    <3>1. x \in PEvent /\ x.name = "SaveVoucherFailed" BY EventNames, EventType
    <3>2. Fits(x, Now') BY <3>1 DEF Fits, Payments, Counts
    <3>3. \A e \in PEvent : ~Clash(e, x) BY <3>1 DEF Clash, Payments, Syncs
    <3>4. SendAll(<<x>>) BY <2>2
    <3> HIDE DEF x
    <3> QED BY <1>2, <1>3, <3>1, <3>2, <3>3, <3>4, SendOneKeeps
  <2>3. CASE /\ SendAll(<<PEv("SyncReval", 0)>>)
             /\ reval.pc = "idle" /\ reval'.pc = "waiting"
    <3> DEFINE x == PEv("SyncReval", 0)
    <3>1. x \in PEvent /\ x.name = "SyncReval" BY EventType DEF Syncs
    <3>2. Fits(x, Now') BY <2>3, <3>1, NowFields DEF Fits, Payments, Counts
    <3>3. \A e \in PEvent : Fits(e, Now) => ~Clash(e, x)
      BY <2>3, <3>1, NowFields, ClashFree DEF Payments
    <3>4. SendAll(<<x>>) BY <2>3
    <3> HIDE DEF x
    <3> QED BY <1>2, <1>3, <3>1, <3>2, <3>3, <3>4, SendOneKeeps
  <2> QED BY <2>1, <2>2, <2>3
<1>5. Best' \in Nat /\ Best <= Best' BY <1>1, RevalidationFacts
<1> QED BY <1>4, <1>5, RevalidationFacts, RevalidationKeeps

LEMMA RevalidateKeeps ==
    ASSUME ProviderInv, NEW amount \in Nat, Revalidate(amount)
    PROVE  ProviderInv'
<1>3. /\ UNCHANGED <<pdeal, pstage, pull, wire>> /\ reval.pc = "idle"
  BY DEF Revalidate
<1>4. CASE track = {} /\ Resume(<<>>) /\ UNCHANGED <<pevents, reval, track, saved>>
  <2>1. Moves BY <1>3, <1>4, RevalidationFacts, CallsMove
  <2> QED BY <1>3, <1>4, <2>1, RevalidationFacts, NothingCredited
<1>5. CASE track # {} /\ RevalidateFails /\ UNCHANGED reval
  <2>1. Moves /\ UNCHANGED <<track, saved>> /\ SendAll(<<PEv("SaveVoucherFailed", 0)>>)
    BY <1>5, CallsMove DEF RevalidateFails
  <2> QED BY <1>3, <1>5, <2>1, RevalidationFacts, NothingCredited
<1>6. CASE /\ track # {} /\ Alive
           /\ reval' = [pc |-> "waiting", op |-> "voucher", n |-> amount, snap |-> {}]
           /\ SendAll(<<PEv("SyncReval", 0)>>) /\ Go /\ UNCHANGED <<track, saved>>
  <2>1. Moves BY <1>6, CallsMove
  <2>3. /\ reval' \in Call /\ reval'.pc = "waiting" /\ reval'.snap = {}
    BY <1>6 DEF Call, CallStates
  <2> QED BY <1>3, <1>6, <2>1, <2>3, NothingCredited
<1>7. CASE track # {} /\ Break("Rejected") /\ UNCHANGED <<pevents, reval, track, saved>>
  <2>1. Moves BY <1>7, CallsMove
  <2> QED BY <1>3, <1>7, <2>1, RevalidationFacts, NothingCredited
<1> QED BY <1>4, <1>5, <1>6, <1>7 DEF Revalidate

\* What a stored voucher adds to what was received is covered by the best one
LEMMA CreditIsCovered ==
    ASSUME ProviderInv, NEW amount \in Nat, NEW d, d.fundsReceived = pdeal.fundsReceived,
           NEW owed \in Int, Acceptable(amount, owed), saved' = saved \cup {amount}
    PROVE  LET gained == IF Added(amount) = 0 THEN amount - d.fundsReceived ELSE Added(amount)
           IN  /\ gained \in Int /\ pdeal.fundsReceived + gained <= Best'
<1>1. /\ Best \in Nat /\ Best' \in Nat /\ Best <= Best' /\ amount <= Best'
      /\ pdeal.fundsReceived \in Int /\ pdeal.fundsReceived <= Best
  BY RoomIsInteger, BestGrows DEF ProviderInv, CreditInv, Credited
<1>2. CASE amount \in saved
  <2>1. Added(amount) = 0 BY <1>2 DEF Added
  <2> QED BY <1>1, <2>1
<1>3. CASE amount \notin saved
  <2>1. Added(amount) = amount - Best /\ amount > Best BY <1>3 DEF Added, Acceptable
  <2>2. Added(amount) # 0 BY <1>1, <2>1
  <2> QED BY <1>1, <2>1, <2>2
<1> QED BY <1>2, <1>3

\* A voucher that is stored is credited: the payment is queued, and no other is
LEMMA CreditKeeps ==
    ASSUME ProviderInv, UNCHANGED <<pdeal, pstage, pull, wire>>,
           reval.pc = "answered", reval' = NoCall,
           NEW amount \in Nat, saved' = saved \cup {amount}, Moves,
           NEW name \in Payments, NEW gained \in Int, SendAll(<<PEv(name, gained)>>),
           pdeal.fundsReceived + gained <= Best',
           track' = track \/ track' = {[c EXCEPT !.reload = TRUE] : c \in track}
    PROVE  ProviderInv'
<1>1. /\ Best' \in Nat /\ Best <= Best' /\ saved' \subseteq Nat /\ IsFiniteSet(saved')
      /\ pdeal.fundsReceived \in Int
  BY BestGrows, RoomIsInteger DEF ProviderInv
<1>2. reval' \in Call /\ reval'.pc = "idle" /\ reval'.snap = {} BY DEF NoCall, Call, CallStates
<1>3. track # {} BY RevalidationFacts
<1>4. /\ track' \subseteq ChannelData /\ \A c, d \in track' : c = d
      /\ \A c \in track' : c.totalSent <= wire /\ track' # {}
  <2>1. CASE track' = track BY <1>3, <2>1, RevalidationFacts
  <2>2. CASE track' = {[c EXCEPT !.reload = TRUE] : c \in track}
    <3>1. \A c \in ChannelData : /\ [c EXCEPT !.reload = TRUE] \in ChannelData
                                 /\ [c EXCEPT !.reload = TRUE].totalSent = c.totalSent
      BY DEF ChannelData
    <3>2. PICK c \in track : \A d \in track : d = c BY <1>3, RevalidationFacts
    <3>3. track' = {[c EXCEPT !.reload = TRUE]} BY <2>2, <3>2
    <3> QED BY <3>1, <3>2, <3>3, RevalidationFacts
  <2> QED BY <2>1, <2>2
<1>5. track = {} <=> track' = {} BY <1>3, <1>4
<1>6. track' # {} BY <1>3, <1>5
<1>7. \A e \in PEvent : Fits(e, Now) => Fits(e, Now') BY <1>1, <1>2, <1>3, RevalidationFits
<1> DEFINE x == PEv(name, gained)
<1>8. x \in PEvent /\ x.name \in Payments /\ x.n = gained /\ SendAll(<<x>>)
  BY EventNames, EventType DEF Payments
<1> HIDE DEF x
<1>9. x.name \notin Counts \cup Syncs \cup {"Complete", "CleanupComplete"}
  BY <1>8 DEF Counts, Syncs, Payments
<1>10. Fits(x, Now')
  <2>1. pdeal.status # "New" BY <1>3 DEF ProviderInv, EndInv
  <2>2. gained <= Best' - pdeal.fundsReceived BY <1>1
  <2> QED BY <1>2, <1>8, <1>9, <2>1, <2>2, NowFields DEF Fits, Syncs
<1>11. \A e \in PEvent : Fits(e, Now) => ~Clash(e, x)
  BY <1>8, <1>9, NowFields, ClashFree DEF Syncs
<1>12. flow' = "none" => flow = "none" BY DEF Moves
<1>13. QueueInv' /\ StageInv' /\ pevents' \in Seq(PEvent)
  BY <1>3, <1>7, <1>8, <1>10, <1>11, <1>12, SendOneKeeps
<1>15. reval'.pc # "answered" /\ (reval'.pc # "idle" => track # {}) BY <1>2
<1>16. \A c \in track' : c.totalSent <= wire BY <1>4
<1> QED BY <1>1, <1>2, <1>4, <1>5, <1>13, <1>15, <1>16, RevalidationKeeps

LEMMA FinishRevalidateKeeps ==
    ASSUME ProviderInv, FinishRevalidate
    PROVE  ProviderInv'
<1>0. /\ reval.pc = "answered" /\ reval' = NoCall /\ UNCHANGED <<pdeal, pstage, pull, wire>>
  BY DEF FinishRevalidate
<1>1. PICK d \in reval.snap : ProcessPayment(d, reval.n) BY DEF FinishRevalidate
<1>2. /\ reval.n \in Nat /\ d \in ProviderDealState /\ d.fundsReceived = pdeal.fundsReceived
  BY <1>1, RevalidationFacts DEF Call, ProviderInv, CreditInv
<1> DEFINE amount == reval.n
           owed == d.totalSent * PricePerByte - d.fundsReceived
           gained == IF Added(amount) = 0 THEN amount - d.fundsReceived ELSE Added(amount)
<1>3. CASE RevalidateFails
  <2>1. Moves /\ UNCHANGED <<track, saved>> /\ SendAll(<<PEv("SaveVoucherFailed", 0)>>)
    BY <1>3, CallsMove DEF RevalidateFails
  <2>2. reval' \in Call /\ reval'.pc = "idle" /\ reval'.snap = {}
    BY <1>0 DEF NoCall, Call, CallStates
    <2> QED BY <1>0, <2>1, <2>2, NothingCredited
<1>4. CASE Acceptable(amount, owed) /\ saved' = saved \cup {amount}
  <2>1. owed \in Int
    BY <1>2, ProviderDealAssumption DEF ProviderDealState
  <2>2. gained \in Int /\ pdeal.fundsReceived + gained <= Best'
    <3> HIDE DEF owed
    <3> QED BY <1>2, <1>4, <2>1, CreditIsCovered
  <2>3. ASSUME SendAll(<<PEv("PartialPaymentReceived", gained)>>),
               UNCHANGED <<track, flow, notices>>
        PROVE  ProviderInv'
    <3>1. Moves BY <2>3 DEF Moves
    <3>2. "PartialPaymentReceived" \in Payments BY DEF Payments
    <3> HIDE DEF gained, owed
    <3> QED BY <1>0, <1>2, <1>4, <2>2, <2>3, <3>1, <3>2, CreditKeeps
  <2>4. ASSUME SendAll(<<PEv("PaymentReceived", gained)>>), NEW said, Resume(said),
               track' = {[c EXCEPT !.reload = TRUE] : c \in track}
        PROVE  ProviderInv'
    <3>1. Moves BY <1>0, <2>4, RevalidationFacts, CallsMove
    <3>2. "PaymentReceived" \in Payments BY DEF Payments
    <3> HIDE DEF gained, owed
    <3> QED BY <1>0, <1>2, <1>4, <2>2, <2>4, <3>1, <3>2, CreditKeeps
  <2>5. \/ RevalidateFails
        \/ /\ gained < owed /\ SendAll(<<PEv("PartialPaymentReceived", gained)>>)
           /\ UNCHANGED <<track, flow, notices>>
        \/ /\ SendAll(<<PEv("PaymentReceived", gained)>>)
           /\ track' = {[c EXCEPT !.reload = TRUE] : c \in track}
           /\ \E said : Resume(said)
    BY <1>1, <1>4 DEF ProcessPayment
  <2> HIDE DEF gained, owed
  <2> QED BY <1>3, <2>3, <2>4, <2>5
<1> QED BY <1>1, <1>3, <1>4 DEF ProcessPayment
-----------------------------------------------------------------------------
(* The invariant, and what follows from it *)

LEMMA BeginsRight ==
    ASSUME ProviderInit
    PROVE  ProviderInv
<1>1. /\ pdeal = [status |-> "New", totalSent |-> 0, fundsReceived |-> 0, currentInterval |-> 0]
      /\ pevents = <<>> /\ pstage = "none" /\ track = {} /\ pull = NoCall /\ reval = NoCall
      /\ saved = {} /\ flow = "none" /\ wire = 0 /\ notices = <<>>
  BY DEF ProviderInit
<1>2. pull \in Call /\ reval \in Call /\ pull.pc = "idle" /\ reval.pc = "idle"
      /\ pull.snap = {} /\ reval.snap = {}
  BY <1>1 DEF NoCall, Call, CallStates
<1>3. pdeal \in ProviderDealState BY <1>1, StatusNames DEF ProviderDealState
<1>4. FileSize \in Nat BY ProviderDealAssumption
<1>5. IsFiniteSet(saved) BY <1>1, FS_EmptySet
<1>6. ProviderTyped BY <1>1, <1>2, <1>3, <1>4, <1>5 DEF ProviderTyped, PStages, Flows
<1>7. StageInv BY <1>1, StatusNames DEF StageInv
<1>8. QueueInv BY <1>1, NothingQueued DEF QueueInv
<1>9. SentInv BY <1>1, <1>2 DEF SentInv, Tallied
<1>10. NoticeInv
  <2>1. \A i \in DOMAIN notices : FALSE BY <1>1
  <2> QED BY <1>1, <2>1 DEF NoticeInv
<1>11. EndInv BY <1>1 DEF EndInv
<1>12. CreditInv
  <2>1. Best \in Nat BY <1>6, BestFacts
  <2>2. pdeal.fundsReceived <= Best BY <1>1, <2>1
  <2> QED BY <1>2, <2>2 DEF CreditInv, Credited
<1>13. Tracked BY <1>2 DEF Tracked, Readers
<1> QED BY <1>6, <1>7, <1>8, <1>9, <1>10, <1>11, <1>12, <1>13 DEF ProviderInv

LEMMA StutterKeeps ==
    ASSUME ProviderInv, UNCHANGED providerVars
    PROVE  ProviderInv'
<1>0. UNCHANGED <<pdeal, pevents, pstage, track, pull, reval, saved, flow, wire, notices, answers>>
  BY DEF providerVars
<1>1. Best' = Best /\ Now' = Now BY <1>0, BestStays DEF Now
<1>2. ProviderTyped' BY <1>0 DEF ProviderInv, ProviderTyped
<1>3. StageInv' BY <1>0 DEF ProviderInv, StageInv
<1>4. SentInv' BY <1>0 DEF ProviderInv, SentInv, Tallied
<1>5. NoticeInv' BY <1>0 DEF ProviderInv, NoticeInv
<1>6. EndInv' BY <1>0 DEF ProviderInv, EndInv
<1>7. CreditInv' BY <1>0, <1>1 DEF ProviderInv, CreditInv, Credited
<1>8. Tracked' BY <1>0 DEF ProviderInv, Tracked, Readers
<1> QED BY <1>0, <1>1, <1>2, <1>3, <1>4, <1>5, <1>6, <1>7, <1>8 DEF ProviderInv, QueueInv

\* What the provider does by itself
LEMMA ProviderStepKeeps ==
    ASSUME ProviderInv, ProviderNext
    PROVE  ProviderInv'
<1>1. CASE ProcessEvent BY <1>1, ProcessEventKeeps
<1>2. CASE RunHandler BY <1>2, RunHandlerKeeps
<1>3. CASE DeliverNotice BY <1>3, DeliverKeeps
<1>4. CASE OnPullDataSent \/ OnComplete BY <1>4, TransportReports
<1>5. CASE FinishReport BY <1>5, FinishReportKeeps
<1>6. CASE FinishRevalidate BY <1>6, FinishRevalidateKeeps
<1> QED BY <1>1, <1>2, <1>3, <1>4, <1>5, <1>6 DEF ProviderNext
=============================================================================
