----------------------------- MODULE FundsProofs -----------------------------
(***************************************************************************)
(* The funds' invariants, for any finite set of requests, whatever they    *)
(* ask for.  The queue's proofs follow the slices and their arrays; those  *)
(* of the money follow a message from the push to the store.               *)
(***************************************************************************)
EXTENDS PaychFunds, FoldLemmas, SequenceTheorems

\* What stands in the queue are requests, each once, that were not answered;
\* whoever waits stands in it
QueueInv ==
    /\ \A i \in 1..queue.len :
          /\ arrays[queue.array][i] \in Requests
          /\ call[arrays[queue.array][i]] \in {"waiting", "cancelling", "cancelled"}
    /\ \A i, j \in 1..queue.len : arrays[queue.array][i] = arrays[queue.array][j] => i = j
    /\ \A r \in Requests : call[r] = "waiting" => \E i \in 1..queue.len : r = arrays[queue.array][i]

\* A message is for a channel that an earlier message, or itself, creates
ToInv == \A m \in DOMAIN chain : chain[m].to \in 1..m

\* A channel has an address unless its creation is pending, and the messages
\* that add funds are for channels that have one
ChannelInv ==
    /\ \A c \in DOMAIN channels : channels[c].address <=> channels[c].pendingMsg # c
    /\ \A m \in DOMAIN messages :
          chain[m].to # m => chain[m].to \in DOMAIN channels /\ channels[chain[m].to].address

\* A message that is not executed, or not booked, is the pending one of its channel
PendingInv ==
    /\ \A c, d \in OutboundActiveByFromTo : c = d
    /\ \A m \in DOMAIN messages :
          chain[m].state = "pending" /\ chain[m].to \in DOMAIN channels
              => channels[chain[m].to].pendingMsg = m
    /\ \A m \in DOMAIN waits : waits[m] = "waiting" =>
          /\ chain[m].to \in DOMAIN channels
          /\ channels[chain[m].to].pendingMsg = m
          /\ channels[chain[m].to].pendingAmount = chain[m].amt

\* The message was executed and booked
IsBooked(m) ==
    /\ m \in DOMAIN messages /\ chain[m].state = "ok"
    /\ chain[m].to \in DOMAIN channels
    /\ channels[chain[m].to].address /\ channels[chain[m].to].pendingMsg # m

BookedInv ==
    /\ \A m \in DOMAIN waits : waits[m] = "ok" => IsBooked(m)
    /\ \A m \in DOMAIN messages : messages[m].received /\ ~messages[m].err => IsBooked(m)

\* Who was answered has a message; who is told that it is ready, a booked one
AnsweredInv ==
    /\ \A r \in Requests : call[r] \in {"reading", "ready"} => IsBooked(mcid[r])
    /\ \A r \in Requests : call[r] \in {"answered", "checking", "listening"}
                               => mcid[r] \in DOMAIN messages

\* A message is worth what those asked for who wait for it in the queue, and
\* then what those did who were answered with it
QueueWorth == step.at = "merged" => SumOf(Slots(queue)) <= step.amt
MessageWorth ==
    \A m \in DOMAIN messages :
        SumFunctionOnSet(Amount, {r \in Requests : mcid[r] = m}) <= chain[m].amt

ChainMsg == [to : Nat, amt : Nat, state : {"pending", "ok", "failed"}]

\* TypeOK in two parts
StoreTyped ==
    /\ chain \in Seq(ChainMsg)
    /\ channels \in [DOMAIN channels -> ChannelInfo] /\ DOMAIN channels \subseteq DOMAIN chain
    /\ messages \in [DOMAIN messages -> MsgInfo] /\ DOMAIN messages \subseteq DOMAIN chain
    /\ waits \in [DOMAIN waits -> {"waiting", "ok", "err"}] /\ DOMAIN waits \subseteq DOMAIN messages

RequestsTyped ==
    /\ call \in [Requests -> CallStates]
    /\ mcid \in [Requests -> 0..Len(chain)]
    /\ arrays \in Seq(Seq(Requests \cup {Null}))
    /\ queue \in Slice /\ Fits(queue)
    /\ merge \in [Requests -> Slice] /\ \A r \in Requests : Fits(merge[r])
    /\ spawned \in Nat
    /\ step \in [at : {"idle", "filtered", "merged"}, amt : Nat]
    /\ crashed \in BOOLEAN

\* The messages that are in the books of a channel
Booked(c) == {m \in Executed(c) : m \in DOMAIN messages /\ m # channels[c].pendingMsg}
ValueIn(ch, ms) == SumFunction([m \in ms |-> ch[m].amt])

StoreInv == StoreTyped /\ ToInv /\ ChannelInv /\ PendingInv /\ BookedInv /\ BooksMatchChain
CallInv == RequestsTyped /\ QueueInv /\ AnsweredInv /\ QueueWorth /\ MessageWorth
FundsInv == StoreInv /\ CallInv

\* What a step of the store keeps for those who hold a message
StoreGrows ==
    /\ Len(chain') >= Len(chain)
    /\ \A m \in DOMAIN chain : chain'[m].amt = chain[m].amt
    /\ DOMAIN messages \subseteq DOMAIN messages'
    /\ \A m \in DOMAIN messages : IsBooked(m) => IsBooked(m)'
-----------------------------------------------------------------------------
(* Slices *)

\* The prefix of slots of length n, filtered
IsFiltered(kept, slots, n, R) ==
    /\ kept \in Seq(R) /\ Len(kept) <= n
    /\ \A i \in 1..Len(kept) : \E j \in 1..n : kept[i] = slots[j] /\ IsActive(slots[j])
    /\ \A j \in 1..n : IsActive(slots[j]) => \E i \in 1..Len(kept) : kept[i] = slots[j]
    /\ (\A i, j \in 1..n : slots[i] = slots[j] => i = j)
           => \A i, j \in 1..Len(kept) : kept[i] = kept[j] => i = j

LEMMA FilterOne ==
    ASSUME NEW R, NEW slots \in Seq(R), NEW n \in 1..Len(slots), NEW kept,
           IsFiltered(kept, slots, n - 1, R)
    PROVE  IsFiltered(IF IsActive(slots[n]) THEN Append(kept, slots[n]) ELSE kept, slots, n, R)
<1>1. slots[n] \in R /\ n \in Nat /\ Len(kept) \in Nat /\ kept \in Seq(R) BY DEF IsFiltered
<1>2. CASE ~IsActive(slots[n])
  <2>1. \A j \in 1..n : IsActive(slots[j]) => j \in 1..(n - 1) BY <1>1, <1>2
  <2>2. \A j \in 1..(n - 1) : j \in 1..n BY <1>1
  <2>3. Len(kept) <= n BY <1>1 DEF IsFiltered
  <2> QED BY <1>1, <1>2, <2>1, <2>2, <2>3 DEF IsFiltered
<1>3. CASE IsActive(slots[n])
  <2> DEFINE more == Append(kept, slots[n])
             l == Len(kept)
  <2>1. /\ more \in Seq(R) /\ Len(more) = l + 1 /\ more[l + 1] = slots[n]
        /\ \A i \in 1..l : more[i] = kept[i]
    BY <1>1
  <2> HIDE DEF more
  <2>2. \A i \in 1..(l + 1) : i \in 1..l \/ i = l + 1 BY <1>1
  <2>3. \A j \in 1..n : j \in 1..(n - 1) \/ j = n BY <1>1
  <2>4. \A j \in 1..(n - 1) : j \in 1..n /\ j # n BY <1>1
  <2>5. ASSUME NEW i \in 1..(l + 1)
        PROVE  \E j \in 1..n : more[i] = slots[j] /\ IsActive(slots[j])
    <3>1. CASE i = l + 1 BY <1>3, <2>1, <3>1
    <3>2. CASE i \in 1..l
      <4>1. PICK j \in 1..(n - 1) : kept[i] = slots[j] /\ IsActive(slots[j])
        BY <3>2 DEF IsFiltered
      <4> QED BY <2>1, <2>4, <3>2, <4>1
    <3> QED BY <2>2, <3>1, <3>2
  <2>6. ASSUME NEW j \in 1..n, IsActive(slots[j])
        PROVE  \E i \in 1..(l + 1) : more[i] = slots[j]
    <3>1. l + 1 \in 1..(l + 1) /\ \A i \in 1..l : i \in 1..(l + 1) BY <1>1
    <3> QED BY <2>1, <2>3, <2>6, <3>1 DEF IsFiltered
  <2>7. ASSUME \A i, j \in 1..n : slots[i] = slots[j] => i = j,
               NEW i \in 1..(l + 1), NEW j \in 1..(l + 1), more[i] = more[j]
        PROVE  i = j
    <3>1. \A k \in 1..l : kept[k] # slots[n]
      <4>1. \A k \in 1..l : \E p \in 1..(n - 1) : kept[k] = slots[p] BY DEF IsFiltered
      <4> QED BY <2>4, <2>7, <4>1
    <3>2. \A p, q \in 1..l : kept[p] = kept[q] => p = q BY <2>4, <2>7 DEF IsFiltered
    <3> QED BY <2>1, <2>2, <2>7, <3>1, <3>2
  <2>8. l + 1 <= n BY <1>1 DEF IsFiltered
  <2> QED BY <1>3, <2>1, <2>5, <2>6, <2>7, <2>8 DEF IsFiltered, more
<1> QED BY <1>2, <1>3

\* What FilterQueue keeps of a sequence
LEMMA KeptIsFiltered ==
    ASSUME NEW R, NEW slots \in Seq(R)
    PROVE  IsFiltered(Kept(slots), slots, Len(slots), R)
<1> DEFINE D == DOMAIN slots
           choice == [s \in SUBSET D |-> IF s = {} THEN 0 ELSE CHOOSE x \in s : \A y \in s : x >= y]
           fstep == [p \in D \X Seq(R) |->
                       IF IsActive(slots[p[1]]) THEN Append(p[2], slots[p[1]]) ELSE p[2]]
           F == CHOOSE g : g = [s \in SUBSET D |->
                    IF s = {} THEN <<>>
                    ELSE IF IsActive(slots[Max(s)]) THEN Append(g[s \ {Max(s)}], slots[Max(s)])
                    ELSE g[s \ {Max(s)}]]
<1>1. Kept(slots) = F[D] BY DEF Kept, FoldLeft, MapThenFoldSet
<1>2. D = 1..Len(slots) /\ IsFiniteSet(D) /\ Len(slots) \in Nat BY FS_Interval
<1>3. \A s \in SUBSET D : s # {} => choice[s] \in s /\ choice[s] = Max(s)
  <2>1. SUFFICES ASSUME NEW s \in SUBSET D, s # {}
                 PROVE  choice[s] \in s /\ choice[s] = Max(s)
    OBVIOUS
  <2>2. choice[s] = Max(s) BY <2>1 DEF Max
  <2>3. IsFiniteSet(s) /\ \A x \in s : x \in Int BY <1>2, FS_Subset
  <2> HIDE DEF choice
  <2> QED BY <2>1, <2>2, <2>3, MaxIsMax
<1>4. \A x \in D, v \in Seq(R) :
         fstep[<<x, v>>] = IF IsActive(slots[x]) THEN Append(v, slots[x]) ELSE v
  OBVIOUS
<1>5. \A x \in D, v \in Seq(R) : fstep[<<x, v>>] \in Seq(R)
  <2> HIDE DEF fstep
  <2>1. \A x \in D : slots[x] \in R BY <1>2
  <2>2. \A x \in D, v \in Seq(R) : Append(v, slots[x]) \in Seq(R) BY <2>1
  <2> QED BY <1>4, <2>2
<1>6. PICK g \in [SUBSET D -> Seq(R)] : Folds(g, <<>>, choice, fstep, D)
  <2> HIDE DEF D, choice, fstep
  <2>1. <<>> \in Seq(R) OBVIOUS
  <2> QED BY <1>2, <1>3, <1>5, <2>1, FoldExists
<1>7. g = [s \in SUBSET D |->
              IF s = {} THEN <<>>
              ELSE IF IsActive(slots[Max(s)]) THEN Append(g[s \ {Max(s)}], slots[Max(s)])
              ELSE g[s \ {Max(s)}]]
  <2>1. SUFFICES ASSUME NEW s \in SUBSET D, s # {}
                 PROVE  g[s] = IF IsActive(slots[Max(s)]) THEN Append(g[s \ {Max(s)}], slots[Max(s)])
                               ELSE g[s \ {Max(s)}]
    BY <1>6 DEF Folds
  <2>2. /\ Max(s) \in s /\ choice[s] = Max(s) /\ Max(s) \in D
        /\ s \ {Max(s)} \in SUBSET D
    BY <1>3, <2>1
  <2>3. g[s] = fstep[<<Max(s), g[s \ {Max(s)}]>>]
    <3> HIDE DEF choice, fstep
    <3> QED BY <1>6, <2>1, <2>2 DEF Folds
  <2>4. g[s \ {Max(s)}] \in Seq(R) BY <1>6, <2>2
  <2> HIDE DEF fstep
  <2> QED BY <1>4, <2>2, <2>3, <2>4
<1>8. F = [s \in SUBSET D |->
              IF s = {} THEN <<>>
              ELSE IF IsActive(slots[Max(s)]) THEN Append(F[s \ {Max(s)}], slots[Max(s)])
              ELSE F[s \ {Max(s)}]]
  BY <1>7
<1>9. F[{}] = <<>> BY <1>8
<1>10. ASSUME NEW n \in 1..Len(slots)
       PROVE  F[1..n] = IF IsActive(slots[n]) THEN Append(F[1..(n - 1)], slots[n])
                        ELSE F[1..(n - 1)]
  <2>1. n \in Nat /\ n > 0 /\ 1..n \in SUBSET D /\ 1..n # {} BY <1>2
  <2>2. Max(1..n) = n /\ (1..n) \ {n} = 1..(n - 1) BY <2>1, MaxOfPrefix
  <2>3. F[1..n] = IF IsActive(slots[Max(1..n)]) THEN Append(F[(1..n) \ {Max(1..n)}], slots[Max(1..n)])
                  ELSE F[(1..n) \ {Max(1..n)}]
    BY <1>8, <2>1
  <2> HIDE DEF F
  <2> QED BY <2>2, <2>3
<1> DEFINE T == {n \in 0..Len(slots) : ~IsFiltered(F[1..n], slots, n, R)}
<1> HIDE DEF F, D, choice, fstep
<1>11. CASE T = {}
  <2>1. Len(slots) \in 0..Len(slots) /\ Len(slots) \notin T BY <1>2, <1>11
  <2> QED BY <1>1, <1>2, <2>1
<1>12. CASE T # {}
  <2>1. PICK n \in T : \A m \in T : n <= m
    <3>1. T \subseteq Nat BY <1>2
    <3> HIDE DEF T
    <3> QED BY <1>12, <3>1, LeastNatural
  <2>2. n \in Nat /\ n <= Len(slots) BY <1>2
  <2>3. CASE n = 0
    <3>1. 1..n = {} /\ F[1..n] = <<>> BY <1>9, <2>3
    <3>2. IsFiltered(<<>>, slots, 0, R) BY DEF IsFiltered
    <3> QED BY <2>3, <3>1, <3>2
  <2>4. CASE n > 0
    <3>1. n \in 1..Len(slots) /\ n - 1 \in 0..Len(slots) /\ ~(n <= n - 1) BY <1>2, <2>2, <2>4
    <3>2. n - 1 \notin T BY <2>1, <3>1
    <3>3. IsFiltered(F[1..(n - 1)], slots, n - 1, R) BY <3>1, <3>2
    <3>4. IsFiltered(F[1..n], slots, n, R) BY <1>10, <3>1, <3>3, FilterOne
    <3> QED BY <3>4
  <2> QED BY <2>2, <2>3, <2>4
<1> QED BY <1>11, <1>12
LEMMA SlotsOf ==
    ASSUME TypeOK, NEW slice \in Slice, Fits(slice)
    PROVE  /\ Slots(slice) \in Seq(Requests \cup {Null})
           /\ Len(Slots(slice)) = slice.len
           /\ \A i \in 1..slice.len : Slots(slice)[i] = arrays[slice.array][i]
           /\ slice.array # 0 => /\ slice.array \in 1..Len(arrays)
                                 /\ arrays[slice.array] \in Seq(Requests \cup {Null})
                                 /\ slice.len \in 0..Len(arrays[slice.array])
<1>1. /\ arrays \in Seq(Seq(Requests \cup {Null})) /\ slice.len \in Nat
      /\ slice.array \in 0..Len(arrays) /\ Len(arrays) \in Nat
  BY DEF TypeOK, Slice
<1>2. CASE slice.array = 0
  <2>1. slice.len = 0 BY <1>1, <1>2 DEF Fits
  <2>2. Slots(slice) = <<>> BY <1>2 DEF Slots
  <2> QED BY <1>2, <2>1, <2>2
<1>3. CASE slice.array # 0
  <2> DEFINE s == arrays[slice.array]
  <2>1. slice.array \in 1..Len(arrays) BY <1>1, <1>3
  <2>2. s \in Seq(Requests \cup {Null}) BY <1>1, <2>1
  <2>3. slice.len \in 0..Len(s) BY <1>1, <1>3, <2>2 DEF Fits
  <2>4. Slots(slice) = SubSeq(s, 1, slice.len) BY <1>3 DEF Slots
  <2> HIDE DEF s
  <2>5. \A i \in 1..slice.len : s[i] \in Requests \cup {Null} BY <2>2, <2>3
  <2>6. Slots(slice) \in Seq(Requests \cup {Null}) /\ Len(Slots(slice)) = slice.len
    BY <1>1, <2>4, <2>5, SubSeqProperties
  <2>7. \A i \in 1..slice.len : Slots(slice)[i] = s[i]
    BY <1>1, <2>2, <2>3, <2>4, SubSeqProperties
  <2> QED BY <2>1, <2>2, <2>3, <2>6, <2>7 DEF s
<1> QED BY <1>2, <1>3

LEMMA QueueSlots ==
    ASSUME TypeOK, QueueInv
    PROVE  /\ Slots(queue) \in Seq(Requests) /\ Len(Slots(queue)) = queue.len
           /\ \A i \in 1..queue.len : Slots(queue)[i] = arrays[queue.array][i]
           /\ queue.array \in Nat /\ queue.len \in Nat
           /\ queue.array # 0 => /\ queue.array \in 1..Len(arrays)
                                 /\ arrays[queue.array] \in Seq(Requests \cup {Null})
                                 /\ queue.len \in 0..Len(arrays[queue.array])
<1>1. queue \in Slice /\ Fits(queue) /\ queue.len \in Nat /\ queue.array \in Nat
  BY DEF TypeOK, Slice
<1>2. \A i \in 1..queue.len : Slots(queue)[i] \in Requests BY <1>1, SlotsOf DEF QueueInv
<1>3. Slots(queue) \in Seq(Requests)
  <2>1. Slots(queue) \in Seq(Requests \cup {Null}) /\ Len(Slots(queue)) = queue.len
    BY <1>1, SlotsOf
  <2> HIDE DEF Slots
  <2> QED BY <1>2, <2>1
<1> QED BY <1>1, <1>3, SlotsOf

\* No array is lost, and none changes its length
ArraysGrow ==
    /\ arrays' \in Seq(Seq(Requests \cup {Null})) /\ Len(arrays') >= Len(arrays)
    /\ \A a \in 1..Len(arrays) : Len(arrays'[a]) = Len(arrays[a])

LEMMA SliceGrows ==
    ASSUME TypeOK, ArraysGrow, NEW slice \in Slice, Fits(slice)
    PROVE  /\ slice \in [array : 0..Len(arrays'), len : Nat]
           /\ slice.len <= IF slice.array = 0 THEN 0 ELSE Len(arrays'[slice.array])
<1>1. Len(arrays) \in Nat /\ Len(arrays') \in Nat BY DEF TypeOK, ArraysGrow
<1>2. slice.array \in 0..Len(arrays) /\ slice.len \in Nat /\ slice = [array |-> slice.array, len |-> slice.len]
  BY DEF Slice
<1>3. slice.array \in 0..Len(arrays') BY <1>1, <1>2 DEF ArraysGrow
<1>4. slice \in [array : 0..Len(arrays'), len : Nat] BY <1>2, <1>3
<1> QED BY <1>2, <1>4 DEF ArraysGrow, Fits

\* The requests of the queue in terms of its slots
LEMMA FilterQueueKeeps ==
    ASSUME TypeOK, QueueInv, FilterQueue, call' = call
    PROVE  ArraysGrow /\ queue' \in Slice' /\ Fits(queue)' /\ QueueInv'
<1> DEFINE slots == Slots(queue)
           kept == Kept(slots)
           n == Len(kept)
           a == queue.array
<1>1. /\ slots \in Seq(Requests) /\ Len(slots) = queue.len
      /\ \A i \in 1..queue.len : slots[i] = arrays[a][i]
      /\ queue.len \in Nat /\ a \in Nat
  BY QueueSlots
<1>2. arrays \in Seq(Seq(Requests \cup {Null})) BY DEF TypeOK
<1>3. CASE slots = <<>>
  <2>1. arrays' = arrays /\ queue' = queue BY <1>3 DEF FilterQueue
  <2>2. ArraysGrow BY <1>2, <2>1 DEF ArraysGrow
  <2>3. Slice' = Slice /\ Fits(queue)' = Fits(queue) BY <2>1 DEF Slice, Fits
  <2>4. QueueInv' BY <2>1 DEF QueueInv
  <2> QED BY <2>1, <2>2, <2>3, <2>4 DEF TypeOK
<1>4. CASE slots # <<>>
  <2>1. /\ a # 0 /\ a \in 1..Len(arrays) /\ arrays[a] \in Seq(Requests \cup {Null})
        /\ queue.len \in 0..Len(arrays[a]) /\ queue.len > 0
    <3>1. a # 0 BY <1>4 DEF Slots
    <3>2. queue.len > 0 BY <1>1, <1>4
    <3> QED BY <3>1, <3>2, QueueSlots
  <2>2. IsFiltered(kept, slots, Len(slots), Requests) BY <1>1, KeptIsFiltered
  <2>3. kept \in Seq(Requests) /\ n \in 0..queue.len BY <1>1, <2>2 DEF IsFiltered
  <2> DEFINE Slot(i, old) == IF i <= n THEN kept[i]
                             ELSE IF i = n + 1 /\ i <= queue.len THEN Null ELSE old
             moved == [i \in DOMAIN arrays[a] |-> Slot(i, arrays[a][i])]
  <2>4. arrays' = [arrays EXCEPT ![a] = moved] /\ queue' = [queue EXCEPT !.len = n]
    BY <1>4 DEF FilterQueue
  <2>5. /\ moved \in Seq(Requests \cup {Null}) /\ Len(moved) = Len(arrays[a])
        /\ \A i \in 1..n : moved[i] = kept[i]
    <3>1. DOMAIN arrays[a] = 1..Len(arrays[a]) /\ Len(arrays[a]) \in Nat BY <2>1
    <3>2. \A i \in 1..Len(arrays[a]) : Slot(i, arrays[a][i]) \in Requests \cup {Null}
      BY <2>1, <2>3
    <3>3. \A i \in 1..n : i \in 1..Len(arrays[a]) /\ i <= n BY <2>1, <2>3
    <3> HIDE DEF kept, slots
    <3> QED BY <3>1, <3>2, <3>3
  <2> HIDE DEF moved, kept, slots
  <2>6. ArraysGrow BY <1>2, <2>1, <2>4, <2>5 DEF ArraysGrow
  <2>7. queue'.array = a /\ queue'.len = n /\ queue' = [array |-> a, len |-> n] /\ arrays'[a] = moved
    <3>1. queue \in [array : 0..Len(arrays), len : Nat] BY DEF TypeOK, Slice
    <3>2. [queue EXCEPT !.len = n] = [array |-> a, len |-> n] BY <3>1
    <3>3. [arrays EXCEPT ![a] = moved][a] = moved BY <1>2, <2>1
    <3> QED BY <2>4, <3>2, <3>3
  <2>8. queue' \in Slice' /\ Fits(queue)'
    <3>1. a \in 0..Len(arrays') /\ n \in Nat BY <1>2, <2>1, <2>3, <2>4
    <3>2. n <= Len(arrays'[a]) BY <2>1, <2>3, <2>5, <2>7
    <3> QED BY <2>1, <2>7, <3>1, <3>2 DEF Slice, Fits
  <2>9. QueueInv'
    <3>1. \A i \in 1..n : arrays'[a][i] = kept[i] BY <2>5, <2>7
    <3>2. ASSUME NEW i \in 1..n
          PROVE  kept[i] \in Requests /\ call[kept[i]] \in {"waiting", "cancelling", "cancelled"}
      <4>1. PICK j \in 1..queue.len : kept[i] = slots[j] BY <1>1, <2>2 DEF IsFiltered
      <4> QED BY <1>1, <4>1 DEF QueueInv
    <3>3. \A i, j \in 1..n : kept[i] = kept[j] => i = j
      <4>1. \A i, j \in 1..Len(slots) : slots[i] = slots[j] => i = j BY <1>1 DEF QueueInv
      <4> QED BY <2>2, <4>1 DEF IsFiltered
    <3>4. ASSUME NEW r \in Requests, call[r] = "waiting"
          PROVE  \E i \in 1..n : r = kept[i]
      <4>1. PICK j \in 1..queue.len : r = slots[j] BY <1>1, <3>4 DEF QueueInv
      <4>2. IsActive(slots[j]) BY <3>4, <4>1 DEF IsActive
      <4> QED BY <1>1, <2>2, <4>1, <4>2 DEF IsFiltered
    <3> QED BY <2>7, <3>1, <3>2, <3>3, <3>4 DEF QueueInv
  <2> QED BY <2>6, <2>8, <2>9
<1> QED BY <1>3, <1>4

LEMMA AppendKeeps ==
    ASSUME TypeOK, QueueInv, NEW r \in Requests, call[r] = "new",
           call' = [call EXCEPT ![r] = "waiting"], AppendSlice(queue, r)
    PROVE  ArraysGrow /\ queue' \in Slice' /\ Fits(queue)' /\ QueueInv'
<1> DEFINE slots == Slots(queue)
           a == queue.array
           n == queue.len
           grown == slots \o <<r>> \o [i \in 1..(n - 1) |-> Null]
           room == a # 0 /\ n < Len(arrays[a])
<1>1. /\ slots \in Seq(Requests) /\ Len(slots) = n
      /\ \A i \in 1..n : slots[i] = arrays[a][i]
      /\ n \in Nat /\ a \in Nat
      /\ a # 0 => /\ a \in 1..Len(arrays) /\ arrays[a] \in Seq(Requests \cup {Null})
                  /\ n \in 0..Len(arrays[a])
  BY QueueSlots
<1>2. /\ arrays \in Seq(Seq(Requests \cup {Null})) /\ Len(arrays) \in Nat
      /\ queue \in [array : 0..Len(arrays), len : Nat]
  BY DEF TypeOK, Slice
<1>3. [queue EXCEPT !.len = n + 1] = [array |-> a, len |-> n + 1] BY <1>2
<1>4. \E b \in 1..Len(arrays') :
         /\ queue' = [array |-> b, len |-> n + 1] /\ ArraysGrow
         /\ n + 1 <= Len(arrays'[b])
         /\ \A i \in 1..n : arrays'[b][i] = slots[i]
         /\ arrays'[b][n + 1] = r
  <2>1. CASE room
    <3> DEFINE stored == [arrays[a] EXCEPT ![n + 1] = r]
    <3>1. /\ a \in 1..Len(arrays) /\ arrays[a] \in Seq(Requests \cup {Null})
          /\ n + 1 \in 1..Len(arrays[a])
      BY <1>1, <2>1
    <3>2. /\ stored \in Seq(Requests \cup {Null}) /\ Len(stored) = Len(arrays[a])
          /\ stored[n + 1] = r /\ \A i \in 1..n : stored[i] = arrays[a][i]
      BY <1>1, <3>1
    <3>3. arrays' = [arrays EXCEPT ![a] = stored] /\ queue' = [queue EXCEPT !.len = n + 1]
      BY <2>1 DEF AppendSlice
    <3> HIDE DEF stored
    <3>4. /\ arrays' \in Seq(Seq(Requests \cup {Null})) /\ Len(arrays') = Len(arrays)
          /\ arrays'[a] = stored /\ \A b \in 1..Len(arrays) : b # a => arrays'[b] = arrays[b]
      BY <1>2, <3>1, <3>2, <3>3
    <3>5. ArraysGrow
      <4>1. \A b \in 1..Len(arrays) : Len(arrays'[b]) = Len(arrays[b]) BY <3>2, <3>4
      <4> QED BY <1>2, <3>4, <4>1 DEF ArraysGrow
    <3>6. n + 1 <= Len(arrays'[a]) BY <3>1, <3>2, <3>4
    <3>7. \A i \in 1..n : arrays'[a][i] = slots[i] BY <1>1, <3>2, <3>4
    <3>8. queue' = [array |-> a, len |-> n + 1] BY <1>3, <3>3
    <3> QED BY <3>1, <3>2, <3>4, <3>5, <3>6, <3>7, <3>8
  <2>2. CASE ~room
    <3> DEFINE free == [i \in 1..(n - 1) |-> Null]
               b == Len(arrays) + 1
    <3>1. free \in Seq(Requests \cup {Null})
      <4>1. CASE n = 0
        <5>1. 1..(n - 1) = {} BY <4>1
        <5>2. free = <<>> BY <5>1
        <5>3. <<>> \in Seq(Requests \cup {Null}) OBVIOUS
        <5> HIDE DEF free
        <5> QED BY <5>2, <5>3
      <4>2. CASE n > 0
        <5>1. n - 1 \in Nat BY <1>1, <4>2
        <5> QED BY <5>1
      <4> QED BY <1>1, <4>1, <4>2
    <3>2. slots \in Seq(Requests \cup {Null}) /\ <<r>> \in Seq(Requests \cup {Null})
      <4> HIDE DEF slots
      <4> QED BY <1>1
    <3> HIDE DEF free, slots
    <3>3. /\ slots \o <<r>> \in Seq(Requests \cup {Null}) /\ Len(slots \o <<r>>) = n + 1
          /\ \A i \in 1..n : (slots \o <<r>>)[i] = slots[i]
          /\ (slots \o <<r>>)[n + 1] = r
      BY <1>1, <3>2
    <3>4. /\ grown \in Seq(Requests \cup {Null}) /\ Len(grown) >= n + 1
          /\ \A i \in 1..(n + 1) : grown[i] = (slots \o <<r>>)[i]
      <4> DEFINE start == slots \o <<r>>
      <4>1. grown = start \o free BY DEF free
      <4>2. Len(free) \in Nat BY <3>1
      <4>3. start \in Seq(Requests \cup {Null}) /\ Len(start) = n + 1 BY <3>3
      <4> HIDE DEF grown, start
      <4>4. /\ start \o free \in Seq(Requests \cup {Null})
            /\ Len(start \o free) = n + 1 + Len(free)
            /\ \A i \in 1..(n + 1 + Len(free)) :
                  (start \o free)[i] = IF i <= n + 1 THEN start[i] ELSE free[i - (n + 1)]
        BY <3>1, <4>3, ConcatProperties
      <4>5. \A i \in 1..(n + 1) : i \in 1..(n + 1 + Len(free)) /\ i <= n + 1 BY <1>1, <4>2
      <4> QED BY <1>1, <4>1, <4>2, <4>4, <4>5 DEF start
    <3>5. arrays' = Append(arrays, grown) /\ queue' = [array |-> b, len |-> n + 1]
      BY <2>2 DEF AppendSlice, slots, free
    <3> HIDE DEF grown
    <3>6. /\ arrays' \in Seq(Seq(Requests \cup {Null})) /\ Len(arrays') = b /\ arrays'[b] = grown
          /\ \A c \in 1..Len(arrays) : arrays'[c] = arrays[c]
      BY <1>2, <3>4, <3>5
    <3>7. ArraysGrow BY <1>2, <3>6 DEF ArraysGrow
    <3>8. b \in 1..Len(arrays') BY <1>2, <3>6
    <3>9. \A i \in 1..n : i \in 1..(n + 1) BY <1>1
    <3>10. n + 1 \in 1..(n + 1) BY <1>1
    <3>11. (\A i \in 1..n : grown[i] = slots[i]) /\ grown[n + 1] = r
      BY <3>3, <3>4, <3>9, <3>10
    <3> QED BY <3>4, <3>5, <3>6, <3>7, <3>8, <3>11
  <2> QED BY <2>1, <2>2
<1>5. PICK b \in 1..Len(arrays') :
         /\ queue' = [array |-> b, len |-> n + 1] /\ ArraysGrow
         /\ n + 1 <= Len(arrays'[b])
         /\ \A i \in 1..n : arrays'[b][i] = slots[i]
         /\ arrays'[b][n + 1] = r
  BY <1>4
<1>6. queue'.array = b /\ queue'.len = n + 1 BY <1>5
<1>7. queue' \in Slice' /\ Fits(queue)'
  <2>1. Len(arrays') \in Nat /\ b # 0 /\ b \in 0..Len(arrays') BY <1>5 DEF ArraysGrow
  <2>2. n + 1 \in Nat BY <1>1
  <2> QED BY <1>5, <1>6, <2>1, <2>2 DEF Slice, Fits
<1>8. QueueInv'
  <2> HIDE DEF slots
  <2>1. \A i \in 1..(n + 1) : i \in 1..n \/ i = n + 1 BY <1>1
  <2>2. \A i \in 1..n : i \in 1..(n + 1) BY <1>1
  <2>3. n + 1 \in 1..(n + 1) BY <1>1
  <2>4. \A i \in 1..n : /\ slots[i] \in Requests /\ slots[i] # r
                        /\ call[slots[i]] \in {"waiting", "cancelling", "cancelled"}
    BY <1>1 DEF QueueInv
  <2>5. call'[r] = "waiting" /\ \A q \in Requests : q # r => call'[q] = call[q]
    BY DEF TypeOK
  <2>6. \A i \in 1..(n + 1) :
           /\ arrays'[b][i] \in Requests
           /\ call'[arrays'[b][i]] \in {"waiting", "cancelling", "cancelled"}
    BY <1>5, <2>1, <2>4, <2>5
  <2>7. ASSUME NEW i \in 1..(n + 1), NEW j \in 1..(n + 1), arrays'[b][i] = arrays'[b][j]
        PROVE  i = j
    <3>1. \A k, l \in 1..n : slots[k] = slots[l] => k = l BY <1>1 DEF QueueInv
    <3> QED BY <1>5, <2>1, <2>4, <2>7, <3>1
  <2>8. ASSUME NEW q \in Requests, call'[q] = "waiting"
        PROVE  \E i \in 1..(n + 1) : q = arrays'[b][i]
    <3>1. CASE q = r BY <1>5, <2>3, <3>1
    <3>2. CASE q # r
      <4>1. call[q] = "waiting" BY <2>5, <2>8, <3>2
      <4>2. PICK i \in 1..n : q = slots[i] BY <1>1, <4>1 DEF QueueInv
      <4> QED BY <1>5, <2>2, <4>2
    <3> QED BY <3>1, <3>2
  <2> QED BY <1>6, <2>6, <2>7, <2>8 DEF QueueInv
<1> QED BY <1>5, <1>7, <1>8
-----------------------------------------------------------------------------
(* The store *)

LEMMA TypeParts == TypeOK <=> StoreTyped /\ RequestsTyped
BY DEF TypeOK, StoreTyped, RequestsTyped, ChainMsg

LEMMA ValueAgrees ==
    ASSUME NEW ms, IsFiniteSet(ms), NEW ch, NEW cg,
           \A m \in ms : ch[m].amt \in Nat /\ cg[m].amt = ch[m].amt
    PROVE  ValueIn(cg, ms) = ValueIn(ch, ms)
<1> DEFINE f == [m \in ms |-> ch[m].amt]
           g == [m \in ms |-> cg[m].amt]
<1>1. f = g OBVIOUS
<1> QED BY <1>1 DEF ValueIn

LEMMA ValueAdds ==
    ASSUME NEW ms, IsFiniteSet(ms), NEW ch, NEW m, m \notin ms, ch[m].amt \in Nat,
           \A k \in ms : ch[k].amt \in Nat
    PROVE  ValueIn(ch, ms \cup {m}) = ValueIn(ch, ms) + ch[m].amt
<1> DEFINE f == [k \in ms |-> ch[k].amt]
           g == [k \in ms \cup {m} |-> ch[k].amt]
<1>1. /\ DOMAIN f = ms /\ DOMAIN g = ms \cup {m} /\ g[m] = ch[m].amt
      /\ \A k \in ms : f[k] \in Nat /\ g[k] = f[k]
      /\ \A k \in ms \cup {m} : g[k] \in Nat
      /\ (ms \cup {m}) \ {m} = ms
  OBVIOUS
<1>2. IsFiniteSet(ms \cup {m}) BY FS_AddElement
<1> HIDE DEF f, g
<1>3. SumFunctionOnSet(g, ms \cup {m}) = g[m] + SumFunctionOnSet(g, ms)
  BY <1>1, <1>2, SumRemove
<1>4. SumFunctionOnSet(g, ms) = SumFunctionOnSet(f, ms) BY <1>1, SumAgree
<1>5. SumFunctionOnSet(f, ms) \in Nat BY <1>1, SumRecursion
<1>6. /\ ValueIn(ch, ms \cup {m}) = SumFunctionOnSet(g, ms \cup {m})
      /\ ValueIn(ch, ms) = SumFunctionOnSet(f, ms)
  BY <1>1 DEF ValueIn, SumFunction, f, g
<1> QED BY <1>1, <1>3, <1>4, <1>5, <1>6

LEMMA BookedFinite ==
    ASSUME StoreTyped, NEW c
    PROVE  /\ IsFiniteSet(Booked(c)) /\ Booked(c) \subseteq DOMAIN chain
           /\ \A m \in DOMAIN chain : chain[m].amt \in Nat
<1>1. chain \in Seq(ChainMsg) /\ Len(chain) \in Nat /\ DOMAIN chain = 1..Len(chain)
  BY DEF StoreTyped
<1>2. \A m \in DOMAIN chain : chain[m].amt \in Nat
  <2>1. \A m \in DOMAIN chain : chain[m] \in ChainMsg BY <1>1
  <2> QED BY <2>1 DEF ChainMsg
<1>3. Booked(c) \subseteq DOMAIN chain BY DEF Booked, Executed
<1>4. IsFiniteSet(1..Len(chain)) BY <1>1, FS_Interval
<1>5. IsFiniteSet(Booked(c)) BY <1>1, <1>3, <1>4, FS_Subset
<1> QED BY <1>2, <1>3, <1>5

LEMMA Books == BooksMatchChain <=> \A c \in DOMAIN channels : channels[c].amount = ValueIn(chain, Booked(c))
BY DEF BooksMatchChain, ValueIn, Value, Booked

\* The channels and their books, where what is booked stays
LEMMA BooksStay ==
    ASSUME StoreTyped, BooksMatchChain,
           \A m \in DOMAIN chain : chain'[m].amt = chain[m].amt,
           \A c \in DOMAIN channels' : /\ c \in DOMAIN channels
                                       /\ channels'[c].amount = channels[c].amount
                                       /\ Booked(c)' = Booked(c)
    PROVE  BooksMatchChain'
<1>1. SUFFICES ASSUME NEW c \in DOMAIN channels'
               PROVE  channels'[c].amount = ValueIn(chain', Booked(c)')
  BY DEF BooksMatchChain, ValueIn, Value, Booked
<1>2. channels[c].amount = ValueIn(chain, Booked(c)) BY Books
<1>3. ValueIn(chain', Booked(c)) = ValueIn(chain, Booked(c)) BY BookedFinite, ValueAgrees
<1> QED BY <1>2, <1>3

LEMMA StoreSame ==
    ASSUME StoreInv, UNCHANGED <<chain, storeVars, waits>>
    PROVE  StoreInv' /\ StoreGrows
<1>1. chain' = chain /\ channels' = channels /\ messages' = messages /\ waits' = waits
  BY DEF storeVars
<1>2. Len(chain) \in Nat BY DEF StoreInv, StoreTyped
<1>3. StoreGrows BY <1>1, <1>2 DEF StoreGrows, IsBooked
<1>4. StoreTyped' BY <1>1 DEF StoreInv, StoreTyped
<1>5. ToInv' /\ ChannelInv' /\ PendingInv' /\ BookedInv'
  BY <1>1 DEF StoreInv, ToInv, ChannelInv, PendingInv, BookedInv, IsBooked, OutboundActiveByFromTo
<1>6. BooksMatchChain' BY <1>1 DEF StoreInv, BooksMatchChain, Executed, Value
<1> QED BY <1>3, <1>4, <1>5, <1>6 DEF StoreInv

\* A push
LEMMA PushedFacts ==
    ASSUME StoreTyped, NEW to \in Nat, step.amt \in Nat, Pushed(to)
    PROVE  /\ chain' \in Seq(ChainMsg) /\ Len(chain') = Len(chain) + 1 /\ Len(chain) + 1 \in Nat
           /\ DOMAIN chain' = DOMAIN chain \cup {Len(chain) + 1} /\ Len(chain) + 1 \notin DOMAIN chain
           /\ chain'[Len(chain) + 1].to = to /\ chain'[Len(chain) + 1].state = "pending"
           /\ chain'[Len(chain) + 1].amt = step.amt
           /\ \A k \in DOMAIN chain : chain'[k] = chain[k]
<1> DEFINE rec == [to |-> to, amt |-> step.amt, state |-> "pending"]
<1>1. rec \in ChainMsg BY DEF ChainMsg
<1>2. chain' = Append(chain, rec) BY DEF Pushed
<1>3. chain \in Seq(ChainMsg) /\ Len(chain) \in Nat BY DEF StoreTyped
<1> HIDE DEF rec
<1> QED BY <1>1, <1>2, <1>3 DEF rec

LEMMA PushLost ==
    ASSUME StoreInv, NEW to \in 1..(Len(chain) + 1), step.amt \in Nat, Pushed(to),
           UNCHANGED <<storeVars, waits>>
    PROVE  StoreInv' /\ StoreGrows
<1> DEFINE n == Len(chain) + 1
<1>1. channels' = channels /\ messages' = messages /\ waits' = waits BY DEF storeVars
<1>2. /\ chain' \in Seq(ChainMsg) /\ Len(chain') = n /\ n \in Nat
      /\ DOMAIN chain' = DOMAIN chain \cup {n} /\ n \notin DOMAIN chain
      /\ chain'[n].to = to /\ chain'[n].state = "pending"
      /\ \A k \in DOMAIN chain : chain'[k] = chain[k]
  <2>1. to \in Nat /\ Len(chain) \in Nat BY DEF StoreInv, StoreTyped
  <2>2. StoreTyped BY DEF StoreInv
  <2> QED BY <2>1, <2>2, PushedFacts
<1>3. /\ DOMAIN channels \subseteq DOMAIN chain /\ DOMAIN messages \subseteq DOMAIN chain
      /\ DOMAIN waits \subseteq DOMAIN messages /\ Len(chain) \in Nat
  BY DEF StoreInv, StoreTyped
<1> HIDE DEF n
<1>4. StoreTyped' BY <1>1, <1>2, <1>3 DEF StoreInv, StoreTyped, ChainMsg
<1>5. \A m \in DOMAIN messages : IsBooked(m)' <=> IsBooked(m)
  BY <1>1, <1>2, <1>3 DEF IsBooked
<1>6. StoreGrows BY <1>1, <1>2, <1>3, <1>5 DEF StoreGrows, n
<1>7. ToInv' BY <1>2 DEF StoreInv, ToInv, n
<1>8. ChannelInv' BY <1>1, <1>2, <1>3 DEF StoreInv, ChannelInv
<1>9. PendingInv'
  BY <1>1, <1>2, <1>3 DEF StoreInv, PendingInv, OutboundActiveByFromTo
<1>10. BookedInv' BY <1>1, <1>3, <1>5 DEF StoreInv, BookedInv
<1>11. BooksMatchChain'
  <2>1. \A c : Booked(c)' = Booked(c) BY <1>1, <1>2 DEF Booked, Executed
  <2> QED BY <1>1, <1>2, <2>1, BooksStay DEF StoreInv
<1> QED BY <1>4, <1>6, <1>7, <1>8, <1>9, <1>10, <1>11 DEF StoreInv

\* A push after which the channel c waits for the message m, new or not
LEMMA PushKept ==
    ASSUME StoreInv, NEW c \in Nat, step.amt \in Nat, Pushed(c),
           NEW ci \in ChannelInfo, channels' = With(channels, c, ci),
           ci.pendingMsg = Len(chain) + 1, ci.pendingAmount = step.amt,
           SaveNewMessage(c, Len(chain) + 1), waits' = With(waits, Len(chain) + 1, "waiting"),
           \/ /\ c = Len(chain) + 1 /\ OutboundActiveByFromTo = {}
              /\ ~ci.address /\ ci.amount = 0
           \/ /\ c \in OutboundActiveByFromTo /\ channels[c].pendingMsg = 0
              /\ ci.address = channels[c].address /\ ci.amount = channels[c].amount
              /\ ~ci.settling
    PROVE  StoreInv' /\ StoreGrows
<1> DEFINE n == Len(chain) + 1
           msg == [channelID |-> c, received |-> FALSE, err |-> FALSE]
<1>1. /\ chain' \in Seq(ChainMsg) /\ Len(chain') = n /\ n \in Nat
      /\ DOMAIN chain' = DOMAIN chain \cup {n} /\ n \notin DOMAIN chain
      /\ chain'[n].to = c /\ chain'[n].state = "pending" /\ chain'[n].amt = step.amt
      /\ \A k \in DOMAIN chain : chain'[k] = chain[k]
  <2>1. StoreTyped BY DEF StoreInv
  <2> QED BY <2>1, PushedFacts
<1>2. /\ DOMAIN channels \subseteq DOMAIN chain /\ DOMAIN messages \subseteq DOMAIN chain
      /\ DOMAIN waits \subseteq DOMAIN messages /\ Len(chain) \in Nat
      /\ DOMAIN chain = 1..Len(chain)
  BY DEF StoreInv, StoreTyped
<1>3. /\ DOMAIN channels' = DOMAIN channels \cup {c} /\ channels'[c] = ci
      /\ \A d \in DOMAIN channels : d # c => channels'[d] = channels[d]
  BY DEF With
<1>4. /\ DOMAIN messages' = DOMAIN messages \cup {n} /\ messages'[n] = msg
      /\ \A m \in DOMAIN messages : m # n => messages'[m] = messages[m]
  BY DEF With, SaveNewMessage
<1>5. /\ DOMAIN waits' = DOMAIN waits \cup {n} /\ waits'[n] = "waiting"
      /\ \A m \in DOMAIN waits : m # n => waits'[m] = waits[m]
  BY DEF With
<1>6. n \notin DOMAIN channels /\ n \notin DOMAIN messages /\ n \notin DOMAIN waits /\ n # 0
  BY <1>1, <1>2
<1>7. c \in DOMAIN channels' /\ c \in DOMAIN chain' /\ c \in 1..n /\ (c \in DOMAIN channels <=> c # n)
  BY <1>1, <1>2, <1>3, <1>6 DEF OutboundActiveByFromTo
<1> HIDE DEF n, msg
<1>8. StoreTyped'
  <2>1. channels' \in [DOMAIN channels' -> ChannelInfo] /\ DOMAIN channels' \subseteq DOMAIN chain'
    <3>1. \A d \in DOMAIN channels' : channels'[d] \in ChannelInfo
      BY <1>3 DEF StoreInv, StoreTyped
    <3>2. channels' = [d \in DOMAIN channels' |-> channels'[d]] BY DEF With
    <3> QED BY <1>1, <1>2, <1>3, <1>7, <3>1, <3>2
  <2>2. messages' \in [DOMAIN messages' -> MsgInfo] /\ DOMAIN messages' \subseteq DOMAIN chain'
    <3>1. msg \in MsgInfo BY DEF msg, MsgInfo
    <3>2. \A d \in DOMAIN messages' : messages'[d] \in MsgInfo
      BY <1>4, <1>6, <3>1 DEF StoreInv, StoreTyped
    <3>3. messages' = [d \in DOMAIN messages' |-> messages'[d]] BY DEF With, SaveNewMessage
    <3> QED BY <1>1, <1>2, <1>4, <3>2, <3>3
  <2>3. waits' \in [DOMAIN waits' -> {"waiting", "ok", "err"}] /\ DOMAIN waits' \subseteq DOMAIN messages'
    <3>1. \A d \in DOMAIN waits' : waits'[d] \in {"waiting", "ok", "err"}
      BY <1>5, <1>6 DEF StoreInv, StoreTyped
    <3>2. waits' = [d \in DOMAIN waits' |-> waits'[d]] BY DEF With
    <3> QED BY <1>2, <1>4, <1>5, <3>1, <3>2
  <2> QED BY <1>1, <2>1, <2>2, <2>3 DEF StoreTyped
<1>9. ASSUME NEW m \in DOMAIN messages, IsBooked(m) PROVE IsBooked(m)'
  <2>1. m \in DOMAIN chain /\ m # n /\ chain'[m] = chain[m] BY <1>1, <1>2, <1>6
  <2>2. chain[m].to \in DOMAIN channels /\ channels[chain[m].to].address BY <1>9 DEF IsBooked
  <2>3. CASE chain[m].to = c
    <3>1. c # n BY <1>7, <2>2, <2>3
    <3>2. ci.address BY <1>6, <2>2, <2>3, <3>1 DEF n
    <3>3. m # ci.pendingMsg BY <2>1 DEF n
    <3> QED BY <1>3, <1>4, <1>9, <2>1, <2>3, <3>2, <3>3 DEF IsBooked
  <2>4. CASE chain[m].to # c
    BY <1>3, <1>4, <1>9, <2>1, <2>2, <2>4 DEF IsBooked
  <2> QED BY <2>3, <2>4
<1>10. StoreGrows BY <1>1, <1>2, <1>4, <1>9 DEF StoreGrows, n
<1>11. ToInv' BY <1>1, <1>7 DEF StoreInv, ToInv
<1>12. ChannelInv'
  <2>1. ASSUME NEW d \in DOMAIN channels'
        PROVE  channels'[d].address <=> channels'[d].pendingMsg # d
    <3>1. CASE d # c BY <1>3, <3>1 DEF StoreInv, ChannelInv
    <3>2. CASE d = c /\ c = n BY <1>3, <1>6, <3>2 DEF n, OutboundActiveByFromTo
    <3>3. CASE d = c /\ c # n
      <4>1. c \in DOMAIN channels /\ channels[c].pendingMsg = 0 /\ c # 0
        BY <1>2, <1>7, <3>3 DEF n
      <4>2. ci.address BY <3>3, <4>1 DEF StoreInv, ChannelInv, n
      <4> QED BY <1>3, <3>3, <4>2 DEF n
    <3> QED BY <3>1, <3>2, <3>3
  <2>2. ASSUME NEW m \in DOMAIN messages', chain'[m].to # m
        PROVE  chain'[m].to \in DOMAIN channels' /\ channels'[chain'[m].to].address
    <3>1. CASE m = n
      <4>1. c # n /\ c \in DOMAIN channels /\ channels[c].pendingMsg = 0 /\ c # 0
        BY <1>1, <1>2, <1>7, <2>2, <3>1 DEF n
      <4>2. ci.address BY <4>1 DEF StoreInv, ChannelInv, n
      <4> QED BY <1>1, <1>3, <3>1, <4>2
    <3>2. CASE m # n
      <4>1. m \in DOMAIN messages /\ chain'[m] = chain[m] BY <1>1, <1>2, <1>4, <3>2
      <4>2. chain[m].to \in DOMAIN channels /\ channels[chain[m].to].address
        BY <2>2, <4>1 DEF StoreInv, ChannelInv
      <4>3. chain[m].to = c => c # n /\ ci.address BY <1>7, <4>2 DEF n
      <4> QED BY <1>3, <4>1, <4>2, <4>3
    <3> QED BY <3>1, <3>2
  <2> QED BY <2>1, <2>2 DEF ChannelInv
<1>13. PendingInv'
  <2>1. \A d, e \in OutboundActiveByFromTo' : d = e
    <3>1. \A d \in OutboundActiveByFromTo' : d # c => d \in OutboundActiveByFromTo
      BY <1>3 DEF OutboundActiveByFromTo
    <3>2. \A d, e \in OutboundActiveByFromTo : d = e BY DEF StoreInv, PendingInv
    <3> QED BY <3>1, <3>2
  <2>2. ASSUME NEW m \in DOMAIN messages', chain'[m].state = "pending",
               chain'[m].to \in DOMAIN channels'
        PROVE  channels'[chain'[m].to].pendingMsg = m
    <3>1. CASE m = n BY <1>1, <1>3, <3>1 DEF n
    <3>2. CASE m # n
      <4>1. m \in DOMAIN messages /\ chain'[m] = chain[m] /\ m \in 1..Len(chain)
        BY <1>1, <1>2, <1>4, <3>2
      <4>2. chain[m].to # n BY <4>1, <1>2 DEF StoreInv, ToInv, n
      <4>3. chain[m].to \in DOMAIN channels BY <1>3, <1>7, <2>2, <4>1, <4>2
      <4>4. channels[chain[m].to].pendingMsg = m BY <2>2, <4>1, <4>3 DEF StoreInv, PendingInv
      <4>5. chain[m].to # c BY <1>7, <4>1, <4>2, <4>4 DEF n
      <4> QED BY <1>3, <4>1, <4>3, <4>4, <4>5
    <3> QED BY <3>1, <3>2
  <2>3. ASSUME NEW m \in DOMAIN waits', waits'[m] = "waiting"
        PROVE  /\ chain'[m].to \in DOMAIN channels'
               /\ channels'[chain'[m].to].pendingMsg = m
               /\ channels'[chain'[m].to].pendingAmount = chain'[m].amt
    <3>1. CASE m = n BY <1>1, <1>3, <3>1 DEF n
    <3>2. CASE m # n
      <4>1. /\ m \in DOMAIN waits /\ waits[m] = "waiting" /\ chain'[m] = chain[m]
            /\ m \in 1..Len(chain)
        BY <1>1, <1>2, <1>5, <2>3, <3>2
      <4>2. /\ chain[m].to \in DOMAIN channels
            /\ channels[chain[m].to].pendingMsg = m
            /\ channels[chain[m].to].pendingAmount = chain[m].amt
        BY <4>1 DEF StoreInv, PendingInv
      <4>3. chain[m].to # c BY <1>7, <4>1, <4>2 DEF n
      <4> QED BY <1>3, <4>1, <4>2, <4>3
    <3> QED BY <3>1, <3>2
  <2> QED BY <2>1, <2>2, <2>3 DEF PendingInv
<1>14. BookedInv'
  <2>1. \A m \in DOMAIN waits' : waits'[m] = "ok" => m \in DOMAIN waits /\ waits[m] = "ok"
    BY <1>5, <1>6
  <2>2. \A m \in DOMAIN messages' : messages'[m].received
           => m \in DOMAIN messages /\ messages'[m] = messages[m]
    BY <1>4, <1>6 DEF msg
  <2> QED BY <1>2, <1>9, <2>1, <2>2 DEF StoreInv, BookedInv
<1>15. BooksMatchChain'
  <2>1. \A d \in DOMAIN channels : Executed(d)' = Executed(d) BY <1>1 DEF Executed
  <2>2. ASSUME NEW d \in DOMAIN channels PROVE Booked(d)' = Booked(d)
    <3>1. n \notin Executed(d) BY <1>1 DEF Executed
    <3>2. CASE d # c BY <1>3, <1>4, <2>1, <3>1, <3>2 DEF Booked
    <3>3. CASE d = c
      <4>1. 0 \notin Executed(d) BY <1>2 DEF Executed
      <4>2. channels[c].pendingMsg = 0 BY <1>7, <3>3 DEF n
      <4>3. channels'[c].pendingMsg = n BY <1>3 DEF n
      <4> QED BY <1>4, <2>1, <3>1, <3>3, <4>1, <4>2, <4>3 DEF Booked
    <3> QED BY <3>2, <3>3
  <2>3. CASE c # n
    <3>1. \A d \in DOMAIN channels' : d \in DOMAIN channels /\ channels'[d].amount = channels[d].amount
      BY <1>3, <1>7, <2>3 DEF n
    <3> QED BY <1>1, <2>2, <3>1, BooksStay DEF StoreInv
  <2>4. CASE c = n
    <3>1. SUFFICES ASSUME NEW d \in DOMAIN channels'
                   PROVE  channels'[d].amount = ValueIn(chain', Booked(d)')
      BY DEF BooksMatchChain, ValueIn, Value, Booked
    <3>2. CASE d = n
      <4>1. \A m \in DOMAIN chain : m \in 1..Len(chain) /\ chain[m].to \in 1..m
        BY <1>2 DEF StoreInv, ToInv
      <4>2. \A m \in DOMAIN chain : chain[m].to # n BY <1>2, <4>1 DEF n
      <4>3. Executed(d)' = {} BY <1>1, <3>2, <4>2 DEF Executed
      <4>4. Booked(d)' = {} BY <4>3 DEF Booked
      <4>5. ValueIn(chain', {}) = 0
        <5>1. DOMAIN [m \in {} |-> chain'[m].amt] = {} OBVIOUS
        <5> QED BY <5>1, FS_EmptySet, SumRecursion DEF ValueIn, SumFunction
      <4>6. ci.amount = 0 BY <1>6, <2>4 DEF n, OutboundActiveByFromTo
      <4> QED BY <1>3, <2>4, <3>2, <4>4, <4>5, <4>6
    <3>3. CASE d # n
      <4>1. d \in DOMAIN channels /\ channels'[d] = channels[d] BY <1>3, <2>4, <3>3
      <4>2. channels[d].amount = ValueIn(chain, Booked(d)) BY <4>1, Books DEF StoreInv
      <4>3. ValueIn(chain', Booked(d)) = ValueIn(chain, Booked(d))
        BY <1>1, BookedFinite, ValueAgrees DEF StoreInv
      <4> QED BY <2>2, <4>1, <4>2, <4>3
    <3> QED BY <3>2, <3>3
  <2> QED BY <2>3, <2>4
<1> QED BY <1>8, <1>10, <1>11, <1>12, <1>13, <1>14, <1>15 DEF StoreInv

LEMMA StoreFacts ==
    ASSUME StoreTyped
    PROVE  /\ DOMAIN channels \subseteq DOMAIN chain /\ DOMAIN messages \subseteq DOMAIN chain
           /\ DOMAIN waits \subseteq DOMAIN messages /\ Len(chain) \in Nat
           /\ DOMAIN chain = 1..Len(chain)
           /\ \A m \in DOMAIN chain : chain[m] \in ChainMsg
           /\ \A c \in DOMAIN channels : channels[c] \in ChannelInfo
BY DEF StoreTyped

LEMMA ExecuteStore ==
    ASSUME StoreInv, NEW m \in DOMAIN chain, Execute(m)
    PROVE  StoreInv' /\ StoreGrows
<1>1. /\ channels' = channels /\ messages' = messages /\ waits' = waits
      /\ chain[m].state = "pending"
      /\ \/ chain' = [chain EXCEPT ![m].state = "ok"]
         \/ chain' = [chain EXCEPT ![m].state = "failed"]
  BY DEF Execute, storeVars
<1>2. StoreTyped /\ chain \in Seq(ChainMsg) BY DEF StoreInv, StoreTyped
<1>3. /\ chain' \in Seq(ChainMsg) /\ Len(chain') = Len(chain) /\ DOMAIN chain' = DOMAIN chain
      /\ chain'[m].to = chain[m].to /\ chain'[m].amt = chain[m].amt /\ chain'[m].state # "pending"
      /\ \A k \in DOMAIN chain : k # m => chain'[k] = chain[k]
  <2>1. PICK st \in {"ok", "failed"} : chain' = [chain EXCEPT ![m].state = st] BY <1>1
  <2>2. chain' = [chain EXCEPT ![m] = [chain[m] EXCEPT !.state = st]] BY <2>1
  <2>3. chain[m] \in ChainMsg BY <1>2
  <2>4. [chain[m] EXCEPT !.state = st] = [to |-> chain[m].to, amt |-> chain[m].amt, state |-> st]
    BY <2>3 DEF ChainMsg
  <2>5. [chain[m] EXCEPT !.state = st] \in ChainMsg BY <2>3, <2>4 DEF ChainMsg
  <2> QED BY <1>2, <2>2, <2>4, <2>5
<1>4. \A k \in DOMAIN chain : chain'[k].to = chain[k].to /\ chain'[k].amt = chain[k].amt BY <1>3
<1>5. StoreTyped' BY <1>1, <1>3 DEF StoreInv, StoreTyped
<1>6. \A k \in DOMAIN messages : IsBooked(k) => IsBooked(k)'
  BY <1>1, <1>2, <1>3, StoreFacts DEF IsBooked
<1>7. StoreGrows BY <1>1, <1>2, <1>3, <1>4, <1>6, StoreFacts DEF StoreGrows
<1>8. ToInv' BY <1>3, <1>4 DEF StoreInv, ToInv
<1>9. ChannelInv' BY <1>1, <1>2, <1>4, StoreFacts DEF StoreInv, ChannelInv
<1>10. PendingInv'
  <2>1. \A k \in DOMAIN chain : chain'[k].state = "pending" => chain[k].state = "pending"
    BY <1>3
  <2>2. DOMAIN messages \subseteq DOMAIN chain /\ DOMAIN waits \subseteq DOMAIN chain
    BY <1>2, StoreFacts
  <2> QED BY <1>1, <1>4, <2>1, <2>2 DEF StoreInv, PendingInv, OutboundActiveByFromTo
<1>11. BookedInv' BY <1>1, <1>2, <1>6, StoreFacts DEF StoreInv, BookedInv
<1>12. BooksMatchChain'
  <2>1. ASSUME NEW c \in DOMAIN channels PROVE Booked(c)' = Booked(c)
    <3>1. chain[m].to = c /\ m \in DOMAIN messages => channels[c].pendingMsg = m
      BY <1>1, <2>1 DEF StoreInv, PendingInv
    <3>2. m \notin Booked(c) /\ m \notin Booked(c)'
      BY <1>1, <1>3, <3>1 DEF Booked, Executed
    <3>3. \A k \in DOMAIN chain : k # m => (k \in Booked(c)' <=> k \in Booked(c))
      BY <1>1, <1>3 DEF Booked, Executed
    <3>4. Booked(c) \subseteq DOMAIN chain /\ Booked(c)' \subseteq DOMAIN chain
      BY <1>3 DEF Booked, Executed
    <3> QED BY <3>2, <3>3, <3>4
  <2> QED BY <1>1, <1>2, <1>4, <2>1, BooksStay DEF StoreInv
<1> QED BY <1>5, <1>7, <1>8, <1>9, <1>10, <1>11, <1>12 DEF StoreInv

LEMMA WaitFailsStore ==
    ASSUME StoreInv, NEW m \in DOMAIN waits, WaitFails(m)
    PROVE  StoreInv' /\ StoreGrows
<1>1. /\ chain' = chain /\ channels' = channels /\ messages' = messages
      /\ waits' = [waits EXCEPT ![m] = "err"]
  BY DEF WaitFails, storeVars
<1>2. StoreTyped /\ waits \in [DOMAIN waits -> {"waiting", "ok", "err"}]
  BY DEF StoreInv, StoreTyped
<1>3. /\ DOMAIN waits' = DOMAIN waits /\ waits'[m] = "err"
      /\ \A k \in DOMAIN waits : k # m => waits'[k] = waits[k]
      /\ waits' \in [DOMAIN waits' -> {"waiting", "ok", "err"}]
  BY <1>1, <1>2
<1>4. StoreTyped' BY <1>1, <1>3 DEF StoreInv, StoreTyped
<1>5. \A k : IsBooked(k)' <=> IsBooked(k) BY <1>1 DEF IsBooked
<1>6. StoreGrows BY <1>1, <1>2, <1>5, StoreFacts DEF StoreGrows
<1>7. ToInv' /\ ChannelInv' BY <1>1 DEF StoreInv, ToInv, ChannelInv
<1>8. PendingInv' BY <1>1, <1>3 DEF StoreInv, PendingInv, OutboundActiveByFromTo
<1>9. BookedInv' BY <1>1, <1>3, <1>5 DEF StoreInv, BookedInv
<1>10. BooksMatchChain' BY <1>1 DEF StoreInv, BooksMatchChain, Executed, Value
<1> QED BY <1>4, <1>6, <1>7, <1>8, <1>9, <1>10 DEF StoreInv

\* A channel's record changes, but for its books and its address
LEMMA SettleStore ==
    ASSUME StoreInv, NEW c \in DOMAIN channels, Settle(c)
    PROVE  StoreInv' /\ StoreGrows
<1>1. /\ chain' = chain /\ messages' = messages /\ waits' = waits
      /\ channels' = [channels EXCEPT ![c].settling = TRUE]
  BY DEF Settle
<1> DEFINE ci == [channels[c] EXCEPT !.settling = TRUE]
<1>2. StoreTyped /\ channels \in [DOMAIN channels -> ChannelInfo] BY DEF StoreInv, StoreTyped
<1>3. channels[c] \in ChannelInfo BY <1>2
<1>4. /\ ci \in ChannelInfo /\ ci.settling
      /\ ci.address = channels[c].address /\ ci.amount = channels[c].amount
      /\ ci.pendingMsg = channels[c].pendingMsg /\ ci.pendingAmount = channels[c].pendingAmount
  BY <1>3 DEF ChannelInfo
<1>5. channels' = [channels EXCEPT ![c] = ci] BY <1>1
<1> HIDE DEF ci
<1>6. /\ DOMAIN channels' = DOMAIN channels /\ channels' \in [DOMAIN channels' -> ChannelInfo]
      /\ channels'[c] = ci /\ \A d \in DOMAIN channels : d # c => channels'[d] = channels[d]
  BY <1>2, <1>4, <1>5
<1>7. \A d \in DOMAIN channels :
         /\ channels'[d].address = channels[d].address /\ channels'[d].amount = channels[d].amount
         /\ channels'[d].pendingMsg = channels[d].pendingMsg
         /\ channels'[d].pendingAmount = channels[d].pendingAmount
         /\ channels[d].settling => channels'[d].settling
  BY <1>4, <1>6
<1>8. StoreTyped' BY <1>1, <1>6 DEF StoreInv, StoreTyped
<1>9. \A k : IsBooked(k)' <=> IsBooked(k) BY <1>1, <1>6, <1>7 DEF IsBooked
<1>10. StoreGrows BY <1>1, <1>2, <1>9, StoreFacts DEF StoreGrows
<1>11. ToInv' /\ ChannelInv' BY <1>1, <1>6, <1>7 DEF StoreInv, ToInv, ChannelInv
<1>12. PendingInv'
  <2>1. OutboundActiveByFromTo' \subseteq OutboundActiveByFromTo
    BY <1>6, <1>7 DEF OutboundActiveByFromTo
  <2> QED BY <1>1, <1>6, <1>7, <2>1 DEF StoreInv, PendingInv
<1>13. BookedInv' BY <1>1, <1>9 DEF StoreInv, BookedInv
<1>14. BooksMatchChain'
  <2>1. \A d \in DOMAIN channels : Booked(d)' = Booked(d) BY <1>1, <1>7 DEF Booked, Executed
  <2> QED BY <1>1, <1>2, <1>6, <1>7, <2>1, BooksStay DEF StoreInv
<1> QED BY <1>8, <1>10, <1>11, <1>12, <1>13, <1>14 DEF StoreInv

LEMMA ConfirmRecord ==
    ASSUME NEW r \in ChannelInfo
    PROVE  /\ Confirm(r) \in ChannelInfo /\ Confirm(r).address /\ Confirm(r).pendingMsg = 0
           /\ Confirm(r).amount = r.amount + r.pendingAmount /\ Confirm(r).settling = r.settling
<1>1. r.amount \in Nat /\ r.pendingAmount \in Nat /\ r.settling \in BOOLEAN BY DEF ChannelInfo
<1> DEFINE sum == r.amount + r.pendingAmount
<1>2. sum \in Nat BY <1>1
<1> HIDE DEF sum
<1>3. Confirm(r) = [r EXCEPT !.address = TRUE, !.amount = sum, !.pendingAmount = 0, !.pendingMsg = 0]
  BY DEF Confirm, sum
<1>4. /\ [r EXCEPT !.address = TRUE, !.amount = sum, !.pendingAmount = 0, !.pendingMsg = 0] \in ChannelInfo
      /\ Confirm(r).address /\ Confirm(r).pendingMsg = 0 /\ Confirm(r).amount = sum
      /\ Confirm(r).settling = r.settling
  BY <1>2, <1>3 DEF ChannelInfo
<1> QED BY <1>3, <1>4 DEF sum

LEMMA ForgetRecord ==
    ASSUME NEW r \in ChannelInfo
    PROVE  /\ ForgetPending(r) \in ChannelInfo /\ ForgetPending(r).address = r.address
           /\ ForgetPending(r).pendingMsg = 0
           /\ ForgetPending(r).amount = r.amount /\ ForgetPending(r).settling = r.settling
BY DEF ForgetPending, ChannelInfo

LEMMA ResultRecord ==
    ASSUME NEW r \in MsgInfo, NEW err \in BOOLEAN
    PROVE  /\ [r EXCEPT !.received = TRUE, !.err = err] \in MsgInfo
           /\ [r EXCEPT !.received = TRUE, !.err = err].err = err
BY DEF MsgInfo

\* The receipt of a message that was executed is booked
LEMMA ConfirmStore ==
    ASSUME StoreInv, NEW m \in DOMAIN waits, waits[m] = "waiting", chain[m].state = "ok",
           MutateChannelInfo(chain[m].to, Confirm(channels[chain[m].to])),
           waits' = [waits EXCEPT ![m] = "ok"], UNCHANGED <<chain, messages>>
    PROVE  StoreInv' /\ StoreGrows
<1> DEFINE c == chain[m].to
           ci == Confirm(channels[c])
<1>1. StoreTyped /\ channels \in [DOMAIN channels -> ChannelInfo]
      /\ waits \in [DOMAIN waits -> {"waiting", "ok", "err"}] BY DEF StoreInv, StoreTyped
<1>2. /\ c \in DOMAIN channels /\ channels[c].pendingMsg = m
      /\ channels[c].pendingAmount = chain[m].amt
  BY DEF StoreInv, PendingInv
<1>3. m \in DOMAIN messages /\ m \in DOMAIN chain /\ channels[c] \in ChannelInfo /\ m # 0 /\ c # 0
  BY <1>1, <1>2, StoreFacts
<1>4. /\ ci \in ChannelInfo /\ ci.address /\ ci.pendingMsg = 0
      /\ ci.amount = channels[c].amount + chain[m].amt /\ ci.settling = channels[c].settling
  BY <1>2, <1>3, ConfirmRecord
<1>5. channels' = [channels EXCEPT ![c] = ci] BY <1>2 DEF MutateChannelInfo
<1> HIDE DEF ci
<1>6. /\ DOMAIN channels' = DOMAIN channels /\ channels' \in [DOMAIN channels' -> ChannelInfo]
      /\ channels'[c] = ci /\ \A d \in DOMAIN channels : d # c => channels'[d] = channels[d]
  BY <1>1, <1>2, <1>4, <1>5
<1>7. /\ DOMAIN waits' = DOMAIN waits /\ waits'[m] = "ok"
      /\ \A k \in DOMAIN waits : k # m => waits'[k] = waits[k]
      /\ waits' \in [DOMAIN waits' -> {"waiting", "ok", "err"}]
  BY <1>1
<1>8. StoreTyped' BY <1>6, <1>7 DEF StoreInv, StoreTyped
<1>9. ASSUME NEW k \in DOMAIN messages, IsBooked(k) PROVE IsBooked(k)'
  <2>1. k \in DOMAIN chain /\ k # 0 BY <1>1, StoreFacts
  <2> QED BY <1>4, <1>6, <1>9, <2>1 DEF IsBooked
<1>10. IsBooked(m)' BY <1>2, <1>3, <1>4, <1>6 DEF IsBooked
<1>11. StoreGrows BY <1>1, <1>9, StoreFacts DEF StoreGrows
<1>12. ToInv' BY DEF StoreInv, ToInv
<1>13. ChannelInv' BY <1>1, <1>3, <1>4, <1>6, StoreFacts DEF StoreInv, ChannelInv
<1>14. PendingInv'
  <2>1. OutboundActiveByFromTo' = OutboundActiveByFromTo
    BY <1>2, <1>4, <1>6 DEF OutboundActiveByFromTo
  <2>2. ASSUME NEW k \in DOMAIN messages, chain[k].state = "pending", chain[k].to \in DOMAIN channels
        PROVE  channels'[chain[k].to].pendingMsg = k
    <3>1. channels[chain[k].to].pendingMsg = k BY <2>2 DEF StoreInv, PendingInv
    <3>2. chain[k].to # c BY <1>2, <2>2, <3>1
    <3> QED BY <1>6, <2>2, <3>1, <3>2
  <2>3. ASSUME NEW k \in DOMAIN waits, waits'[k] = "waiting"
        PROVE  /\ chain[k].to \in DOMAIN channels
               /\ channels'[chain[k].to].pendingMsg = k
               /\ channels'[chain[k].to].pendingAmount = chain[k].amt
    <3>1. k # m /\ waits[k] = "waiting" BY <1>7, <2>3
    <3>2. /\ chain[k].to \in DOMAIN channels /\ channels[chain[k].to].pendingMsg = k
          /\ channels[chain[k].to].pendingAmount = chain[k].amt
      BY <3>1 DEF StoreInv, PendingInv
    <3>3. chain[k].to # c BY <1>2, <3>1, <3>2
    <3> QED BY <1>6, <3>2, <3>3
  <2> QED BY <1>6, <1>7, <2>1, <2>2, <2>3 DEF StoreInv, PendingInv
<1>15. BookedInv'
  <2>1. \A k \in DOMAIN waits : waits'[k] = "ok" => IsBooked(k)'
    BY <1>1, <1>7, <1>9, <1>10, StoreFacts DEF StoreInv, BookedInv
  <2>2. \A k \in DOMAIN messages : messages[k].received /\ ~messages[k].err => IsBooked(k)'
    BY <1>9 DEF StoreInv, BookedInv
  <2> QED BY <1>7, <2>1, <2>2 DEF BookedInv
<1>16. BooksMatchChain'
  <2>1. SUFFICES ASSUME NEW d \in DOMAIN channels
                 PROVE  channels'[d].amount = ValueIn(chain, Booked(d)')
    BY <1>6 DEF BooksMatchChain, ValueIn, Value, Booked
  <2>2. channels[d].amount = ValueIn(chain, Booked(d)) BY Books DEF StoreInv
  <2>3. Executed(d)' = Executed(d) BY DEF Executed
  <2>4. CASE d # c
    <3>1. Booked(d)' = Booked(d) BY <1>6, <2>3, <2>4 DEF Booked
    <3> QED BY <1>6, <2>2, <2>4, <3>1
  <2>5. CASE d = c
    <3>1. m \notin Booked(d) /\ m \in Executed(d) /\ 0 \notin Executed(d)
      BY <1>1, <1>2, <1>3, <2>5, StoreFacts DEF Booked, Executed
    <3>2. channels[d].pendingMsg = m /\ channels'[d].pendingMsg = 0 BY <1>2, <1>4, <1>6, <2>5
    <3>3. Booked(d)' = Booked(d) \cup {m} BY <1>3, <2>3, <3>1, <3>2 DEF Booked
    <3>4. chain[m].amt \in Nat /\ IsFiniteSet(Booked(d)) /\ \A k \in Booked(d) : chain[k].amt \in Nat
      BY <1>1, <1>3, BookedFinite
    <3>5. ValueIn(chain, Booked(d) \cup {m}) = ValueIn(chain, Booked(d)) + chain[m].amt
      BY <3>1, <3>4, ValueAdds
    <3> QED BY <1>4, <1>6, <2>2, <2>5, <3>3, <3>5
  <2> QED BY <2>4, <2>5
<1> QED BY <1>8, <1>11, <1>12, <1>13, <1>14, <1>15, <1>16 DEF StoreInv

\* An addition that failed on the chain is forgotten
LEMMA ForgetStore ==
    ASSUME StoreInv, NEW m \in DOMAIN waits, waits[m] = "waiting", chain[m].state = "failed",
           chain[m].to # m, MutateChannelInfo(chain[m].to, ForgetPending(channels[chain[m].to])),
           waits' = [waits EXCEPT ![m] = "err"], UNCHANGED <<chain, messages>>
    PROVE  StoreInv' /\ StoreGrows
<1> DEFINE c == chain[m].to
           ci == ForgetPending(channels[c])
<1>1. StoreTyped /\ channels \in [DOMAIN channels -> ChannelInfo]
      /\ waits \in [DOMAIN waits -> {"waiting", "ok", "err"}] BY DEF StoreInv, StoreTyped
<1>2. /\ c \in DOMAIN channels /\ channels[c].pendingMsg = m
      /\ channels[c].pendingAmount = chain[m].amt /\ channels[c].address
  BY DEF StoreInv, PendingInv, ChannelInv
<1>3. m \in DOMAIN messages /\ m \in DOMAIN chain /\ channels[c] \in ChannelInfo /\ m # 0 /\ c # 0
  BY <1>1, <1>2, StoreFacts
<1>4. /\ ci \in ChannelInfo /\ ci.address /\ ci.pendingMsg = 0
      /\ ci.amount = channels[c].amount /\ ci.settling = channels[c].settling
  BY <1>2, <1>3, ForgetRecord
<1>5. channels' = [channels EXCEPT ![c] = ci] BY <1>2 DEF MutateChannelInfo
<1> HIDE DEF ci
<1>6. /\ DOMAIN channels' = DOMAIN channels /\ channels' \in [DOMAIN channels' -> ChannelInfo]
      /\ channels'[c] = ci /\ \A d \in DOMAIN channels : d # c => channels'[d] = channels[d]
  BY <1>1, <1>2, <1>4, <1>5
<1>7. /\ DOMAIN waits' = DOMAIN waits /\ waits'[m] = "err"
      /\ \A k \in DOMAIN waits : k # m => waits'[k] = waits[k]
      /\ waits' \in [DOMAIN waits' -> {"waiting", "ok", "err"}]
  BY <1>1
<1>8. StoreTyped' BY <1>6, <1>7 DEF StoreInv, StoreTyped
<1>9. ASSUME NEW k \in DOMAIN messages, IsBooked(k) PROVE IsBooked(k)'
  <2>1. k \in DOMAIN chain /\ k # 0 BY <1>1, StoreFacts
  <2> QED BY <1>4, <1>6, <1>9, <2>1 DEF IsBooked
<1>10. StoreGrows BY <1>1, <1>9, StoreFacts DEF StoreGrows
<1>11. ToInv' BY DEF StoreInv, ToInv
<1>12. ChannelInv' BY <1>1, <1>3, <1>4, <1>6, StoreFacts DEF StoreInv, ChannelInv
<1>13. PendingInv'
  <2>1. OutboundActiveByFromTo' = OutboundActiveByFromTo
    BY <1>2, <1>4, <1>6 DEF OutboundActiveByFromTo
  <2>2. ASSUME NEW k \in DOMAIN messages, chain[k].state = "pending", chain[k].to \in DOMAIN channels
        PROVE  channels'[chain[k].to].pendingMsg = k
    <3>1. channels[chain[k].to].pendingMsg = k BY <2>2 DEF StoreInv, PendingInv
    <3>2. chain[k].to # c BY <1>2, <2>2, <3>1
    <3> QED BY <1>6, <2>2, <3>1, <3>2
  <2>3. ASSUME NEW k \in DOMAIN waits, waits'[k] = "waiting"
        PROVE  /\ chain[k].to \in DOMAIN channels
               /\ channels'[chain[k].to].pendingMsg = k
               /\ channels'[chain[k].to].pendingAmount = chain[k].amt
    <3>1. k # m /\ waits[k] = "waiting" BY <1>7, <2>3
    <3>2. /\ chain[k].to \in DOMAIN channels /\ channels[chain[k].to].pendingMsg = k
          /\ channels[chain[k].to].pendingAmount = chain[k].amt
      BY <3>1 DEF StoreInv, PendingInv
    <3>3. chain[k].to # c BY <1>2, <3>1, <3>2
    <3> QED BY <1>6, <3>2, <3>3
  <2> QED BY <1>6, <1>7, <2>1, <2>2, <2>3 DEF StoreInv, PendingInv
<1>14. BookedInv'
  <2>1. \A k \in DOMAIN waits : waits'[k] = "ok" => IsBooked(k)'
    BY <1>1, <1>7, <1>9, StoreFacts DEF StoreInv, BookedInv
  <2>2. \A k \in DOMAIN messages : messages[k].received /\ ~messages[k].err => IsBooked(k)'
    BY <1>9 DEF StoreInv, BookedInv
  <2> QED BY <1>7, <2>1, <2>2 DEF BookedInv
<1>15. BooksMatchChain'
  <2>1. ASSUME NEW d \in DOMAIN channels PROVE Booked(d)' = Booked(d)
    <3>1. Executed(d)' = Executed(d) BY DEF Executed
    <3>2. CASE d # c BY <1>6, <3>1, <3>2 DEF Booked
    <3>3. CASE d = c
      <4>1. m \notin Executed(d) /\ 0 \notin Executed(d) BY <1>1, StoreFacts DEF Executed
      <4>2. channels[d].pendingMsg = m /\ channels'[d].pendingMsg = 0 BY <1>2, <1>4, <1>6, <3>3
      <4> QED BY <3>1, <4>1, <4>2 DEF Booked
    <3> QED BY <3>2, <3>3
  <2>2. \A d \in DOMAIN channels : channels'[d].amount = channels[d].amount BY <1>4, <1>6
  <2> QED BY <1>1, <1>6, <2>1, <2>2, BooksStay DEF StoreInv
<1> QED BY <1>8, <1>10, <1>11, <1>12, <1>13, <1>14, <1>15 DEF StoreInv

\* A creation that failed on the chain: nothing else was sent to the channel
LEMMA RemoveStore ==
    ASSUME StoreInv, NEW m \in DOMAIN waits, waits[m] = "waiting", chain[m].state = "failed",
           chain[m].to = m, RemoveChannel(m),
           waits' = [waits EXCEPT ![m] = "err"], UNCHANGED <<chain, messages>>
    PROVE  StoreInv' /\ StoreGrows
<1>1. StoreTyped /\ channels \in [DOMAIN channels -> ChannelInfo]
      /\ waits \in [DOMAIN waits -> {"waiting", "ok", "err"}] BY DEF StoreInv, StoreTyped
<1>2. m \in DOMAIN channels /\ channels[m].pendingMsg = m /\ ~channels[m].address
  BY DEF StoreInv, PendingInv, ChannelInv
<1>3. channels' = [d \in DOMAIN channels \ {m} |-> channels[d]]
  BY DEF RemoveChannel, Restrict
<1>4. /\ DOMAIN channels' = DOMAIN channels \ {m} /\ channels' \in [DOMAIN channels' -> ChannelInfo]
      /\ \A d \in DOMAIN channels' : d # m /\ channels'[d] = channels[d]
  BY <1>1, <1>3
<1>5. /\ DOMAIN waits' = DOMAIN waits /\ waits'[m] = "err"
      /\ \A k \in DOMAIN waits : k # m => waits'[k] = waits[k]
      /\ waits' \in [DOMAIN waits' -> {"waiting", "ok", "err"}]
  BY <1>1
<1>6. StoreTyped' BY <1>4, <1>5 DEF StoreInv, StoreTyped
<1>7. ASSUME NEW k \in DOMAIN messages, IsBooked(k) PROVE IsBooked(k)'
  BY <1>2, <1>4, <1>7 DEF IsBooked
<1>8. StoreGrows BY <1>1, <1>7, StoreFacts DEF StoreGrows
<1>9. ToInv' BY DEF StoreInv, ToInv
<1>10. ChannelInv' BY <1>2, <1>4 DEF StoreInv, ChannelInv
<1>11. PendingInv'
  <2>1. OutboundActiveByFromTo' \subseteq OutboundActiveByFromTo
    BY <1>4 DEF OutboundActiveByFromTo
  <2>2. ASSUME NEW k \in DOMAIN waits, waits'[k] = "waiting"
        PROVE  /\ chain[k].to \in DOMAIN channels'
               /\ channels'[chain[k].to].pendingMsg = k
               /\ channels'[chain[k].to].pendingAmount = chain[k].amt
    <3>1. k # m /\ waits[k] = "waiting" BY <1>5, <2>2
    <3>2. /\ chain[k].to \in DOMAIN channels /\ channels[chain[k].to].pendingMsg = k
          /\ channels[chain[k].to].pendingAmount = chain[k].amt
      BY <3>1 DEF StoreInv, PendingInv
    <3>3. chain[k].to # m BY <1>2, <3>1, <3>2
    <3> QED BY <1>4, <3>2, <3>3
  <2> QED BY <1>4, <1>5, <2>1, <2>2 DEF StoreInv, PendingInv
<1>12. BookedInv'
  <2>1. \A k \in DOMAIN waits : waits'[k] = "ok" => IsBooked(k)'
    BY <1>1, <1>5, <1>7, StoreFacts DEF StoreInv, BookedInv
  <2>2. \A k \in DOMAIN messages : messages[k].received /\ ~messages[k].err => IsBooked(k)'
    BY <1>7 DEF StoreInv, BookedInv
  <2> QED BY <1>5, <2>1, <2>2 DEF BookedInv
<1>13. BooksMatchChain'
  <2>1. \A d \in DOMAIN channels' : Booked(d)' = Booked(d) BY <1>4 DEF Booked, Executed
  <2> QED BY <1>1, <1>4, <2>1, BooksStay DEF StoreInv
<1> QED BY <1>6, <1>8, <1>9, <1>10, <1>11, <1>12, <1>13 DEF StoreInv

LEMMA ApplyReceiptStore ==
    ASSUME StoreInv, NEW m \in DOMAIN waits, ApplyReceipt(m)
    PROVE  StoreInv' /\ StoreGrows
<1>1. waits[m] = "waiting" /\ UNCHANGED <<chain, messages>>
  <2>1. chain' = chain BY DEF ApplyReceipt
  <2> QED BY <2>1 DEF ApplyReceipt
<1>2. CASE chain[m].to = m BY <1>1, <1>2, ConfirmStore, RemoveStore DEF ApplyReceipt, WaitPaychCreateMsg
<1>3. CASE chain[m].to # m BY <1>1, <1>3, ConfirmStore, ForgetStore DEF ApplyReceipt, WaitAddFundsMsg
<1> QED BY <1>2, <1>3

LEMMA CompleteStore ==
    ASSUME StoreInv, NEW m \in DOMAIN waits, MsgWaitComplete(m)
    PROVE  StoreInv' /\ StoreGrows
<1> DEFINE failed == waits[m] = "err"
<1>1. /\ chain' = chain /\ channels' = channels
      /\ waits[m] \in {"ok", "err"}
      /\ messages' = [messages EXCEPT ![m].received = TRUE, ![m].err = failed]
      /\ waits' = [k \in DOMAIN waits \ {m} |-> waits[k]]
  BY DEF MsgWaitComplete, SaveMessageResult, Restrict
<1>2. StoreTyped /\ messages \in [DOMAIN messages -> MsgInfo]
      /\ waits \in [DOMAIN waits -> {"waiting", "ok", "err"}] BY DEF StoreInv, StoreTyped
<1> DEFINE info == [messages[m] EXCEPT !.received = TRUE, !.err = failed]
<1>3. m \in DOMAIN messages /\ messages[m] \in MsgInfo BY <1>2, StoreFacts
<1>4. info \in MsgInfo /\ info.err = failed
  <2>1. failed \in BOOLEAN OBVIOUS
  <2> HIDE DEF failed
  <2> QED BY <1>3, <2>1, ResultRecord
<1>5. messages' = [messages EXCEPT ![m] = info] BY <1>1
<1> HIDE DEF info
<1>6. /\ DOMAIN messages' = DOMAIN messages /\ messages' \in [DOMAIN messages' -> MsgInfo]
      /\ messages'[m].err = failed /\ \A k \in DOMAIN messages : k # m => messages'[k] = messages[k]
  BY <1>2, <1>3, <1>4, <1>5
<1>7. /\ DOMAIN waits' = DOMAIN waits \ {m} /\ waits' \in [DOMAIN waits' -> {"waiting", "ok", "err"}]
      /\ \A k \in DOMAIN waits' : waits'[k] = waits[k]
  BY <1>1, <1>2
<1>8. StoreTyped' BY <1>1, <1>2, <1>6, <1>7 DEF StoreInv, StoreTyped
<1>9. \A k : IsBooked(k)' <=> IsBooked(k) BY <1>1, <1>6 DEF IsBooked
<1>10. StoreGrows BY <1>1, <1>2, <1>6, <1>9, StoreFacts DEF StoreGrows
<1>11. ToInv' /\ ChannelInv' BY <1>1, <1>6 DEF StoreInv, ToInv, ChannelInv
<1>12. PendingInv' BY <1>1, <1>6, <1>7 DEF StoreInv, PendingInv, OutboundActiveByFromTo
<1>13. BookedInv'
  <2>1. ~failed => IsBooked(m) BY <1>1 DEF StoreInv, BookedInv
  <2> QED BY <1>6, <1>7, <1>9, <2>1 DEF StoreInv, BookedInv
<1>14. BooksMatchChain'
  <2>1. \A d : Booked(d)' = Booked(d) BY <1>1, <1>6 DEF Booked, Executed
  <2> QED BY <1>1, <1>2, <2>1, BooksStay DEF StoreInv
<1> QED BY <1>8, <1>10, <1>11, <1>12, <1>13, <1>14 DEF StoreInv
-----------------------------------------------------------------------------
(* The requests *)

QueueStates == {"waiting", "cancelling", "cancelled"}

LEMMA QueueKept ==
    ASSUME QueueInv, arrays' = arrays, queue' = queue,
           \A r \in Requests : /\ call[r] \in QueueStates => call'[r] \in QueueStates
                               /\ call'[r] = "waiting" => call[r] = "waiting"
    PROVE  QueueInv'
BY DEF QueueInv, QueueStates

\* The amounts in the queue
LEMMA SumOfSlots ==
    ASSUME TypeOK, QueueInv
    PROVE  LET slots == Slots(queue)
               f == [i \in DOMAIN slots |-> IF IsActive(slots[i]) THEN Amount[slots[i]] ELSE 0]
           IN  /\ IsFiniteSet(DOMAIN slots) /\ DOMAIN slots = 1..queue.len
               /\ \A i \in DOMAIN slots : slots[i] \in Requests /\ Amount[slots[i]] \in Nat
               /\ SumOf(slots) = SumFunctionOnSet(f, DOMAIN slots) /\ SumOf(slots) \in Nat
<1> DEFINE slots == Slots(queue)
           f == [i \in DOMAIN slots |-> IF IsActive(slots[i]) THEN Amount[slots[i]] ELSE 0]
<1>1. slots \in Seq(Requests) /\ Len(slots) = queue.len /\ queue.len \in Nat BY QueueSlots
<1>2. DOMAIN slots = 1..queue.len
  <2> HIDE DEF slots
  <2> QED BY <1>1
<1>3. IsFiniteSet(DOMAIN slots) BY <1>1, <1>2, FS_Interval
<1>4. \A i \in DOMAIN slots : slots[i] \in Requests /\ Amount[slots[i]] \in Nat
  <2> HIDE DEF slots
  <2> QED BY <1>1, <1>2, FundsAssumption
<1>5. DOMAIN f = DOMAIN slots /\ \A i \in DOMAIN slots : f[i] \in Nat BY <1>4
<1>6. SumOf(slots) = SumFunctionOnSet(f, DOMAIN slots) BY <1>5 DEF SumOf, SumFunction
<1>7. SumFunctionOnSet(f, DOMAIN slots) \in Nat
  <2> HIDE DEF f, slots
  <2> QED BY <1>3, <1>5, SumRecursion
<1> QED BY <1>2, <1>3, <1>4, <1>6, <1>7

LEMMA SumOfShrinks ==
    ASSUME TypeOK, QueueInv, arrays' = arrays, queue' = queue, TypeOK', QueueInv',
           \A r \in Requests : IsActive(r)' => IsActive(r)
    PROVE  /\ SumOf(Slots(queue)) \in Nat /\ SumOf(Slots(queue))' \in Nat
           /\ SumOf(Slots(queue))' <= SumOf(Slots(queue))
<1> DEFINE slots == Slots(queue)
           f == [i \in DOMAIN slots |-> IF IsActive(slots[i]) THEN Amount[slots[i]] ELSE 0]
           g == [i \in DOMAIN slots |-> IF IsActive(slots[i])' THEN Amount[slots[i]] ELSE 0]
<1>1. slots' = slots BY DEF Slots
<1>2. /\ IsFiniteSet(DOMAIN slots)
      /\ \A i \in DOMAIN slots : slots[i] \in Requests /\ Amount[slots[i]] \in Nat
      /\ SumOf(slots) = SumFunctionOnSet(f, DOMAIN slots)
  BY SumOfSlots
<1>3. SumOf(slots)' = SumFunctionOnSet(g, DOMAIN slots)
  BY <1>1 DEF SumOf, SumFunction, IsActive
<1>4. ASSUME NEW i \in DOMAIN slots PROVE f[i] \in Nat /\ g[i] \in Nat /\ g[i] <= f[i]
  <2>1. slots[i] \in Requests /\ Amount[slots[i]] \in Nat BY <1>2
  <2>2. IsActive(slots[i])' => IsActive(slots[i])
    <3> HIDE DEF slots
    <3> QED BY <1>1, <2>1
  <2>3. /\ f[i] = IF IsActive(slots[i]) THEN Amount[slots[i]] ELSE 0
        /\ g[i] = IF IsActive(slots[i])' THEN Amount[slots[i]] ELSE 0
    OBVIOUS
  <2> HIDE DEF f, g, slots
  <2> QED BY <2>1, <2>2, <2>3
<1>5. DOMAIN slots \in SUBSET (DOMAIN slots) OBVIOUS
<1>6. SumFunctionOnSet(g, DOMAIN slots) <= SumFunctionOnSet(f, DOMAIN slots)
  <2> HIDE DEF f, g, slots
  <2> QED BY <1>2, <1>4, <1>5, SumLeq
<1>7. SumFunctionOnSet(g, DOMAIN slots) \in Nat /\ SumFunctionOnSet(f, DOMAIN slots) \in Nat
  <2> HIDE DEF f, g, slots
  <2> QED BY <1>2, <1>4, SumRecursion
<1> QED BY <1>2, <1>3, <1>6, <1>7

\* Who gets the answer for the queue
Told == {r \in Range(Slots(queue)) : IsActive(r)}

LEMMA SumOfTold ==
    ASSUME TypeOK, QueueInv
    PROVE  /\ Told \subseteq Requests
           /\ SumFunctionOnSet(Amount, Told) <= SumOf(Slots(queue))
<1> DEFINE slots == Slots(queue)
           f == [i \in DOMAIN slots |-> IF IsActive(slots[i]) THEN Amount[slots[i]] ELSE 0]
           k == [r \in Told |-> CHOOSE i \in DOMAIN slots : slots[i] = r]
<1>1. /\ IsFiniteSet(DOMAIN slots)
      /\ \A i \in DOMAIN slots : slots[i] \in Requests /\ Amount[slots[i]] \in Nat
      /\ SumOf(slots) = SumFunctionOnSet(f, DOMAIN slots)
  BY SumOfSlots
<1>2. \A i \in DOMAIN slots : f[i] \in Nat BY <1>1
<1>3. \A r \in Told : k[r] \in DOMAIN slots /\ slots[k[r]] = r /\ IsActive(r)
  BY DEF Told, Range
<1>4. Told \subseteq Requests BY <1>1, <1>3
<1>5. IsFiniteSet(Told) /\ \A r \in Told : Amount[r] \in Nat
  BY <1>4, FundsAssumption, FS_Subset
<1>6. ASSUME NEW i \in DOMAIN slots
      PROVE  SumFunctionOnSet(Amount, {r \in Told : k[r] = i}) <= f[i]
  <2> HIDE DEF k
  <2> DEFINE part == {r \in Told : k[r] = i}
  <2>1. CASE part = {}
    <3>1. SumFunctionOnSet(Amount, part) = 0 BY <1>5, <2>1, FS_Subset, SumRecursion
    <3>2. f[i] \in Nat BY <1>2
    <3> HIDE DEF part, f
    <3> QED BY <3>1, <3>2 DEF part
  <2>2. CASE part # {}
    <3>1. part = {slots[i]} /\ slots[i] \in Told BY <1>3, <2>2
    <3>2. IsActive(slots[i]) /\ Amount[slots[i]] \in Nat BY <1>3, <1>5, <3>1
    <3>3. f[i] = Amount[slots[i]] BY <3>2
    <3>4. SumFunctionOnSet(Amount, {slots[i]}) = Amount[slots[i]] BY <3>2, SumSingleton
    <3> HIDE DEF f, slots
    <3> QED BY <3>1, <3>2, <3>3, <3>4
  <2> QED BY <2>1, <2>2
<1>7. SumFunctionOnSet(Amount, Told) <= SumFunctionOnSet(f, DOMAIN slots)
  <2> HIDE DEF f, slots, k
  <2>1. \A r \in Told : k[r] \in DOMAIN slots BY <1>3
  <2> QED BY <1>1, <1>2, <1>5, <1>6, <2>1, SumParts
<1> QED BY <1>1, <1>4, <1>7

\* What is worth as much as some ask for is worth as much as a part of them does
LEMMA WorthKept ==
    ASSUME NEW A \in SUBSET Requests, NEW B \in SUBSET A, NEW worth \in Nat,
           SumFunctionOnSet(Amount, A) <= worth
    PROVE  SumFunctionOnSet(Amount, B) <= worth
<1>1. IsFiniteSet(A) /\ IsFiniteSet(B) BY FundsAssumption, FS_Subset
<1>2. \A r \in Requests : Amount[r] \in Nat BY FundsAssumption
<1>3. SumFunctionOnSet(Amount, B) <= SumFunctionOnSet(Amount, A)
  <2>1. \A r \in A : Amount[r] \in Nat BY <1>2
  <2>2. \A r \in B : Amount[r] \in Nat /\ Amount[r] <= Amount[r] BY <1>2
  <2> QED BY <1>1, <2>1, <2>2, SumLeq
<1>4. SumFunctionOnSet(Amount, B) \in Nat /\ SumFunctionOnSet(Amount, A) \in Nat
  BY <1>1, <1>2, SumRecursion
<1> QED BY <1>3, <1>4

\* The types of the requests' state, when no message is taken back
LEMMA TypedStays ==
    ASSUME TypeOK, Len(chain') \in Nat, Len(chain') >= Len(chain),
           ArraysGrow, queue' \in Slice', Fits(queue)', merge' = merge, mcid' = mcid,
           call' \in [Requests -> CallStates], spawned' \in Nat, crashed' \in BOOLEAN,
           step' \in [at : {"idle", "filtered", "merged"}, amt : Nat]
    PROVE  RequestsTyped'
<1>1. mcid' \in [Requests -> 0..Len(chain')]
  <2>1. mcid \in [Requests -> 0..Len(chain)] /\ Len(chain) \in Nat BY DEF TypeOK
  <2>2. \A i \in 0..Len(chain) : i \in 0..Len(chain') BY <2>1
  <2> QED BY <2>1, <2>2
<1>2. merge \in [Requests -> Slice] /\ \A r \in Requests : Fits(merge[r]) BY DEF TypeOK
<1>3. \A r \in Requests : /\ merge[r] \in [array : 0..Len(arrays'), len : Nat]
                          /\ merge[r].len <= IF merge[r].array = 0 THEN 0
                                             ELSE Len(arrays'[merge[r].array])
  BY <1>2, SliceGrows
<1>4. merge' \in [Requests -> Slice'] BY <1>2, <1>3 DEF Slice
<1>5. \A r \in Requests : Fits(merge[r])' BY <1>3 DEF Fits
<1> QED BY <1>1, <1>4, <1>5 DEF RequestsTyped, ArraysGrow

LEMMA ArraysSame ==
    ASSUME TypeOK, arrays' = arrays, queue' = queue
    PROVE  ArraysGrow /\ queue' \in Slice' /\ Fits(queue)'
BY DEF TypeOK, ArraysGrow, Slice, Fits

\* The answers, while nobody else gets one
LEMMA AnswersStay ==
    ASSUME CallInv, StoreTyped, StoreGrows, mcid' = mcid, DOMAIN messages' = DOMAIN messages,
           \A r \in Requests :
              /\ call'[r] \in {"reading", "ready"}
                    => call[r] \in {"reading", "ready"} \/ IsBooked(mcid[r])'
              /\ call'[r] \in {"answered", "checking", "listening"}
                    => call[r] \in {"answered", "checking", "listening"}
    PROVE  AnsweredInv' /\ MessageWorth'
<1>1. ASSUME NEW r \in Requests, call'[r] \in {"reading", "ready"}
      PROVE  IsBooked(mcid[r])'
  <2>1. CASE call[r] \in {"reading", "ready"}
    <3>1. IsBooked(mcid[r]) BY <2>1 DEF CallInv, AnsweredInv
    <3> DEFINE m == mcid[r]
    <3>2. m \in DOMAIN messages BY <3>1 DEF IsBooked
    <3>3. mcid'[r] = mcid[r] OBVIOUS
    <3> QED BY <3>1, <3>2, <3>3 DEF StoreGrows, IsBooked
  <2> QED BY <1>1, <2>1
<1>2. \A r \in Requests : call'[r] \in {"answered", "checking", "listening"}
                              => mcid[r] \in DOMAIN messages'
  BY DEF CallInv, AnsweredInv
<1>3. \A m \in DOMAIN messages : chain'[m].amt = chain[m].amt
  BY StoreFacts DEF StoreGrows
<1>4. MessageWorth' BY <1>3 DEF CallInv, MessageWorth
<1> QED BY <1>1, <1>2, <1>4 DEF AnsweredInv

\* A caller moves, or nobody does
LEMMA CallersMove ==
    ASSUME StoreInv, CallInv, StoreTyped', StoreGrows,
           UNCHANGED <<mcid, merge, arrays, queue, step>>, DOMAIN messages' = DOMAIN messages,
           call' \in [Requests -> CallStates], spawned' \in Nat, crashed' \in BOOLEAN,
           \A r \in Requests :
              /\ call[r] \in QueueStates => call'[r] \in QueueStates
              /\ call'[r] = "waiting" => call[r] = "waiting"
              /\ IsActive(r)' => IsActive(r)
              /\ call'[r] \in {"reading", "ready"}
                    => call[r] \in {"reading", "ready"} \/ IsBooked(mcid[r])'
              /\ call'[r] \in {"answered", "checking", "listening"}
                    => call[r] \in {"answered", "checking", "listening"}
    PROVE  CallInv'
<1>1. TypeOK /\ QueueInv BY TypeParts DEF StoreInv, CallInv
<1>2. QueueInv' BY <1>1, QueueKept
<1>3. RequestsTyped'
  <2>1. Len(chain') \in Nat BY StoreFacts DEF StoreTyped
  <2>2. step' \in [at : {"idle", "filtered", "merged"}, amt : Nat] BY <1>1 DEF TypeOK
  <2> QED BY <1>1, <2>1, <2>2, ArraysSame, TypedStays DEF StoreGrows
<1>4. TypeOK' BY <1>3 DEF TypeOK, StoreTyped, RequestsTyped, ChainMsg
<1>5. /\ SumOf(Slots(queue)) \in Nat /\ SumOf(Slots(queue))' \in Nat
      /\ SumOf(Slots(queue))' <= SumOf(Slots(queue))
  BY <1>1, <1>2, <1>4, SumOfShrinks
<1>6. QueueWorth'
  <2>1. step.amt \in Nat BY <1>1 DEF TypeOK
  <2> QED BY <1>5, <2>1 DEF CallInv, QueueWorth
<1>7. AnsweredInv' /\ MessageWorth' BY AnswersStay DEF StoreInv
<1> QED BY <1>2, <1>3, <1>6, <1>7 DEF CallInv

\* No request moves
LEMMA CallersStand ==
    ASSUME StoreInv, CallInv, StoreTyped', StoreGrows,
           UNCHANGED <<requestVars, step, crashed>>, DOMAIN messages' = DOMAIN messages
    PROVE  CallInv'
<1>1. UNCHANGED <<call, mcid, merge, arrays, queue, spawned, step, crashed>> BY DEF requestVars
<1>2. call' \in [Requests -> CallStates] /\ spawned' \in Nat /\ crashed' \in BOOLEAN
  BY <1>1 DEF CallInv, RequestsTyped
<1>3. \A r \in Requests : IsActive(r)' => IsActive(r) BY <1>1 DEF IsActive
<1> QED BY <1>1, <1>2, <1>3, CallersMove

LEMMA MessagesSame ==
    ASSUME StoreInv, CallInv, StoreInv', StoreGrows,
           UNCHANGED <<requestVars, step, messages, crashed>>
    PROVE  CallInv'
<1>1. UNCHANGED <<requestVars, step, crashed>> /\ messages' = messages OBVIOUS
<1>2. StoreTyped' BY DEF StoreInv
<1> QED BY <1>1, <1>2, CallersStand

LEMMA ExecuteKeeps ==
    ASSUME FundsInv, NEW m \in DOMAIN chain, Execute(m)
    PROVE  FundsInv'
<1>1. StoreInv' /\ StoreGrows BY ExecuteStore DEF FundsInv
<1>2. UNCHANGED <<requestVars, step, messages, crashed>> BY DEF Execute, storeVars
<1> QED BY <1>1, <1>2, MessagesSame DEF FundsInv

LEMMA WaitFailsKeeps ==
    ASSUME FundsInv, NEW m \in DOMAIN waits, WaitFails(m)
    PROVE  FundsInv'
<1>1. StoreInv' /\ StoreGrows BY WaitFailsStore DEF FundsInv
<1>2. UNCHANGED <<requestVars, step, messages, crashed>> BY DEF WaitFails, storeVars
<1> QED BY <1>1, <1>2, MessagesSame DEF FundsInv

LEMMA ApplyReceiptKeeps ==
    ASSUME FundsInv, NEW m \in DOMAIN waits, ApplyReceipt(m)
    PROVE  FundsInv'
<1>1. StoreInv' /\ StoreGrows BY ApplyReceiptStore DEF FundsInv
<1>2. UNCHANGED <<requestVars, step, messages, crashed>> BY DEF ApplyReceipt
<1> QED BY <1>1, <1>2, MessagesSame DEF FundsInv

LEMMA SettleKeeps ==
    ASSUME FundsInv, NEW c \in DOMAIN channels, Settle(c)
    PROVE  FundsInv'
<1>1. StoreInv' /\ StoreGrows BY SettleStore DEF FundsInv
<1>2. UNCHANGED <<requestVars, step, messages, crashed>> BY DEF Settle
<1> QED BY <1>1, <1>2, MessagesSame DEF FundsInv

\* A caller goes from one of its states to another, and the store stands still
LEMMA MoveKeeps ==
    ASSUME FundsInv, NEW r \in Requests, NEW to \in CallStates, NEW from, call[r] = from,
           call' = [call EXCEPT ![r] = to], crashed' \in BOOLEAN,
           UNCHANGED <<mcid, merge, arrays, queue, spawned, step, chain, storeVars, waits>>,
           \/ <<from, to>> \in {<<"waiting", "cancelling">>, <<"cancelling", "cancelled">>}
           \/ /\ from \in {"answered", "checking", "listening", "reading"}
              /\ \/ to = "notReady"
                 \/ from \in {"answered", "checking"} /\ to \in {"checking", "listening"}
                 \/ to \in {"reading", "ready"} /\ IsBooked(mcid[r])
    PROVE  FundsInv'
<1>1. StoreInv' /\ StoreGrows BY StoreSame DEF FundsInv
<1>2. /\ call \in [Requests -> CallStates] /\ call' \in [Requests -> CallStates]
      /\ call'[r] = to /\ \A q \in Requests : q # r => call'[q] = call[q]
  BY DEF FundsInv, CallInv, RequestsTyped
<1>3. spawned' \in Nat /\ DOMAIN messages' = DOMAIN messages
  BY DEF FundsInv, CallInv, RequestsTyped, storeVars
<1>4. IsBooked(mcid[r])' <=> IsBooked(mcid[r]) BY DEF IsBooked, storeVars
<1>5. ASSUME NEW q \in Requests
      PROVE  /\ call[q] \in QueueStates => call'[q] \in QueueStates
             /\ call'[q] = "waiting" => call[q] = "waiting"
             /\ IsActive(q)' => IsActive(q)
             /\ call'[q] \in {"reading", "ready"}
                   => call[q] \in {"reading", "ready"} \/ IsBooked(mcid[q])'
             /\ call'[q] \in {"answered", "checking", "listening"}
                   => call[q] \in {"answered", "checking", "listening"}
  <2>1. CASE q # r BY <1>2, <2>1 DEF IsActive
  <2>2. CASE q = r
    <3>1. CASE <<from, to>> \in {<<"waiting", "cancelling">>, <<"cancelling", "cancelled">>}
      BY <1>2, <2>2, <3>1 DEF IsActive, QueueStates
    <3>2. CASE /\ from \in {"answered", "checking", "listening", "reading"}
               /\ \/ to = "notReady"
                  \/ from \in {"answered", "checking"} /\ to \in {"checking", "listening"}
                  \/ to \in {"reading", "ready"} /\ IsBooked(mcid[r])
      BY <1>2, <1>4, <2>2, <3>2 DEF IsActive, QueueStates
    <3> QED BY <3>1, <3>2
  <2> QED BY <2>1, <2>2
<1>6. StoreTyped' BY <1>1 DEF StoreInv
<1>7. CallInv' BY <1>1, <1>2, <1>3, <1>5, <1>6, CallersMove DEF FundsInv
<1> QED BY <1>1, <1>7 DEF FundsInv

\* What holds of a caller that was answered
LEMMA CallerKeeps ==
    ASSUME FundsInv, NEW r \in Requests,
           \/ Cancel(r) \/ CheckActive(r) \/ WaitReady(r) \/ CheckMessage(r)
           \/ ReadChannel(r) \/ GiveUp(r)
    PROVE  FundsInv'
<1> USE DEF CallStates
<1>1. call[r] \in CallStates /\ crashed \in BOOLEAN BY DEF FundsInv, CallInv, RequestsTyped
<1>2. CASE Cancel(r)
  <2>1. /\ call[r] = "waiting" /\ call' = [call EXCEPT ![r] = "cancelling"]
        /\ UNCHANGED <<mcid, merge, arrays, queue, spawned, step, chain, storeVars, waits>>
        /\ crashed' = crashed
    BY <1>2 DEF Cancel
  <2> QED BY <1>1, <2>1, MoveKeeps
<1>3. CASE CheckActive(r)
  <2>1. /\ call[r] = "cancelling" /\ call' = [call EXCEPT ![r] = "cancelled"]
        /\ UNCHANGED <<mcid, merge, arrays, queue, spawned, step, chain, storeVars, waits>>
        /\ crashed' \in BOOLEAN
    BY <1>3 DEF CheckActive
  <2> QED BY <2>1, MoveKeeps
<1>4. CASE WaitReady(r)
  <2>1. PICK to \in {"notReady", "checking"} :
           /\ call[r] = "answered" /\ call' = [call EXCEPT ![r] = to] /\ crashed' = crashed
           /\ UNCHANGED <<mcid, merge, arrays, queue, spawned, step, chain, storeVars, waits>>
    BY <1>4 DEF WaitReady, Move
  <2>2. crashed' \in BOOLEAN /\ to \in CallStates BY <1>1, <2>1
  <2> QED BY <2>1, <2>2, MoveKeeps
<1>5. CASE CheckMessage(r)
  <2> DEFINE info == messages[mcid[r]]
             to == CASE info.err -> "notReady"
                     [] info.received /\ ~info.err -> "reading"
                     [] OTHER -> "listening"
  <2>1. /\ call[r] = "checking" /\ call' = [call EXCEPT ![r] = to] /\ crashed' = crashed
        /\ UNCHANGED <<mcid, merge, arrays, queue, spawned, step, chain, storeVars, waits>>
    BY <1>5 DEF CheckMessage, Move
  <2>2. mcid[r] \in DOMAIN messages BY <2>1 DEF FundsInv, CallInv, AnsweredInv
  <2>3. info \in MsgInfo BY <2>2 DEF FundsInv, StoreInv, StoreTyped
  <2>4. to \in {"notReady", "reading", "listening"} /\ (to = "reading" => info.received /\ ~info.err)
    BY <2>3 DEF MsgInfo
  <2>5. to = "reading" => IsBooked(mcid[r])
    BY <2>2, <2>4 DEF FundsInv, StoreInv, BookedInv
  <2>6. crashed' \in BOOLEAN BY <1>1, <2>1
  <2> HIDE DEF to
  <2> QED BY <2>1, <2>4, <2>5, <2>6, MoveKeeps
<1>6. CASE ReadChannel(r)
  <2>1. PICK to \in {"notReady", "ready"} :
           /\ call[r] = "reading" /\ call' = [call EXCEPT ![r] = to] /\ crashed' \in BOOLEAN
           /\ UNCHANGED <<mcid, merge, arrays, queue, spawned, step, chain, storeVars, waits>>
    BY <1>6 DEF ReadChannel, Move
  <2>2. to \in CallStates /\ IsBooked(mcid[r]) BY <2>1 DEF FundsInv, CallInv, AnsweredInv
  <2> QED BY <2>1, <2>2, MoveKeeps
<1>7. CASE GiveUp(r)
  <2>1. /\ call[r] = "listening" /\ call' = [call EXCEPT ![r] = "notReady"]
        /\ UNCHANGED <<mcid, merge, arrays, queue, spawned, step, chain, storeVars, waits>>
        /\ crashed' = crashed
    BY <1>7 DEF GiveUp, Move
  <2> QED BY <1>1, <2>1, MoveKeeps
<1> QED BY <1>2, <1>3, <1>4, <1>5, <1>6, <1>7

\* The listeners of a message are woken
LEMMA MsgWaitCompleteKeeps ==
    ASSUME FundsInv, NEW m \in DOMAIN waits, MsgWaitComplete(m)
    PROVE  FundsInv'
<1> DEFINE failed == waits[m] = "err"
<1>1. StoreInv' /\ StoreGrows BY CompleteStore DEF FundsInv
<1>2. /\ waits[m] \in {"ok", "err"} /\ call' = Wake(m, failed)
      /\ messages' = [messages EXCEPT ![m].received = TRUE, ![m].err = failed]
      /\ spawned' \in {spawned, spawned + 1}
      /\ UNCHANGED <<mcid, merge, arrays, queue, step, chain, channels, crashed>>
  BY DEF MsgWaitComplete, SaveMessageResult
<1>3. failed \/ IsBooked(m) BY <1>2 DEF FundsInv, StoreInv, BookedInv
<1>4. m \in DOMAIN messages /\ DOMAIN messages' = DOMAIN messages
  BY <1>2, StoreFacts DEF FundsInv, StoreInv
<1>5. failed \/ IsBooked(m)' BY <1>1, <1>3, <1>4 DEF StoreGrows
<1>6. call \in [Requests -> CallStates] /\ spawned \in Nat /\ crashed \in BOOLEAN
  BY DEF FundsInv, CallInv, RequestsTyped
<1> HIDE DEF failed
<1>7. \A r \in Requests :
         \/ call'[r] = call[r]
         \/ /\ call[r] = "listening" /\ mcid[r] = m
            /\ call'[r] = IF failed THEN "notReady" ELSE "reading"
  BY <1>2 DEF Wake
<1>8. call' \in [Requests -> CallStates]
  <2>1. \A r \in Requests : call'[r] \in CallStates BY <1>6, <1>7 DEF CallStates
  <2> QED BY <1>2, <2>1 DEF Wake
<1>9. ASSUME NEW r \in Requests
      PROVE  /\ call[r] \in QueueStates => call'[r] \in QueueStates
             /\ call'[r] = "waiting" => call[r] = "waiting"
             /\ IsActive(r)' => IsActive(r)
             /\ call'[r] \in {"reading", "ready"}
                   => call[r] \in {"reading", "ready"} \/ IsBooked(mcid[r])'
             /\ call'[r] \in {"answered", "checking", "listening"}
                   => call[r] \in {"answered", "checking", "listening"}
  <2>1. CASE call'[r] = call[r] BY <2>1 DEF IsActive
  <2>2. CASE /\ call[r] = "listening" /\ mcid[r] = m
             /\ call'[r] = IF failed THEN "notReady" ELSE "reading"
    <3>1. mcid'[r] = m BY <1>2, <2>2
    <3>2. failed \/ IsBooked(mcid[r])' BY <1>5, <3>1 DEF IsBooked
    <3> QED BY <2>2, <3>2 DEF IsActive, QueueStates
  <2> QED BY <1>7, <2>1, <2>2
<1>10. StoreTyped' /\ spawned' \in Nat /\ crashed' \in BOOLEAN BY <1>1, <1>2, <1>6 DEF StoreInv
<1>11. CallInv' BY <1>1, <1>2, <1>4, <1>8, <1>9, <1>10, CallersMove DEF FundsInv
<1> QED BY <1>1, <1>11 DEF FundsInv

\* A new request
LEMMA GetPaychKeeps ==
    ASSUME FundsInv, NEW r \in Requests, GetPaych(r)
    PROVE  FundsInv'
<1>1. /\ Locked /\ call[r] = "new" /\ call' = [call EXCEPT ![r] = "waiting"]
      /\ AppendSlice(queue, r) /\ spawned' = spawned + 1
      /\ UNCHANGED <<mcid, merge, step, chain, storeVars, waits, crashed>>
  BY DEF GetPaych
<1>2. StoreInv' /\ StoreGrows BY <1>1, StoreSame DEF FundsInv
<1>3. TypeOK /\ QueueInv /\ StoreTyped BY TypeParts DEF FundsInv, StoreInv, CallInv
<1>4. ArraysGrow /\ queue' \in Slice' /\ Fits(queue)' /\ QueueInv' BY <1>1, <1>3, AppendKeeps
<1>5. RequestsTyped'
  <2>1. call' \in [Requests -> CallStates] BY <1>1, <1>3 DEF TypeOK, CallStates
  <2>2. /\ spawned' \in Nat /\ crashed' \in BOOLEAN
        /\ step' \in [at : {"idle", "filtered", "merged"}, amt : Nat]
    BY <1>1, <1>3 DEF TypeOK
  <2>3. Len(chain') \in Nat /\ Len(chain') >= Len(chain) BY <1>1, <1>3, StoreFacts
  <2> QED BY <1>1, <1>3, <1>4, <2>1, <2>2, <2>3, TypedStays
<1>6. QueueWorth' BY <1>1 DEF QueueWorth, Locked, Idle
<1>7. AnsweredInv' /\ MessageWorth'
  <2>1. \A q \in Requests : call'[q] # "waiting" => call'[q] = call[q] BY <1>1, <1>3 DEF TypeOK
  <2>2. mcid' = mcid /\ DOMAIN messages' = DOMAIN messages BY <1>1 DEF storeVars
  <2> QED BY <1>2, <1>3, <2>1, <2>2, AnswersStay DEF FundsInv
<1> QED BY <1>2, <1>4, <1>5, <1>6, <1>7 DEF FundsInv, CallInv

\* The queue is filtered
LEMMA StartKeeps ==
    ASSUME FundsInv, StartProcessing, spawned' \in Nat
    PROVE  FundsInv'
<1>1. /\ FilterQueue /\ step' = [Idle EXCEPT !.at = IF queue'.len = 0 THEN "idle" ELSE "filtered"]
      /\ UNCHANGED <<call, mcid, merge, chain, storeVars, waits, crashed>>
  BY DEF StartProcessing
<1>2. StoreInv' /\ StoreGrows BY <1>1, StoreSame DEF FundsInv
<1>3. TypeOK /\ QueueInv /\ StoreTyped BY TypeParts DEF FundsInv, StoreInv, CallInv
<1>4. ArraysGrow /\ queue' \in Slice' /\ Fits(queue)' /\ QueueInv' BY <1>1, <1>3, FilterQueueKeeps
<1>5. step' \in [at : {"idle", "filtered", "merged"}, amt : Nat] /\ step'.at # "merged"
  BY <1>1 DEF Idle
<1>6. RequestsTyped'
  <2>1. call' \in [Requests -> CallStates] /\ crashed' \in BOOLEAN BY <1>1, <1>3 DEF TypeOK
  <2>2. Len(chain') \in Nat /\ Len(chain') >= Len(chain) BY <1>1, <1>3, StoreFacts
  <2> QED BY <1>1, <1>3, <1>4, <1>5, <2>1, <2>2, TypedStays
<1>7. QueueWorth' BY <1>5 DEF QueueWorth
<1>8. AnsweredInv' /\ MessageWorth'
  <2>1. mcid' = mcid /\ DOMAIN messages' = DOMAIN messages BY <1>1 DEF storeVars
  <2> QED BY <1>1, <1>2, <1>3, <2>1, AnswersStay DEF FundsInv
<1> QED BY <1>2, <1>4, <1>6, <1>7, <1>8 DEF FundsInv, CallInv

LEMMA SumOfSame ==
    ASSUME call' = call, arrays' = arrays, queue' = queue
    PROVE  SumOf(Slots(queue))' = SumOf(Slots(queue))
<1>1. Slots(queue)' = Slots(queue) BY DEF Slots
<1> QED BY <1>1 DEF SumOf, SumFunction, IsActive

\* The active requests become one task
LEMMA MergeKeeps ==
    ASSUME FundsInv, Merge
    PROVE  FundsInv'
<1> DEFINE amt == SumOf(Slots(queue))
<1>1. /\ step' = IF amt = 0 THEN Idle ELSE [at |-> "merged", amt |-> amt]
      /\ UNCHANGED <<call, mcid, arrays, queue, spawned, chain, storeVars, waits, crashed>>
      /\ merge' = [r \in Requests |->
                     IF call[r] = "waiting" /\ r \in Range(Slots(queue)) THEN queue ELSE merge[r]]
  BY DEF Merge
<1>2. StoreInv' /\ StoreGrows BY <1>1, StoreSame DEF FundsInv
<1>3. TypeOK /\ QueueInv /\ StoreTyped BY TypeParts DEF FundsInv, StoreInv, CallInv
<1>4. amt \in Nat BY <1>3, SumOfSlots
<1>5. amt' = amt BY <1>1, SumOfSame
<1>6. /\ step' \in [at : {"idle", "filtered", "merged"}, amt : Nat]
      /\ step'.at = "merged" => step'.amt = amt
  <2> HIDE DEF amt
  <2> QED BY <1>1, <1>4 DEF Idle
<1>7. QueueWorth'
  <2>1. SumOf(Slots(queue))' = amt BY <1>5
  <2> HIDE DEF amt
  <2> QED BY <1>4, <1>6, <2>1 DEF QueueWorth
<1>8. RequestsTyped'
  <2>1. \A r \in Requests : merge'[r] \in Slice /\ Fits(merge'[r])
    BY <1>1, <1>3 DEF TypeOK
  <2>2. Slice' = Slice BY <1>1 DEF Slice
  <2>3. merge' \in [Requests -> Slice'] BY <1>1, <2>1, <2>2
  <2>4. \A r \in Requests : Fits(merge[r])' BY <1>1, <2>1 DEF Fits
  <2>5. queue' \in Slice' /\ Fits(queue)' BY <1>1, <1>3, ArraysSame
  <2> QED BY <1>1, <1>3, <1>6, <2>3, <2>4, <2>5 DEF TypeOK, RequestsTyped
<1>9. QueueInv' BY <1>1, <1>3, QueueKept
<1>10. AnsweredInv' /\ MessageWorth'
  <2>1. mcid' = mcid /\ DOMAIN messages' = DOMAIN messages BY <1>1 DEF storeVars
  <2> QED BY <1>1, <1>2, <1>3, <2>1, AnswersStay DEF FundsInv
<1> QED BY <1>2, <1>7, <1>8, <1>9, <1>10 DEF FundsInv, CallInv

\* Every active request of the queue is answered, with a message that is new
\* and worth what the queue asked for, or with an error
LEMMA CompleteKeeps ==
    ASSUME FundsInv, StoreInv', StoreGrows, step.at = "merged", step' = Idle,
           UNCHANGED <<merge, arrays, spawned, crashed>>, NEW answer, NEW m, Complete(answer, m),
           \/ answer = "refused" /\ m = 0 /\ DOMAIN messages' = DOMAIN messages
           \/ /\ answer = "answered" /\ m = Len(chain) + 1 /\ m \in DOMAIN chain'
              /\ chain'[m].amt = step.amt /\ DOMAIN messages' = DOMAIN messages \cup {m}
    PROVE  CallInv'
<1>1. /\ call' = [r \in Requests |-> IF r \in Told THEN answer ELSE call[r]]
      /\ mcid' = [r \in Requests |-> IF r \in Told THEN m ELSE mcid[r]]
      /\ queue' = NilSlice
  BY DEF Complete, Told
<1>2. TypeOK /\ QueueInv /\ StoreTyped BY TypeParts DEF FundsInv, StoreInv, CallInv
<1>3. /\ StoreTyped' /\ Len(chain) \in Nat /\ Len(chain') \in Nat /\ Len(chain') >= Len(chain)
      /\ DOMAIN chain' = 1..Len(chain')
  BY <1>2 DEF StoreInv, StoreTyped, StoreGrows
<1>4. DOMAIN messages \subseteq 1..Len(chain) BY <1>2, StoreFacts
<1>5. Told \subseteq Requests /\ SumFunctionOnSet(Amount, Told) <= SumOf(Slots(queue))
  BY <1>2, SumOfTold
<1>6. RequestsTyped'
  <2>1. call' \in [Requests -> CallStates] BY <1>1, <1>2 DEF TypeOK, CallStates
  <2>2. mcid' \in [Requests -> 0..Len(chain')]
    <3>1. m \in 0..Len(chain') BY <1>3
    <3>2. \A r \in Requests : mcid[r] \in 0..Len(chain') BY <1>2, <1>3 DEF TypeOK
    <3> QED BY <1>1, <3>1, <3>2
  <2>3. queue' \in Slice' /\ Fits(queue)'
    <3>1. Len(arrays') \in Nat BY <1>2 DEF TypeOK
    <3> QED BY <1>1, <3>1 DEF Slice, Fits, NilSlice
  <2>4. merge' \in [Requests -> Slice'] /\ \A r \in Requests : Fits(merge[r])'
    BY <1>2 DEF TypeOK, Slice, Fits
  <2> QED BY <1>2, <2>1, <2>2, <2>3, <2>4 DEF TypeOK, RequestsTyped, Idle
<1>7. QueueInv'
  <2>1. queue'.len = 0 BY <1>1 DEF NilSlice
  <2>2. \A r \in Requests : call'[r] # "waiting"
    <3>1. SUFFICES ASSUME NEW r \in Requests, call[r] = "waiting" PROVE r \in Told
      BY <1>1
    <3>2. PICK i \in 1..queue.len : r = arrays[queue.array][i] BY <1>2, <3>1 DEF QueueInv
    <3>3. r = Slots(queue)[i] /\ i \in DOMAIN Slots(queue)
      <4>1. Slots(queue) \in Seq(Requests) /\ Len(Slots(queue)) = queue.len BY <1>2, QueueSlots
      <4>2. Slots(queue)[i] = arrays[queue.array][i] BY <1>2, QueueSlots
      <4> QED BY <3>2, <4>1, <4>2
    <3> QED BY <3>1, <3>3 DEF Told, Range, IsActive
  <2> QED BY <2>1, <2>2 DEF QueueInv
<1>8. QueueWorth' BY DEF QueueWorth, Idle
<1>9. AnsweredInv'
  <2>1. ASSUME NEW r \in Requests, call'[r] \in {"reading", "ready"}
        PROVE  IsBooked(mcid[r])'
    <3>1. mcid'[r] = mcid[r] /\ IsBooked(mcid[r]) BY <1>1, <2>1 DEF FundsInv, CallInv, AnsweredInv
    <3> DEFINE k == mcid[r]
    <3>2. k \in DOMAIN messages BY <3>1 DEF IsBooked
    <3> QED BY <3>1, <3>2 DEF StoreGrows, IsBooked
  <2>2. \A r \in Requests : call'[r] \in {"answered", "checking", "listening"}
                                => mcid'[r] \in DOMAIN messages'
    BY <1>1 DEF FundsInv, CallInv, AnsweredInv
  <2> QED BY <2>1, <2>2 DEF AnsweredInv
<1>10. MessageWorth'
  <2>1. ASSUME NEW k \in DOMAIN messages
        PROVE  SumFunctionOnSet(Amount, {r \in Requests : mcid'[r] = k}) <= chain'[k].amt
    <3>1. k \in DOMAIN chain /\ k # m BY <1>2, <1>3, <1>4, StoreFacts
    <3>2. chain[k].amt \in Nat /\ chain'[k].amt = chain[k].amt
      BY <1>2, <3>1, BookedFinite DEF StoreGrows
    <3>3. \A r \in Requests : mcid'[r] = k => mcid[r] = k BY <1>1, <3>1
    <3>4. SumFunctionOnSet(Amount, {r \in Requests : mcid[r] = k}) <= chain[k].amt
      BY DEF FundsInv, CallInv, MessageWorth
    <3> DEFINE A == {r \in Requests : mcid[r] = k}
               B == {r \in Requests : mcid'[r] = k}
               worth == chain[k].amt
    <3>5. SumFunctionOnSet(Amount, B) <= worth
      <4>1. A \in SUBSET Requests /\ B \in SUBSET A BY <3>3
      <4>2. SumFunctionOnSet(Amount, A) <= worth /\ worth \in Nat BY <3>2, <3>4
      <4> HIDE DEF A, B, worth
      <4> QED BY <4>1, <4>2, WorthKept
    <3> QED BY <3>2, <3>5
  <2>2. ASSUME answer = "answered", m = Len(chain) + 1, chain'[m].amt = step.amt
        PROVE  SumFunctionOnSet(Amount, {r \in Requests : mcid'[r] = m}) <= chain'[m].amt
    <3>1. {r \in Requests : mcid'[r] = m} = Told
      <4>1. \A r \in Requests : mcid[r] # m BY <1>2, <1>3, <2>2 DEF TypeOK
      <4> QED BY <1>1, <1>5, <4>1
    <3>2. /\ SumFunctionOnSet(Amount, Told) \in Nat
          /\ SumOf(Slots(queue)) \in Nat /\ step.amt \in Nat
      <4>1. IsFiniteSet(Told) /\ \A r \in Told : Amount[r] \in Nat
        BY <1>5, FundsAssumption, FS_Subset
      <4> QED BY <1>2, <4>1, SumRecursion, SumOfSlots DEF TypeOK
    <3>3. SumOf(Slots(queue)) <= step.amt BY DEF FundsInv, CallInv, QueueWorth
    <3> DEFINE worth == SumFunctionOnSet(Amount, Told)
    <3>4. worth <= step.amt
      <4>1. worth \in Nat /\ worth <= SumOf(Slots(queue)) BY <1>5, <3>2
      <4> HIDE DEF worth
      <4> QED BY <3>2, <3>3, <4>1
    <3>5. SumFunctionOnSet(Amount, {r \in Requests : mcid'[r] = m}) = worth BY <3>1
    <3> QED BY <2>2, <3>4, <3>5
  <2> QED BY <2>1, <2>2 DEF MessageWorth
<1> QED BY <1>6, <1>7, <1>8, <1>9, <1>10 DEF CallInv

LEMMA PushFailsKeeps ==
    ASSUME FundsInv, NEW to \in 1..(Len(chain) + 1), step.at = "merged", PushFails(to), step' = Idle,
           UNCHANGED <<merge, arrays, spawned, crashed>>
    PROVE  FundsInv'
<1>1. step.amt \in Nat BY DEF FundsInv, CallInv, RequestsTyped
<1>2. UNCHANGED <<storeVars, waits>> /\ Complete("refused", 0) BY DEF PushFails
<1>3. StoreInv' /\ StoreGrows
  <2>1. CASE Pushed(to) BY <1>1, <1>2, <2>1, PushLost DEF FundsInv
  <2>2. CASE UNCHANGED chain BY <1>2, <2>2, StoreSame DEF FundsInv
  <2> QED BY <2>1, <2>2 DEF PushFails
<1>4. DOMAIN messages' = DOMAIN messages BY <1>2 DEF storeVars
<1>5. CallInv' BY <1>2, <1>3, <1>4, CompleteKeeps
<1> QED BY <1>3, <1>5 DEF FundsInv

\* A message is pushed and answers the queue
LEMMA PushKeeps ==
    ASSUME FundsInv, NEW c \in Nat, step.at = "merged", Pushed(c), step' = Idle,
           UNCHANGED <<merge, arrays, spawned, crashed>>,
           NEW ci \in ChannelInfo, channels' = With(channels, c, ci),
           ci.pendingMsg = Len(chain) + 1, ci.pendingAmount = step.amt,
           SaveNewMessage(c, Len(chain) + 1), waits' = With(waits, Len(chain) + 1, "waiting"),
           Complete("answered", Len(chain) + 1),
           \/ /\ c = Len(chain) + 1 /\ OutboundActiveByFromTo = {}
              /\ ~ci.address /\ ci.amount = 0
           \/ /\ c \in OutboundActiveByFromTo /\ channels[c].pendingMsg = 0
              /\ ci.address = channels[c].address /\ ci.amount = channels[c].amount
              /\ ~ci.settling
    PROVE  FundsInv'
<1>1. step.amt \in Nat /\ StoreInv /\ StoreTyped BY DEF FundsInv, CallInv, RequestsTyped, StoreInv
<1>2. StoreInv' /\ StoreGrows BY <1>1, PushKept
<1>3. /\ Len(chain) + 1 \in DOMAIN chain' /\ chain'[Len(chain) + 1].amt = step.amt
  BY <1>1, PushedFacts
<1>4. DOMAIN messages' = DOMAIN messages \cup {Len(chain) + 1} BY DEF SaveNewMessage, With
<1>5. CallInv' BY <1>2, <1>3, <1>4, CompleteKeeps
<1> QED BY <1>2, <1>5 DEF FundsInv

LEMMA CreatePaychKeeps ==
    ASSUME FundsInv, OutboundActiveByFromTo = {}, step.at = "merged", CreatePaych, step' = Idle,
           UNCHANGED <<merge, arrays, spawned, crashed>>
    PROVE  FundsInv'
<1> DEFINE m == Len(chain) + 1
           ci == [address |-> FALSE, amount |-> 0, pendingAmount |-> step.amt,
                  pendingMsg |-> m, settling |-> FALSE]
<1>1. m \in Nat /\ m \in 1..m /\ step.amt \in Nat
  BY DEF FundsInv, StoreInv, StoreTyped, CallInv, RequestsTyped
<1>2. CASE PushFails(m) BY <1>1, <1>2, PushFailsKeeps
<1>3. CASE /\ Pushed(m) /\ CreateChannel(m, step.amt) /\ SaveNewMessage(m, m)
           /\ waits' = With(waits, m, "waiting") /\ Complete("answered", m)
  <2>1. /\ ci \in ChannelInfo /\ ci.pendingMsg = m /\ ci.pendingAmount = step.amt
        /\ ~ci.address /\ ci.amount = 0
    BY <1>1 DEF ChannelInfo
  <2>2. channels' = With(channels, m, ci) BY <1>3 DEF CreateChannel
  <2> HIDE DEF ci
  <2> QED BY <1>1, <1>3, <2>1, <2>2, PushKeeps
<1> QED BY <1>2, <1>3 DEF CreatePaych

LEMMA AddFundsKeeps ==
    ASSUME FundsInv, NEW c \in OutboundActiveByFromTo, channels[c].pendingMsg = 0,
           step.at = "merged", AddFunds(c), step' = Idle,
           UNCHANGED <<merge, arrays, spawned, crashed>>
    PROVE  FundsInv'
<1> DEFINE m == Len(chain) + 1
           ci == [channels[c] EXCEPT !.pendingAmount = step.amt, !.pendingMsg = m]
<1>1. /\ m \in Nat /\ step.amt \in Nat /\ c \in DOMAIN channels /\ ~channels[c].settling
      /\ c \in 1..Len(chain) /\ channels[c] \in ChannelInfo
  BY StoreFacts DEF FundsInv, StoreInv, StoreTyped, CallInv, RequestsTyped, OutboundActiveByFromTo
<1>2. c \in Nat /\ c \in 1..m BY <1>1
<1>3. CASE PushFails(c) BY <1>2, <1>3, PushFailsKeeps
<1>4. CASE /\ Pushed(c) /\ MutateChannelInfo(c, ci) /\ SaveNewMessage(c, m)
           /\ waits' = With(waits, m, "waiting") /\ Complete("answered", m)
  <2>1. /\ ci \in ChannelInfo /\ ci.pendingMsg = m /\ ci.pendingAmount = step.amt
        /\ ci.address = channels[c].address /\ ci.amount = channels[c].amount /\ ~ci.settling
    BY <1>1 DEF ChannelInfo
  <2> HIDE DEF ci
  <2>2. channels' = With(channels, c, ci)
    <3>1. channels' = [channels EXCEPT ![c] = ci] BY <1>1, <1>4 DEF MutateChannelInfo
    <3>2. channels \in [DOMAIN channels -> ChannelInfo] BY DEF FundsInv, StoreInv, StoreTyped
    <3> QED BY <1>1, <3>1, <3>2 DEF With
  <2> QED BY <1>1, <1>2, <1>4, <2>1, <2>2, PushKeeps
<1> QED BY <1>3, <1>4 DEF AddFunds

LEMMA ProcessTaskKeeps ==
    ASSUME FundsInv, ProcessTask
    PROVE  FundsInv'
<1>1. /\ step.at = "merged" /\ step' = Idle /\ UNCHANGED <<merge, arrays, spawned, crashed>>
  BY DEF ProcessTask
<1>2. CASE OutboundActiveByFromTo = {} /\ CreatePaych BY <1>1, <1>2, CreatePaychKeeps
<1>3. CASE \E c \in OutboundActiveByFromTo : channels[c].pendingMsg = 0 /\ AddFunds(c)
  BY <1>1, <1>3, AddFundsKeeps
<1>4. CASE UNCHANGED <<call, mcid, queue, chain, storeVars, waits>>
  <2>1. StoreInv' /\ StoreGrows BY <1>4, StoreSame DEF FundsInv
  <2>2. TypeOK /\ QueueInv /\ StoreTyped BY TypeParts DEF FundsInv, StoreInv, CallInv
  <2>3. RequestsTyped'
    <3>1. /\ call' \in [Requests -> CallStates] /\ spawned' \in Nat /\ crashed' \in BOOLEAN
          /\ step' \in [at : {"idle", "filtered", "merged"}, amt : Nat]
      BY <1>1, <1>4, <2>2 DEF TypeOK, Idle
    <3>2. Len(chain') \in Nat /\ Len(chain') >= Len(chain) BY <1>4, <2>2, StoreFacts
    <3> QED BY <1>1, <1>4, <2>2, <3>1, <3>2, ArraysSame, TypedStays
  <2>4. QueueInv' BY <1>1, <1>4, <2>2, QueueKept
  <2>5. QueueWorth' BY <1>1 DEF QueueWorth, Idle
  <2>6. AnsweredInv' /\ MessageWorth'
    <3>1. mcid' = mcid /\ DOMAIN messages' = DOMAIN messages BY <1>4 DEF storeVars
    <3> QED BY <1>4, <2>1, <2>2, <3>1, AnswersStay DEF FundsInv
  <2> QED BY <2>1, <2>3, <2>4, <2>5, <2>6 DEF FundsInv, CallInv
<1> QED BY <1>2, <1>3, <1>4 DEF ProcessTask, TaskFor
-----------------------------------------------------------------------------
(* The invariant *)

LEMMA AtMostOne ==
    ASSUME NEW S, \A x, y \in S : x = y
    PROVE  Cardinality(S) <= 1
<1>1. CASE S = {} BY <1>1, FS_EmptySet
<1>2. CASE S # {}
  <2>1. PICK x \in S : TRUE BY <1>2
  <2>2. S = {x} BY <2>1
  <2> QED BY <2>2, FS_Singleton
<1> QED BY <1>1, <1>2

LEMMA FundsInit == Init => FundsInv
<1> SUFFICES ASSUME Init PROVE FundsInv OBVIOUS
<1>1. StoreTyped BY DEF Init, StoreTyped
<1>2. RequestsTyped
  <2>1. call \in [Requests -> CallStates] BY DEF Init, CallStates
  <2>2. mcid \in [Requests -> 0..Len(chain)] BY DEF Init
  <2>3. arrays \in Seq(Seq(Requests \cup {Null})) BY DEF Init
  <2>4. Len(arrays) = 0 BY DEF Init
  <2>5. NilSlice \in Slice /\ Fits(NilSlice) BY <2>4 DEF Slice, NilSlice, Fits
  <2>6. queue = NilSlice /\ merge = [r \in Requests |-> NilSlice] BY DEF Init
  <2>7. step \in [at : {"idle", "filtered", "merged"}, amt : Nat] BY DEF Init, Idle
  <2>8. spawned \in Nat /\ crashed \in BOOLEAN BY DEF Init
  <2> QED BY <2>1, <2>2, <2>3, <2>5, <2>6, <2>7, <2>8 DEF RequestsTyped
<1>3. ToInv /\ ChannelInv /\ PendingInv /\ BookedInv /\ BooksMatchChain
  BY DEF Init, ToInv, ChannelInv, PendingInv, BookedInv, BooksMatchChain, OutboundActiveByFromTo
<1>4. QueueInv /\ AnsweredInv /\ QueueWorth /\ MessageWorth
  BY DEF Init, QueueInv, NilSlice, AnsweredInv, QueueWorth, MessageWorth, Idle
<1> QED BY <1>1, <1>2, <1>3, <1>4 DEF FundsInv, StoreInv, CallInv

LEMMA FundsStep == FundsInv /\ [Next]_vars => FundsInv'
<1> SUFFICES ASSUME FundsInv, [Next]_vars PROVE FundsInv' OBVIOUS
<1>1. CASE ProcessQueue \/ AvailableFunds
  <2>1. StartProcessing BY <1>1 DEF ProcessQueue, AvailableFunds
  <2>2. spawned' \in Nat
    BY <1>1 DEF ProcessQueue, AvailableFunds, FundsInv, CallInv, RequestsTyped
  <2> QED BY <2>1, <2>2, StartKeeps
<1>2. CASE Merge BY <1>2, MergeKeeps
<1>3. CASE ProcessTask BY <1>3, ProcessTaskKeeps
<1>4. CASE \E r \in Requests : GetPaych(r) BY <1>4, GetPaychKeeps
<1>5. CASE \E r \in Requests : \/ Cancel(r) \/ CheckActive(r) \/ WaitReady(r) \/ CheckMessage(r)
                               \/ ReadChannel(r) \/ GiveUp(r)
  BY <1>5, CallerKeeps
<1>6. CASE \E m \in DOMAIN chain : Execute(m) BY <1>6, ExecuteKeeps
<1>7. CASE \E m \in DOMAIN waits : WaitFails(m) \/ ApplyReceipt(m) \/ MsgWaitComplete(m)
  BY <1>7, WaitFailsKeeps, ApplyReceiptKeeps, MsgWaitCompleteKeeps
<1>8. CASE \E c \in DOMAIN channels : Settle(c) BY <1>8, SettleKeeps
<1>9. CASE UNCHANGED vars
  <2>1. UNCHANGED <<requestVars, step, chain, storeVars, waits, crashed>> BY <1>9 DEF vars
  <2>2. StoreInv' /\ StoreGrows BY <2>1, StoreSame DEF FundsInv
  <2>3. UNCHANGED <<requestVars, step, messages, crashed>> BY <2>1 DEF storeVars
  <2> QED BY <2>2, <2>3, MessagesSame DEF FundsInv
<1> QED BY <1>1, <1>2, <1>3, <1>4, <1>5, <1>6, <1>7, <1>8, <1>9 DEF Next

LEMMA FundsAlways == Spec => []FundsInv
<1>1. Init => FundsInv BY FundsInit
<1>2. FundsInv /\ [Next]_vars => FundsInv' BY FundsStep
<1> QED BY <1>1, <1>2, PTL DEF Spec

\* The accessor's state, its slices and the store keep their types: no request
\* holds the cid of a message that was never sent, and every slice of requests
\* fits into its array
THEOREM FundsTypeCorrect == Spec => []TypeOK
<1>1. FundsInv => TypeOK BY TypeParts DEF FundsInv, StoreInv, CallInv
<1> QED BY <1>1, FundsAlways, PTL

\* What the store says was added to a channel is what the chain executed for it
\* (ChannelInfo.Amount, which processTask and the two waiters keep)
THEOREM StoreMatchesChain == Spec => []BooksMatchChain
<1>1. FundsInv => BooksMatchChain BY DEF FundsInv, StoreInv
<1> QED BY <1>1, FundsAlways, PTL

\* However requests are appended, filtered and merged, who waits stands in the
\* queue once, and no nil request does (enqueue, filterQueue, newMergedFundsReq)
THEOREM WaitersAreQueued == Spec => []WaitingIsQueued
<1>1. ASSUME FundsInv PROVE WaitingIsQueued
  <2> DEFINE slots == Slots(queue)
  <2>1. TypeOK /\ QueueInv BY <1>1, TypeParts DEF FundsInv, StoreInv, CallInv
  <2>2. /\ slots \in Seq(Requests) /\ Len(slots) = queue.len
        /\ \A i \in 1..queue.len : slots[i] = arrays[queue.array][i]
    BY <2>1, QueueSlots
  <2> HIDE DEF slots
  <2>3. DOMAIN slots = 1..queue.len /\ \A i \in DOMAIN slots : slots[i] \in Requests BY <2>2
  <2>4. \A r \in Requests : call[r] = "waiting" => r \in Range(slots)
    BY <2>1, <2>2, <2>3 DEF QueueInv, Range
  <2>5. IsInjective(slots) BY <2>1, <2>2, <2>3 DEF QueueInv, IsInjective
  <2>6. Null \notin Range(slots) BY <2>3, FundsAssumption DEF Range
  <2> QED BY <2>4, <2>5, <2>6 DEF WaitingIsQueued, slots
<1> QED BY <1>1, FundsAlways, PTL

\* The channel in use has one message under way, and what the store has as
\* pending is that message and its amount (processTask)
THEOREM OneMessageUnderWay == Spec => []OneMessageAtATime
<1>1. ASSUME FundsInv PROVE OneMessageAtATime
  <2> DEFINE underWay(c) == {m \in DOMAIN waits : waits[m] = "waiting" /\ chain[m].to = c}
  <2>1. PendingInv BY <1>1 DEF FundsInv, StoreInv
  <2>2. Cardinality(OutboundActiveByFromTo) <= 1
    <3>1. \A c, d \in OutboundActiveByFromTo : c = d BY <2>1 DEF PendingInv
    <3> QED BY <3>1, AtMostOne
  <2>3. ASSUME NEW c \in DOMAIN channels
        PROVE  /\ Cardinality(underWay(c)) <= 1
               /\ \A m \in underWay(c) : /\ channels[c].pendingMsg = m
                                         /\ channels[c].pendingAmount = chain[m].amt
    <3>1. \A m \in underWay(c) : /\ channels[c].pendingMsg = m
                                 /\ channels[c].pendingAmount = chain[m].amt
      BY <2>1 DEF PendingInv
    <3>2. \A m, k \in underWay(c) : m = k BY <3>1
    <3> HIDE DEF underWay
    <3> QED BY <3>1, <3>2, AtMostOne
  <2> QED BY <2>2, <2>3 DEF OneMessageAtATime
<1> QED BY <1>1, FundsAlways, PTL

\* A caller that is told its channel is ready has one with an address, and the
\* channel holds what all those asked for who were told so (PaychGetWaitReady)
THEOREM ReadyChannelIsFunded == Spec => []ReadyIsFunded
<1>1. ASSUME FundsInv PROVE ReadyIsFunded
  <2> DEFINE told == {r \in Requests : call[r] \in {"reading", "ready"}}
             of(c) == {s \in told : chain[mcid[s]].to = c}
  <2>1. /\ StoreTyped /\ BooksMatchChain /\ AnsweredInv /\ MessageWorth
        /\ DOMAIN messages \subseteq DOMAIN chain
    BY <1>1, StoreFacts DEF FundsInv, StoreInv, CallInv
  <2>2. \A r \in told : IsBooked(mcid[r]) BY <2>1 DEF AnsweredInv
  <2>3. \A r \in told : /\ chain[mcid[r]].state = "ok"
                        /\ chain[mcid[r]].to \in DOMAIN channels
                        /\ channels[chain[mcid[r]].to].address
    BY <2>2 DEF IsBooked
  <2>4. ASSUME NEW c \in DOMAIN channels
        PROVE  SumFunction([r \in of(c) |-> Amount[r]]) <= channels[c].amount
    <3> DEFINE f == [r \in of(c) |-> Amount[r]]
               b == [m \in Booked(c) |-> chain[m].amt]
               k == [r \in of(c) |-> mcid[r]]
    <3>1. /\ IsFiniteSet(Booked(c)) /\ \A m \in Booked(c) : b[m] \in Nat
      BY <2>1, BookedFinite
    <3>2. of(c) \in SUBSET Requests /\ IsFiniteSet(of(c)) BY FundsAssumption, FS_Subset
    <3>3. \A r \in of(c) : f[r] \in Nat BY FundsAssumption
    <3>4. \A r \in of(c) : k[r] \in Booked(c)
      BY <2>1, <2>2 DEF IsBooked, Booked, Executed
    <3>5. ASSUME NEW m \in Booked(c)
          PROVE  SumFunctionOnSet(f, {r \in of(c) : k[r] = m}) <= b[m]
      <4> DEFINE A == {r \in Requests : mcid[r] = m}
                 B == {r \in of(c) : k[r] = m}
      <4>1. A \in SUBSET Requests /\ B \in SUBSET A OBVIOUS
      <4>2. m \in DOMAIN messages BY DEF Booked
      <4>3. SumFunctionOnSet(Amount, A) <= b[m] /\ b[m] \in Nat
        BY <2>1, <3>1, <4>2 DEF MessageWorth
      <4>4. IsFiniteSet(B) /\ \A r \in B : Amount[r] \in Nat /\ f[r] = Amount[r]
        BY <4>1, FundsAssumption, FS_Subset
      <4> HIDE DEF A, B, f, b
      <4>5. SumFunctionOnSet(Amount, B) <= b[m] BY <4>1, <4>3, WorthKept
      <4>6. SumFunctionOnSet(f, B) = SumFunctionOnSet(Amount, B) BY <4>4, SumAgree
      <4> QED BY <4>5, <4>6 DEF B
    <3>6. SumFunction(f) = SumFunctionOnSet(f, of(c)) /\ SumFunction(b) = SumFunctionOnSet(b, Booked(c))
      BY DEF SumFunction
    <3>7. channels[c].amount = SumFunction(b) BY <2>1, Books DEF ValueIn
    <3> HIDE DEF f, b, k, of
    <3>8. SumFunctionOnSet(f, of(c)) <= SumFunctionOnSet(b, Booked(c))
      BY <3>1, <3>2, <3>3, <3>4, <3>5, SumParts
    <3> QED BY <3>6, <3>7, <3>8 DEF f
  <2> QED BY <2>3, <2>4 DEF ReadyIsFunded
<1> QED BY <1>1, FundsAlways, PTL
=============================================================================
