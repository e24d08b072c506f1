------------------------------ MODULE PaychFunds ------------------------------
(***************************************************************************)
(* The payment channel manager's funds: requests for funds from one        *)
(* address to another are queued, merged into one message, sent to the     *)
(* chain and waited for (paychmgr.go, one outbound channelAccessor and the *)
(* channelStore).  A caller gets a message from PaychGet and then waits    *)
(* for it with PaychGetWaitReady; it may give up at any time.              *)
(*                                                                         *)
(* Every section between Lock and Unlock of the accessor is one action,    *)
(* but for processQueue, whose section is split where a cancel, which does *)
(* not take the lock, makes a difference.  A channel is named by the       *)
(* message that creates it.  The store itself never fails.                 *)
(***************************************************************************)
EXTENDS Integers, Sequences, SequencesExt, FiniteSets, Functions

CONSTANTS Requests,      \* calls of PaychGet for this pair of addresses
          Amount,          \* what each of them asks for
          Null,          \* the nil *fundsReq
          MaxSettles     \* bound on the calls of Settle

ASSUME FundsAssumption == /\ IsFiniteSet(Requests) /\ Null \notin Requests
                          /\ Amount \in [Requests -> Nat]
                          /\ MaxSettles \in Nat

VARIABLES call,        \* where each caller stands
          mcid,        \* the message each caller was answered with, 0 before
          merge,       \* fundsReq.merge: the slice of the request's merge parent
          arrays,      \* the backing arrays of the slices of requests
          queue,       \* ca.fundsReqQueue, a slice [array, len]; array 0 is nil
          spawned,     \* goroutines of processQueue("") that have not begun
          step,        \* how far processQueue has come: it holds the lock
          chain,       \* the messages the node accepted, by cid
          channels,    \* the store's ChannelInfo, by ChannelID
          messages,    \* the store's MsgInfo, by cid
          waits,       \* the goroutines that wait for a message
          crashed      \* a nil dereference or a panic ended the process

requestVars == <<call, mcid, merge, arrays, queue, spawned>>
storeVars == <<channels, messages>>
vars == <<requestVars, step, chain, storeVars, waits, crashed>>

CallStates == {"new", "waiting", "cancelling", "cancelled", "answered", "refused",
               "checking", "listening", "reading", "ready", "notReady"}

Idle == [at |-> "idle", amt |-> 0]

\* fundsReq.isActive: only cancel sets it to false
IsActive(r) == call[r] \notin {"cancelling", "cancelled"}

\* ca.lk is free; nothing happens any more after a crash
Locked == step = Idle /\ ~crashed
-----------------------------------------------------------------------------
\* Slices.  append writes in place while the array has room.
NilSlice == [array |-> 0, len |-> 0]
Slots(slice) == IF slice.array = 0 THEN <<>> ELSE SubSeq(arrays[slice.array], 1, slice.len)

\* Mutant of AppendSlice: a full array is taken to have room
AppendOverLength(slice, r) ==
    LET n == slice.len
    IN  IF slice.array # 0
        THEN /\ arrays' = [arrays EXCEPT ![slice.array] = [i \in DOMAIN @ |-> IF i = n + 1 THEN r ELSE @[i]]]
             /\ queue' = [slice EXCEPT !.len = n + 1]
        ELSE arrays' = Append(arrays, <<r>>) /\ queue' = [array |-> Len(arrays) + 1, len |-> 1]

AppendSlice(slice, r) ==
    LET n == slice.len
        room == slice.array # 0 /\ n < Len(arrays[slice.array])
        grown == Slots(slice) \o <<r>> \o [i \in 1..(n - 1) |-> Null]
    IN  IF room THEN /\ arrays' = [arrays EXCEPT ![slice.array][n + 1] = r]
                     /\ queue' = [slice EXCEPT !.len = n + 1]
                ELSE /\ arrays' = Append(arrays, grown)
                     /\ queue' = [array |-> Len(arrays) + 1, len |-> n + 1]
-----------------------------------------------------------------------------
\* The store

ChannelInfo == [address : BOOLEAN, amount : Nat, pendingAmount : Nat,
                pendingMsg : Nat, settling : BOOLEAN]
MsgInfo == [channelID : Nat, received : BOOLEAN, err : BOOLEAN]

\* table, and a record under a new key
With(table, key, rec) == [k \in DOMAIN table \cup {key} |-> IF k = key THEN rec ELSE table[k]]

\* CreateMsg while there is no address yet, AddFundsMsg afterwards
CreateChannel(m, amt) ==
    channels' = With(channels, m, [address |-> FALSE, amount |-> 0, pendingAmount |-> amt,
                                   pendingMsg |-> m, settling |-> FALSE])

SaveNewMessage(c, m) ==
    messages' = With(messages, m, [channelID |-> c, received |-> FALSE, err |-> FALSE])

RemoveChannel(c) == channels' = Restrict(channels, DOMAIN channels \ {c})

\* mutateChannelInfo, whose mutation makes ci of channels[c], logs a channel it
\* cannot read and leaves it
MutateChannelInfo(c, ci) ==
    channels' = IF c \in DOMAIN channels THEN [channels EXCEPT ![c] = ci] ELSE channels

SaveMessageResult(m, err) ==
    messages' = [messages EXCEPT ![m].received = TRUE, ![m].err = err]

ByMessageCid(m) == {c \in DOMAIN channels : c = messages[m].channelID}

OutboundActiveByFromTo == {c \in DOMAIN channels : ~channels[c].settling}
-----------------------------------------------------------------------------
\* Requests

\* PaychGet: getPaych, newFundsReq and enqueue
GetPaych(r) ==
    /\ Locked /\ call[r] = "new"
    /\ call' = [call EXCEPT ![r] = "waiting"]
    /\ AppendSlice(queue, r)
    /\ spawned' = spawned + 1
    /\ UNCHANGED <<mcid, merge, step, chain, storeVars, waits, crashed>>

\* The caller's context is done: cancel makes the request inactive and takes
\* note of the merge parent.  A request that is no longer active keeps here
\* the parent that cancel took note of.
Cancel(r) ==
    /\ ~crashed /\ call[r] = "waiting"
    /\ call' = [call EXCEPT ![r] = "cancelling"]
    /\ UNCHANGED <<mcid, merge, arrays, queue, spawned, step, chain, storeVars, waits, crashed>>

\* checkActive looks for an active request and meets a nil one, if the array
\* was filtered since.  Its other effect, the merge's cancelled context, is
\* one of the reasons for which a push may fail.
CheckActive(r) ==
    /\ ~crashed /\ call[r] = "cancelling"
    /\ call' = [call EXCEPT ![r] = "cancelled"]
    /\ LET slots == Slots(merge[r])
           looked == {i \in DOMAIN slots :
                         \A j \in 1..(i - 1) : slots[j] # Null /\ ~IsActive(slots[j])}
       IN  crashed' = \E i \in looked : slots[i] = Null
    /\ UNCHANGED <<mcid, merge, arrays, queue, spawned, step, chain, storeVars, waits>>
-----------------------------------------------------------------------------
\* processQueue

\* The active requests, in their order
Kept(slots) ==
    FoldLeft(LAMBDA kept, r : IF IsActive(r) THEN Append(kept, r) ELSE kept, <<>>, slots)

\* Mutant of FilterQueue: the requests are kept where they stand, and only the
\* slice is made shorter
FilterByLength ==
    /\ arrays' = arrays
    /\ queue' = [queue EXCEPT !.len = Len(Kept(Slots(queue)))]

\* filterQueue moves the active requests to the front of the array, sets only
\* the first slot behind them to nil, and makes the slice shorter
FilterQueue ==
    LET slots == Slots(queue)
        kept == Kept(slots)
        n == Len(kept)
        Slot(i, old) == IF i <= n THEN kept[i]
                        ELSE IF i = n + 1 /\ i <= queue.len THEN Null ELSE old
    IN  IF slots = <<>> THEN UNCHANGED <<arrays, queue>>
        ELSE /\ arrays' = [arrays EXCEPT ![queue.array] = [i \in DOMAIN @ |-> Slot(i, @[i])]]
             /\ queue' = [queue EXCEPT !.len = n]

\* Takes the lock and removes the cancelled requests; without others it is done
StartProcessing ==
    /\ Locked
    /\ FilterQueue
    /\ step' = [Idle EXCEPT !.at = IF queue'.len = 0 THEN "idle" ELSE "filtered"]
    /\ UNCHANGED <<call, mcid, merge, chain, storeVars, waits, crashed>>

ProcessQueue == spawned > 0 /\ spawned' = spawned - 1 /\ StartProcessing

\* PaychAvailableFunds runs the queue as well, for a channel with an address
AvailableFunds ==
    /\ \E c \in DOMAIN channels : channels[c].address
    /\ spawned' = spawned /\ StartProcessing

\* mergedFundsReq.sum
SumOf(slots) ==
    SumFunction([i \in DOMAIN slots |-> IF IsActive(slots[i]) THEN Amount[slots[i]] ELSE 0])

\* newMergedFundsReq and sum.  Nothing is sent for a sum of zero, and the
\* queue stays as it is.
Merge ==
    /\ step.at = "filtered"
    /\ merge' = [r \in Requests |->
                    IF call[r] = "waiting" /\ r \in Range(Slots(queue)) THEN queue ELSE merge[r]]
    /\ LET amt == SumOf(Slots(queue))
       IN  step' = IF amt = 0 THEN Idle ELSE [at |-> "merged", amt |-> amt]
    /\ UNCHANGED <<call, mcid, arrays, queue, spawned, chain, storeVars, waits, crashed>>

\* The queue is cleared and every request that is still active gets the result
Complete(answer, m) ==
    LET told == {r \in Range(Slots(queue)) : IsActive(r)}
    IN  /\ call' = [r \in Requests |-> IF r \in told THEN answer ELSE call[r]]
        /\ mcid' = [r \in Requests |-> IF r \in told THEN m ELSE mcid[r]]
        /\ queue' = NilSlice

\* The node has taken the message
Pushed(to) == chain' = Append(chain, [to |-> to, amt |-> step.amt, state |-> "pending"])

\* mpoolPush, or what precedes it, fails; the node may have taken the message
\* although its answer is lost
PushFails(to) ==
    /\ Pushed(to) \/ UNCHANGED chain
    /\ Complete("refused", 0)
    /\ UNCHANGED <<storeVars, waits>>

CreatePaych ==
    LET m == Len(chain) + 1
    IN  \/ PushFails(m)
        \/ /\ Pushed(m)
           /\ CreateChannel(m, step.amt) /\ SaveNewMessage(m, m)
           /\ waits' = With(waits, m, "waiting")
           /\ Complete("answered", m)

AddFunds(c) ==
    LET m == Len(chain) + 1
        added == [channels[c] EXCEPT !.pendingAmount = step.amt, !.pendingMsg = m]
    IN  \/ PushFails(c)
        \/ /\ Pushed(c)
           /\ MutateChannelInfo(c, added) /\ SaveNewMessage(c, m)
           /\ waits' = With(waits, m, "waiting")
           /\ Complete("answered", m)

\* Mutant of TaskFor: a pending message does not hold back the next one
TaskForAll(active) ==
    \/ active = {} /\ CreatePaych
    \/ \E c \in active : AddFunds(c)

\* processTask.  While a message is pending the queue waits.
TaskFor(active) ==
    \/ active = {} /\ CreatePaych
    \/ \E c \in active :
          \/ channels[c].pendingMsg = 0 /\ AddFunds(c)
          \/ channels[c].pendingMsg # 0
             /\ UNCHANGED <<call, mcid, queue, chain, storeVars, waits>>

ProcessTask ==
    /\ step.at = "merged"
    /\ TaskFor(OutboundActiveByFromTo)
    /\ step' = Idle
    /\ UNCHANGED <<merge, arrays, spawned, crashed>>
-----------------------------------------------------------------------------
\* Messages

\* The chain executes a message, or it fails there
Execute(m) ==
    /\ ~crashed /\ chain[m].state = "pending"
    /\ chain' = [chain EXCEPT ![m].state = "ok"] \/ chain' = [chain EXCEPT ![m].state = "failed"]
    /\ UNCHANGED <<requestVars, step, storeVars, waits, crashed>>

\* StateWaitMsg or the decoding of its receipt fails: no ChannelInfo changes
WaitFails(m) ==
    /\ ~crashed /\ waits[m] = "waiting"
    /\ waits' = [waits EXCEPT ![m] = "err"]
    /\ UNCHANGED <<requestVars, step, chain, storeVars, crashed>>

\* Mutant of Confirm: an addition is booked as a creation is
ConfirmReplaces(ci) ==
    [ci EXCEPT !.address = TRUE, !.amount = ci.pendingAmount,
               !.pendingAmount = 0, !.pendingMsg = 0]

\* The message is on the chain.  Amount of a channel under creation is zero, so
\* that both waiters add what was pending.
Confirm(ci) ==
    [ci EXCEPT !.address = TRUE, !.amount = @ + ci.pendingAmount,
               !.pendingAmount = 0, !.pendingMsg = 0]

ForgetPending(ci) == [ci EXCEPT !.pendingAmount = 0, !.pendingMsg = 0]

\* waitPaychCreateMsg: a creation that failed leaves no channel
WaitPaychCreateMsg(m) ==
    \/ /\ chain[m].state = "ok" /\ MutateChannelInfo(chain[m].to, Confirm(channels[chain[m].to]))
       /\ waits' = [waits EXCEPT ![m] = "ok"]
    \/ /\ chain[m].state = "failed" /\ RemoveChannel(m)
       /\ waits' = [waits EXCEPT ![m] = "err"]

\* waitAddFundsMsg
WaitAddFundsMsg(m) ==
    \/ /\ chain[m].state = "ok" /\ MutateChannelInfo(chain[m].to, Confirm(channels[chain[m].to]))
       /\ waits' = [waits EXCEPT ![m] = "ok"]
    \/ /\ chain[m].state = "failed" /\ MutateChannelInfo(chain[m].to, ForgetPending(channels[chain[m].to]))
       /\ waits' = [waits EXCEPT ![m] = "err"]

ApplyReceipt(m) ==
    /\ Locked /\ waits[m] = "waiting"
    /\ IF chain[m].to = m THEN WaitPaychCreateMsg(m) ELSE WaitAddFundsMsg(m)
    /\ UNCHANGED <<requestVars, step, chain, messages, crashed>>

\* Mutant of Wake: a listener is called only if the message succeeded
WakeIfOK(m, err) ==
    [r \in Requests |-> IF call[r] = "listening" /\ mcid[r] = m /\ ~err
                        THEN "reading" ELSE call[r]]

\* Mutant of Wake: the error is not passed on
WakeAll(m, err) ==
    [r \in Requests |-> IF call[r] = "listening" /\ mcid[r] = m
                        THEN "reading" ELSE call[r]]

\* fireMsgComplete: every listener of the message is called
Wake(m, err) ==
    [r \in Requests |-> IF call[r] = "listening" /\ mcid[r] = m
                        THEN IF err THEN "notReady" ELSE "reading"
                        ELSE call[r]]

\* Mutant of QueueWaits: no goroutine is spawned for the queue
QueueForgotten == FALSE

QueueWaits == queue.len > 0

\* msgWaitComplete
MsgWaitComplete(m) ==
    /\ Locked /\ waits[m] \in {"ok", "err"}
    /\ LET err == waits[m] = "err"
       IN  SaveMessageResult(m, err) /\ call' = Wake(m, err)
    /\ waits' = Restrict(waits, DOMAIN waits \ {m})
    /\ spawned' = IF QueueWaits THEN spawned + 1 ELSE spawned
    /\ UNCHANGED <<mcid, merge, arrays, queue, step, chain, channels, crashed>>
-----------------------------------------------------------------------------
\* PaychGetWaitReady

Move(r, to) ==
    /\ call' = [call EXCEPT ![r] = to]
    /\ UNCHANGED <<mcid, merge, arrays, queue, spawned, step, chain, storeVars, waits>>

\* ByMessageCid under the manager's exclusive lock
WaitReady(r) ==
    /\ Locked /\ call[r] = "answered"
    /\ Move(r, IF ByMessageCid(mcid[r]) = {} THEN "notReady" ELSE "checking")
    /\ UNCHANGED crashed

\* GetMessage, and msgPromise when there is no result yet
CheckMessage(r) ==
    /\ Locked /\ call[r] = "checking"
    /\ LET info == messages[mcid[r]]
       IN  Move(r, CASE info.err -> "notReady"
                     [] info.received /\ ~info.err -> "reading"
                     [] OTHER -> "listening")
    /\ UNCHANGED crashed

\* The result is there: the channel is read without the lock
ReadChannel(r) ==
    /\ ~crashed /\ call[r] = "reading"
    /\ LET found == ByMessageCid(mcid[r])
       IN  /\ Move(r, IF found = {} THEN "notReady" ELSE "ready")
           /\ crashed' = \E c \in found : ~channels[c].address

\* The caller's context is done
GiveUp(r) ==
    /\ ~crashed /\ call[r] = "listening"
    /\ Move(r, "notReady")
    /\ UNCHANGED crashed

\* settle: from now on other requests need another channel.  A failed push
\* changes nothing.
Settle(c) ==
    /\ Locked /\ channels[c].address
    /\ Cardinality({d \in DOMAIN channels : channels[d].settling}) < MaxSettles
    /\ channels' = [channels EXCEPT ![c].settling = TRUE]
    /\ UNCHANGED <<requestVars, step, chain, messages, waits, crashed>>
-----------------------------------------------------------------------------
Init ==
    /\ call = [r \in Requests |-> "new"]
    /\ mcid = [r \in Requests |-> 0]
    /\ merge = [r \in Requests |-> NilSlice]
    /\ arrays = <<>> /\ queue = NilSlice
    /\ spawned = 0 /\ step = Idle
    /\ chain = <<>> /\ channels = <<>> /\ messages = <<>> /\ waits = <<>>
    /\ crashed = FALSE

Next ==
    \/ ProcessQueue \/ AvailableFunds \/ Merge \/ ProcessTask
    \/ \E r \in Requests : \/ GetPaych(r) \/ Cancel(r) \/ CheckActive(r)
                           \/ WaitReady(r) \/ CheckMessage(r) \/ ReadChannel(r) \/ GiveUp(r)
    \/ \E m \in DOMAIN chain : Execute(m)
    \/ \E m \in DOMAIN waits : WaitFails(m) \/ ApplyReceipt(m) \/ MsgWaitComplete(m)
    \/ \E c \in DOMAIN channels : Settle(c)

\* Goroutines run; a mutex is given to each that waits for it, though others
\* ask for it again and again; the chain takes or drops every message; a caller
\* that got a message goes on to wait for it.
Fairness ==
    /\ SF_vars(ProcessQueue) /\ WF_vars(Merge) /\ WF_vars(ProcessTask)
    /\ \A r \in Requests : /\ SF_vars(WaitReady(r)) /\ SF_vars(CheckMessage(r))
                           /\ WF_vars(ReadChannel(r)) /\ WF_vars(CheckActive(r))
    /\ \A m \in 1..Cardinality(Requests) :
          /\ WF_vars(m \in DOMAIN chain /\ Execute(m))
          /\ SF_vars(m \in DOMAIN waits /\ (ApplyReceipt(m) \/ MsgWaitComplete(m)))

Spec == Init /\ [][Next]_vars /\ Fairness
-----------------------------------------------------------------------------

Slice == [array : 0..Len(arrays), len : Nat]
Fits(slice) == slice.len <= IF slice.array = 0 THEN 0 ELSE Len(arrays[slice.array])

TypeOK ==
    /\ call \in [Requests -> CallStates]
    /\ mcid \in [Requests -> 0..Len(chain)]
    /\ arrays \in Seq(Seq(Requests \cup {Null}))
    /\ queue \in Slice /\ Fits(queue)
    /\ merge \in [Requests -> Slice] /\ \A r \in Requests : Fits(merge[r])
    /\ spawned \in Nat
    /\ step \in [at : {"idle", "filtered", "merged"}, amt : Nat]
    /\ chain \in Seq([to : Nat, amt : Nat, state : {"pending", "ok", "failed"}])
    /\ channels \in [DOMAIN channels -> ChannelInfo] /\ DOMAIN channels \subseteq DOMAIN chain
    /\ messages \in [DOMAIN messages -> MsgInfo] /\ DOMAIN messages \subseteq DOMAIN chain
    /\ waits \in [DOMAIN waits -> {"waiting", "ok", "err"}] /\ DOMAIN waits \subseteq DOMAIN messages
    /\ crashed \in BOOLEAN

Executed(c) == {m \in DOMAIN chain : chain[m].to = c /\ chain[m].state = "ok"}
Value(ms) == SumFunction([m \in ms |-> chain[m].amt])

\* What the store says was added to a channel is what the chain executed, but
\* for the message still pending and for those whose push returned an error
\* (the comment of ChannelInfo.Amount, which every later shortfall relies on)
BooksMatchChain ==
    \A c \in DOMAIN channels :
        LET booked == {m \in Executed(c) : m \in DOMAIN messages /\ m # channels[c].pendingMsg}
        IN  channels[c].amount = Value(booked)

\* A caller that is told its channel is ready has one, the chain executed its
\* message, and the channel holds what all the callers told so asked for
\* (PaychGetWaitReady, and the panic in getPaychWaitReady)
ReadyIsFunded ==
    LET told == {r \in Requests : call[r] \in {"reading", "ready"}}
    IN  /\ \A r \in told : /\ chain[mcid[r]].state = "ok"
                           /\ chain[mcid[r]].to \in DOMAIN channels
                           /\ channels[chain[mcid[r]].to].address
        /\ \A c \in DOMAIN channels :
              SumFunction([r \in {s \in told : chain[mcid[s]].to = c} |-> Amount[r]])
                  <= channels[c].amount

\* Whatever is filtered, appended and merged, every caller that waits has its
\* request in the queue once, and no slot of the queue is nil (filterQueue
\* moves requests within the array that append and the merges share)
WaitingIsQueued ==
    LET slots == Slots(queue)
    IN  /\ \A r \in Requests : call[r] = "waiting" => r \in Range(slots)
        /\ IsInjective(slots) /\ Null \notin Range(slots)

\* One channel for the two addresses is in use, one message for it under way
\* (processTask), so that PendingAmount is the amount of that message
OneMessageAtATime ==
    /\ Cardinality(OutboundActiveByFromTo) <= 1
    /\ \A c \in DOMAIN channels :
          LET underWay == {m \in DOMAIN waits : waits[m] = "waiting" /\ chain[m].to = c}
          IN  /\ Cardinality(underWay) <= 1
              /\ \A m \in underWay : /\ channels[c].pendingMsg = m
                                     /\ channels[c].pendingAmount = chain[m].amt

\* The wait for a message ended with an error that says nothing of the message,
\* and its channel keeps it as pending
Stuck == \E c \in OutboundActiveByFromTo : /\ channels[c].pendingMsg # 0
                                           /\ messages[channels[c].pendingMsg].received

\* A caller that asks for funds gets a message or an error, unless a wait
\* failed (the wake-ups of enqueue and msgWaitComplete are never lost)
RequestsAreAnswered ==
    \A r \in Requests :
        Amount[r] > 0 /\ call[r] = "waiting" ~> call[r] # "waiting" \/ Stuck \/ crashed

\* A caller that has a message learns what became of it, however its checks
\* and the message's completion are interleaved (getPaychWaitReady, msgPromise)
WaitsEnd ==
    \A r \in Requests :
        call[r] = "answered" ~> call[r] \in {"ready", "notReady"} \/ crashed

\* The comment of getPaych: if an operation returns an error, the operations
\* that wait behind it are still attempted
WaitingAreAttempted ==
    \A r \in Requests :
        Amount[r] > 0 /\ call[r] = "waiting" ~> call[r] # "waiting" \/ crashed
=============================================================================
