----------------------------- MODULE SpscRingBuffer -----------------------------
(***************************************************************************)
(* The lock-free single-producer/single-consumer ring buffer of            *)
(* include/exec_core/ring_buffer.hpp, one step per access to shared        *)
(* memory, under the C++ memory model rather than under interleaving of    *)
(* the latest values:                                                      *)
(*                                                                         *)
(*  - each atomic counter is its modification order, a sequence of         *)
(*    messages.  A load by the other thread returns ANY message that is    *)
(*    not older than the last one that thread read (coherence), so a load  *)
(*    may be stale.                                                        *)
(*  - a message carries the accesses to the slots that happen before it    *)
(*    (a release store) and a load that acquires it adds them to what the  *)
(*    loading thread knows.  An access to a slot that is not ordered after *)
(*    the other thread's last access to it is a data race.                 *)
(*                                                                         *)
(* Counters wrap at Modulus (2^64 in the code).                            *)
(***************************************************************************)
EXTENDS Naturals, Sequences

CONSTANTS Capacity,    \* number of slots
          Modulus,     \* counters are kept modulo this number
          Items,       \* what the producer pushes
          NoItem,      \* the value of a slot nothing was pushed into
          MaxPushes    \* bound: how many pushes succeed in a behaviour

(* Capacity is a power of two (ring_buffer.hpp:117), and so is Modulus: a  *)
(* counter type wider than the mask makes Modulus a larger multiple of it. *)
ASSUME CapacityAssumption == Capacity \in Nat \ {0}
ASSUME ModulusAssumption ==
    /\ Modulus \in Nat \ {0}
    /\ \E k \in 2 .. Modulus : Modulus = k * Capacity
ASSUME ItemsAssumption == NoItem \notin Items
ASSUME MaxPushesAssumption == MaxPushes \in Nat

VARIABLES tailMO,       \* modification order of producer_.tail
          headMO,       \* modification order of consumer_.head
          head_cached,  \* producer_.head_cached
          tail_cached,  \* consumer_.tail_cached
          buffer,       \* buffer_
          ppc, item,    \* where the producer is, and what it is pushing
          cpc, out,     \* where the consumer is, and what it read
          headAt,       \* the message of headMO the producer read last
          tailAt,       \* the message of tailMO the consumer read last
          pKnows,       \* slot reads that happen before the producer's next step
          cKnows,       \* slot writes that happen before the consumer's next step
          nWrites, lastWrite,   \* slot writes so far; ordinal of each slot's last
          nReads, lastRead,     \* slot reads so far; ordinal of each slot's last
          pushed, popped        \* items accepted and handed out, in order

pVars == <<tailMO, head_cached, ppc, item, headAt, pKnows, nWrites, pushed>>
cVars == <<headMO, tail_cached, cpc, out, tailAt, cKnows, nReads, popped>>
slotVars == <<buffer, lastWrite, lastRead>>
vars == <<pVars, cVars, slotVars>>

--------------------------------------------------------------------------------
Slots == 0 .. Capacity - 1
NoWrap(n) == n                                       \* variant: counters never wrap
Wrap(n) == n % Modulus
ShortSlot(counter) == counter % (Capacity - 1)       \* variant: mask off by one
Slot(counter) == counter % Capacity                  \* counter & kMask
Minus(a, b) == (a + Modulus - b) % Modulus           \* unsigned subtraction

Newest(mo) == mo[Len(mo)].val
tail == Newest(tailMO)       \* the producer's own relaxed load of its counter
head == Newest(headMO)       \* the consumer's

(* What a store publishes and what a load learns, by memory order.         *)
(* The variants are stores and loads with memory_order_relaxed.            *)
RelaxedStore(value, accesses) == [val |-> value, view |-> 0]
Release(value, accesses) == [val |-> value, view |-> accesses]
RelaxedLoad(knows, message) == knows
Acquire(knows, message) == IF message.view > knows THEN message.view ELSE knows

Init ==
    /\ tailMO = <<[val |-> 0, view |-> 0]>> /\ headMO = <<[val |-> 0, view |-> 0]>>
    /\ head_cached = 0 /\ tail_cached = 0
    /\ buffer = [s \in Slots |-> NoItem]
    /\ ppc = "idle" /\ item = NoItem
    /\ cpc = "idle" /\ out = NoItem
    /\ headAt = 1 /\ tailAt = 1
    /\ pKnows = 0 /\ cKnows = 0
    /\ nWrites = 0 /\ lastWrite = [s \in Slots |-> 0]
    /\ nReads = 0 /\ lastRead = [s \in Slots |-> 0]
    /\ pushed = <<>> /\ popped = <<>>

--------------------------------------------------------------------------------
(* emplace_impl, on the producer's thread.                                 *)

FullOneLate(cache) == Minus(tail, cache) = Capacity + 1      \* variant: off by one
FullOneEarly(cache) == Minus(tail, cache) = Capacity - 1     \* variant: a wasted slot
LooksFull(cache) == Minus(tail, cache) = Capacity

(* Lines 196-197: both operands are the producer's own.                    *)
PushCall(i) ==
    /\ ppc = "idle" /\ Len(pushed) < MaxPushes
    /\ item' = i
    /\ ppc' = IF LooksFull(head_cached) THEN "refresh" ELSE "write"
    /\ UNCHANGED <<tailMO, head_cached, headAt, pKnows, nWrites, pushed, cVars, slotVars>>

(* Variant: the loaded head is compared but not kept.                      *)
PushRefreshLosesHead(m) ==
    /\ ppc = "refresh" /\ m \in headAt .. Len(headMO)
    /\ ppc' = IF LooksFull(head_cached) THEN "idle" ELSE "write"
    /\ UNCHANGED <<head_cached, headAt, pKnows, tailMO, item, nWrites, pushed, cVars, slotVars>>

(* Lines 202-205: the acquire load of head may return any message that is  *)
(* not older than the one read before; still full returns FALSE.           *)
PushRefresh(m) ==
    /\ ppc = "refresh" /\ m \in headAt .. Len(headMO)
    /\ headAt' = m
    /\ head_cached' = headMO[m].val
    /\ pKnows' = Acquire(pKnows, headMO[m])
    /\ ppc' = IF LooksFull(head_cached') THEN "idle" ELSE "write"
    /\ UNCHANGED <<tailMO, item, nWrites, pushed, cVars, slotVars>>

(* Line 207: the plain write of the slot.                                  *)
PushWrite ==
    /\ ppc = "write"
    /\ buffer' = [buffer EXCEPT ![Slot(tail)] = item]
    /\ nWrites' = nWrites + 1
    /\ lastWrite' = [lastWrite EXCEPT ![Slot(tail)] = nWrites + 1]
    /\ ppc' = "publish"
    /\ UNCHANGED <<tailMO, head_cached, item, headAt, pKnows, pushed, lastRead, cVars>>

(* Lines 211-212: the release store of tail + 1; the call returns TRUE.    *)
PushPublish ==
    /\ ppc = "publish"
    /\ tailMO' = Append(tailMO, Release(Wrap(tail + 1), nWrites))
    /\ pushed' = Append(pushed, item)
    /\ ppc' = "idle"
    /\ UNCHANGED <<head_cached, item, headAt, pKnows, nWrites, cVars, slotVars>>

--------------------------------------------------------------------------------
(* try_pop(T&), on the consumer's thread.                                  *)

LooksEmpty(cache) == head = cache

(* Lines 141-142.                                                          *)
PopCall ==
    /\ cpc = "idle"
    /\ cpc' = IF LooksEmpty(tail_cached) THEN "refresh" ELSE "read"
    /\ UNCHANGED <<headMO, tail_cached, out, tailAt, cKnows, nReads, popped, pVars, slotVars>>

(* Variant: the loaded tail is compared but not kept.                      *)
PopRefreshLosesTail(m) ==
    /\ cpc = "refresh" /\ m \in tailAt .. Len(tailMO)
    /\ cpc' = IF LooksEmpty(tail_cached) THEN "idle" ELSE "read"
    /\ UNCHANGED <<tail_cached, tailAt, cKnows, headMO, out, nReads, popped, pVars, slotVars>>

(* Lines 148-151: the acquire load of tail; still empty returns FALSE.     *)
PopRefresh(m) ==
    /\ cpc = "refresh" /\ m \in tailAt .. Len(tailMO)
    /\ tailAt' = m
    /\ tail_cached' = tailMO[m].val
    /\ cKnows' = Acquire(cKnows, tailMO[m])
    /\ cpc' = IF LooksEmpty(tail_cached') THEN "idle" ELSE "read"
    /\ UNCHANGED <<headMO, out, nReads, popped, pVars, slotVars>>

(* Line 153: the plain read of the slot.  A read that races with the write *)
(* of the slot is undefined behaviour: it may yield anything.              *)
PopRead ==
    /\ cpc = "read"
    /\ LET s == Slot(head)
       IN /\ out' \in IF lastWrite[s] <= cKnows THEN {buffer[s]} ELSE Items
          /\ lastRead' = [lastRead EXCEPT ![s] = nReads + 1]
    /\ nReads' = nReads + 1
    /\ cpc' = "publish"
    /\ UNCHANGED <<headMO, tail_cached, tailAt, cKnows, popped, buffer, lastWrite, pVars>>

(* Lines 159-160: the release store of head + 1; the call returns TRUE.    *)
PopPublish ==
    /\ cpc = "publish"
    /\ headMO' = Append(headMO, Release(Wrap(head + 1), nReads))
    /\ popped' = Append(popped, out)
    /\ cpc' = "idle"
    /\ UNCHANGED <<tail_cached, out, tailAt, cKnows, nReads, pVars, slotVars>>

--------------------------------------------------------------------------------
(* The diagnostics, lines 184-189: two relaxed loads, here of the t-th     *)
(* message of tail and the h-th of head.  No step of the queue depends on  *)
(* the answers, so they are expressions and not actions.                   *)

SizeSwapped(t, h) == Minus(headMO[h].val, tailMO[t].val)     \* variant: operands swapped
size_approx(t, h) == Minus(tailMO[t].val, headMO[h].val)
empty_approx(t, h) == tailMO[t].val = headMO[h].val

--------------------------------------------------------------------------------
Producer ==
    \/ \E i \in Items : PushCall(i)
    \/ \E m \in 1 .. Len(headMO) : PushRefresh(m)
    \/ PushWrite
    \/ PushPublish

Consumer ==
    \/ PopCall
    \/ \E m \in 1 .. Len(tailMO) : PopRefresh(m)
    \/ PopRead
    \/ PopPublish

Next == Producer \/ Consumer

Spec == Init /\ [][Next]_vars

(* Both threads keep running: the producer retries a push that was         *)
(* refused and the consumer keeps polling (the loops of                    *)
(* tests/test_ring_buffer.cpp:152-180).  A store becomes visible to the    *)
(* other thread in finite time ([intro.progress] of the C++ standard), so  *)
(* a thread that keeps loading a counter does not read stale values for    *)
(* ever.                                                                   *)
Fairness ==
    /\ WF_vars(Producer) /\ WF_vars(Consumer)
    /\ SF_vars(PushRefresh(Len(headMO)))
    /\ SF_vars(PopRefresh(Len(tailMO)))

FairSpec == Spec /\ Fairness

--------------------------------------------------------------------------------
(* Every variable has its type: counters stay below Modulus, a thread is   *)
(* at one of its four program points.                                      *)
Counters == 0 .. Modulus - 1
Messages == [val : Counters, view : Nat]
TypeOK ==
    /\ tailMO \in Seq(Messages) /\ headMO \in Seq(Messages)
    /\ head_cached \in Counters /\ tail_cached \in Counters
    /\ buffer \in [Slots -> Items \cup {NoItem}]
    /\ ppc \in {"idle", "refresh", "write", "publish"}
    /\ cpc \in {"idle", "refresh", "read", "publish"}
    /\ item \in Items \cup {NoItem} /\ out \in Items \cup {NoItem}
    /\ headAt \in 1 .. Len(headMO) /\ tailAt \in 1 .. Len(tailMO)
    /\ pKnows \in Nat /\ cKnows \in Nat /\ nWrites \in Nat /\ nReads \in Nat
    /\ lastWrite \in [Slots -> Nat] /\ lastRead \in [Slots -> Nat]
    /\ pushed \in Seq(Items) /\ popped \in Seq(Items)

(* No data race: when the producer is about to write a slot, the           *)
(* consumer's last read of it happens before that write, and when the      *)
(* consumer is about to read a slot, the producer's last write of it       *)
(* happens before that read, through the release/acquire pairs on head and *)
(* tail, even when the loads of those counters are stale.                  *)
NoSlotRace ==
    /\ ppc = "write" => lastRead[Slot(tail)] <= pKnows
    /\ cpc = "read" => lastWrite[Slot(head)] <= cKnows

(* An item that was accepted and not yet handed out is still in its slot:  *)
(* no push overwrites it, however stale the producer's view of head is and *)
(* however often the counters wrapped.                                     *)
UnreadSlotsIntact ==
    \A k \in Len(popped) + 1 .. Len(pushed) : buffer[(k - 1) % Capacity] = pushed[k]

(* What the consumer got is a prefix of what the producer pushed: nothing  *)
(* dropped, duplicated, reordered or corrupted.                            *)
PoppedIsPrefixOfPushed ==
    /\ Len(popped) <= Len(pushed)
    /\ \A k \in 1 .. Len(popped) : popped[k] = pushed[k]

(* A call that returns FALSE on an up-to-date view of the other counter is *)
(* right: the queue holds Capacity items, respectively none.  ("genuinely  *)
(* full", ring_buffer.hpp:204, "genuinely empty", :150.)                   *)
GenuineFailure ==
    [][ /\ (ppc = "refresh" /\ ppc' = "idle" /\ headAt' = Len(headMO))
              => Len(pushed) - Len(popped) = Capacity
        /\ (cpc = "refresh" /\ cpc' = "idle" /\ tailAt' = Len(tailMO))
              => Len(pushed) = Len(popped) ]_vars

(* What either thread may conclude from a diagnostic, whatever message its *)
(* relaxed load of the other's counter returns.  The producer sees its own *)
(* tail and perhaps an old head: it overestimates, but never beyond the    *)
(* capacity, and "empty" is true.  The consumer sees its own head and      *)
(* perhaps an old tail: it underestimates, the difference never wraps, and *)
(* "not empty" is true.  (A third thread has no such bounds: it may pair   *)
(* an old tail with a newer head.)                                         *)
DiagnosticsBounded ==
    LET size == Len(pushed) - Len(popped)
        seen_by_producer == headAt .. Len(headMO)
        seen_by_consumer == tailAt .. Len(tailMO)
    IN /\ \A h \in seen_by_producer :
             /\ size_approx(Len(tailMO), h) \in size .. Capacity
             /\ empty_approx(Len(tailMO), h) => size = 0
       /\ \A t \in seen_by_consumer :
             /\ size_approx(t, Len(headMO)) \in 0 .. size
             /\ ~empty_approx(t, Len(headMO)) => size > 0

(* Every item that is accepted is handed out in the end, although a poll   *)
(* may read a stale tail.                                                  *)
EveryPushIsPopped ==
    \A n \in 1 .. MaxPushes : Len(pushed) >= n ~> Len(popped) >= n

(* A producer that retries gets its push accepted: the queue does not stay *)
(* full while the consumer polls.                                          *)
ProducerIsNotStuck == <>(Len(pushed) = MaxPushes)

(* The items between the two published counters, read out of the slots.    *)
Waiting == [i \in 1 .. Minus(tail, head) |-> buffer[Slot(head + i - 1)]]
LastPopped == IF popped = <<>> THEN NoItem ELSE popped[Len(popped)]

(* The ring buffer is a bounded FIFO queue: a push takes effect at the     *)
(* release store of tail, a pop at the release store of head, every other  *)
(* step is invisible.                                                      *)
Queue == INSTANCE SpscQueue WITH queue <- Waiting, last <- LastPopped
ImplementsQueue == Queue!FairSpec
================================================================================
