------------------------- MODULE SpscRingBuffer_proofs -------------------------
(***************************************************************************)
(* The ring buffer's theorems, for every capacity, counter width, set of   *)
(* items and number of pushes.  The inductive invariant counts in logical  *)
(* positions (message k of a counter was stored by the (k-1)-th call that  *)
(* succeeded), which never wrap; facts about % translate between them and  *)
(* the wrapped counters the code computes with.                            *)
(***************************************************************************)
EXTENDS SpscRingBuffer, SequenceTheorems, TLAPS

--------------------------------------------------------------------------------
(* Facts about % that the counters (kept modulo 2^64) and the slot numbers *)
(* (the low bits of a counter) rest on.                                    *)

(* Quotient and remainder.                                                 *)
LEMMA DivMod ==
    ASSUME NEW n \in Nat, NEW d \in Nat \ {0}
    PROVE  /\ n % d \in 0 .. d - 1
           /\ n \div d \in Nat
           /\ n = d * (n \div d) + (n % d)
  BY SMT

(* A multiple that is less than one step ahead is not ahead at all.        *)
LEMMA MultipleOrder ==
    ASSUME NEW d \in Nat \ {0}, NEW a \in Int, NEW b \in Int, d * a < d * b + d
    PROVE  a <= b
  <1>1. SUFFICES ASSUME a >= b + 1 PROVE FALSE
    BY SMT
  <1>2. d * a >= d * (b + 1)
    BY <1>1, SMT
  <1>3. QED
    BY <1>2, SMT

(* The remainder is unique.                                                *)
LEMMA ModUnique ==
    ASSUME NEW d \in Nat \ {0}, NEW q \in Nat, NEW r \in 0 .. d - 1
    PROVE  (d * q + r) % d = r
  <1> DEFINE n == d * q + r
  <1>1. n \in Nat
    OBVIOUS
  <1>2. n % d \in 0 .. d - 1 /\ n \div d \in Nat /\ n = d * (n \div d) + (n % d)
    BY <1>1, DivMod
  <1>3. n \div d <= q
    BY <1>2, MultipleOrder
  <1>4. q <= n \div d
    BY <1>2, MultipleOrder
  <1>5. QED
    BY <1>2, <1>3, <1>4

(* Adding a multiple of the modulus changes nothing.                       *)
LEMMA ModShift ==
    ASSUME NEW d \in Nat \ {0}, NEW n \in Nat, NEW k \in Nat
    PROVE  (n + d * k) % d = n % d
  <1>1. n % d \in 0 .. d - 1 /\ n \div d \in Nat /\ n = d * (n \div d) + (n % d)
    BY DivMod
  <1>2. n + d * k = d * ((n \div d) + k) + (n % d)
    BY <1>1, SMT
  <1>3. (n \div d) + k \in Nat
    BY <1>1
  <1>4. QED
    BY <1>1, <1>2, <1>3, ModUnique

(* The low bits of a wrapped counter are the low bits of the counter.      *)
LEMMA ModOfMod ==
    ASSUME NEW c \in Nat \ {0}, NEW k \in Nat, NEW m \in Nat \ {0}, m = k * c,
           NEW n \in Nat
    PROVE  (n % m) % c = n % c
  <1>1. n % m \in 0 .. m - 1 /\ n \div m \in Nat /\ n = m * (n \div m) + (n % m)
    BY DivMod
  <1>2. n = (n % m) + c * (k * (n \div m))
    BY <1>1, SMT
  <1>3. k * (n \div m) \in Nat /\ n % m \in Nat
    BY <1>1
  <1>4. ((n % m) + c * (k * (n \div m))) % c = (n % m) % c
    BY <1>3, ModShift
  <1>5. QED
    BY <1>2, <1>4

(* Of two numbers with the same remainder, one that is less than a whole   *)
(* modulus ahead is not ahead.                                             *)
LEMMA ModGap ==
    ASSUME NEW d \in Nat \ {0}, NEW a \in Nat, NEW b \in Nat,
           a % d = b % d, a < b + d
    PROVE  a <= b
  <1>1. a % d \in 0 .. d - 1 /\ a \div d \in Nat /\ a = d * (a \div d) + (a % d)
    BY DivMod
  <1>2. b % d \in 0 .. d - 1 /\ b \div d \in Nat /\ b = d * (b \div d) + (b % d)
    BY DivMod
  <1>3. a \div d <= b \div d
    BY <1>1, <1>2, MultipleOrder
  <1>4. d * (a \div d) <= d * (b \div d)
    BY <1>1, <1>2, <1>3, SMT
  <1>5. QED
    BY <1>1, <1>2, <1>4

(* Unsigned subtraction of wrapped counters that are less than a modulus   *)
(* apart is the true distance.                                             *)
LEMMA ModMinus ==
    ASSUME NEW d \in Nat \ {0}, NEW a \in Nat, NEW b \in Nat, b <= a, a - b < d
    PROVE  ((a % d) + d - (b % d)) % d = a - b
  <1>1. a % d \in 0 .. d - 1 /\ a \div d \in Nat /\ a = d * (a \div d) + (a % d)
    BY DivMod
  <1>2. b % d \in 0 .. d - 1 /\ b \div d \in Nat /\ b = d * (b \div d) + (b % d)
    BY DivMod
  <1>3. a - b \in 0 .. d - 1
    OBVIOUS
  <1>4. b \div d <= a \div d
    <2>1. d * (b \div d) < d * (a \div d) + d
      BY <1>1, <1>2
    <2>2. QED
      BY <2>1, <1>1, <1>2, MultipleOrder
  <1>5. a \div d <= (b \div d) + 1
    <2>1. d * (a \div d) < d * ((b \div d) + 1) + d
      BY <1>1, <1>2
    <2>2. QED
      BY <2>1, <1>1, <1>2, MultipleOrder
  <1>6. CASE a \div d = b \div d
    <2>1. (a % d) + d - (b % d) = d * 1 + (a - b)
      BY <1>1, <1>2, <1>6
    <2>2. QED
      BY <2>1, <1>3, ModUnique
  <1>7. CASE a \div d = (b \div d) + 1
    <2>1. (a % d) + d - (b % d) = d * 0 + (a - b)
      BY <1>1, <1>2, <1>7
    <2>2. QED
      BY <2>1, <1>3, ModUnique
  <1>8. QED
    BY <1>1, <1>2, <1>4, <1>5, <1>6, <1>7

(* Counting up commutes with wrapping.                                     *)
LEMMA ModSucc ==
    ASSUME NEW d \in Nat \ {0}, NEW n \in Nat
    PROVE  ((n % d) + 1) % d = (n + 1) % d
  <1>1. n % d \in 0 .. d - 1 /\ n \div d \in Nat /\ n = d * (n \div d) + (n % d)
    BY DivMod
  <1>2. n + 1 = ((n % d) + 1) + d * (n \div d) /\ (n % d) + 1 \in Nat
    BY <1>1
  <1>3. QED
    BY <1>1, <1>2, ModShift

--------------------------------------------------------------------------------

(* Each message of a counter holds its own position, wrapped, and          *)
(* publishes exactly the slot accesses of the calls up to it.              *)
HistoryInv ==
    /\ Len(tailMO) = Len(pushed) + 1 /\ Len(headMO) = Len(popped) + 1
    /\ \A k \in 1 .. Len(tailMO) : tailMO[k].val = Wrap(k - 1) /\ tailMO[k].view = k - 1
    /\ \A k \in 1 .. Len(headMO) : headMO[k].val = Wrap(k - 1) /\ headMO[k].view = k - 1

(* A cached counter is the last message read, and so is the knowledge of   *)
(* the other thread's slot accesses.                                       *)
CacheInv ==
    /\ head_cached = Wrap(headAt - 1) /\ pKnows = headAt - 1
    /\ tail_cached = Wrap(tailAt - 1) /\ cKnows = tailAt - 1

(* The four positions stay in order: head as the producer knows it, head,  *)
(* tail as the consumer knows it, tail, and the first is at most Capacity  *)
(* behind the last; strictly, once a call has seen room (an item).         *)
WindowInv ==
    /\ Len(headMO) <= tailAt
    /\ Len(tailMO) <= headAt + Capacity
    /\ ppc \in {"write", "publish"} => Len(tailMO) < headAt + Capacity
    /\ cpc \in {"read", "publish"} => Len(headMO) < tailAt
    /\ nWrites = IF ppc = "publish" THEN Len(tailMO) ELSE Len(tailMO) - 1
    /\ nReads = IF cpc = "publish" THEN Len(headMO) ELSE Len(headMO) - 1

(* The n-th access of each kind is to slot n - 1.                          *)
AccessInv ==
    \A s \in Slots :
        /\ lastRead[s] <= nReads /\ (lastRead[s] # 0 => (lastRead[s] - 1) % Capacity = s)
        /\ lastWrite[s] <= nWrites /\ (lastWrite[s] # 0 => (lastWrite[s] - 1) % Capacity = s)

(* An item is in its slot from the write to the read, then on its way out. *)
ContentsInv ==
    /\ UnreadSlotsIntact
    /\ ppc # "idle" => item \in Items
    /\ ppc = "publish" => buffer[Len(pushed) % Capacity] = item
    /\ cpc = "publish" => out = pushed[Len(popped) + 1]
    /\ \A k \in 1 .. Len(popped) : popped[k] = pushed[k]

IInv == TypeOK /\ HistoryInv /\ CacheInv /\ WindowInv /\ AccessInv /\ ContentsInv

--------------------------------------------------------------------------------
(* The counters are wider than the slot mask.                              *)
LEMMA Widths ==
    /\ Capacity \in Nat \ {0} /\ Modulus \in Nat \ {0}
    /\ Capacity < Modulus
    /\ \E k \in Nat : Modulus = k * Capacity
  <1>1. Capacity \in Nat \ {0} /\ Modulus \in Nat \ {0}
    BY CapacityAssumption, ModulusAssumption
  <1>2. PICK k \in 2 .. Modulus : Modulus = k * Capacity
    BY ModulusAssumption
  <1>3. k * Capacity >= 2 * Capacity
    BY <1>1, <1>2, SMT
  <1>4. QED
    BY <1>1, <1>2, <1>3, SMT

(* A wrapped position is a counter, and its slot is the position's slot.   *)
LEMMA SlotOfPosition ==
    ASSUME NEW n \in Nat
    PROVE  /\ Wrap(n) \in Counters
           /\ Slot(Wrap(n)) = n % Capacity
           /\ n % Capacity \in Slots
  BY Widths, ModOfMod, DivMod DEF Wrap, Counters, Slot, Slots

(* The slot j places after a wrapped counter.                              *)
LEMMA SlotAhead ==
    ASSUME NEW n \in Nat, NEW j \in Nat
    PROVE  (Wrap(n) + j) % Capacity = (n + j) % Capacity
  <1> DEFINE q == n \div Modulus
             r == n % Modulus
  <1>1. Capacity \in Nat \ {0} /\ Modulus \in Nat \ {0}
    BY Widths
  <1>2. PICK k \in Nat : Modulus = k * Capacity
    BY Widths
  <1>3. r \in 0 .. Modulus - 1 /\ q \in Nat /\ n = Modulus * q + r
    BY <1>1, DivMod
  <1>4. Wrap(n) = r
    BY DEF Wrap
  <1> HIDE DEF q, r
  <1>5. Modulus * q = Capacity * (k * q) /\ k * q \in Nat
    <2>1. k * q \in Nat
      BY <1>3
    <2>2. QED
      BY <1>1, <1>2, <1>3, <2>1, SMT
  <1>6. n + j = (r + j) + Capacity * (k * q) /\ r + j \in Nat
    BY <1>1, <1>3, <1>5
  <1>7. ((r + j) + Capacity * (k * q)) % Capacity = (r + j) % Capacity
    BY <1>1, <1>5, <1>6, ModShift
  <1>8. QED
    BY <1>4, <1>6, <1>7

(* Adding one to a counter moves it to the next position.                  *)
LEMMA NextPosition ==
    ASSUME NEW n \in Nat
    PROVE  Wrap(Wrap(n) + 1) = Wrap(n + 1)
  BY Widths, ModSucc DEF Wrap

(* Both threads' own counters, read off the inductive invariant.           *)
LEMMA OwnCounters ==
    ASSUME TypeOK, HistoryInv
    PROVE  /\ tail = Wrap(Len(pushed)) /\ head = Wrap(Len(popped))
           /\ Slot(tail) = Len(pushed) % Capacity /\ Slot(tail) \in Slots
           /\ Slot(head) = Len(popped) % Capacity /\ Slot(head) \in Slots
           /\ Len(pushed) \in Nat /\ Len(popped) \in Nat
  <1>1. Len(pushed) \in Nat /\ Len(popped) \in Nat
    BY DEF TypeOK
  <1>2. tail = Wrap(Len(pushed)) /\ head = Wrap(Len(popped))
    BY <1>1 DEF HistoryInv, tail, head, Newest
  <1>3. QED
    BY <1>1, <1>2, SlotOfPosition

(* What the code's full test means: exactly Capacity positions lie between *)
(* the head that was read and tail.                                        *)
LEMMA FullTest ==
    ASSUME IInv, NEW m \in headAt .. Len(headMO)
    PROVE  LooksFull(Wrap(m - 1)) <=> Len(tailMO) = m + Capacity
  <1>1. /\ m \in Nat \ {0} /\ Len(pushed) \in Nat /\ tail = Wrap(Len(pushed))
        /\ Len(tailMO) = Len(pushed) + 1
        /\ m - 1 <= Len(pushed) /\ Len(pushed) - (m - 1) <= Capacity
    <2>1. Len(pushed) \in Nat /\ tail = Wrap(Len(pushed)) /\ Len(tailMO) = Len(pushed) + 1
      BY OwnCounters DEF IInv, HistoryInv
    <2>2. headAt \in 1 .. Len(headMO) /\ tailAt \in 1 .. Len(tailMO) /\ Len(headMO) \in Nat
      BY DEF IInv, TypeOK
    <2>3. Len(headMO) <= tailAt /\ Len(tailMO) <= headAt + Capacity
      BY DEF IInv, WindowInv
    <2>4. QED
      BY <2>1, <2>2, <2>3, Widths
  <1>2. Minus(tail, Wrap(m - 1)) = Len(pushed) - (m - 1)
    <2>1. m - 1 \in Nat /\ Len(pushed) - (m - 1) < Modulus
      BY <1>1, Widths
    <2>2. QED
      BY <1>1, <2>1, Widths, ModMinus, ZenonT(60) DEF Minus, Wrap
  <1>3. QED
    BY <1>1, <1>2, Widths DEF LooksFull

(* What the code's empty test means: the tail that was read is head.       *)
LEMMA EmptyTest ==
    ASSUME IInv, NEW m \in tailAt .. Len(tailMO)
    PROVE  LooksEmpty(Wrap(m - 1)) <=> Len(headMO) = m
  <1>1. /\ m \in Nat \ {0} /\ Len(popped) \in Nat /\ head = Wrap(Len(popped))
        /\ Len(headMO) = Len(popped) + 1
        /\ Len(popped) <= m - 1 /\ m - 1 <= Len(popped) + Capacity
    <2>1. /\ Len(popped) \in Nat /\ head = Wrap(Len(popped))
          /\ Len(pushed) \in Nat
          /\ Len(headMO) = Len(popped) + 1 /\ Len(tailMO) = Len(pushed) + 1
      BY OwnCounters DEF IInv, HistoryInv
    <2>2. headAt \in 1 .. Len(headMO) /\ tailAt \in 1 .. Len(tailMO)
      BY DEF IInv, TypeOK
    <2>3. Len(headMO) <= tailAt /\ Len(tailMO) <= headAt + Capacity
      BY DEF IInv, WindowInv
    <2>4. QED
      BY <2>1, <2>2, <2>3, Widths
  <1>2. ASSUME Wrap(Len(popped)) = Wrap(m - 1) PROVE m - 1 <= Len(popped)
    <2>1. m - 1 \in Nat /\ m - 1 < Len(popped) + Modulus
      BY <1>1, Widths
    <2>2. QED
      BY <1>1, <1>2, <2>1, Widths, ModGap DEF Wrap
  <1>3. QED
    BY <1>1, <1>2 DEF LooksEmpty

--------------------------------------------------------------------------------
(* Every step of the two threads preserves the inductive invariant.        *)

LEMMA InitIInv == Init => IInv
  <1> SUFFICES ASSUME Init PROVE IInv
    OBVIOUS
  <1>1. Wrap(0) = 0
    <2>1. (Modulus * 0 + 0) % Modulus = 0
      BY Widths, ModUnique
    <2>2. QED
      BY <2>1, Widths DEF Wrap
  <1>2. TypeOK
    BY Widths DEF Init, TypeOK, Messages, Counters, Slots
  <1>3. HistoryInv /\ CacheInv /\ WindowInv
    BY <1>1, Widths DEF Init, HistoryInv, CacheInv, WindowInv
  <1>4. AccessInv
    BY DEF Init, AccessInv
  <1>5. ContentsInv
    BY DEF Init, ContentsInv, UnreadSlotsIntact
  <1>6. QED
    BY <1>2, <1>3, <1>4, <1>5 DEF IInv

LEMMA PushCallStep ==
    ASSUME IInv, NEW i \in Items, PushCall(i)
    PROVE  IInv'
  <1> USE DEF PushCall, pVars, cVars, slotVars
  <1>1. TypeOK'
    BY DEF IInv, TypeOK
  <1>2. HistoryInv' /\ CacheInv'
    BY DEF IInv, HistoryInv, CacheInv
  <1>3. ppc' = "write" => Len(tailMO) < headAt + Capacity
    <2>1. headAt \in headAt .. Len(headMO)
      BY DEF IInv, TypeOK
    <2>2. LooksFull(head_cached) <=> Len(tailMO) = headAt + Capacity
      BY <2>1, FullTest DEF IInv, CacheInv
    <2>3. Len(tailMO) <= headAt + Capacity /\ headAt \in Nat /\ Len(tailMO) \in Nat
      BY DEF IInv, WindowInv, TypeOK
    <2>4. QED
      BY <2>2, <2>3, Widths
  <1>4. WindowInv'
    BY <1>3 DEF IInv, WindowInv
  <1>5. AccessInv'
    BY DEF IInv, AccessInv
  <1>6. ContentsInv'
    BY DEF IInv, ContentsInv, UnreadSlotsIntact
  <1>7. QED
    BY <1>1, <1>2, <1>4, <1>5, <1>6 DEF IInv

LEMMA PushRefreshStep ==
    ASSUME IInv, NEW m, PushRefresh(m)
    PROVE  IInv'
  <1> USE DEF PushRefresh, pVars, cVars, slotVars
  <1>1. /\ m \in headAt .. Len(headMO) /\ headAt \in 1 .. Len(headMO)
        /\ m \in Nat \ {0} /\ Len(headMO) \in Nat /\ Len(tailMO) \in Nat
    BY DEF IInv, TypeOK
  <1>2. headMO[m].val = Wrap(m - 1) /\ headMO[m].view = m - 1
    BY <1>1 DEF IInv, HistoryInv
  <1>3. headAt' = m /\ head_cached' = Wrap(m - 1) /\ pKnows' = m - 1
    BY <1>1, <1>2 DEF IInv, CacheInv, Acquire
  <1>4. TypeOK'
    <2>1. m - 1 \in Nat /\ Wrap(m - 1) \in Counters
      BY <1>1, SlotOfPosition
    <2>2. ppc' \in {"idle", "refresh", "write", "publish"}
      OBVIOUS
    <2>3. QED
      BY <1>1, <1>3, <2>1, <2>2 DEF IInv, TypeOK
  <1>5. HistoryInv' /\ CacheInv'
    BY <1>3 DEF IInv, HistoryInv, CacheInv
  <1>6. LooksFull(head_cached') <=> Len(tailMO) = m + Capacity
    BY <1>1, <1>3, FullTest
  <1>7. WindowInv'
    BY <1>1, <1>3, <1>6, Widths DEF IInv, WindowInv
  <1>8. AccessInv' /\ ContentsInv'
    BY DEF IInv, AccessInv, ContentsInv, UnreadSlotsIntact
  <1>9. QED
    BY <1>4, <1>5, <1>7, <1>8 DEF IInv

(* Slot Len(pushed) % Capacity holds no unread item when it is written.    *)
LEMMA PushWriteStep ==
    ASSUME IInv, PushWrite
    PROVE  IInv'
  <1> USE DEF PushWrite, pVars, cVars, slotVars
  <1>1. /\ Len(pushed) \in Nat /\ Len(popped) \in Nat /\ Len(tailMO) = Len(pushed) + 1
        /\ Slot(tail) = Len(pushed) % Capacity /\ Slot(tail) \in Slots
    BY OwnCounters DEF IInv, HistoryInv
  <1>2. nWrites = Len(pushed) /\ item \in Items
    BY <1>1 DEF IInv, WindowInv, ContentsInv
  <1>3. TypeOK'
    BY <1>1, <1>2 DEF IInv, TypeOK
  <1>4. HistoryInv' /\ CacheInv'
    BY DEF IInv, HistoryInv, CacheInv
  <1>5. WindowInv'
    BY <1>1, <1>2 DEF IInv, WindowInv
  <1>6. AccessInv'
    BY <1>1, <1>2 DEF IInv, AccessInv, TypeOK
  <1>7. UnreadSlotsIntact'
    <2>1. SUFFICES ASSUME NEW k \in Len(popped) + 1 .. Len(pushed)
                   PROVE  (k - 1) % Capacity # Len(pushed) % Capacity
      <3>1. \A k \in Len(popped) + 1 .. Len(pushed) : (k - 1) % Capacity \in Slots
        BY <1>1, SlotOfPosition
      <3>2. QED
        BY <1>1, <2>1, <3>1 DEF IInv, ContentsInv, UnreadSlotsIntact, TypeOK
    <2>2. ASSUME (k - 1) % Capacity = Len(pushed) % Capacity PROVE FALSE
      <3>1. Len(pushed) < (k - 1) + Capacity
        <4>1. Len(tailMO) < headAt + Capacity /\ headAt <= Len(headMO)
              /\ headAt \in Nat /\ Len(headMO) = Len(popped) + 1
          BY DEF IInv, WindowInv, TypeOK, HistoryInv
        <4>2. QED
          BY <1>1, <4>1, Widths
      <3>2. Len(pushed) <= k - 1
        <4>1. k - 1 \in Nat
          BY <1>1
        <4>2. QED
          BY <1>1, <2>2, <3>1, <4>1, Widths, ModGap
      <3>3. QED
        BY <1>1, <3>2
    <2>3. QED
      BY <2>2
  <1>8. ContentsInv'
    BY <1>1, <1>2, <1>7 DEF IInv, ContentsInv, TypeOK
  <1>9. QED
    BY <1>3, <1>4, <1>5, <1>6, <1>8 DEF IInv

LEMMA PushPublishStep ==
    ASSUME IInv, PushPublish
    PROVE  IInv'
  <1> USE DEF PushPublish, pVars, cVars, slotVars
  <1>1. /\ Len(pushed) \in Nat /\ Len(popped) \in Nat
        /\ Len(tailMO) = Len(pushed) + 1 /\ Len(headMO) = Len(popped) + 1
        /\ tail = Wrap(Len(pushed))
    BY OwnCounters DEF IInv, HistoryInv
  <1>2. nWrites = Len(pushed) + 1 /\ item \in Items
    BY <1>1 DEF IInv, WindowInv, ContentsInv
  <1>3. Release(Wrap(tail + 1), nWrites) = [val |-> Wrap(Len(pushed) + 1), view |-> Len(pushed) + 1]
    BY <1>1, <1>2, NextPosition DEF Release
  <1>4. /\ tailMO' = Append(tailMO, [val |-> Wrap(Len(pushed) + 1), view |-> Len(pushed) + 1])
        /\ pushed' = Append(pushed, item)
        /\ tailMO \in Seq(Messages) /\ pushed \in Seq(Items)
    BY <1>3 DEF IInv, TypeOK
  <1>5. /\ Len(tailMO') = Len(pushed) + 2 /\ Len(pushed') = Len(pushed) + 1
        /\ \A k \in 1 .. Len(tailMO) : tailMO'[k] = tailMO[k]
        /\ tailMO'[Len(pushed) + 2] = [val |-> Wrap(Len(pushed) + 1), view |-> Len(pushed) + 1]
        /\ \A k \in 1 .. Len(pushed) : pushed'[k] = pushed[k]
        /\ pushed'[Len(pushed) + 1] = item
    BY <1>1, <1>4
  <1>6. TypeOK'
    <2>1. tailMO' \in Seq(Messages) /\ pushed' \in Seq(Items)
      BY <1>1, <1>2, <1>4, SlotOfPosition DEF Messages
    <2>2. tailAt \in 1 .. Len(tailMO')
      BY <1>1, <1>5 DEF IInv, TypeOK
    <2>3. QED
      BY <2>1, <2>2 DEF IInv, TypeOK
  <1>7. HistoryInv'
    BY <1>1, <1>5 DEF IInv, HistoryInv
  <1>8. CacheInv'
    BY DEF IInv, CacheInv
  <1>9. WindowInv'
    <2>1. /\ Len(headMO) <= tailAt /\ Len(tailMO) < headAt + Capacity
          /\ cpc \in {"read", "publish"} => Len(headMO) < tailAt
          /\ nReads = IF cpc = "publish" THEN Len(headMO) ELSE Len(headMO) - 1
          /\ headAt \in Nat
      BY DEF IInv, WindowInv, TypeOK
    <2>2. Len(tailMO') <= headAt + Capacity /\ nWrites = Len(tailMO') - 1
      BY <1>1, <1>2, <1>5, <2>1, Widths
    <2>3. QED
      BY <2>1, <2>2 DEF WindowInv
  <1>10. AccessInv'
    BY DEF IInv, AccessInv
  <1>11. ContentsInv'
    <2>1. UnreadSlotsIntact'
      BY <1>1, <1>5 DEF IInv, ContentsInv, UnreadSlotsIntact
    <2>2. cpc = "publish" => Len(popped) + 1 <= Len(pushed)
      BY <1>1 DEF IInv, WindowInv, TypeOK
    <2>3. Len(popped) <= Len(pushed)
      BY <1>1 DEF IInv, WindowInv, TypeOK
    <2>4. QED
      BY <1>1, <1>2, <1>5, <2>1, <2>2, <2>3 DEF IInv, ContentsInv
  <1>12. QED
    BY <1>6, <1>7, <1>8, <1>9, <1>10, <1>11 DEF IInv

LEMMA PopCallStep ==
    ASSUME IInv, PopCall
    PROVE  IInv'
  <1> USE DEF PopCall, pVars, cVars, slotVars
  <1>1. TypeOK'
    BY DEF IInv, TypeOK
  <1>2. HistoryInv' /\ CacheInv'
    BY DEF IInv, HistoryInv, CacheInv
  <1>3. cpc' = "read" => Len(headMO) < tailAt
    <2>1. tailAt \in tailAt .. Len(tailMO)
      BY DEF IInv, TypeOK
    <2>2. LooksEmpty(tail_cached) <=> Len(headMO) = tailAt
      BY <2>1, EmptyTest DEF IInv, CacheInv
    <2>3. Len(headMO) <= tailAt /\ tailAt \in Nat /\ Len(headMO) \in Nat
      BY DEF IInv, WindowInv, TypeOK
    <2>4. QED
      BY <2>2, <2>3
  <1>4. WindowInv'
    BY <1>3 DEF IInv, WindowInv
  <1>5. AccessInv' /\ ContentsInv'
    BY DEF IInv, AccessInv, ContentsInv, UnreadSlotsIntact
  <1>6. QED
    BY <1>1, <1>2, <1>4, <1>5 DEF IInv

LEMMA PopRefreshStep ==
    ASSUME IInv, NEW m, PopRefresh(m)
    PROVE  IInv'
  <1> USE DEF PopRefresh, pVars, cVars, slotVars
  <1>1. /\ m \in tailAt .. Len(tailMO) /\ tailAt \in 1 .. Len(tailMO)
        /\ m \in Nat \ {0} /\ Len(headMO) \in Nat /\ Len(tailMO) \in Nat
    BY DEF IInv, TypeOK
  <1>2. tailMO[m].val = Wrap(m - 1) /\ tailMO[m].view = m - 1
    BY <1>1 DEF IInv, HistoryInv
  <1>3. tailAt' = m /\ tail_cached' = Wrap(m - 1) /\ cKnows' = m - 1
    BY <1>1, <1>2 DEF IInv, CacheInv, Acquire
  <1>4. TypeOK'
    <2>1. m - 1 \in Nat /\ Wrap(m - 1) \in Counters
      BY <1>1, SlotOfPosition
    <2>2. cpc' \in {"idle", "refresh", "read", "publish"}
      OBVIOUS
    <2>3. QED
      BY <1>1, <1>3, <2>1, <2>2 DEF IInv, TypeOK
  <1>5. HistoryInv' /\ CacheInv'
    BY <1>3 DEF IInv, HistoryInv, CacheInv
  <1>6. LooksEmpty(tail_cached') <=> Len(headMO) = m
    BY <1>1, <1>3, EmptyTest
  <1>7. WindowInv'
    BY <1>1, <1>3, <1>6 DEF IInv, WindowInv
  <1>8. AccessInv' /\ ContentsInv'
    BY DEF IInv, AccessInv, ContentsInv, UnreadSlotsIntact
  <1>9. QED
    BY <1>4, <1>5, <1>7, <1>8 DEF IInv

(* The slot that is read holds the oldest unread item, and its write is    *)
(* one the consumer has acquired.                                          *)
LEMMA ReadIsOrdered ==
    ASSUME IInv, cpc = "read"
    PROVE  /\ lastWrite[Slot(head)] <= cKnows
           /\ Len(popped) + 1 <= Len(pushed)
           /\ buffer[Slot(head)] = pushed[Len(popped) + 1]
           /\ pushed[Len(popped) + 1] \in Items
  <1>1. /\ Len(pushed) \in Nat /\ Len(popped) \in Nat
        /\ Len(tailMO) = Len(pushed) + 1 /\ Len(headMO) = Len(popped) + 1
        /\ Slot(head) = Len(popped) % Capacity /\ Slot(head) \in Slots
    BY OwnCounters DEF IInv, HistoryInv
  <1>2. /\ Len(popped) + 1 < tailAt /\ tailAt <= Len(pushed) + 1 /\ tailAt \in Nat
        /\ headAt \in Nat /\ headAt <= Len(popped) + 1
        /\ cKnows = tailAt - 1
    BY <1>1 DEF IInv, WindowInv, TypeOK, CacheInv
  <1>3. Len(popped) + 1 <= Len(pushed)
    BY <1>1, <1>2
  <1>4. buffer[Slot(head)] = pushed[Len(popped) + 1]
    BY <1>1, <1>3 DEF IInv, ContentsInv, UnreadSlotsIntact
  <1>5. lastWrite[Slot(head)] <= cKnows
    <2> DEFINE w == lastWrite[Slot(head)]
    <2>1. w \in Nat /\ w <= nWrites /\ (w # 0 => (w - 1) % Capacity = Len(popped) % Capacity)
      BY <1>1 DEF IInv, TypeOK, AccessInv
    <2>2. nWrites <= Len(popped) + Capacity /\ nWrites \in Nat /\ Capacity \in Nat
      <3>1. /\ ppc = "publish" => Len(pushed) + 1 < headAt + Capacity
            /\ Len(pushed) + 1 <= headAt + Capacity
            /\ nWrites = IF ppc = "publish" THEN Len(pushed) + 1 ELSE Len(pushed)
        BY <1>1 DEF IInv, WindowInv
      <3>2. QED
        BY <1>1, <1>2, <3>1, Widths
    <2>3. CASE w = 0
      BY <1>1, <1>2, <2>3
    <2>4. CASE w # 0
      <3>1. w - 1 \in Nat /\ w - 1 < Len(popped) + Capacity
        BY <1>1, <2>1, <2>2, <2>4
      <3>2. w - 1 <= Len(popped)
        BY <1>1, <2>1, <2>4, <3>1, Widths, ModGap
      <3>3. QED
        BY <1>1, <1>2, <2>1, <3>2
    <2>5. QED
      BY <2>3, <2>4
  <1>6. pushed[Len(popped) + 1] \in Items
    BY <1>1, <1>3 DEF IInv, TypeOK
  <1>7. QED
    BY <1>3, <1>4, <1>5, <1>6

LEMMA PopReadStep ==
    ASSUME IInv, PopRead
    PROVE  IInv'
  <1> USE DEF PopRead, pVars, cVars, slotVars
  <1>1. /\ Len(pushed) \in Nat /\ Len(popped) \in Nat
        /\ Len(headMO) = Len(popped) + 1
        /\ Slot(head) = Len(popped) % Capacity /\ Slot(head) \in Slots
    BY OwnCounters DEF IInv, HistoryInv
  <1>2. nReads = Len(popped)
    BY <1>1 DEF IInv, WindowInv
  <1>3. out' = pushed[Len(popped) + 1] /\ out' \in Items
    BY ReadIsOrdered
  <1>4. /\ lastRead' = [lastRead EXCEPT ![Slot(head)] = nReads + 1]
        /\ nReads' = nReads + 1 /\ cpc' = "publish"
    OBVIOUS
  <1>5. TypeOK'
    BY <1>1, <1>2, <1>3, <1>4 DEF IInv, TypeOK
  <1>6. HistoryInv' /\ CacheInv'
    BY DEF IInv, HistoryInv, CacheInv
  <1>7. WindowInv'
    BY <1>1, <1>2 DEF IInv, WindowInv
  <1>8. AccessInv'
    BY <1>1, <1>2, <1>4 DEF IInv, AccessInv, TypeOK
  <1>9. ContentsInv'
    BY <1>3 DEF IInv, ContentsInv, UnreadSlotsIntact
  <1>10. QED
    BY <1>5, <1>6, <1>7, <1>8, <1>9 DEF IInv

LEMMA PopPublishStep ==
    ASSUME IInv, PopPublish
    PROVE  IInv'
  <1> USE DEF PopPublish, pVars, cVars, slotVars
  <1>1. /\ Len(pushed) \in Nat /\ Len(popped) \in Nat
        /\ Len(tailMO) = Len(pushed) + 1 /\ Len(headMO) = Len(popped) + 1
        /\ head = Wrap(Len(popped))
    BY OwnCounters DEF IInv, HistoryInv
  <1>2. /\ Len(headMO) < tailAt /\ tailAt <= Len(tailMO) /\ tailAt \in Nat
        /\ nReads = Len(popped) + 1
    BY <1>1 DEF IInv, WindowInv, TypeOK
  <1>3. out = pushed[Len(popped) + 1] /\ out \in Items
    BY <1>1, <1>2 DEF IInv, ContentsInv, TypeOK
  <1>4. Release(Wrap(head + 1), nReads) = [val |-> Wrap(Len(popped) + 1), view |-> Len(popped) + 1]
    BY <1>1, <1>2, NextPosition DEF Release
  <1>5. /\ headMO' = Append(headMO, [val |-> Wrap(Len(popped) + 1), view |-> Len(popped) + 1])
        /\ popped' = Append(popped, out)
        /\ headMO \in Seq(Messages) /\ popped \in Seq(Items)
    BY <1>4 DEF IInv, TypeOK
  <1>6. /\ Len(headMO') = Len(popped) + 2 /\ Len(popped') = Len(popped) + 1
        /\ \A k \in 1 .. Len(headMO) : headMO'[k] = headMO[k]
        /\ headMO'[Len(popped) + 2] = [val |-> Wrap(Len(popped) + 1), view |-> Len(popped) + 1]
        /\ \A k \in 1 .. Len(popped) : popped'[k] = popped[k]
        /\ popped'[Len(popped) + 1] = out
    BY <1>1, <1>5
  <1>7. TypeOK'
    <2>1. headMO' \in Seq(Messages) /\ popped' \in Seq(Items)
      BY <1>1, <1>3, <1>5, SlotOfPosition DEF Messages
    <2>2. headAt \in 1 .. Len(headMO')
      BY <1>1, <1>6 DEF IInv, TypeOK
    <2>3. QED
      BY <2>1, <2>2 DEF IInv, TypeOK
  <1>8. HistoryInv'
    BY <1>1, <1>6 DEF IInv, HistoryInv
  <1>9. CacheInv'
    BY DEF IInv, CacheInv
  <1>10. WindowInv'
    <2>1. /\ Len(tailMO) <= headAt + Capacity
          /\ ppc \in {"write", "publish"} => Len(tailMO) < headAt + Capacity
          /\ nWrites = IF ppc = "publish" THEN Len(tailMO) ELSE Len(tailMO) - 1
      BY DEF IInv, WindowInv
    <2>2. Len(headMO') <= tailAt /\ nReads = Len(headMO') - 1
      BY <1>1, <1>2, <1>6
    <2>3. QED
      BY <2>1, <2>2 DEF WindowInv
  <1>11. AccessInv'
    BY DEF IInv, AccessInv
  <1>12. ContentsInv'
    <2>1. UnreadSlotsIntact'
      BY <1>1, <1>6 DEF IInv, ContentsInv, UnreadSlotsIntact
    <2>2. \A k \in 1 .. Len(popped') : popped'[k] = pushed[k]
      BY <1>1, <1>3, <1>6 DEF IInv, ContentsInv
    <2>3. QED
      BY <2>1, <2>2 DEF IInv, ContentsInv
  <1>13. QED
    BY <1>7, <1>8, <1>9, <1>10, <1>11, <1>12 DEF IInv

LEMMA NextIInv == IInv /\ [Next]_vars => IInv'
  <1> SUFFICES ASSUME IInv, [Next]_vars PROVE IInv'
    OBVIOUS
  <1>1. CASE \E i \in Items : PushCall(i)
    BY <1>1, PushCallStep
  <1>2. CASE \E m \in 1 .. Len(headMO) : PushRefresh(m)
    BY <1>2, PushRefreshStep
  <1>3. CASE PushWrite
    BY <1>3, PushWriteStep
  <1>4. CASE PushPublish
    BY <1>4, PushPublishStep
  <1>5. CASE PopCall
    BY <1>5, PopCallStep
  <1>6. CASE \E m \in 1 .. Len(tailMO) : PopRefresh(m)
    BY <1>6, PopRefreshStep
  <1>7. CASE PopRead
    BY <1>7, PopReadStep
  <1>8. CASE PopPublish
    BY <1>8, PopPublishStep
  <1>9. CASE UNCHANGED vars
    BY <1>9 DEF vars, pVars, cVars, slotVars, IInv, TypeOK, HistoryInv, CacheInv,
                WindowInv, AccessInv, ContentsInv, UnreadSlotsIntact
  <1>10. QED
    BY <1>1, <1>2, <1>3, <1>4, <1>5, <1>6, <1>7, <1>8, <1>9 DEF Next, Producer, Consumer

(* The inductive invariant holds in every reachable state.                 *)
THEOREM Invariance == Spec => []IInv
  <1>1. QED
    BY InitIInv, NextIInv, PTL DEF Spec

--------------------------------------------------------------------------------
(* Type correctness of the ring buffer (ring_buffer.hpp:115-241).          *)
THEOREM TypeCorrect == Spec => []TypeOK
  <1>1. IInv => TypeOK
    BY DEF IInv
  <1>2. QED
    BY Invariance, <1>1, PTL

(* Nothing that was accepted is overwritten before it is handed out        *)
(* (ring_buffer.hpp:196-207: the full test, on a possibly stale head).     *)
THEOREM NoOverwrite == Spec => []UnreadSlotsIntact
  <1>1. IInv => UnreadSlotsIntact
    BY DEF IInv, ContentsInv
  <1>2. QED
    BY Invariance, <1>1, PTL

(* First in, first out, with nothing lost, duplicated or made up, for any  *)
(* number of wraps of the counters.                                        *)
THEOREM Fifo == Spec => []PoppedIsPrefixOfPushed
  <1>1. ASSUME IInv PROVE PoppedIsPrefixOfPushed
    <2>1. Len(popped) <= Len(pushed)
      BY <1>1, OwnCounters DEF IInv, HistoryInv, WindowInv, TypeOK
    <2>2. QED
      BY <1>1, <2>1 DEF IInv, ContentsInv, PoppedIsPrefixOfPushed
  <1>2. QED
    BY Invariance, <1>1, PTL

(* The acquire/release pairs order every two conflicting accesses to a     *)
(* slot: the buffer is free of data races (ring_buffer.hpp:39-69).         *)
THEOREM DataRaceFree == Spec => []NoSlotRace
  <1>1. ASSUME IInv, ppc = "write" PROVE lastRead[Slot(tail)] <= pKnows
    <2> DEFINE r == lastRead[Slot(tail)]
    <2>1. /\ Len(pushed) \in Nat /\ Len(popped) \in Nat
          /\ Len(tailMO) = Len(pushed) + 1 /\ Len(headMO) = Len(popped) + 1
          /\ Slot(tail) = Len(pushed) % Capacity /\ Slot(tail) \in Slots
      BY <1>1, OwnCounters DEF IInv, HistoryInv
    <2>2. r \in Nat /\ r <= nReads /\ (r # 0 => (r - 1) % Capacity = Len(pushed) % Capacity)
      BY <1>1, <2>1 DEF IInv, TypeOK, AccessInv
    <2>3. /\ Len(pushed) + 1 < headAt + Capacity /\ headAt \in Nat \ {0}
          /\ pKnows = headAt - 1 /\ nReads <= Len(pushed) /\ nReads \in Nat
      BY <1>1, <2>1 DEF IInv, WindowInv, TypeOK, CacheInv
    <2>4. CASE r = 0
      BY <2>3, <2>4
    <2>5. CASE r # 0
      <3>1. r - 1 \in Nat
        BY <2>2, <2>5
      <3>2. ~(Len(pushed) < (r - 1) + Capacity)
        <4>1. ASSUME Len(pushed) < (r - 1) + Capacity PROVE FALSE
          <5>1. Len(pushed) <= r - 1
            BY <2>1, <2>2, <2>5, <3>1, <4>1, Widths, ModGap
          <5>2. QED
            BY <2>1, <2>2, <2>3, <5>1
        <4>2. QED
          BY <4>1
      <3>3. QED
        BY <2>1, <2>2, <2>3, <3>2, Widths
    <2>6. QED
      BY <2>4, <2>5
  <1>2. ASSUME IInv PROVE NoSlotRace
    BY <1>1, <1>2, ReadIsOrdered DEF NoSlotRace
  <1>3. QED
    BY Invariance, <1>2, PTL

(* A diagnostic of a tail and a head that a thread may read together is    *)
(* exact about the two positions, which never wrap.                        *)
LEMMA ApproximateSize ==
    ASSUME IInv, NEW t \in 1 .. Len(tailMO), NEW h \in 1 .. Len(headMO),
           h <= t, t - h <= Capacity
    PROVE  size_approx(t, h) = t - h /\ (empty_approx(t, h) <=> t = h)
  <1>1. /\ t \in Nat \ {0} /\ h \in Nat \ {0}
        /\ tailMO[t].val = Wrap(t - 1) /\ headMO[h].val = Wrap(h - 1)
    BY DEF IInv, TypeOK, HistoryInv
  <1>2. t - 1 \in Nat /\ h - 1 \in Nat /\ h - 1 <= t - 1 /\ (t - 1) - (h - 1) < Modulus
    BY <1>1, Widths
  <1>3. Minus(Wrap(t - 1), Wrap(h - 1)) = (t - 1) - (h - 1)
    BY <1>2, Widths, ModMinus DEF Minus, Wrap
  <1>4. ASSUME Wrap(t - 1) = Wrap(h - 1) PROVE t - 1 <= h - 1
    <2>1. t - 1 < (h - 1) + Modulus
      BY <1>2, Widths
    <2>2. QED
      BY <1>2, <1>4, <2>1, Widths, ModGap DEF Wrap
  <1>5. QED
    BY <1>1, <1>2, <1>3, <1>4 DEF size_approx, empty_approx

(* The diagnostics answer each thread within the bounds a stale load of    *)
(* the other's counter leaves, and the difference of the wrapped counters  *)
(* never wraps below zero (ring_buffer.hpp:180-189).                       *)
THEOREM DiagnosticsAreBounded == Spec => []DiagnosticsBounded
  <1>1. ASSUME IInv PROVE DiagnosticsBounded
    <2> DEFINE t == Len(tailMO)
               h == Len(headMO)
    <2>1. /\ t \in Nat \ {0} /\ h \in Nat \ {0}
          /\ t = Len(pushed) + 1 /\ h = Len(popped) + 1
          /\ Len(pushed) \in Nat /\ Len(popped) \in Nat
      BY <1>1, OwnCounters DEF IInv, TypeOK, HistoryInv
    <2>2. headAt \in 1 .. h /\ tailAt \in 1 .. t /\ h <= tailAt /\ t <= headAt + Capacity
      BY <1>1 DEF IInv, TypeOK, WindowInv
    <2> HIDE DEF t, h
    <2>3. ASSUME NEW m \in headAt .. h
          PROVE  /\ size_approx(t, m) \in Len(pushed) - Len(popped) .. Capacity
                 /\ empty_approx(t, m) => Len(pushed) - Len(popped) = 0
      <3>1. m \in 1 .. h /\ m <= t /\ t - m <= Capacity /\ t \in 1 .. t
        BY <2>1, <2>2, Widths
      <3>2. size_approx(t, m) = t - m /\ (empty_approx(t, m) <=> t = m)
        BY <1>1, <3>1, ApproximateSize DEF t, h
      <3>3. QED
        BY <2>1, <2>2, <3>1, <3>2, Widths
    <2>4. ASSUME NEW m \in tailAt .. t
          PROVE  /\ size_approx(m, h) \in 0 .. Len(pushed) - Len(popped)
                 /\ ~empty_approx(m, h) => Len(pushed) - Len(popped) > 0
      <3>1. m \in 1 .. t /\ h <= m /\ m - h <= Capacity /\ h \in 1 .. h
        BY <2>1, <2>2, Widths
      <3>2. size_approx(m, h) = m - h /\ (empty_approx(m, h) <=> m = h)
        BY <1>1, <3>1, ApproximateSize DEF t, h
      <3>3. QED
        BY <2>1, <3>1, <3>2
    <2>5. QED
      BY <2>3, <2>4 DEF DiagnosticsBounded, t, h
  <1>2. QED
    BY Invariance, <1>1, PTL

(* A call that fails on an up-to-date view fails for the right reason      *)
(* (ring_buffer.hpp:203-205, 149-151).                                     *)
THEOREM FailuresAreGenuine == Spec => GenuineFailure
  <1> DEFINE FullIsFull == (ppc = "refresh" /\ ppc' = "idle" /\ headAt' = Len(headMO))
                              => Len(pushed) - Len(popped) = Capacity
             EmptyIsEmpty == (cpc = "refresh" /\ cpc' = "idle" /\ tailAt' = Len(tailMO))
                              => Len(pushed) = Len(popped)
  <1>1. ASSUME IInv, NEW m, PushRefresh(m) PROVE FullIsFull /\ EmptyIsEmpty
    <2>1. cpc' = cpc
      BY <1>1 DEF PushRefresh, cVars
    <2>2. ASSUME ppc' = "idle", headAt' = Len(headMO)
          PROVE  Len(pushed) - Len(popped) = Capacity
      <3>1. m = Len(headMO) /\ m \in headAt .. Len(headMO) /\ LooksFull(head_cached')
            /\ head_cached' = headMO[m].val
        BY <1>1, <2>2 DEF PushRefresh
      <3>2. head_cached' = Wrap(m - 1) /\ Len(headMO) = Len(popped) + 1
            /\ Len(tailMO) = Len(pushed) + 1 /\ Len(pushed) \in Nat /\ Len(popped) \in Nat
        BY <1>1, <3>1 DEF IInv, HistoryInv, TypeOK
      <3>3. Len(tailMO) = m + Capacity
        BY <1>1, <3>1, <3>2, FullTest
      <3>4. QED
        BY <3>1, <3>2, <3>3, Widths
    <2>3. QED
      BY <2>1, <2>2
  <1>2. ASSUME IInv, NEW m, PopRefresh(m) PROVE FullIsFull /\ EmptyIsEmpty
    <2>1. ppc' = ppc
      BY <1>2 DEF PopRefresh, pVars
    <2>2. ASSUME cpc' = "idle", tailAt' = Len(tailMO)
          PROVE  Len(pushed) = Len(popped)
      <3>1. m = Len(tailMO) /\ m \in tailAt .. Len(tailMO) /\ LooksEmpty(tail_cached')
            /\ tail_cached' = tailMO[m].val
        BY <1>2, <2>2 DEF PopRefresh
      <3>2. tail_cached' = Wrap(m - 1) /\ Len(headMO) = Len(popped) + 1
            /\ Len(tailMO) = Len(pushed) + 1 /\ Len(pushed) \in Nat /\ Len(popped) \in Nat
        BY <1>2, <3>1 DEF IInv, HistoryInv, TypeOK
      <3>3. Len(headMO) = m
        BY <1>2, <3>1, <3>2, EmptyTest
      <3>4. QED
        BY <3>1, <3>2, <3>3
    <2>3. QED
      BY <2>1, <2>2
  <1>3. ASSUME IInv, [Next]_vars PROVE FullIsFull /\ EmptyIsEmpty
    <2>1. CASE \E m \in 1 .. Len(headMO) : PushRefresh(m)
      BY <1>1, <1>3, <2>1
    <2>2. CASE \E m \in 1 .. Len(tailMO) : PopRefresh(m)
      BY <1>2, <1>3, <2>2
    <2>3. CASE (\E i \in Items : PushCall(i)) \/ PushWrite \/ PushPublish
      BY <2>3 DEF PushCall, PushWrite, PushPublish, cVars
    <2>4. CASE PopCall \/ PopRead \/ PopPublish
      BY <2>4 DEF PopCall, PopRead, PopPublish, pVars
    <2>5. CASE UNCHANGED vars
      BY <2>5 DEF vars, pVars, cVars
    <2>6. QED
      BY <1>3, <2>1, <2>2, <2>3, <2>4, <2>5 DEF Next, Producer, Consumer
  <1>4. QED
    BY Invariance, <1>3, PTL DEF Spec, GenuineFailure

--------------------------------------------------------------------------------
(* The slots between the two counters hold exactly the items that were     *)
(* pushed and not yet popped.                                              *)
Unpopped == [i \in 1 .. Len(pushed) - Len(popped) |-> pushed[Len(popped) + i]]

LEMMA WaitingIsUnpopped ==
    IInv => Waiting = Unpopped /\ Len(pushed) - Len(popped) \in 0 .. Capacity
  <1> SUFFICES ASSUME IInv
               PROVE  Waiting = Unpopped /\ Len(pushed) - Len(popped) \in 0 .. Capacity
    OBVIOUS
  <1>1. /\ Len(pushed) \in Nat /\ Len(popped) \in Nat
        /\ Len(tailMO) = Len(pushed) + 1 /\ Len(headMO) = Len(popped) + 1
        /\ tail = Wrap(Len(pushed)) /\ head = Wrap(Len(popped))
    BY OwnCounters DEF IInv, HistoryInv
  <1>2. Len(pushed) - Len(popped) \in 0 .. Capacity
    BY <1>1, Widths DEF IInv, WindowInv, TypeOK
  <1>3. Minus(tail, head) = Len(pushed) - Len(popped)
    <2>1. Len(popped) <= Len(pushed) /\ Len(pushed) - Len(popped) < Modulus
      BY <1>1, <1>2, Widths
    <2>2. QED
      BY <1>1, <2>1, Widths, ModMinus DEF Minus, Wrap
  <1>4. ASSUME NEW i \in 1 .. Len(pushed) - Len(popped)
        PROVE  buffer[Slot(head + i - 1)] = pushed[Len(popped) + i]
    <2>1. i - 1 \in Nat /\ head \in Nat /\ head + i - 1 = head + (i - 1)
      BY <1>1, SlotOfPosition DEF Counters
    <2>2. (head + (i - 1)) % Capacity = (Len(popped) + (i - 1)) % Capacity
      BY <1>1, <2>1, SlotAhead
    <2>3. Len(popped) + i \in Len(popped) + 1 .. Len(pushed)
          /\ (Len(popped) + i) - 1 = Len(popped) + (i - 1)
      BY <1>1
    <2>4. buffer[((Len(popped) + i) - 1) % Capacity] = pushed[Len(popped) + i]
      BY <2>3 DEF IInv, ContentsInv, UnreadSlotsIntact
    <2>5. QED
      BY <2>1, <2>2, <2>3, <2>4 DEF Slot
  <1>5. QED
    BY <1>2, <1>3, <1>4 DEF Waiting, Unpopped

(* The ring buffer implements the bounded FIFO queue (its safety part; the *)
(* run ring_liveness checks the fairness part as well): pushes take effect *)
(* at the store of tail, pops at the store of head.                        *)
THEOREM Refinement == Spec => Queue!Spec
  <1>1. ASSUME Init PROVE Queue!Init
    <2>1. IInv /\ pushed = <<>> /\ popped = <<>>
      BY <1>1, InitIInv DEF Init
    <2>2. Waiting = <<>>
      BY <2>1, WaitingIsUnpopped DEF Unpopped
    <2>3. QED
      BY <2>1, <2>2 DEF Queue!Init, LastPopped
  <1>2. (IInv => Waiting = Unpopped)'
    BY WaitingIsUnpopped, PTL
  <1>3. ASSUME IInv, IInv', UNCHANGED <<pushed, popped>>
        PROVE  UNCHANGED Queue!vars
    <2>1. Waiting' = Waiting
      BY <1>2, <1>3, WaitingIsUnpopped DEF Unpopped
    <2>2. QED
      BY <1>3, <2>1 DEF Queue!vars, LastPopped
  <1>4. ASSUME IInv, IInv', PushPublish
        PROVE  Queue!Push(item) /\ item \in Items
    <2>1. /\ Len(pushed) \in Nat /\ Len(popped) \in Nat /\ Len(popped) <= Len(pushed)
          /\ pushed \in Seq(Items) /\ item \in Items
          /\ pushed' = Append(pushed, item) /\ popped' = popped
      BY <1>4, WaitingIsUnpopped DEF IInv, TypeOK, ContentsInv, PushPublish, cVars
    <2>2. Waiting = Unpopped /\ Waiting' = Unpopped'
      BY <1>2, <1>4, WaitingIsUnpopped
    <2>3. Unpopped' = Append(Unpopped, item)
      BY <2>1 DEF Unpopped
    <2>4. Len(Unpopped) < Capacity
      <3>1. Len(pushed) - Len(popped) < Capacity
        <4>1. Len(tailMO) < headAt + Capacity /\ headAt <= Len(headMO) /\ headAt \in Nat
              /\ Len(tailMO) = Len(pushed) + 1 /\ Len(headMO) = Len(popped) + 1
          BY <1>4 DEF IInv, WindowInv, TypeOK, HistoryInv, PushPublish
        <4>2. QED
          BY <2>1, <4>1, Widths
      <3>2. QED
        BY <2>1, <3>1 DEF Unpopped
    <2>5. LastPopped' = LastPopped
      BY <2>1 DEF LastPopped
    <2>6. QED
      BY <2>1, <2>2, <2>3, <2>4, <2>5 DEF Queue!Push
  <1>5. ASSUME IInv, IInv', PopPublish
        PROVE  Queue!Pop
    <2>1. /\ Len(pushed) \in Nat /\ Len(popped) \in Nat /\ Len(popped) < Len(pushed)
          /\ pushed \in Seq(Items) /\ popped \in Seq(Items)
          /\ out = pushed[Len(popped) + 1]
          /\ popped' = Append(popped, out) /\ pushed' = pushed
      <3>1. Len(headMO) < tailAt /\ tailAt <= Len(tailMO) /\ tailAt \in Nat
            /\ Len(tailMO) = Len(pushed) + 1 /\ Len(headMO) = Len(popped) + 1
        BY <1>5 DEF IInv, WindowInv, TypeOK, HistoryInv, PopPublish
      <3>2. Len(pushed) \in Nat /\ Len(popped) \in Nat
        BY <1>5, SMTT(60) DEF IInv, TypeOK
      <3>3. QED
        BY <1>5, <3>1, <3>2 DEF IInv, TypeOK, ContentsInv, PopPublish, pVars
    <2>2. Waiting = Unpopped /\ Waiting' = Unpopped'
      BY <1>2, <1>5, WaitingIsUnpopped
    <2>3. Unpopped \in Seq(Items) /\ Len(Unpopped) = Len(pushed) - Len(popped)
      BY <2>1 DEF Unpopped
    <2>4. Unpopped # <<>> /\ Head(Unpopped) = out
      BY <2>1, <2>3 DEF Unpopped
    <2>5. Unpopped' = Tail(Unpopped)
      <3>1. /\ Len(popped') = Len(popped) + 1
            /\ Unpopped' = [i \in 1 .. Len(pushed) - (Len(popped) + 1) |-> pushed[(Len(popped) + 1) + i]]
        BY <2>1 DEF Unpopped
      <3>2. Unpopped' \in Seq(Items) /\ Len(Unpopped') = Len(Unpopped) - 1
        BY <2>1, <2>3, <3>1
      <3>3. /\ Tail(Unpopped) \in Seq(Items) /\ Len(Tail(Unpopped)) = Len(Unpopped) - 1
            /\ \A i \in 1 .. Len(Tail(Unpopped)) : Tail(Unpopped)[i] = Unpopped[i + 1]
        BY <2>3, <2>4, HeadTailProperties
      <3>4. \A i \in 1 .. Len(Unpopped') : Unpopped'[i] = Tail(Unpopped)[i]
        <4>1. \A i \in 1 .. Len(Unpopped) - 1 : Unpopped[i + 1] = pushed[(Len(popped) + 1) + i]
          <5>1. \A i \in 1 .. Len(Unpopped) - 1 :
                    i + 1 \in 1 .. Len(pushed) - Len(popped)
                    /\ Len(popped) + (i + 1) = (Len(popped) + 1) + i
            BY <2>1, <2>3
          <5>2. QED
            BY <5>1 DEF Unpopped
        <4>2. \A i \in 1 .. Len(Unpopped) - 1 : Unpopped'[i] = pushed[(Len(popped) + 1) + i]
          BY <2>1, <2>3, <3>1
        <4>3. QED
          BY <2>1, <2>3, <3>2, <3>3, <4>1, <4>2
      <3>5. QED
        BY <3>2, <3>3, <3>4, SeqEqual
    <2>6. LastPopped' = out
      <3>1. popped' # <<>> /\ popped'[Len(popped')] = out
        BY <2>1
      <3>2. QED
        BY <3>1 DEF LastPopped
    <2>7. QED
      BY <2>2, <2>4, <2>5, <2>6 DEF Queue!Pop
  <1>6. ASSUME IInv, IInv', [Next]_vars PROVE [Queue!Next]_(Queue!vars)
    <2>1. CASE PushPublish
      BY <1>4, <1>6, <2>1 DEF Queue!Next
    <2>2. CASE PopPublish
      BY <1>5, <1>6, <2>2 DEF Queue!Next
    <2>3. CASE UNCHANGED <<pushed, popped>>
      BY <1>3, <1>6, <2>3
    <2>4. QED
      BY <1>6, <2>1, <2>2, <2>3
         DEF Next, Producer, Consumer, PushCall, PushRefresh, PushWrite,
             PopCall, PopRefresh, PopRead, vars, pVars, cVars
  <1>7. QED
    BY <1>1, <1>6, Invariance, PTL DEF Spec, Queue!Spec
================================================================================
