--------------------------- MODULE AsyncUartProofs ---------------------------
(***************************************************************************)
(* Proofs about AsyncUart, for rings and FIFOs of any size and any number  *)
(* of characters written and received.                                     *)
(***************************************************************************)
EXTENDS AsyncUart, SequenceTheorems, TLAPS

(* The number of characters in a ring, as is_empty() and Ring see it.      *)
Fill(head, tail) == (head - tail) % Size

(* The characters that have been put into each ring.                       *)
Received == nrecv - Len(rxfifo)
Written == IF pc = "put_head" THEN nput - 1 ELSE nput

(* A ring into which h characters were put holds the last Size - 1 of them *)
(* behind its head, whatever its tail is.                                  *)
HoldsLast(buf, head, h) ==
  \A k \in 1 .. Size - 1 : k <= h => buf[(head - k) % Size] = h + 1 - k

Increasing(s) == \A j, k \in 1 .. Len(s) : j < k => s[j] < s[k]

UartType ==
  /\ rbuf \in [Slot -> Nat] /\ rhead \in Slot /\ rtail \in Slot
  /\ wbuf \in [Slot -> Nat] /\ whead \in Slot /\ wtail \in Slot
  /\ rlost \in BOOLEAN /\ wlost \in BOOLEAN /\ dropped \in BOOLEAN
  /\ c \in Nat /\ nput \in Nat /\ nrecv \in Nat
  /\ txfifo \in Seq(Nat) /\ rxfifo \in Seq(Nat)
  /\ sent \in Seq(Nat) /\ got \in Seq(Nat)

(* The receive side: the ring, and what dequeue_char() holds in c between  *)
(* its two statements, which the handler may lap.                          *)
ReadInv ==
  /\ Received \in Nat
  /\ \A k \in 1 .. Len(rxfifo) : rxfifo[k] = Received + k
  /\ HoldsLast(rbuf, rhead, Received)
  /\ Fill(rhead, rtail) <= Received
  /\ Increasing(got)
  /\ \A k \in 1 .. Len(got) : got[k] <= Received - Fill(rhead, rtail)
  /\ pc = "get_tail" =>
       /\ Fill(rhead, Succ(rtail)) <= Received - c
       /\ \A k \in 1 .. Len(got) : got[k] < c
  /\ ~ rlost =>
       /\ Len(got) = Received - Fill(rhead, rtail)
       /\ \A k \in 1 .. Len(got) : got[k] = k
       /\ pc = "get_tail" => c = Len(got) + 1 /\ rhead # rtail

(* The transmit side: the ring, with the slot enqueue_char() has written   *)
(* before it moves the head, and what has left it.                         *)
WriteInv ==
  /\ Written \in Nat
  /\ pc = "put_head" => wbuf[whead] = nput
  /\ HoldsLast(wbuf, whead, Written)
  /\ Fill(whead, wtail) <= Written
  /\ Increasing(sent) /\ Increasing(txfifo)
  /\ \A j \in 1 .. Len(sent), k \in 1 .. Len(txfifo) : sent[j] < txfifo[k]
  /\ \A j \in 1 .. Len(sent) : sent[j] <= Written - Fill(whead, wtail)
  /\ \A k \in 1 .. Len(txfifo) : txfifo[k] <= Written - Fill(whead, wtail)
  /\ (~ wlost /\ ~ dropped) =>
       /\ Len(sent) + Len(txfifo) = Written - Fill(whead, wtail)
       /\ \A j \in 1 .. Len(sent) : sent[j] = j
       /\ \A k \in 1 .. Len(txfifo) : txfifo[k] = Len(sent) + k

UartInv == UartType /\ ReadInv /\ WriteInv

------------------------------------------------------------------------------
(* Arithmetic of the ring indices                                          *)

(* The remainder of a number that is off by less than one turn.            *)
LEMMA ModSize ==
  ASSUME NEW x \in Int, - Size <= x, x < 2 * Size
  PROVE  /\ 0 <= x /\ x < Size => x % Size = x
         /\ x < 0 => x % Size = x + Size
         /\ Size <= x => x % Size = x - Size
         /\ x % Size \in Slot
<1>1. Size \in Nat \ {0, 1}
  BY SizeAssumption
<1>2. x % Size \in 0 .. Size - 1
  BY <1>1
<1>3. x = Size * (x \div Size) + (x % Size) /\ x \div Size \in Int
  BY <1>1
<1>4. ASSUME x < 0 PROVE x % Size = x + Size
  <2> DEFINE q == x \div Size
             r == x % Size
  <2>1. /\ q \in Int /\ r \in Int /\ x = Size * q + r
        /\ 0 <= r /\ r < Size /\ Size \in Int /\ Size > 0
    BY <1>1, <1>2, <1>3
  <2> HIDE DEF q, r
  <2>2. ~ (q >= 0)
    <3> SUFFICES ASSUME q >= 0 PROVE FALSE
      OBVIOUS
    <3>1. Size * q >= 0
      BY <2>1
    <3> QED
      BY <1>4, <2>1, <3>1
  <2>3. ~ (q <= -2)
    <3> SUFFICES ASSUME q <= -2 PROVE FALSE
      OBVIOUS
    <3>1. Size * q <= Size * (-2)
      BY <2>1
    <3> QED
      BY <1>4, <2>1, <3>1
  <2>4. q = -1
    BY <2>1, <2>2, <2>3
  <2>5. x = Size * (-1) + r
    BY <2>1, <2>4
  <2> QED
    BY <2>1, <2>5 DEF r
<1>5. ASSUME Size <= x PROVE x % Size = x - Size
  BY <1>1, <1>2, <1>3, <1>5
<1>6. ASSUME 0 <= x, x < Size PROVE x % Size = x
  BY <1>1, <1>6
<1> QED
  BY <1>2, <1>4, <1>5, <1>6 DEF Slot

(* Succ(k) by cases, as (head + 1) % size is used.                         *)
LEMMA SuccSlot ==
  ASSUME NEW k \in Slot
  PROVE  /\ Succ(k) \in Slot
         /\ k < Size - 1 => Succ(k) = k + 1
         /\ k = Size - 1 => Succ(k) = 0
<1>1. k \in Int /\ Size \in Int /\ 0 <= k /\ k < Size /\ Size > 1
  BY SizeAssumption DEF Slot
<1>2. k + 1 \in Int /\ - Size <= k + 1 /\ k + 1 < 2 * Size
  BY <1>1
<1> QED
  BY <1>1, <1>2, ModSize DEF Succ

(* The fill level of a ring by cases.                                      *)
LEMMA FillSlot ==
  ASSUME NEW h \in Slot, NEW t \in Slot
  PROVE  /\ Fill(h, t) \in Slot
         /\ h >= t => Fill(h, t) = h - t
         /\ h < t => Fill(h, t) = h - t + Size
         /\ Fill(h, t) = 0 <=> h = t
<1>1. /\ h \in Int /\ t \in Int /\ Size \in Int /\ 0 <= h /\ h < Size /\ 0 <= t
      /\ t < Size /\ Size > 1
  BY SizeAssumption DEF Slot
<1>2. h - t \in Int /\ - Size <= h - t /\ h - t < 2 * Size
  BY <1>1
<1>3. /\ Fill(h, t) \in Slot
      /\ h >= t => Fill(h, t) = h - t
      /\ h < t => Fill(h, t) = h - t + Size
  BY <1>1, <1>2, ModSize DEF Fill
<1> QED
  BY <1>1, <1>3

(* What moving the head or the tail by one does to the fill level: a put   *)
(* that laps the tail empties the ring, a get from an empty ring fills it. *)
LEMMA FillMoves ==
  ASSUME NEW h \in Slot, NEW t \in Slot
  PROVE  /\ Succ(h) = t => Fill(Succ(h), t) = 0 /\ Fill(h, t) = Size - 1
         /\ Succ(h) # t => Fill(Succ(h), t) = Fill(h, t) + 1
         /\ h = t => Fill(h, Succ(t)) = Size - 1
         /\ h # t => Fill(h, Succ(t)) = Fill(h, t) - 1
<1>1. /\ h \in Int /\ t \in Int /\ Size \in Int /\ 0 <= h /\ h < Size /\ 0 <= t
      /\ t < Size /\ Size > 1
  BY SizeAssumption DEF Slot
<1>2. /\ h < Size - 1 => Succ(h) = h + 1
      /\ h = Size - 1 => Succ(h) = 0
      /\ t < Size - 1 => Succ(t) = t + 1
      /\ t = Size - 1 => Succ(t) = 0
  BY SuccSlot
<1>3. /\ Succ(h) \in Int /\ 0 <= Succ(h) /\ Succ(h) < Size
      /\ Succ(t) \in Int /\ 0 <= Succ(t) /\ Succ(t) < Size
  BY <1>1, SuccSlot DEF Slot
<1>4. /\ h >= t => Fill(h, t) = h - t
      /\ h < t => Fill(h, t) = h - t + Size
  BY FillSlot
<1>5. /\ Succ(h) >= t => Fill(Succ(h), t) = Succ(h) - t
      /\ Succ(h) < t => Fill(Succ(h), t) = Succ(h) - t + Size
  BY FillSlot, SuccSlot
<1>6. /\ h >= Succ(t) => Fill(h, Succ(t)) = h - Succ(t)
      /\ h < Succ(t) => Fill(h, Succ(t)) = h - Succ(t) + Size
  BY FillSlot, SuccSlot
<1>7. /\ Succ(h) = t => Fill(Succ(h), t) = 0 /\ Fill(h, t) = Size - 1
      /\ Succ(h) # t => Fill(Succ(h), t) = Fill(h, t) + 1
  BY <1>1, <1>2, <1>3, <1>4, <1>5
<1>8. /\ h = t => Fill(h, Succ(t)) = Size - 1
      /\ h # t => Fill(h, Succ(t)) = Fill(h, t) - 1
  BY <1>1, <1>2, <1>3, <1>4, <1>6
<1> QED
  BY <1>7, <1>8

(* The slots behind the head, before and after the head moves.             *)
LEMMA SlotsBehind ==
  ASSUME NEW h \in Slot, NEW k \in 1 .. Size - 1
  PROVE  /\ (h - k) % Size \in Slot
         /\ (h - k) % Size # h
         /\ (Succ(h) - 1) % Size = h
         /\ k > 1 => (Succ(h) - k) % Size = (h - (k - 1)) % Size
<1>1. /\ h \in Int /\ k \in Int /\ Size \in Int /\ 0 <= h /\ h < Size /\ 1 <= k
      /\ k < Size /\ Size > 1
  BY SizeAssumption DEF Slot
<1>2. /\ h - k \in Int /\ - Size <= h - k /\ h - k < 2 * Size
      /\ h - (k - 1) \in Int /\ - Size <= h - (k - 1) /\ h - (k - 1) < 2 * Size
  BY <1>1
<1>3. /\ (h - k) % Size \in Slot
      /\ h >= k => (h - k) % Size = h - k
      /\ h < k => (h - k) % Size = h - k + Size
  <2> DEFINE y == h - k
  <2>1. /\ y \in Int /\ - Size <= y /\ y < Size /\ y < 2 * Size
        /\ h >= k <=> 0 <= y
        /\ h < k <=> y < 0
    BY <1>1
  <2> HIDE DEF y
  <2>2. /\ y % Size \in Slot
        /\ 0 <= y => y % Size = y
        /\ y < 0 => y % Size = y + Size
    BY <2>1, ModSize
  <2> QED
    BY <2>1, <2>2 DEF y
<1>4. /\ h >= k - 1 => (h - (k - 1)) % Size = h - (k - 1)
      /\ h < k - 1 => (h - (k - 1)) % Size = h - (k - 1) + Size
  <2> DEFINE y == h - (k - 1)
  <2>1. /\ y \in Int /\ - Size <= y /\ y < Size /\ y < 2 * Size
        /\ h >= k - 1 <=> 0 <= y
        /\ h < k - 1 <=> y < 0
    BY <1>1
  <2> HIDE DEF y
  <2>2. /\ 0 <= y => y % Size = y
        /\ y < 0 => y % Size = y + Size
    BY <2>1, ModSize
  <2> QED
    BY <2>1, <2>2 DEF y
<1>5. /\ h < Size - 1 => Succ(h) = h + 1
      /\ h = Size - 1 => Succ(h) = 0
      /\ Succ(h) \in Slot
  BY SuccSlot DEF Slot
<1>6. /\ Succ(h) \in Int /\ 0 <= Succ(h) /\ Succ(h) < Size
  BY <1>1, <1>5 DEF Slot
<1>7. (Succ(h) - 1) % Size = h
  BY <1>1, <1>5, <1>6, ModSize
<1>8. /\ Succ(h) >= k => (Succ(h) - k) % Size = Succ(h) - k
      /\ Succ(h) < k => (Succ(h) - k) % Size = Succ(h) - k + Size
  <2>1. Succ(h) - k \in Int /\ - Size <= Succ(h) - k /\ Succ(h) - k < 2 * Size
    BY <1>1, <1>6
  <2> QED
    BY <1>1, <1>6, <2>1, ModSize
<1>9. k > 1 => (Succ(h) - k) % Size = (h - (k - 1)) % Size
  BY <1>1, <1>4, <1>5, <1>6, <1>8
<1> QED
  BY <1>1, <1>3, <1>7, <1>9

(* The slots from the tail on are the ones behind the head.                *)
LEMMA SlotsAhead ==
  ASSUME NEW h \in Slot, NEW t \in Slot, NEW k \in 1 .. Fill(h, t)
  PROVE  /\ Fill(h, t) + 1 - k \in 1 .. Size - 1
         /\ (t + k - 1) % Size = (h - (Fill(h, t) + 1 - k)) % Size
         /\ k = 1 => (t + k - 1) % Size = t
<1>1. /\ h \in Int /\ t \in Int /\ Size \in Int /\ 0 <= h /\ h < Size /\ 0 <= t
      /\ t < Size /\ Size > 1
  BY SizeAssumption DEF Slot
<1> DEFINE n == Fill(h, t)
<1>2. /\ n \in Int /\ 0 <= n /\ n < Size
      /\ h >= t => n = h - t
      /\ h < t => n = h - t + Size
  BY <1>1, FillSlot DEF Slot
<1>3. k \in Int /\ 1 <= k /\ k <= n
  BY <1>2
<1> HIDE DEF n
<1>4. n + 1 - k \in 1 .. Size - 1
  BY <1>1, <1>2, <1>3
<1> DEFINE x == t + k - 1
           y == h - (n + 1 - k)
<1>5. /\ x \in Int /\ - Size <= x /\ x < 2 * Size
      /\ y \in Int /\ - Size <= y /\ y < 2 * Size
  BY <1>1, <1>2, <1>3
<1>6. /\ 0 <= x /\ x < Size => x % Size = x
      /\ Size <= x => x % Size = x - Size
      /\ 0 <= y => y % Size = y
      /\ y < 0 => y % Size = y + Size
  <2> HIDE DEF x, y
  <2>1. /\ 0 <= y /\ y < Size => y % Size = y
        /\ y < 0 => y % Size = y + Size
    BY <1>5, ModSize
  <2>2. y < Size
    BY <1>1, <1>2, <1>3 DEF y
  <2> QED
    BY <1>5, <2>1, <2>2, ModSize
<1>7. x % Size = y % Size
  BY <1>1, <1>2, <1>3, <1>5, <1>6
<1> QED
  BY <1>1, <1>2, <1>3, <1>4, <1>6, <1>7 DEF n

------------------------------------------------------------------------------
(* The content of a ring                                                   *)

(* enqueue_char() stores in a slot that holds none of the last Size - 1    *)
(* characters.                                                             *)
LEMMA StoreKeepsLast ==
  ASSUME NEW buf \in [Slot -> Nat], NEW h \in Slot, NEW n \in Nat, NEW v \in Nat,
         HoldsLast(buf, h, n)
  PROVE  /\ [buf EXCEPT ![h] = v] \in [Slot -> Nat]
         /\ [buf EXCEPT ![h] = v][h] = v
         /\ HoldsLast([buf EXCEPT ![h] = v], h, n)
<1>1. \A k \in 1 .. Size - 1 : (h - k) % Size \in Slot /\ (h - k) % Size # h
  BY SlotsBehind
<1> QED
  BY <1>1 DEF HoldsLast

(* When the head moves, the character stored at it becomes the last one.   *)
LEMMA HeadTakesLast ==
  ASSUME NEW buf \in [Slot -> Nat], NEW h \in Slot, NEW n \in Nat,
         HoldsLast(buf, h, n), buf[h] = n + 1
  PROVE  HoldsLast(buf, Succ(h), n + 1)
<1> SUFFICES ASSUME NEW k \in 1 .. Size - 1, k <= n + 1
             PROVE  buf[(Succ(h) - k) % Size] = n + 1 + 1 - k
  BY DEF HoldsLast
<1>1. Size \in Nat /\ k \in Nat
  BY SizeAssumption
<1>2. CASE k = 1
  <2>1. (Succ(h) - k) % Size = h
    BY <1>2, SlotsBehind
  <2> QED
    BY <1>2, <2>1
<1>3. CASE k > 1
  <2>1. (Succ(h) - k) % Size = (h - (k - 1)) % Size
    BY <1>3, SlotsBehind
  <2>2. k - 1 \in 1 .. Size - 1 /\ k - 1 <= n
    BY <1>1, <1>3
  <2>3. buf[(h - (k - 1)) % Size] = n + 1 - (k - 1)
    BY <2>2 DEF HoldsLast
  <2> QED
    BY <1>1, <2>1, <2>3
<1> QED
  BY <1>1, <1>2, <1>3

(* What lies between the tail and the head are the last characters put     *)
(* into the ring, in order.                                                *)
LEMMA RingHoldsLast ==
  ASSUME NEW buf \in [Slot -> Nat], NEW h \in Slot, NEW t \in Slot, NEW n \in Nat,
         HoldsLast(buf, h, n), Fill(h, t) <= n
  PROVE  /\ \A k \in 1 .. Fill(h, t) :
              buf[(t + k - 1) % Size] = n - Fill(h, t) + k
         /\ h # t => buf[t] = n - Fill(h, t) + 1
<1>1. Fill(h, t) \in Nat /\ (h # t => Fill(h, t) >= 1)
  BY FillSlot DEF Slot
<1>2. ASSUME NEW k \in 1 .. Fill(h, t)
      PROVE  /\ buf[(t + k - 1) % Size] = n - Fill(h, t) + k
             /\ k = 1 => buf[t] = n - Fill(h, t) + k
  <2> DEFINE m == Fill(h, t) + 1 - k
  <2>1. /\ m \in 1 .. Size - 1
        /\ (t + k - 1) % Size = (h - m) % Size
        /\ k = 1 => (t + k - 1) % Size = t
    BY SlotsAhead
  <2>2. m <= n /\ n + 1 - m = n - Fill(h, t) + k
    BY <1>1
  <2> HIDE DEF m
  <2>3. buf[(h - m) % Size] = n + 1 - m
    BY <2>1, <2>2 DEF HoldsLast
  <2> QED
    BY <2>1, <2>2, <2>3
<1>3. h # t => 1 \in 1 .. Fill(h, t)
  BY <1>1
<1> QED
  BY <1>2, <1>3

(* Adding a character above all the others keeps a sequence increasing.    *)
LEMMA AppendIncreases ==
  ASSUME NEW s \in Seq(Nat), NEW v \in Nat, Increasing(s),
         \A k \in 1 .. Len(s) : s[k] < v
  PROVE  /\ Append(s, v) \in Seq(Nat)
         /\ Len(Append(s, v)) = Len(s) + 1
         /\ Append(s, v)[Len(s) + 1] = v
         /\ \A k \in 1 .. Len(s) : Append(s, v)[k] = s[k]
         /\ Increasing(Append(s, v))
<1>1. /\ Append(s, v) \in Seq(Nat)
      /\ Len(Append(s, v)) = Len(s) + 1
      /\ Append(s, v)[Len(s) + 1] = v
      /\ \A k \in 1 .. Len(s) : Append(s, v)[k] = s[k]
      /\ Len(s) \in Nat
  OBVIOUS
<1> DEFINE a == Append(s, v)
<1>2. ASSUME NEW j \in 1 .. Len(s) + 1, NEW k \in 1 .. Len(s) + 1, j < k
      PROVE  a[j] < a[k]
  <2>1. j \in 1 .. Len(s) /\ a[j] = s[j]
    BY <1>1, <1>2
  <2>2. CASE k = Len(s) + 1
    BY <1>1, <2>1, <2>2
  <2>3. CASE k \in 1 .. Len(s)
    BY <1>1, <1>2, <2>1, <2>3 DEF Increasing
  <2> QED
    BY <1>1, <2>2, <2>3
<1> QED
  BY <1>1, <1>2 DEF Increasing

(* What is left of a sequence when its first element is taken.             *)
LEMMA TailShifts ==
  ASSUME NEW s \in Seq(Nat), s # <<>>
  PROVE  /\ Tail(s) \in Seq(Nat)
         /\ Len(s) \in Nat /\ Len(s) >= 1
         /\ Len(Tail(s)) = Len(s) - 1
         /\ \A k \in 1 .. Len(s) - 1 : Tail(s)[k] = s[k + 1]
         /\ Head(s) = s[1] /\ Head(s) \in Nat
OBVIOUS

------------------------------------------------------------------------------
(* The steps                                                               *)

(* A step that leaves the receive side alone keeps its part of the         *)
(* invariant.                                                              *)
LEMMA ReadStutters ==
  ASSUME ReadInv, UNCHANGED <<rbuf, rhead, rtail, rlost, nrecv, rxfifo, got>>,
         pc' = "get_tail" => pc = "get_tail" /\ c' = c
  PROVE  ReadInv'
<1>1. UNCHANGED <<Received, rbuf, rhead, rtail, rlost, rxfifo, got>>
  BY DEF Received
<1> QED
  BY <1>1 DEF ReadInv

(* A step that leaves the transmit side alone keeps its part.              *)
LEMMA WriteStutters ==
  ASSUME WriteInv, pc' = "put_head" <=> pc = "put_head",
         UNCHANGED <<wbuf, whead, wtail, wlost, nput, sent, txfifo, dropped>>
  PROVE  WriteInv'
<1>1. Written' = Written
  BY DEF Written
<1> QED
  BY <1>1 DEF WriteInv

(* All variables are 0, empty or FALSE at first.                           *)
LEMMA UartInit == Init => UartInv
<1> SUFFICES ASSUME Init PROVE UartInv
  OBVIOUS
<1>1. 0 \in Slot
  BY SizeAssumption DEF Slot
<1>2. UartType
  BY <1>1 DEF Init, UartType
<1>3. Fill(0, 0) = 0
  BY <1>1, FillSlot
<1>4. Received = 0 /\ Written = 0
  <2>1. Len(<<>>) = 0 /\ 0 - 0 = 0
    OBVIOUS
  <2> QED
    BY <2>1 DEF Init, Received, Written
<1>5. ReadInv
  BY <1>3, <1>4 DEF Init, ReadInv, HoldsLast, Increasing
<1>6. WriteInv
  BY <1>3, <1>4 DEF Init, WriteInv, HoldsLast, Increasing
<1> QED
  BY <1>2, <1>5, <1>6 DEF UartInv

(* The first statement of enqueue_char() does not touch what the handler   *)
(* may read before the second.                                             *)
LEMMA PutStoreInv == ASSUME UartInv, PutStore PROVE UartInv'
<1>1. UartType /\ ReadInv /\ WriteInv
  BY DEF UartInv
<1>2. /\ pc \in {"idle", "puts"} /\ pc' = "put_head"
      /\ nput' = nput + 1 /\ wbuf' = [wbuf EXCEPT ![whead] = nput + 1]
      /\ UNCHANGED <<rbuf, rhead, rtail, rlost, whead, wtail, wlost, c, txfifo,
                     rxfifo, sent, got, nrecv, dropped>>
  BY DEF PutStore, rvars
<1>3. Written = nput /\ Written' = nput /\ nput \in Nat
  BY <1>1, <1>2 DEF Written, UartType
<1>4. /\ wbuf' \in [Slot -> Nat] /\ wbuf'[whead] = nput + 1
      /\ HoldsLast(wbuf', whead, nput)
  <2>1. /\ wbuf \in [Slot -> Nat] /\ whead \in Slot /\ nput + 1 \in Nat
        /\ HoldsLast(wbuf, whead, nput)
    BY <1>1, <1>3 DEF UartType, WriteInv
  <2> QED
    BY <1>2, <1>3, <2>1, StoreKeepsLast
<1>5. UartType'
  BY <1>1, <1>2, <1>4 DEF UartType
<1>6. ReadInv'
  BY <1>1, <1>2, ReadStutters
<1>7. WriteInv'
  BY <1>1, <1>2, <1>3, <1>4 DEF WriteInv
<1> QED
  BY <1>5, <1>6, <1>7 DEF UartInv

(* The second statement publishes the character; when it laps the tail the *)
(* ring is empty for the handler and nothing old is seen again.            *)
LEMMA PutHeadInv == ASSUME UartInv, PutHead PROVE UartInv'
<1>1. UartType /\ ReadInv /\ WriteInv
  BY DEF UartInv
<1>2. /\ pc = "put_head" /\ pc' = "puts"
      /\ whead' = Succ(whead) /\ wlost' = (wlost \/ Succ(whead) = wtail)
      /\ UNCHANGED <<rbuf, rhead, rtail, rlost, wbuf, wtail, c, txfifo, rxfifo,
                     sent, got, nput, nrecv, dropped>>
  BY DEF PutHead, rvars
<1>3. /\ Written = nput - 1 /\ Written' = Written + 1 /\ Written \in Nat
      /\ wbuf[whead] = Written + 1
  BY <1>1, <1>2 DEF Written, UartType, WriteInv
<1>4. whead \in Slot /\ wtail \in Slot /\ wbuf \in [Slot -> Nat]
  BY <1>1 DEF UartType
<1>5. Succ(whead) \in Slot /\ HoldsLast(wbuf, Succ(whead), Written + 1)
  BY <1>1, <1>3, <1>4, SuccSlot, HeadTakesLast DEF WriteInv
<1>6. UartType'
  <2>1. wlost' \in BOOLEAN
    BY <1>2
  <2> QED
    BY <1>1, <1>2, <1>5, <2>1 DEF UartType
<1>7. ReadInv'
  BY <1>1, <1>2, ReadStutters
<1> DEFINE n == Fill(whead, wtail)
           m == Fill(Succ(whead), wtail)
<1>8. /\ n \in Nat /\ m \in Nat /\ n <= Written
      /\ Succ(whead) = wtail => m = 0
      /\ Succ(whead) # wtail => m = n + 1
  BY <1>1, <1>4, <1>5, FillSlot, FillMoves DEF WriteInv, Slot
<1>9. m <= Written + 1 /\ Written - n <= Written + 1 - m
  BY <1>3, <1>8
<1>10. ~ wlost' => ~ wlost /\ Written - n = Written + 1 - m
  <2>1. ~ wlost' => ~ wlost /\ Succ(whead) # wtail
    BY <1>2, Zenon
  <2>2. Succ(whead) # wtail => Written - n = Written + 1 - m
    BY <1>3, <1>8
  <2> QED
    BY <2>1, <2>2, Zenon
<1>11. /\ \A j \in 1 .. Len(sent) : sent[j] \in Nat /\ sent[j] <= Written - n
       /\ \A j \in 1 .. Len(txfifo) : txfifo[j] \in Nat /\ txfifo[j] <= Written - n
  <2>1. sent \in Seq(Nat) /\ txfifo \in Seq(Nat)
    BY <1>1 DEF UartType
  <2> QED
    BY <1>1, <2>1, ElementOfSeq DEF WriteInv
<1>12. WriteInv'
  <2>1. /\ Increasing(sent') /\ Increasing(txfifo')
        /\ \A j \in 1 .. Len(sent'), k \in 1 .. Len(txfifo') : sent'[j] < txfifo'[k]
    BY <1>1, <1>2 DEF WriteInv
  <2>2. Fill(whead', wtail') = m /\ Written' = Written + 1
    BY <1>2, <1>3
  <2> HIDE DEF n, m
  <2>3. /\ \A j \in 1 .. Len(sent) : sent[j] <= Written + 1 - m
        /\ \A k \in 1 .. Len(txfifo) : txfifo[k] <= Written + 1 - m
    BY <1>3, <1>8, <1>9, <1>11, SMTT(30)
  <2>4. (~ wlost' /\ ~ dropped') =>
          /\ Len(sent) + Len(txfifo) = Written + 1 - m
          /\ \A j \in 1 .. Len(sent) : sent[j] = j
          /\ \A k \in 1 .. Len(txfifo) : txfifo[k] = Len(sent) + k
    BY <1>1, <1>2, <1>10 DEF WriteInv, n
  <2>5. Written' \in Nat /\ Fill(whead', wtail') <= Written'
    BY <1>3, <1>9, <2>2
  <2>6. HoldsLast(wbuf', whead', Written')
    BY <1>2, <1>5, <2>2
  <2>7. pc' # "put_head"
    BY <1>2
  <2>a. sent' = sent /\ txfifo' = txfifo
    BY <1>2
  <2>b. Written' - Fill(whead', wtail') = Written + 1 - m
    BY <1>3, <1>8, <2>2
  <2>8. /\ \A j \in 1 .. Len(sent') : sent'[j] <= Written' - Fill(whead', wtail')
        /\ \A k \in 1 .. Len(txfifo') :
             txfifo'[k] <= Written' - Fill(whead', wtail')
    BY <2>3, <2>a, <2>b
  <2>9. (~ wlost' /\ ~ dropped') =>
          /\ Len(sent') + Len(txfifo') = Written' - Fill(whead', wtail')
          /\ \A j \in 1 .. Len(sent') : sent'[j] = j
          /\ \A k \in 1 .. Len(txfifo') : txfifo'[k] = Len(sent') + k
    BY <2>4, <2>a, <2>b
  <2> QED
    BY <2>1, <2>5, <2>6, <2>7, <2>8, <2>9, Zenon DEF WriteInv
<1> QED
  BY <1>6, <1>7, <1>12 DEF UartInv

(* The first statement of dequeue_char() takes the oldest character of the *)
(* ring.                                                                   *)
LEMMA GetReadInv == ASSUME UartInv, GetRead PROVE UartInv'
<1>1. UartType /\ ReadInv /\ WriteInv
  BY DEF UartInv
<1>2. /\ pc \in {"idle", "gets"} /\ pc' = "get_tail"
      /\ rhead # rtail /\ c' = rbuf[rtail]
      /\ UNCHANGED <<rbuf, rhead, rtail, rlost, wbuf, whead, wtail, wlost,
                     txfifo, rxfifo, sent, got, nput, nrecv, dropped>>
  BY DEF GetRead, rvars, wvars, IsEmpty
<1>3. rhead \in Slot /\ rtail \in Slot /\ rbuf \in [Slot -> Nat] /\ got \in Seq(Nat)
  BY <1>1 DEF UartType
<1> DEFINE n == Fill(rhead, rtail)
<1>4. /\ n \in Nat /\ n >= 1 /\ n <= Received /\ Received \in Nat
      /\ Fill(rhead, Succ(rtail)) = n - 1
  BY <1>1, <1>2, <1>3, FillSlot, FillMoves DEF ReadInv, Slot
<1>5. c' = Received - n + 1
  BY <1>1, <1>2, <1>3, <1>4, RingHoldsLast DEF ReadInv
<1>6. UartType'
  BY <1>1, <1>2, <1>3 DEF UartType
<1>7. WriteInv'
  BY <1>1, <1>2, WriteStutters
<1>8. ReadInv'
  <2>1. Received' = Received
    BY <1>2 DEF Received
  <2>2. \A k \in 1 .. Len(got) : got[k] \in Nat /\ got[k] <= Received - n
    BY <1>1, <1>3, ElementOfSeq DEF ReadInv
  <2> HIDE DEF n
  <2>3. /\ n - 1 <= Received - c'
        /\ \A k \in 1 .. Len(got) : got[k] < c'
    BY <1>4, <1>5, <2>2
  <2>4. ~ rlost => c' = Len(got) + 1
    BY <1>1, <1>5 DEF ReadInv, n
  <2>5. Received' \in Nat /\ Fill(rhead, rtail) <= Received'
    BY <1>4, <2>1 DEF n
  <2> QED
    BY <1>1, <1>2, <1>4, <2>1, <2>3, <2>4, <2>5 DEF ReadInv
<1> QED
  BY <1>6, <1>7, <1>8 DEF UartInv

(* The second statement: the character is above everything read before and *)
(* below everything that the ring now holds, even if it was lapped.        *)
LEMMA GetTailInv == ASSUME UartInv, GetTail PROVE UartInv'
<1>1. UartType /\ ReadInv /\ WriteInv
  BY DEF UartInv
<1>2. /\ pc = "get_tail" /\ pc' = "gets"
      /\ rtail' = Succ(rtail) /\ got' = Append(got, c) /\ c' = 0
      /\ UNCHANGED <<rbuf, rhead, rlost, wbuf, whead, wtail, wlost,
                     txfifo, rxfifo, sent, nput, nrecv, dropped>>
  BY DEF GetTail, wvars
<1>3. /\ rhead \in Slot /\ rtail \in Slot /\ got \in Seq(Nat) /\ c \in Nat
      /\ Succ(rtail) \in Slot
  BY <1>1, SuccSlot DEF UartType
<1> DEFINE m == Fill(rhead, Succ(rtail))
<1>4. /\ m \in Nat /\ Received \in Nat /\ m <= Received - c
      /\ rhead # rtail => m = Fill(rhead, rtail) - 1
      /\ Received' = Received
      /\ Fill(rhead, rtail) \in Nat
  <2>1. Received' = Received
    BY <1>2 DEF Received
  <2> QED
    BY <1>1, <1>2, <1>3, <2>1, FillSlot, FillMoves DEF ReadInv, Slot
<1>5. \A k \in 1 .. Len(got) : got[k] \in Nat /\ got[k] < c
  BY <1>1, <1>2, <1>3, ElementOfSeq DEF ReadInv
<1>6. /\ got' \in Seq(Nat) /\ Len(got') = Len(got) + 1
      /\ got'[Len(got) + 1] = c
      /\ \A k \in 1 .. Len(got) : got'[k] = got[k]
      /\ Increasing(got')
  BY <1>1, <1>2, <1>3, <1>5, AppendIncreases DEF ReadInv
<1>7. Len(got) \in Nat
  BY <1>3
<1>8. UartType'
  BY <1>1, <1>2, <1>3, <1>6 DEF UartType
<1>9. WriteInv'
  BY <1>1, <1>2, WriteStutters
<1>10. ReadInv'
  <2>1. Fill(rhead', rtail') = m
    BY <1>2
  <2> HIDE DEF m
  <2>2. ASSUME NEW k \in 1 .. Len(got')
        PROVE  got'[k] <= Received - m
    <3>1. c <= Received - m
      BY <1>3, <1>4
    <3>2. CASE k = Len(got) + 1
      BY <1>6, <3>1, <3>2
    <3>3. CASE k \in 1 .. Len(got)
      <4>1. got'[k] \in Nat /\ got'[k] < c
        BY <1>5, <1>6, <3>3
      <4> QED
        BY <1>3, <1>4, <3>1, <4>1
    <3> QED
      BY <1>6, <1>7, <3>2, <3>3
  <2>3. ~ rlost =>
          /\ Len(got') = Received - m
          /\ \A k \in 1 .. Len(got') : got'[k] = k
    <3> SUFFICES ASSUME ~ rlost
                 PROVE  /\ Len(got') = Received - m
                        /\ \A k \in 1 .. Len(got') : got'[k] = k
      OBVIOUS
    <3>1. /\ Len(got) = Received - Fill(rhead, rtail)
          /\ \A k \in 1 .. Len(got) : got[k] = k
          /\ c = Len(got) + 1 /\ rhead # rtail
      BY <1>1, <1>2 DEF ReadInv
    <3>2. m = Fill(rhead, rtail) - 1
      BY <1>4, <3>1
    <3>3. Len(got') = Received - m
      BY <1>4, <1>6, <1>7, <3>1, <3>2
    <3>4. \A k \in 1 .. Len(got) + 1 : got'[k] = k
      BY <1>6, <1>7, <3>1
    <3> QED
      BY <1>6, <3>3, <3>4
  <2>4. m <= Received
    BY <1>3, <1>4
  <2> QED
    BY <1>1, <1>2, <1>4, <1>6, <2>1, <2>2, <2>3, <2>4 DEF ReadInv
<1> QED
  BY <1>8, <1>9, <1>10 DEF UartInv

(* The handler's receive branch, wherever it interrupts the program: the   *)
(* slot it writes holds none of the last Size - 1 characters, and lapping  *)
(* the tail empties the ring.                                              *)
LEMMA ReceiveInv == ASSUME UartInv, Receive PROVE UartInv'
<1>1. UartType /\ ReadInv /\ WriteInv
  BY DEF UartInv
<1>2. /\ rxfifo # <<>> /\ rxfifo' = Tail(rxfifo)
      /\ rbuf' = [rbuf EXCEPT ![rhead] = Head(rxfifo)]
      /\ rhead' = Succ(rhead) /\ rlost' = (rlost \/ Succ(rhead) = rtail)
      /\ UNCHANGED <<rtail, wbuf, whead, wtail, wlost, pc, c, txfifo, sent, got,
                     nput, nrecv, dropped>>
  BY DEF Receive, wvars
<1>3. /\ rhead \in Slot /\ rtail \in Slot /\ got \in Seq(Nat) /\ c \in Nat
      /\ rxfifo \in Seq(Nat) /\ rbuf \in [Slot -> Nat] /\ nrecv \in Nat
      /\ Succ(rtail) \in Slot /\ Succ(rhead) \in Slot
  BY <1>1, SuccSlot DEF UartType
<1>4. /\ Tail(rxfifo) \in Seq(Nat)
      /\ Len(rxfifo) \in Nat /\ Len(rxfifo) >= 1
      /\ Len(Tail(rxfifo)) = Len(rxfifo) - 1
      /\ \A k \in 1 .. Len(rxfifo) - 1 : Tail(rxfifo)[k] = rxfifo[k + 1]
      /\ Head(rxfifo) = rxfifo[1] /\ Head(rxfifo) \in Nat
  BY <1>2, <1>3, TailShifts
<1>5. Received \in Nat /\ Received' = Received + 1
  <2>1. Received \in Nat
    BY <1>1 DEF ReadInv
  <2> QED
    BY <1>2, <1>3, <1>4, <2>1 DEF Received
<1>6. \A k \in 1 .. Len(rxfifo) : rxfifo[k] = Received + k
  BY <1>1 DEF ReadInv
<1>7. Head(rxfifo) = Received + 1
  BY <1>4, <1>6
<1>8. /\ rbuf' \in [Slot -> Nat]
      /\ HoldsLast(rbuf', Succ(rhead), Received + 1)
  <2>1. /\ rbuf' \in [Slot -> Nat] /\ rbuf'[rhead] = Received + 1
        /\ HoldsLast(rbuf', rhead, Received)
    <3>1. HoldsLast(rbuf, rhead, Received)
      BY <1>1 DEF ReadInv
    <3> QED
      BY <1>2, <1>3, <1>4, <1>5, <1>7, <3>1, StoreKeepsLast, ZenonT(30)
  <2> QED
    BY <1>3, <1>5, <2>1, HeadTakesLast
<1>9. UartType'
  <2>1. rlost' \in BOOLEAN
    BY <1>2
  <2> QED
    BY <1>1, <1>2, <1>3, <1>4, <1>8, <2>1 DEF UartType
<1>10. WriteInv'
  BY <1>1, <1>2, WriteStutters
<1> DEFINE n == Fill(rhead, rtail)
           m == Fill(Succ(rhead), rtail)
           p == Fill(rhead, Succ(rtail))
           q == Fill(Succ(rhead), Succ(rtail))
<1>11. /\ n \in Nat /\ m \in Nat /\ p \in Nat /\ q \in Nat
       /\ Succ(rhead) = rtail => m = 0
       /\ Succ(rhead) # rtail => m = n + 1
       /\ q = 0 \/ q = p + 1
       /\ n <= Received
  <2>1. n \in Nat /\ m \in Nat /\ p \in Nat /\ q \in Nat
    BY <1>3, FillSlot DEF Slot
  <2>2. q = 0 \/ q = p + 1
    BY <1>3, FillMoves
  <2> QED
    BY <1>1, <1>3, <2>1, <2>2, FillMoves DEF ReadInv
<1>12. Fill(rhead', rtail') = m /\ Fill(rhead', Succ(rtail')) = q
  BY <1>2
<1> HIDE DEF m, q
<1>13. m <= Received + 1 /\ Received - n <= Received + 1 - m
  BY <1>5, <1>11
<1>14. ReadInv'
  <2>1. Received' \in Nat /\ Fill(rhead', rtail') <= Received'
    BY <1>5, <1>12, <1>13
  <2>2. \A k \in 1 .. Len(rxfifo') : rxfifo'[k] = Received' + k
    BY <1>2, <1>4, <1>5, <1>6
  <2>3. HoldsLast(rbuf', rhead', Received')
    BY <1>2, <1>5, <1>8
  <2>4. Increasing(got')
    BY <1>1, <1>2 DEF ReadInv
  <2>5. ASSUME NEW k \in 1 .. Len(got')
        PROVE  got'[k] <= Received' - Fill(rhead', rtail')
    <3>1. got[k] \in Nat /\ got[k] <= Received - n /\ got'[k] = got[k]
      BY <1>1, <1>2, <1>3, ElementOfSeq DEF ReadInv
    <3> QED
      BY <1>5, <1>11, <1>12, <1>13, <3>1
  <2>6. pc' = "get_tail" =>
          /\ Fill(rhead', Succ(rtail')) <= Received' - c'
          /\ \A k \in 1 .. Len(got') : got'[k] < c'
    <3>0. pc' = pc /\ got' = got /\ c' = c
      BY <1>2
    <3> SUFFICES ASSUME pc = "get_tail"
                 PROVE  /\ Fill(rhead', Succ(rtail')) <= Received' - c'
                        /\ \A k \in 1 .. Len(got') : got'[k] < c'
      BY <3>0
    <3>1. p <= Received - c /\ \A k \in 1 .. Len(got) : got[k] < c
      BY <1>1 DEF ReadInv
    <3>2. p \in Nat /\ q \in Nat /\ (q = 0 \/ q = p + 1)
      BY <1>11
    <3> HIDE DEF p
    <3>3. q <= Received + 1 - c
      BY <1>3, <1>5, <3>1, <3>2
    <3>4. Fill(rhead', Succ(rtail')) = q /\ Received' - c' = Received + 1 - c
      BY <1>3, <1>5, <1>12, <3>0, <3>2
    <3>5. Fill(rhead', Succ(rtail')) <= Received' - c'
      BY <3>3, <3>4
    <3>6. \A k \in 1 .. Len(got') : got'[k] < c'
      BY <3>0, <3>1
    <3> QED
      BY <3>5, <3>6
  <2>7. ~ rlost' =>
          /\ Len(got') = Received' - Fill(rhead', rtail')
          /\ \A k \in 1 .. Len(got') : got'[k] = k
          /\ pc' = "get_tail" => c' = Len(got') + 1 /\ rhead' # rtail'
    <3>1. ~ rlost' => ~ rlost /\ Succ(rhead) # rtail
      BY <1>2, Zenon
    <3>0. pc' = pc /\ got' = got /\ c' = c /\ rhead' = Succ(rhead) /\ rtail' = rtail
      BY <1>2
    <3> SUFFICES ASSUME ~ rlost, Succ(rhead) # rtail
                 PROVE  /\ Len(got') = Received' - Fill(rhead', rtail')
                        /\ \A k \in 1 .. Len(got') : got'[k] = k
                        /\ pc' = "get_tail" => c' = Len(got') + 1 /\ rhead' # rtail'
      BY <3>1
    <3>2. /\ Len(got) = Received - n
          /\ \A k \in 1 .. Len(got) : got[k] = k
          /\ pc = "get_tail" => c = Len(got) + 1
      BY <1>1 DEF ReadInv
    <3>3. Received - n = Received' - Fill(rhead', rtail')
      <4>1. m = n + 1 /\ n \in Nat
        BY <1>11
      <4>2. Received' - Fill(rhead', rtail') = Received + 1 - m
        BY <1>5, <1>11, <1>12
      <4> HIDE DEF n
      <4>3. Received - n = Received + 1 - m
        BY <1>5, <4>1
      <4> QED
        BY <4>2, <4>3
    <3>4. Len(got') = Received' - Fill(rhead', rtail')
      BY <3>0, <3>2, <3>3
    <3>5. \A k \in 1 .. Len(got') : got'[k] = k
      BY <3>0, <3>2
    <3>6. pc' = "get_tail" => c' = Len(got') + 1 /\ rhead' # rtail'
      BY <3>0, <3>2
    <3> QED
      BY <3>4, <3>5, <3>6
  <2> QED
    BY <2>1, <2>2, <2>3, <2>4, <2>5, <2>6, <2>7, Zenon DEF ReadInv
<1> QED
  BY <1>9, <1>10, <1>14 DEF UartInv

(* The handler's transmit loop takes the oldest character of the ring.     *)
LEMMA TransmitCharInv == ASSUME UartInv, TransmitChar PROVE UartInv'
<1>1. UartType /\ ReadInv /\ WriteInv
  BY DEF UartInv
<1>2. /\ whead # wtail /\ wtail' = Succ(wtail)
      /\ UNCHANGED <<rbuf, rhead, rtail, rlost, wbuf, whead, wlost, pc, c,
                     rxfifo, sent, got, nput, nrecv>>
      /\ \/ txfifo' = Append(txfifo, wbuf[wtail]) /\ dropped' = dropped
         \/ dropped' = TRUE /\ txfifo' = txfifo
  BY DEF TransmitChar, rvars, IsEmpty
<1>3. /\ whead \in Slot /\ wtail \in Slot /\ Succ(wtail) \in Slot
      /\ wbuf \in [Slot -> Nat] /\ sent \in Seq(Nat) /\ txfifo \in Seq(Nat)
      /\ wbuf[wtail] \in Nat
  BY <1>1, SuccSlot DEF UartType
<1> DEFINE n == Fill(whead, wtail)
<1>4. /\ n \in Nat /\ n >= 1 /\ n <= Written /\ Written \in Nat
      /\ Fill(whead', wtail') = n - 1
  BY <1>1, <1>2, <1>3, FillSlot, FillMoves DEF WriteInv, Slot
<1>5. wbuf[wtail] = Written - n + 1
  BY <1>1, <1>2, <1>3, <1>4, RingHoldsLast DEF WriteInv
<1>6. Written' = Written
  BY <1>2 DEF Written
<1>7. /\ \A j \in 1 .. Len(sent) : sent[j] \in Nat /\ sent[j] <= Written - n
      /\ \A k \in 1 .. Len(txfifo) : txfifo[k] \in Nat /\ txfifo[k] <= Written - n
  BY <1>1, <1>3, ElementOfSeq DEF WriteInv
<1>8. ReadInv'
  BY <1>1, <1>2, ReadStutters
<1> HIDE DEF n
<1>9. /\ Written' \in Nat /\ Fill(whead', wtail') <= Written'
      /\ Written' - Fill(whead', wtail') = Written - n + 1
      /\ pc' = "put_head" => wbuf'[whead'] = nput'
      /\ HoldsLast(wbuf', whead', Written')
      /\ Increasing(sent')
      /\ \A j \in 1 .. Len(sent') : sent'[j] <= Written' - Fill(whead', wtail')
  BY <1>1, <1>2, <1>4, <1>6, <1>7 DEF WriteInv
<1>10. CASE txfifo' = Append(txfifo, wbuf[wtail]) /\ dropped' = dropped
  <2> DEFINE v == wbuf[wtail]
  <2>1. /\ \A j \in 1 .. Len(sent) : sent[j] < v
        /\ \A k \in 1 .. Len(txfifo) : txfifo[k] < v
    BY <1>4, <1>5, <1>7
  <2>2. /\ txfifo' \in Seq(Nat)
        /\ Len(txfifo') = Len(txfifo) + 1 /\ Len(txfifo) \in Nat
        /\ txfifo'[Len(txfifo) + 1] = v
        /\ \A k \in 1 .. Len(txfifo) : txfifo'[k] = txfifo[k]
        /\ Increasing(txfifo')
    <3>1. Increasing(txfifo)
      BY <1>1 DEF WriteInv
    <3>2. txfifo' = Append(txfifo, v) /\ v \in Nat
      BY <1>3, <1>10
    <3> HIDE DEF v
    <3> QED
      BY <1>3, <2>1, <3>1, <3>2, AppendIncreases, LenProperties
  <2>3. UartType'
    BY <1>1, <1>2, <1>3, <1>10, <2>2 DEF UartType
  <2> HIDE DEF v
  <2>4. ASSUME NEW k \in 1 .. Len(txfifo')
        PROVE  /\ txfifo'[k] <= Written' - Fill(whead', wtail')
               /\ \A j \in 1 .. Len(sent') : sent'[j] < txfifo'[k]
    <3>0. sent' = sent
      BY <1>2
    <3>1. CASE k = Len(txfifo) + 1
      <4>1. txfifo'[k] = v
        BY <2>2, <3>1
      <4>2. v <= Written' - Fill(whead', wtail')
        <5>1. Written' - Fill(whead', wtail') = Written - n + 1
          BY <1>9
        <5>2. v = Written - n + 1 /\ v \in Nat
          BY <1>3, <1>5 DEF v
        <5>3. v <= Written - n + 1
          BY <5>2
        <5> QED
          BY <5>1, <5>3
      <4> QED
        BY <2>1, <3>0, <4>1, <4>2
    <3>2. CASE k \in 1 .. Len(txfifo)
      <4>1. txfifo'[k] = txfifo[k]
        BY <2>2, <3>2
      <4> QED
        <5>1. \A j \in 1 .. Len(sent) : sent[j] < txfifo[k]
          BY <1>1, <3>2 DEF WriteInv
        <5>2. txfifo[k] <= Written - n + 1
          BY <1>4, <1>7, <3>2
        <5> QED
          BY <1>9, <3>0, <4>1, <5>1, <5>2
    <3> QED
      BY <2>2, <3>1, <3>2
  <2>5. ASSUME ~ wlost', ~ dropped'
        PROVE  /\ Len(sent') + Len(txfifo') = Written' - Fill(whead', wtail')
               /\ \A j \in 1 .. Len(sent') : sent'[j] = j
               /\ \A k \in 1 .. Len(txfifo') : txfifo'[k] = Len(sent') + k
    <3>1. /\ Len(sent) + Len(txfifo) = Written - n
          /\ \A j \in 1 .. Len(sent) : sent[j] = j
          /\ \A k \in 1 .. Len(txfifo) : txfifo[k] = Len(sent) + k
      BY <1>1, <1>2, <1>10, <2>5, Zenon DEF WriteInv, n
    <3>2. Len(sent) \in Nat
      BY <1>3
    <3>3. v = Len(sent) + (Len(txfifo) + 1)
      <4>1. Len(txfifo) \in Nat
        BY <2>2
      <4>2. Len(sent) + Len(txfifo) = Written - n
        BY <3>1
      <4> QED
        BY <1>4, <1>5, <3>2, <4>1, <4>2 DEF v
    <3>4. Len(sent) + Len(txfifo') = Written - n + 1
      BY <1>4, <2>2, <3>1, <3>2
    <3>5. \A k \in 1 .. Len(txfifo) + 1 : txfifo'[k] = Len(sent) + k
      <4> SUFFICES ASSUME NEW k \in 1 .. Len(txfifo) + 1
                   PROVE  txfifo'[k] = Len(sent) + k
        OBVIOUS
      <4>1. k = Len(txfifo) + 1 \/ k \in 1 .. Len(txfifo)
        BY <2>2
      <4> QED
        BY <2>2, <3>1, <3>3, <4>1
    <3>6. sent' = sent
      BY <1>2
    <3>7. Written' - Fill(whead', wtail') = Written - n + 1
      BY <1>9
    <3> QED
      BY <2>2, <3>1, <3>4, <3>5, <3>6, <3>7
  <2>6. WriteInv'
    BY <1>9, <2>2, <2>4, <2>5, Zenon DEF WriteInv
  <2> QED
    BY <1>8, <2>3, <2>6 DEF UartInv
<1>11. CASE dropped' = TRUE /\ txfifo' = txfifo
  <2>1. UartType'
    BY <1>1, <1>2, <1>3, <1>11 DEF UartType
  <2>2. \A k \in 1 .. Len(txfifo') :
          txfifo'[k] <= Written' - Fill(whead', wtail')
    <3>1. \A k \in 1 .. Len(txfifo) : txfifo[k] <= Written - n + 1
      BY <1>4, <1>7
    <3>2. txfifo' = txfifo /\ Written' - Fill(whead', wtail') = Written - n + 1
      BY <1>9, <1>11
    <3> QED
      BY <3>1, <3>2
  <2>3. /\ Increasing(txfifo')
        /\ \A j \in 1 .. Len(sent'), k \in 1 .. Len(txfifo') : sent'[j] < txfifo'[k]
    BY <1>1, <1>2, <1>11 DEF WriteInv
  <2>4. WriteInv'
    BY <1>9, <1>11, <2>2, <2>3, Zenon DEF WriteInv
  <2> QED
    BY <1>8, <2>1, <2>4 DEF UartInv
<1> QED
  BY <1>2, <1>10, <1>11

(* A character leaves the FIFO in the order it entered it.                 *)
LEMMA TransmitInv == ASSUME UartInv, Transmit PROVE UartInv'
<1>1. UartType /\ ReadInv /\ WriteInv
  BY DEF UartInv
<1>2. /\ txfifo # <<>> /\ txfifo' = Tail(txfifo)
      /\ sent' = Append(sent, Head(txfifo))
      /\ UNCHANGED <<rbuf, rhead, rtail, rlost, wbuf, whead, wtail, wlost, pc, c,
                     rxfifo, got, nput, nrecv, dropped>>
  BY DEF Transmit, rvars, wvars
<1>3. txfifo \in Seq(Nat) /\ sent \in Seq(Nat)
  BY <1>1 DEF UartType
<1>4. /\ txfifo' \in Seq(Nat)
      /\ Len(txfifo) \in Nat /\ Len(txfifo) >= 1
      /\ Len(txfifo') = Len(txfifo) - 1
      /\ \A k \in 1 .. Len(txfifo) - 1 : txfifo'[k] = txfifo[k + 1]
      /\ Head(txfifo) = txfifo[1] /\ Head(txfifo) \in Nat
  BY <1>2, <1>3, TailShifts
<1> DEFINE v == txfifo[1]
<1>5. 1 \in 1 .. Len(txfifo)
  BY <1>4
<1>6. /\ \A j \in 1 .. Len(sent) : sent[j] < v
      /\ \A k \in 1 .. Len(txfifo) : k > 1 => v < txfifo[k]
      /\ Increasing(sent) /\ v \in Nat
  BY <1>1, <1>4, <1>5 DEF WriteInv, Increasing
<1>7. sent' = Append(sent, v)
  BY <1>2, <1>4
<1> HIDE DEF v
<1>8. /\ sent' \in Seq(Nat)
      /\ Len(sent') = Len(sent) + 1 /\ Len(sent) \in Nat
      /\ sent'[Len(sent) + 1] = v
      /\ \A j \in 1 .. Len(sent) : sent'[j] = sent[j]
      /\ Increasing(sent')
  BY <1>3, <1>6, <1>7, AppendIncreases, LenProperties
<1>9. UartType'
  BY <1>1, <1>2, <1>4, <1>8 DEF UartType
<1>10. ReadInv'
  BY <1>1, <1>2, ReadStutters
<1> DEFINE b == Written - Fill(whead, wtail)
<1>11. Written' = Written /\ Written' - Fill(whead', wtail') = b
  BY <1>2 DEF Written
<1>12. /\ \A j \in 1 .. Len(sent) : sent[j] <= b
       /\ \A k \in 1 .. Len(txfifo) : txfifo[k] <= b
       /\ \A j \in 1 .. Len(sent), k \in 1 .. Len(txfifo) : sent[j] < txfifo[k]
  BY <1>1 DEF WriteInv
<1> HIDE DEF b
<1>13. ASSUME NEW j \in 1 .. Len(sent')
       PROVE  \/ j \in 1 .. Len(sent) /\ sent'[j] = sent[j]
              \/ j = Len(sent) + 1 /\ sent'[j] = v
  BY <1>8
<1>14. ASSUME NEW k \in 1 .. Len(txfifo')
       PROVE  k + 1 \in 1 .. Len(txfifo) /\ k + 1 > 1 /\ txfifo'[k] = txfifo[k + 1]
  BY <1>4
<1>15. /\ \A j \in 1 .. Len(sent') : sent'[j] <= b
       /\ \A k \in 1 .. Len(txfifo') : txfifo'[k] <= b
       /\ \A j \in 1 .. Len(sent'), k \in 1 .. Len(txfifo') : sent'[j] < txfifo'[k]
  <2>1. \A j \in 1 .. Len(sent') : sent'[j] <= b
    BY <1>5, <1>12, <1>13 DEF v
  <2>2. \A k \in 1 .. Len(txfifo') : txfifo'[k] <= b
    BY <1>12, <1>14
  <2>3. ASSUME NEW j \in 1 .. Len(sent'), NEW k \in 1 .. Len(txfifo')
        PROVE  sent'[j] < txfifo'[k]
    <3>1. k + 1 \in 1 .. Len(txfifo) /\ k + 1 > 1 /\ txfifo'[k] = txfifo[k + 1]
      BY <1>14
    <3> QED
      BY <1>6, <1>12, <1>13, <3>1
  <2> QED
    BY <2>1, <2>2, <2>3
<1>16. Increasing(txfifo')
  <2> SUFFICES ASSUME NEW j \in 1 .. Len(txfifo'), NEW k \in 1 .. Len(txfifo'), j < k
               PROVE  txfifo'[j] < txfifo'[k]
    BY DEF Increasing
  <2>1. /\ j + 1 \in 1 .. Len(txfifo) /\ txfifo'[j] = txfifo[j + 1]
        /\ k + 1 \in 1 .. Len(txfifo) /\ txfifo'[k] = txfifo[k + 1]
        /\ j + 1 < k + 1
    BY <1>14
  <2>2. Increasing(txfifo)
    BY <1>1 DEF WriteInv
  <2> QED
    BY <2>1, <2>2 DEF Increasing
<1>17. ASSUME ~ wlost', ~ dropped'
       PROVE  /\ Len(sent') + Len(txfifo') = b
              /\ \A j \in 1 .. Len(sent') : sent'[j] = j
              /\ \A k \in 1 .. Len(txfifo') : txfifo'[k] = Len(sent') + k
  <2>1. /\ Len(sent) + Len(txfifo) = b
        /\ \A j \in 1 .. Len(sent) : sent[j] = j
        /\ \A k \in 1 .. Len(txfifo) : txfifo[k] = Len(sent) + k
    BY <1>1, <1>2, <1>17, Zenon DEF WriteInv, b
  <2>2. v = Len(sent) + 1
    BY <1>5, <2>1 DEF v
  <2>3. Len(sent') + Len(txfifo') = b
    BY <1>4, <1>8, <2>1
  <2>4. \A j \in 1 .. Len(sent') : sent'[j] = j
    BY <1>13, <2>1, <2>2
  <2>5. ASSUME NEW k \in 1 .. Len(txfifo') PROVE txfifo'[k] = Len(sent') + k
    <3>1. k + 1 \in 1 .. Len(txfifo) /\ txfifo'[k] = txfifo[k + 1]
      BY <1>14
    <3>2. txfifo[k + 1] = Len(sent) + (k + 1)
      BY <2>1, <3>1
    <3>3. k \in Int
      BY <1>4
    <3> QED
      BY <1>8, <3>1, <3>2, <3>3
  <2> QED
    BY <2>3, <2>4, <2>5
<1>18. WriteInv'
  <2>1. /\ Written' \in Nat /\ Fill(whead', wtail') <= Written'
        /\ pc' = "put_head" => wbuf'[whead'] = nput'
        /\ HoldsLast(wbuf', whead', Written')
    BY <1>1, <1>2, <1>11 DEF WriteInv
  <2> QED
    BY <1>8, <1>11, <1>15, <1>16, <1>17, <2>1, Zenon DEF WriteInv
<1> QED
  BY <1>9, <1>10, <1>18 DEF UartInv

(* A character that arrives is behind all others in the receiver.          *)
LEMMA ArriveInv == ASSUME UartInv, Arrive PROVE UartInv'
<1>1. UartType /\ ReadInv /\ WriteInv
  BY DEF UartInv
<1>2. /\ rxfifo' = Append(rxfifo, nrecv + 1) /\ nrecv' = nrecv + 1
      /\ UNCHANGED <<rbuf, rhead, rtail, rlost, wbuf, whead, wtail, wlost, pc, c,
                     txfifo, sent, got, nput, dropped>>
  BY DEF Arrive, rvars, wvars
<1>3. rxfifo \in Seq(Nat) /\ nrecv \in Nat
  BY <1>1 DEF UartType
<1>4. /\ rxfifo' \in Seq(Nat)
      /\ Len(rxfifo') = Len(rxfifo) + 1 /\ Len(rxfifo) \in Nat
      /\ rxfifo'[Len(rxfifo) + 1] = nrecv + 1
      /\ \A k \in 1 .. Len(rxfifo) : rxfifo'[k] = rxfifo[k]
  BY <1>2, <1>3
<1>5. Received' = Received /\ nrecv + 1 = Received + (Len(rxfifo) + 1)
  BY <1>2, <1>3, <1>4 DEF Received
<1>6. UartType'
  BY <1>1, <1>2, <1>3, <1>4 DEF UartType
<1>7. WriteInv'
  BY <1>1, <1>2, WriteStutters
<1>8. \A k \in 1 .. Len(rxfifo') : rxfifo'[k] = Received + k
  <2>1. \A k \in 1 .. Len(rxfifo) : rxfifo[k] = Received + k
    BY <1>1 DEF ReadInv
  <2> QED
    BY <1>4, <1>5, <2>1
<1>9. ReadInv'
  BY <1>1, <1>2, <1>5, <1>8 DEF ReadInv
<1> QED
  BY <1>6, <1>7, <1>9 DEF UartInv

(* The steps that only move the program counter or the interrupt enables.  *)
LEMMA ControlInv ==
  ASSUME UartInv,
         PutReadIer \/ PutWriteIer \/ GetDone \/ TransmitStart \/ TransmitDone
           \/ UNCHANGED vars
  PROVE  UartInv'
<1>1. UartType /\ ReadInv /\ WriteInv
  BY DEF UartInv
<1>2. /\ UNCHANGED <<rbuf, rhead, rtail, rlost, wbuf, whead, wtail, wlost, c,
                     txfifo, rxfifo, sent, got, nput, nrecv, dropped>>
      /\ pc' = pc \/ (pc \in {"puts", "put_ier", "gets"} /\ pc' \in {"put_ier", "idle"})
  BY DEF PutReadIer, PutWriteIer, GetDone, TransmitStart, TransmitDone, vars,
         rvars, wvars
<1>3. UartType'
  BY <1>1, <1>2 DEF UartType
<1>4. ReadInv'
  BY <1>1, <1>2, ReadStutters
<1>5. WriteInv'
  BY <1>1, <1>2, WriteStutters
<1> QED
  BY <1>3, <1>4, <1>5 DEF UartInv

(* Every step of the program, the handler and the hardware keeps the       *)
(* invariant.                                                              *)
LEMMA UartNext == ASSUME UartInv, [Next]_vars PROVE UartInv'
BY PutStoreInv, PutHeadInv, GetReadInv, GetTailInv, ReceiveInv, TransmitCharInv,
   TransmitInv, ArriveInv, ControlInv DEF Next, Program, Handler

------------------------------------------------------------------------------
(* Theorems                                                                *)

(* Both rings hold the last characters put into them, whatever the         *)
(* interleaving of the program and its interrupt handler.                  *)
THEOREM UartInvariance == Spec => []UartInv
<1>1. Init => UartInv
  BY UartInit
<1>2. UartInv /\ [Next]_vars => UartInv'
  BY UartNext
<1> QED
  BY <1>1, <1>2, PTL DEF Spec

(* Three sequences of which each goes on counting where the one before it  *)
(* ended are, one after the other, the numbers up to their number.         *)
LEMMA CountsUp ==
  ASSUME NEW a \in Seq(Nat), NEW b \in Seq(Nat), NEW d \in Seq(Nat), NEW n \in Nat,
         \A k \in 1 .. Len(a) : a[k] = k,
         \A k \in 1 .. Len(b) : b[k] = Len(a) + k,
         \A k \in 1 .. Len(d) : d[k] = Len(a) + Len(b) + k,
         Len(a) + Len(b) + Len(d) = n
  PROVE  a \o b \o d = Upto(n)
<1> DEFINE x == a \o b
           y == x \o d
<1>1. /\ x \in Seq(Nat) /\ Len(x) = Len(a) + Len(b)
      /\ \A k \in 1 .. Len(a) + Len(b) :
           x[k] = IF k <= Len(a) THEN a[k] ELSE b[k - Len(a)]
  BY ConcatProperties
<1>2. Len(a) \in Nat /\ Len(b) \in Nat /\ Len(d) \in Nat
  BY LenProperties
<1>3. \A k \in 1 .. Len(x) : x[k] = k
  BY <1>1, <1>2
<1> HIDE DEF x
<1>4. /\ y \in Seq(Nat) /\ Len(y) = Len(x) + Len(d)
      /\ \A k \in 1 .. Len(x) + Len(d) :
           y[k] = IF k <= Len(x) THEN x[k] ELSE d[k - Len(x)]
  BY <1>1, ConcatProperties
<1>5. Len(y) = n /\ \A k \in 1 .. n : y[k] = k
  BY <1>1, <1>2, <1>3, <1>4, SMTT(30)
<1> HIDE DEF y
<1>6. Upto(n) \in Seq(Nat) /\ Len(Upto(n)) = n /\ \A k \in 1 .. n : Upto(n)[k] = k
  BY DEF Upto
<1>7. y = Upto(n)
  BY <1>4, <1>5, <1>6, SeqEqual
<1> QED
  BY <1>7 DEF x, y

(* What is in a ring, as a sequence.                                       *)
LEMMA RingIsSeq ==
  ASSUME NEW buf \in [Slot -> Nat], NEW h \in Slot, NEW t \in Slot, NEW n \in Nat,
         HoldsLast(buf, h, n), Fill(h, t) <= n
  PROVE  /\ Ring(buf, h, t) \in Seq(Nat)
         /\ Len(Ring(buf, h, t)) = Fill(h, t)
         /\ \A k \in 1 .. Fill(h, t) : Ring(buf, h, t)[k] = n - Fill(h, t) + k
<1>1. Fill(h, t) \in Nat
  BY FillSlot DEF Slot
<1>2. \A k \in 1 .. Fill(h, t) :
        buf[(t + k - 1) % Size] = n - Fill(h, t) + k
  BY RingHoldsLast
<1> DEFINE m == Fill(h, t)
<1>3. Ring(buf, h, t) = [k \in 1 .. m |-> buf[(t + k - 1) % Size]]
  BY DEF Ring, Fill
<1> HIDE DEF m
<1>4. \A k \in 1 .. m : buf[(t + k - 1) % Size] \in Nat
  BY <1>1, <1>2 DEF m
<1> QED
  BY <1>1, <1>2, <1>3, <1>4 DEF m

(* Nothing is lost or reordered on the way from the receiver to the        *)
(* program as long as read_buffer is not lapped, for any size.             *)
THEOREM ReceivesExactly == Spec => []RxExact
<1>1. UartInv => RxExact
  <2> SUFFICES ASSUME UartInv, ~ rlost
               PROVE  got \o Ring(rbuf, rhead, rtail) \o rxfifo = Upto(nrecv)
    BY DEF RxExact
  <2>1. UartType /\ ReadInv
    BY DEF UartInv
  <2> DEFINE r == Ring(rbuf, rhead, rtail)
             n == Fill(rhead, rtail)
  <2>2. /\ r \in Seq(Nat) /\ Len(r) = n
        /\ \A k \in 1 .. n : r[k] = Received - n + k
    <3>1. /\ rbuf \in [Slot -> Nat] /\ rhead \in Slot /\ rtail \in Slot
          /\ Received \in Nat /\ HoldsLast(rbuf, rhead, Received)
          /\ Fill(rhead, rtail) <= Received
      BY <2>1 DEF UartType, ReadInv
    <3> QED
      BY <3>1, RingIsSeq
  <2>3. /\ Len(got) = Received - n /\ \A k \in 1 .. Len(got) : got[k] = k
        /\ \A k \in 1 .. Len(rxfifo) : rxfifo[k] = Received + k
        /\ Received \in Nat
    BY <2>1 DEF ReadInv
  <2>4. /\ got \in Seq(Nat) /\ rxfifo \in Seq(Nat) /\ nrecv \in Nat
        /\ n \in Nat
    BY <2>1, FillSlot DEF UartType, Slot
  <2>5. Len(rxfifo) \in Nat /\ nrecv = Received + Len(rxfifo)
    BY <2>4 DEF Received
  <2> HIDE DEF r, n
  <2>6. /\ \A k \in 1 .. Len(r) : r[k] = Len(got) + k
        /\ \A k \in 1 .. Len(rxfifo) : rxfifo[k] = Len(got) + Len(r) + k
        /\ Len(got) + Len(r) + Len(rxfifo) = nrecv
    BY <2>2, <2>3, <2>4, <2>5
  <2> QED
    BY <2>2, <2>3, <2>4, <2>6, CountsUp DEF r
<1> QED
  BY <1>1, UartInvariance, PTL

(* Nothing is lost or reordered on the way from the program to the         *)
(* transmitter as long as write_buffer is not lapped and the FIFO refuses  *)
(* nothing, for any sizes.                                                 *)
THEOREM SendsExactly == Spec => []TxExact
<1>1. UartInv => TxExact
  <2> SUFFICES ASSUME UartInv, ~ wlost, ~ dropped
               PROVE  sent \o txfifo \o Ring(wbuf, whead, wtail) = Upto(Written)
    BY DEF TxExact, Written
  <2>1. UartType /\ WriteInv
    BY DEF UartInv
  <2> DEFINE r == Ring(wbuf, whead, wtail)
             n == Fill(whead, wtail)
  <2>2. /\ r \in Seq(Nat) /\ Len(r) = n
        /\ \A k \in 1 .. n : r[k] = Written - n + k
    <3>1. /\ wbuf \in [Slot -> Nat] /\ whead \in Slot /\ wtail \in Slot
          /\ Written \in Nat /\ HoldsLast(wbuf, whead, Written)
          /\ Fill(whead, wtail) <= Written
      BY <2>1 DEF UartType, WriteInv
    <3> QED
      BY <3>1, RingIsSeq
  <2>3. /\ Len(sent) + Len(txfifo) = Written - n
        /\ \A k \in 1 .. Len(sent) : sent[k] = k
        /\ \A k \in 1 .. Len(txfifo) : txfifo[k] = Len(sent) + k
        /\ Written \in Nat
    BY <2>1 DEF WriteInv
  <2>4. sent \in Seq(Nat) /\ txfifo \in Seq(Nat) /\ n \in Nat
    BY <2>1, FillSlot DEF UartType, Slot
  <2>5. Len(sent) \in Nat /\ Len(txfifo) \in Nat
    BY <2>4
  <2> HIDE DEF r, n
  <2>6. /\ \A k \in 1 .. Len(r) : r[k] = Len(sent) + Len(txfifo) + k
        /\ Len(sent) + Len(txfifo) + Len(r) = Written
    BY <2>2, <2>3, <2>4, <2>5
  <2> QED
    BY <2>2, <2>3, <2>4, <2>6, CountsUp DEF r
<1> QED
  BY <1>1, UartInvariance, PTL

(* Even a lapped ring and a full FIFO only lose characters: none is sent   *)
(* or read twice or out of order.                                          *)
THEOREM NeverRepeats == Spec => []NothingRepeated
<1>1. UartInv => NothingRepeated
  BY DEF UartInv, ReadInv, WriteInv, Increasing, NothingRepeated
<1> QED
  BY <1>1, UartInvariance, PTL
==============================================================================
