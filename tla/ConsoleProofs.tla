--------------------------- MODULE ConsoleProofs ---------------------------
(***************************************************************************)
(* Console input of module Console, for every size of the ring buffer,     *)
(* every number of readers and every input.                                *)
(***************************************************************************)
EXTENDS Console, SequenceTheorems, TLAPS

\* Zenon proves the leaves that do not say SMT.
USE ZenonT(30)

Indices == 0 .. RING - 1
Byte == {"c", "b", "n", "d", "none"} \X Nat

TypeOK ==
    /\ typed \in Nat /\ rx \in Byte /\ rxReady \in BOOLEAN /\ irq \in BOOLEAN
    /\ buffer \in [Indices -> Byte] /\ head \in Indices /\ tail \in Indices
    /\ rpc \in [Readers -> {"user", "loop", "asleep", "ready"}]
    /\ last \in Nat

-----------------------------------------------------------------------------
(* The ring buffer as a sequence. *)

\* What Contents is of any buffer b with any head h and tail t.
Ring(b, h, t) == [i \in 1 .. (h - t + RING) % RING |-> b[(t + i - 1) % RING]]

\* The uint8_t arithmetic of the indices, without a remainder.
Count(h, t) == IF h >= t THEN h - t ELSE h - t + RING
Slot(t, n) == IF t + n - 1 < RING THEN t + n - 1 ELSE t + n - 1 - RING

LEMMA Remainder ==
    ASSUME NEW x \in Nat, x < RING + RING
    PROVE  x % RING = IF x < RING THEN x ELSE x - RING
<1>1. RING \in Nat \ {0}
  BY ConsoleAssumption, SMT
<1>2. CASE x < RING
  BY <1>1, <1>2, SMT
<1>3. CASE ~(x < RING)
  <2>1. x - RING \in Nat /\ x - RING < RING
    BY <1>1, <1>3, SMT
  <2>2. x % RING = (x - RING) % RING
    BY <1>1, <2>1, SMT
  <2>. QED  BY <1>1, <1>3, <2>1, <2>2, SMT
<1>. QED  BY <1>2, <1>3

LEMMA RingShape ==
    ASSUME NEW b \in [Indices -> Byte], NEW h \in Indices, NEW t \in Indices
    PROVE  /\ Ring(b, h, t) \in Seq(Byte) /\ Len(Ring(b, h, t)) = Count(h, t)
           /\ Count(h, t) \in 0 .. RING - 1
           /\ \A n \in 1 .. Count(h, t) : Slot(t, n) \in Indices /\ Ring(b, h, t)[n] = b[Slot(t, n)]
<1>. DEFINE N == Count(h, t)
<1>1. RING \in Nat /\ RING > 1 /\ h \in Int /\ t \in Int /\ 0 <= h /\ h < RING /\ 0 <= t /\ t < RING
  BY ConsoleAssumption, SMT DEF Indices
<1>2. N \in 0 .. RING - 1
  BY <1>1, SMT DEF Count
<1>3. (h - t + RING) % RING = N
  <2>1. h - t + RING \in Nat /\ h - t + RING < RING + RING
    BY <1>1, SMT
  <2>. QED  BY <1>1, <2>1, Remainder, SMTT(30) DEF Count
<1>4. ASSUME NEW n \in 1 .. N PROVE Slot(t, n) \in Indices /\ (t + n - 1) % RING = Slot(t, n)
  <2>1. n \in Int /\ 1 <= n /\ n < RING
    BY <1>1, <1>2, SMT
  <2>2. t + n - 1 \in Nat /\ t + n - 1 < RING + RING
    BY <1>1, <2>1, SMT
  <2>3. Slot(t, n) \in Indices
    BY <1>1, <2>1, SMT DEF Slot, Indices
  <2>4. (t + n - 1) % RING = Slot(t, n)
    <3>. DEFINE x == t + n - 1
    <3>1. x \in Nat /\ x < RING + RING
      BY <2>2
    <3>2. Slot(t, n) = IF x < RING THEN x ELSE x - RING
      BY <1>1, <2>1, SMT DEF Slot
    <3>. HIDE DEF x
    <3>3. x % RING = Slot(t, n)
      BY <3>1, <3>2, Remainder
    <3>. QED  BY <3>3 DEF x
  <2>. QED  BY <2>3, <2>4
<1>. HIDE DEF N
<1>5. Ring(b, h, t) = [n \in 1 .. N |-> b[Slot(t, n)]]
  BY <1>3, <1>4 DEF Ring
<1>6. \A n \in 1 .. N : b[Slot(t, n)] \in Byte
  BY <1>4
<1>7. N \in Nat
  BY <1>1, <1>2, SMT
<1>8. Ring(b, h, t) \in Seq(Byte) /\ Len(Ring(b, h, t)) = N
  BY <1>5, <1>6, <1>7, SMT
<1>. QED  BY <1>2, <1>4, <1>5, <1>8 DEF N

LEMMA IncInRing == ASSUME NEW j \in Indices PROVE Inc(j) = (IF j + 1 < RING THEN j + 1 ELSE 0) /\ Inc(j) \in Indices
<1>1. RING \in Nat /\ RING > 1 /\ j \in Int /\ 0 <= j /\ j < RING
  BY ConsoleAssumption, SMT DEF Indices
<1>2. j + 1 \in Nat /\ j + 1 < RING + RING
  BY <1>1, SMT
<1>3. Inc(j) = (IF j + 1 < RING THEN j + 1 ELSE (j + 1) - RING)
  BY <1>2, Remainder DEF Inc
<1>. QED  BY <1>1, <1>3, SMT DEF Indices

\* A byte stored at head is the last of the sequence.
LEMMA RingPut ==
    ASSUME NEW b \in [Indices -> Byte], NEW h \in Indices, NEW t \in Indices, NEW x \in Byte,
           Count(h, t) < RING - 1
    PROVE  Ring([b EXCEPT ![h] = x], Inc(h), t) = Append(Ring(b, h, t), x)
<1>. DEFINE c == [b EXCEPT ![h] = x]
            g == Inc(h)
            N == Count(h, t)
<1>1. RING \in Nat /\ RING > 1 /\ h \in Int /\ t \in Int /\ 0 <= h /\ h < RING /\ 0 <= t /\ t < RING
  BY ConsoleAssumption, SMT DEF Indices
<1>2. c \in [Indices -> Byte] /\ g \in Indices /\ g = (IF h + 1 < RING THEN h + 1 ELSE 0)
  BY IncInRing
<1>3. Count(g, t) = N + 1 /\ N \in Nat
  BY <1>1, <1>2, SMT DEF Count
<1>4. Slot(t, N + 1) = h
  BY <1>1, SMT DEF Slot, Count
<1>5. \A n \in 1 .. N : Slot(t, n) # h
  BY <1>1, SMT DEF Slot, Count
<1>6. /\ Ring(b, h, t) \in Seq(Byte) /\ Len(Ring(b, h, t)) = N
      /\ \A n \in 1 .. N : Slot(t, n) \in Indices /\ Ring(b, h, t)[n] = b[Slot(t, n)]
  BY RingShape
<1>7. /\ Ring(c, g, t) \in Seq(Byte) /\ Len(Ring(c, g, t)) = N + 1
      /\ \A n \in 1 .. N + 1 : Ring(c, g, t)[n] = c[Slot(t, n)]
  <2>. HIDE DEF c, g, N
  <2>1. /\ Ring(c, g, t) \in Seq(Byte) /\ Len(Ring(c, g, t)) = Count(g, t)
        /\ \A n \in 1 .. Count(g, t) : Ring(c, g, t)[n] = c[Slot(t, n)]
    <3>1. c \in [Indices -> Byte] /\ g \in Indices
      BY <1>2
    <3>. QED  BY ONLY <3>1, t \in Indices, RingShape
  <2>. QED  BY <1>3, <2>1
<1>8. /\ Append(Ring(b, h, t), x) \in Seq(Byte) /\ Len(Append(Ring(b, h, t), x)) = N + 1
      /\ \A n \in 1 .. N : Append(Ring(b, h, t), x)[n] = Ring(b, h, t)[n]
      /\ Append(Ring(b, h, t), x)[N + 1] = x
  <2>. HIDE DEF N
  <2>. QED  BY <1>6, AppendProperties, SMT
<1>9. ASSUME NEW n \in 1 .. N + 1 PROVE Ring(c, g, t)[n] = Append(Ring(b, h, t), x)[n]
  <2>1. CASE n = N + 1
    <3>1. c[h] = x
      OBVIOUS
    <3>. HIDE DEF c, N
    <3>. QED  BY <1>3, <1>4, <1>7, <1>8, <2>1, <3>1
  <2>2. CASE n # N + 1
    <3>1. n \in 1 .. N
      <4>. HIDE DEF N
      <4>. QED  BY <1>3, <2>2, SMT
    <3>2. c[Slot(t, n)] = b[Slot(t, n)]
      BY <1>5, <1>6, <3>1
    <3>. HIDE DEF c, g, N
    <3>. QED  BY <1>6, <1>7, <1>8, <3>1, <3>2
  <2>. QED  BY <2>1, <2>2
<1>. HIDE DEF c, g, N
<1>10. Ring(c, g, t) = Append(Ring(b, h, t), x)
  BY <1>7, <1>8, <1>9, SeqEqual
<1>. QED  BY <1>10 DEF c, g

\* The byte at tail is the first of the sequence, and taking it leaves the rest.
LEMMA RingTake ==
    ASSUME NEW b \in [Indices -> Byte], NEW h \in Indices, NEW t \in Indices, h # t
    PROVE  /\ Ring(b, h, t) # <<>> /\ Len(Ring(b, h, t)) > 0 /\ Ring(b, h, t)[1] = b[t]
           /\ Ring(b, h, Inc(t)) = Tail(Ring(b, h, t))
<1>. DEFINE g == Inc(t)
            N == Count(h, t)
<1>1. RING \in Nat /\ RING > 1 /\ h \in Int /\ t \in Int /\ 0 <= h /\ h < RING /\ 0 <= t /\ t < RING
  BY ConsoleAssumption, SMT DEF Indices
<1>2. g \in Indices /\ g = (IF t + 1 < RING THEN t + 1 ELSE 0)
  BY IncInRing
<1>3. N \in Nat \ {0} /\ Count(h, g) = N - 1 /\ Slot(t, 1) = t
  BY <1>1, <1>2, SMT DEF Count, Slot
<1>4. \A n \in 1 .. N - 1 : Slot(g, n) = Slot(t, n + 1)
  BY <1>1, <1>2, SMT DEF Slot, Count
<1>. HIDE DEF g, N
<1>5. /\ Ring(b, h, t) \in Seq(Byte) /\ Len(Ring(b, h, t)) = N
      /\ \A n \in 1 .. N : Ring(b, h, t)[n] = b[Slot(t, n)]
  BY RingShape DEF N
<1>6. /\ Ring(b, h, g) \in Seq(Byte) /\ Len(Ring(b, h, g)) = N - 1
      /\ \A n \in 1 .. N - 1 : Ring(b, h, g)[n] = b[Slot(g, n)]
  <2>1. /\ Ring(b, h, g) \in Seq(Byte) /\ Len(Ring(b, h, g)) = Count(h, g)
        /\ \A n \in 1 .. Count(h, g) : Ring(b, h, g)[n] = b[Slot(g, n)]
    <3>1. g \in Indices
      BY <1>2
    <3>. QED  BY ONLY <3>1, b \in [Indices -> Byte], h \in Indices, RingShape
  <2>. QED  BY <1>3, <2>1
<1>7. Ring(b, h, t) # <<>>
  BY <1>3, <1>5, EmptySeq
<1>8. /\ Tail(Ring(b, h, t)) \in Seq(Byte) /\ Len(Tail(Ring(b, h, t))) = N - 1
      /\ \A n \in 1 .. N - 1 : Tail(Ring(b, h, t))[n] = Ring(b, h, t)[n + 1]
  BY <1>5, <1>7, HeadTailProperties
<1>9. ASSUME NEW n \in 1 .. N - 1 PROVE Ring(b, h, g)[n] = Tail(Ring(b, h, t))[n]
  <2>1. n + 1 \in 1 .. N
    BY <1>3, SMT
  <2>. QED  BY <1>4, <1>5, <1>6, <1>8, <2>1
<1>10. Ring(b, h, g) = Tail(Ring(b, h, t))
  BY <1>6, <1>8, <1>9, SeqEqual
<1>11. 1 \in 1 .. N /\ N > 0
  BY <1>3, SMT
<1>. QED  BY <1>3, <1>5, <1>7, <1>10, <1>11 DEF g

LEMMA RingEmpty ==
    ASSUME NEW b, NEW t \in Indices
    PROVE  Ring(b, t, t) = <<>>
<1>1. RING \in Nat /\ RING > 1 /\ t \in Int
  BY ConsoleAssumption, SMT DEF Indices
<1>2. t - t + RING = RING /\ RING % RING = 0
  BY <1>1, Remainder, SMT
<1>. QED  BY <1>2, SMT DEF Ring

-----------------------------------------------------------------------------
(* What the steps do to the contents. *)

LEMMA ContentsShape ==
    ASSUME TypeOK
    PROVE  /\ Contents = Ring(buffer, head, tail)
           /\ Contents \in Seq(Byte) /\ Len(Contents) = Count(head, tail)
           /\ Count(head, tail) \in 0 .. RING - 1
<1>1. Contents = Ring(buffer, head, tail)
  BY DEF Contents, Ring
<1>2. buffer \in [Indices -> Byte] /\ head \in Indices /\ tail \in Indices
  BY DEF TypeOK
<1>. QED  BY <1>1, <1>2, RingShape

\* uart_rx_interrupt() appends the byte, overruns a buffer that is full with
\* head 255, or changes nothing.
LEMMA RxContents ==
    ASSUME TypeOK, UartRxInterrupt
    PROVE  IF rxReady /\ rx[1] # "d" /\ HasRoom
           THEN IF Len(Contents) < RING - 1 THEN Contents' = Append(Contents, rx)
                                            ELSE Contents' = <<>> /\ head' = tail'
           ELSE Contents' = Contents /\ head' = head /\ tail' = tail
<1>1. /\ buffer \in [Indices -> Byte] /\ head \in Indices /\ tail \in Indices
      /\ rx \in Byte /\ tail' = tail
  BY DEF TypeOK, UartRxInterrupt
<1>2. Contents = Ring(buffer, head, tail) /\ Len(Contents) = Count(head, tail)
  BY ContentsShape
<1>3. Contents' = Ring(buffer', head', tail)
  BY <1>1 DEF Contents, Ring
<1>4. CASE rxReady /\ rx[1] # "d" /\ HasRoom
  <2>1. buffer' = [buffer EXCEPT ![head] = rx] /\ head' = Inc(head)
    BY <1>4 DEF UartRxInterrupt, Stored
  <2>2. CASE Len(Contents) < RING - 1
    <3>1. Ring(buffer', head', tail) = Append(Ring(buffer, head, tail), rx)
      BY <1>1, <1>2, <2>1, <2>2, RingPut
    <3>. QED  BY <1>2, <1>3, <1>4, <2>2, <3>1
  <2>3. CASE ~(Len(Contents) < RING - 1)
    <3>1. RING \in Nat /\ RING > 1 /\ head \in 0 .. RING - 1 /\ tail \in 0 .. RING - 1
      BY <1>1, ConsoleAssumption DEF Indices
    <3>2. head + 1 # tail /\ ~(Count(head, tail) < RING - 1)
      BY <1>2, <1>4, <2>3 DEF HasRoom
    <3>3. head = RING - 1 /\ tail = 0
      BY <3>1, <3>2, SMT DEF Count
    <3>4. head' = tail
      BY <1>1, <2>1, <3>1, <3>3, IncInRing, SMT
    <3>5. Contents' = <<>>
      BY <1>1, <1>3, <3>4, RingEmpty
    <3>. QED  BY <1>1, <1>4, <2>3, <3>4, <3>5
  <2>. QED  BY <2>2, <2>3
<1>5. CASE ~(rxReady /\ rx[1] # "d" /\ HasRoom)
  <2>1. buffer' = buffer /\ head' = head
    BY <1>5 DEF UartRxInterrupt
  <2>. QED  BY <1>1, <1>2, <1>3, <1>5, <2>1
<1>. QED  BY <1>4, <1>5

\* uart_getc() takes the oldest byte.
LEMMA ReadContents ==
    ASSUME TypeOK, NEW p \in Readers, ReadByte(p)
    PROVE  /\ Contents # <<>> /\ Len(Contents) > 0 /\ Contents' = Tail(Contents)
           /\ last' = Contents[1][2]
<1>1. /\ buffer \in [Indices -> Byte] /\ head \in Indices /\ tail \in Indices
      /\ head # tail /\ buffer' = buffer /\ head' = head /\ tail' = Inc(tail)
      /\ last' = buffer[tail][2]
  BY DEF TypeOK, ReadByte
<1>2. Contents = Ring(buffer, head, tail) /\ Contents' = Ring(buffer, head, Inc(tail))
  BY <1>1 DEF Contents, Ring
<1>. QED  BY <1>1, <1>2, RingTake

\* Every other step leaves the ring buffer alone.
Quiet == \/ \E k \in Kinds : Received(k)
         \/ \E p \in Readers : \/ \E n \in Sizes : ReadCall(p, n)
                               \/ SysKill(p) \/ ReadResume(p) \/ ReadSleeps(p) \/ ReadFull(p)
         \/ UNCHANGED vars

LEMMA QuietContents == Quiet => Contents' = Contents /\ head' = head /\ tail' = tail /\ last' = last
<1>1. Quiet => UNCHANGED <<buffer, head, tail, last>>
  BY DEF Quiet, Received, ReadCall, SysKill, ReadResume, ReadSleeps, ReadFull, vars, ringVars,
         readVars, uartVars
<1>. QED  BY <1>1 DEF Contents

LEMMA Steps == [Next]_vars => UartRxInterrupt \/ Quiet \/ \E p \in Readers : ReadByte(p)
  BY DEF Next, Quiet, UartStep, UartStepLost

-----------------------------------------------------------------------------
(* The invariant is inductive. *)

LEMMA NextTypeOK == TypeOK /\ [Next]_vars => TypeOK'
<1>. SUFFICES ASSUME TypeOK, [Next]_vars PROVE TypeOK'
  OBVIOUS
<1>. USE DEF TypeOK
<1>1. ASSUME NEW k \in Kinds, UartStep(k) \/ UartStepLost(k) PROVE TypeOK'
  <2>1. <<k, typed + 1>> \in Byte
    BY ConsoleAssumption, SMT DEF Byte
  <2>2. Received(k) /\ irq' \in BOOLEAN
    BY <1>1 DEF UartStep, UartStepLost
  <2>. QED  BY <2>1, <2>2, SMT DEF Received, ringVars, readVars
<1>2. CASE UartRxInterrupt
  <2>1. buffer' \in [Indices -> Byte] /\ head' \in Indices
    BY <1>2, IncInRing DEF UartRxInterrupt, Stored
  <2>2. rpc' \in [Readers -> {"user", "loop", "asleep", "ready"}]
    BY <1>2 DEF UartRxInterrupt, WakeReaders
  <2>3. irq' = FALSE /\ rxReady' = FALSE
    BY <1>2 DEF UartRxInterrupt
  <2>. QED  BY <1>2, <2>1, <2>2, <2>3 DEF UartRxInterrupt
<1>3. ASSUME NEW p \in Readers, NEW n \in Sizes, ReadCall(p, n) PROVE TypeOK'
  BY <1>3 DEF ReadCall, uartVars, ringVars
<1>4. ASSUME NEW p \in Readers, SysKill(p) \/ ReadResume(p) \/ ReadSleeps(p) \/ ReadFull(p)
      PROVE TypeOK'
  BY <1>4 DEF SysKill, ReadResume, ReadSleeps, ReadFull, uartVars, ringVars
<1>5. ASSUME NEW p \in Readers, ReadByte(p) PROVE TypeOK'
  <2>1. buffer[tail] \in Byte /\ buffer[tail][2] \in Nat
    BY DEF Byte
  <2>2. tail' \in Indices /\ last' \in Nat
    BY <1>5, <2>1, IncInRing DEF ReadByte
  <2>3. rpc' \in [Readers -> {"user", "loop", "asleep", "ready"}]
    BY <1>5 DEF ReadByte
  <2>. QED  BY <1>5, <2>2, <2>3 DEF ReadByte, uartVars
<1>6. CASE UNCHANGED vars
  BY <1>6 DEF vars, uartVars, ringVars, readVars
<1>. QED  BY <1>1, <1>2, <1>3, <1>4, <1>5, <1>6 DEF Next

\* A reader falls asleep on an empty buffer, and whatever moves head wakes it.
LEMMA NextNoLostWakeup == TypeOK /\ NoLostWakeup /\ [Next]_vars => NoLostWakeup'
<1>. SUFFICES ASSUME TypeOK, NoLostWakeup, [Next]_vars PROVE NoLostWakeup'
  OBVIOUS
<1>1. CASE UartRxInterrupt
  BY <1>1 DEF TypeOK, NoLostWakeup, UartRxInterrupt, WakeReaders
<1>2. CASE Quiet
  <2>1. head' = head /\ tail' = tail
    BY <1>2, QuietContents
  <2>2. \A p \in Readers : rpc'[p] = "asleep" => rpc[p] = "asleep" \/ head = tail
    BY <1>2 DEF TypeOK, Quiet, Received, ReadCall, SysKill, ReadResume, ReadSleeps, ReadFull, vars,
                readVars
  <2>. QED  BY <2>1, <2>2 DEF NoLostWakeup
<1>3. ASSUME NEW p \in Readers, ReadByte(p) PROVE NoLostWakeup'
  BY <1>3 DEF TypeOK, NoLostWakeup, ReadByte
<1>. QED  BY <1>1, <1>2, <1>3, Steps

\* The serials of c go up, from above l to at most m.
Rising(c, l, m) ==
    /\ \A i \in 1 .. Len(c) : c[i][2] > l /\ c[i][2] <= m
    /\ \A i, j \in 1 .. Len(c) : i < j => c[i][2] < c[j][2]

LEMMA ByteSerial ==
    ASSUME NEW c \in Seq(Byte), NEW n \in 1 .. Len(c)
    PROVE  c[n][2] \in Nat
<1>1. c[n] \in Byte
  BY SMT
<1>. QED  BY <1>1 DEF Byte

LEMMA RisingAppend ==
    ASSUME NEW c \in Seq(Byte), NEW l \in Nat, NEW m \in Nat, NEW x \in Byte,
           Rising(c, l, m), x[2] \in Nat, m < x[2], l < x[2]
    PROVE  Rising(Append(c, x), l, x[2])
<1>. DEFINE d == Append(c, x)
            N == Len(c)
<1>1. /\ N \in Nat /\ Len(d) = N + 1
      /\ \A n \in 1 .. N : d[n] = c[n]
      /\ d[N + 1] = x
  BY AppendProperties, LenProperties, SMT
<1>2. \A n \in 1 .. N : c[n][2] \in Nat /\ c[n][2] > l /\ c[n][2] <= m
  BY ByteSerial DEF Rising
<1>3. \A i, j \in 1 .. N : i < j => c[i][2] < c[j][2]
  BY DEF Rising
<1>. HIDE DEF d, N
<1>4. ASSUME NEW n \in 1 .. N + 1 PROVE d[n][2] > l /\ d[n][2] <= x[2]
  <2>1. CASE n = N + 1
    BY <1>1, <2>1, SMT
  <2>2. CASE n # N + 1
    <3>1. n \in 1 .. N
      BY <1>1, <2>2, SMT
    <3>. QED  BY <1>1, <1>2, <3>1, SMTT(30)
  <2>. QED  BY <2>1, <2>2
<1>5. ASSUME NEW i \in 1 .. N + 1, NEW j \in 1 .. N + 1, i < j PROVE d[i][2] < d[j][2]
  <2>1. i \in 1 .. N
    BY <1>1, <1>5, SMT
  <2>2. CASE j = N + 1
    BY <1>1, <1>2, <2>1, <2>2, SMT
  <2>3. CASE j # N + 1
    <3>1. j \in 1 .. N
      BY <1>1, <2>3, SMT
    <3>. QED  BY <1>1, <1>3, <1>5, <2>1, <3>1
  <2>. QED  BY <2>2, <2>3
<1>6. Rising(d, l, x[2])
  BY <1>1, <1>4, <1>5 DEF Rising
<1>. QED  BY <1>6 DEF d

LEMMA RisingTail ==
    ASSUME NEW c \in Seq(Byte), c # <<>>, NEW l, NEW m \in Nat, Rising(c, l, m)
    PROVE  Rising(Tail(c), c[1][2], m) /\ c[1][2] <= m
<1>. DEFINE d == Tail(c)
            N == Len(c)
<1>1. /\ N \in Nat \ {0} /\ Len(d) = N - 1
      /\ \A n \in 1 .. N - 1 : d[n] = c[n + 1]
  BY HeadTailProperties, EmptySeq
<1>2. \A n \in 1 .. N : c[n][2] <= m
  BY DEF Rising
<1>3. \A i, j \in 1 .. N : i < j => c[i][2] < c[j][2]
  BY DEF Rising
<1>4. \A n \in 1 .. N : c[n][2] \in Nat
  BY ByteSerial
<1>. HIDE DEF d, N
<1>5. ASSUME NEW n \in 1 .. N - 1 PROVE d[n][2] > c[1][2] /\ d[n][2] <= m
  <2>1. n + 1 \in 1 .. N /\ 1 \in 1 .. N /\ 1 < n + 1
    BY <1>1, SMT
  <2>2. c[1][2] < c[n + 1][2] /\ c[n + 1][2] <= m /\ c[1][2] \in Nat /\ c[n + 1][2] \in Nat
    BY <1>2, <1>3, <1>4, <2>1
  <2>. QED  BY <1>1, <2>2
<1>6. ASSUME NEW i \in 1 .. N - 1, NEW j \in 1 .. N - 1, i < j PROVE d[i][2] < d[j][2]
  <2>1. i + 1 \in 1 .. N /\ j + 1 \in 1 .. N /\ i + 1 < j + 1
    BY <1>1, <1>6, SMT
  <2>. QED  BY <1>1, <1>3, <2>1
<1>7. Rising(d, c[1][2], m)
  BY <1>1, <1>5, <1>6 DEF Rising
<1>8. c[1][2] <= m
  BY <1>1, <1>2, SMT
<1>. QED  BY <1>7, <1>8 DEF d

\* The bound of what is stored and was handed out.
Newest == IF rxReady THEN typed - 1 ELSE typed
Sorted == /\ rxReady => rx[2] = typed /\ typed > 0
          /\ last <= Newest /\ Rising(Contents, last, Newest)

LEMMA NextSorted == TypeOK /\ Sorted /\ [Next]_vars => Sorted'
<1>. SUFFICES ASSUME TypeOK, Sorted, [Next]_vars PROVE Sorted'
  OBVIOUS
<1>1. /\ typed \in Nat /\ last \in Nat /\ rx \in Byte /\ Contents \in Seq(Byte)
      /\ Newest \in Nat /\ rx[2] \in Nat
  BY ContentsShape, SMT DEF TypeOK, Byte, Sorted, Newest
<1>2. CASE UartRxInterrupt
  <2>1. /\ Newest' = typed /\ rxReady' = FALSE /\ last' = last
    BY <1>2 DEF UartRxInterrupt, Newest
  <2>2. last <= typed /\ Newest <= typed
    BY <1>1, SMT DEF Sorted, Newest
  <2>3. Rising(Contents, last, typed)
    <3>1. \A n \in 1 .. Len(Contents) : Contents[n][2] \in Nat
      BY <1>1, ByteSerial
    <3>. QED  BY <1>1, <2>2, <3>1, SMTT(30) DEF Sorted, Rising
  <2>4. Rising(Contents', last, typed)
    <3>1. CASE Contents' = Contents
      BY <2>3, <3>1
    <3>2. CASE Contents' = <<>>
      BY <3>2, SMT DEF Rising
    <3>3. CASE rxReady /\ Contents' = Append(Contents, rx)
      <4>1. Newest < rx[2] /\ last < rx[2] /\ rx[2] = typed
        BY <1>1, <3>3, SMT DEF Sorted, Newest
      <4>. QED  BY <1>1, <3>3, <4>1, RisingAppend DEF Sorted
    <3>. QED  BY <1>2, <3>1, <3>2, <3>3, RxContents
  <2>. QED  BY <2>1, <2>2, <2>4 DEF Sorted
<1>3. CASE Quiet
  <2>1. Contents' = Contents /\ last' = last
    BY <1>3, QuietContents
  <2>2. CASE \E k \in Kinds : Received(k)
    <3>1. /\ typed' = typed + 1 /\ rx'[2] = typed + 1 /\ rxReady' = TRUE
      BY <2>2, SMT DEF Received
    <3>2. Newest' = typed /\ Newest <= typed
      BY <1>1, <3>1, SMT DEF Newest
    <3>3. \A n \in 1 .. Len(Contents) : Contents[n][2] \in Nat
      BY <1>1, ByteSerial
    <3>4. Rising(Contents, last, typed)
      BY <1>1, <3>2, <3>3, SMTT(30) DEF Sorted, Rising
    <3>. QED  BY <1>1, <2>1, <3>1, <3>2, <3>4, SMT DEF Sorted
  <2>3. CASE UNCHANGED <<typed, rx, rxReady>>
    BY <2>1, <2>3 DEF Sorted, Newest
  <2>. QED
    BY <1>3, <2>2, <2>3 DEF Quiet, ReadCall, SysKill, ReadResume, ReadSleeps, ReadFull, vars, uartVars
<1>4. ASSUME NEW p \in Readers, ReadByte(p) PROVE Sorted'
  <2>1. Newest' = Newest /\ typed' = typed /\ rx' = rx /\ rxReady' = rxReady
    BY <1>4 DEF ReadByte, uartVars, Newest
  <2>2. Contents # <<>> /\ Contents' = Tail(Contents) /\ last' = Contents[1][2]
    BY <1>4, ReadContents
  <2>3. Rising(Contents', last', Newest) /\ last' <= Newest
    BY <1>1, <2>2, RisingTail DEF Sorted
  <2>. QED  BY <2>1, <2>3 DEF Sorted
<1>. QED  BY <1>2, <1>3, <1>4, Steps

IInv == TypeOK /\ NoLostWakeup /\ Sorted

LEMMA Invariance == Spec => []IInv
<1>1. Init => IInv
  <2>. SUFFICES ASSUME Init PROVE IInv
    OBVIOUS
  <2>1. 0 \in Indices /\ NoByte \in Byte
    BY ConsoleAssumption, SMT DEF Indices, NoByte, Byte
  <2>2. TypeOK
    <3>1. rxReady \in BOOLEAN /\ irq \in BOOLEAN
      BY DEF Init
    <3>. QED  BY <2>1, <3>1 DEF Init, TypeOK, Indices
  <2>3. Contents = <<>>
    <3>1. Contents = Ring(buffer, 0, 0)
      BY SMT DEF Init, Contents, Ring
    <3>. QED  BY <2>1, <3>1, RingEmpty
  <2>4. Sorted
    BY <2>3, SMT DEF Init, Sorted, Newest, Rising
  <2>5. NoLostWakeup
    BY DEF Init, NoLostWakeup
  <2>. QED  BY <2>2, <2>4, <2>5 DEF IInv
<1>2. IInv /\ [Next]_vars => IInv'
  BY NextTypeOK, NextNoLostWakeup, NextSorted DEF IInv
<1>. QED  BY <1>1, <1>2, PTL DEF Spec

-----------------------------------------------------------------------------
\* However many processes read the console and whenever bytes arrive, no reader
\* sleeps while the ring buffer has a byte: the interrupt that stores one, even
\* the one that overruns the buffer, wakes every reader.
THEOREM NoWakeupLost == Spec => []NoLostWakeup
<1>1. IInv => NoLostWakeup
  BY DEF IInv
<1>. QED  BY <1>1, Invariance, PTL

\* For every size of the buffer and every input, the readers get the bytes in
\* the order they were typed, and no byte twice, however the indices wrap.
THEOREM BytesInOrder == Spec => []InOrder
<1>1. IInv => InOrder
  BY DEF IInv, Sorted, Rising, InOrder
<1>. QED  BY <1>1, Invariance, PTL

\* uart_rx_interrupt() appends and uart_getc() takes from the front; until the
\* buffer is full no byte is lost between them.
THEOREM NothingLostUntilFull == Spec => LosesNothingUntilFull
<1>. DEFINE A == IF rxReady /\ ~rxReady' /\ rx[1] # "d"
                 THEN Len(Contents) < RING - 1 => Contents' = Append(Contents, rx)
                 ELSE Contents' = Contents \/ (Contents # <<>> /\ Contents' = Tail(Contents))
<1>1. IInv /\ [Next]_vars => [A]_vars
  <2>. SUFFICES ASSUME TypeOK, [Next]_vars PROVE A
    BY DEF IInv
  <2>1. CASE UartRxInterrupt
    <3>1. Len(Contents) < RING - 1 => HasRoom
      <4>1. Len(Contents) = Count(head, tail) /\ head \in Indices /\ tail \in Indices
        BY ContentsShape DEF TypeOK
      <4>2. RING \in Nat /\ RING > 1
        BY ConsoleAssumption
      <4>. QED  BY <4>1, <4>2, SMT DEF Count, HasRoom, Indices
    <3>2. rxReady' = FALSE
      BY <2>1 DEF UartRxInterrupt
    <3>. QED  BY <2>1, <3>1, <3>2, RxContents
  <2>2. CASE Quiet
    <3>1. Contents' = Contents
      BY <2>2, QuietContents
    <3>2. rxReady => rxReady'
      BY <2>2 DEF Quiet, Received, ReadCall, SysKill, ReadResume, ReadSleeps, ReadFull, vars, uartVars
    <3>. QED  BY <3>1, <3>2
  <2>3. ASSUME NEW p \in Readers, ReadByte(p) PROVE A
    <3>1. rxReady' = rxReady
      BY <2>3 DEF ReadByte, uartVars
    <3>. QED  BY <2>3, <3>1, ReadContents
  <2>. QED  BY <2>1, <2>2, <2>3, Steps
<1>. QED  BY <1>1, Invariance, PTL DEF Spec, LosesNothingUntilFull
=============================================================================
