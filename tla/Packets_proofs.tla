--------------------------- MODULE Packets_proofs ---------------------------
(***************************************************************************)
(* Packets and frames, each for any values of its constants.               *)
(* First: the bytes of the frames that nodes send say what the packets'    *)
(* objects say, and their Internet checksums are right.                    *)
(* Second: the packets of a node that resolves addresses, all of which are *)
(* copies of one, say what was meant when they were sent.                  *)
(* Third: holders of shared frames in one thread read what they got and    *)
(* wrote, and an implementation lives as long as somebody has it.          *)
(***************************************************************************)
EXTENDS FrameSharing, ArpPackets, PacketLayers, EventScheduler_proofs, SequenceTheorems

-----------------------------------------------------------------------------
(* Running sums. *)

\* t has the running sums of s.
Running(s, t) ==
  /\ t \in [0 .. Len(s) -> Nat] /\ t[0] = 0
  /\ \A n \in 1 .. Len(s) : t[n] = t[n - 1] + s[n]

\* The total of a sequence is the last of its running sums.
LEMMA RunningSums ==
  ASSUME NEW s \in Seq(Nat)
  PROVE  \E t : Running(s, t) /\ Total(s) = t[Len(s)]
<1> DEFINE m == Len(s)
           Def(f) == f = [k \in 0 .. m |-> IF k = 0 THEN 0 ELSE f[k - 1] + s[k]]
           sum == CHOOSE f : Def(f)
           step == [x \in (1..m) \X Nat |-> x[2] + s[x[1]]]
<1>1. m \in Nat /\ \A n \in 1..m : s[n] \in Nat BY LenProperties, ElementOfSeq
<1>2. Total(s) = sum[m] BY DEF Total
<1> HIDE DEF m
<1>3. step \in [(1..m) \X Nat -> Nat] BY <1>1
<1>4. \A n \in 1..m, u \in Nat : step[<<n, u>>] = u + s[n] OBVIOUS
<1> HIDE DEF step
<1>5. PICK h \in [0..m -> Nat] : Steps(h, m, 0, step) BY <1>1, <1>3, History
<1>6. Def(h)
  <2>1. ASSUME NEW n \in 0..m PROVE h[n] = IF n = 0 THEN 0 ELSE h[n - 1] + s[n]
    <3>1. CASE n = 0 BY <1>5, <3>1 DEF Steps
    <3>2. CASE n # 0
      <4>1. n \in 1..m /\ n - 1 \in 0..m BY <1>1, <3>2
      <4>2. h[n - 1] \in Nat BY <1>5, <4>1
      <4> QED BY <1>4, <1>5, <3>2, <4>1, <4>2 DEF Steps
    <3> QED BY <3>1, <3>2
  <2> QED BY <2>1
<1>7. Def(sum) BY <1>6
<1> HIDE DEF sum
<1>8. /\ DOMAIN sum = 0..m /\ sum = [n \in 0..m |-> sum[n]]
      /\ \A n \in 0..m : sum[n] = IF n = 0 THEN 0 ELSE sum[n - 1] + s[n]
  BY <1>7
<1> HIDE DEF Def
<1>9. sum[0] = 0 /\ \A n \in 1..m : sum[n] = sum[n - 1] + s[n]
  <2>1. 0 \in 0..m /\ \A n \in 1..m : n \in 0..m /\ n # 0 BY <1>1
  <2> QED BY <1>8, <2>1
<1>10. sum \in [0..m -> Nat]
  <2> DEFINE G == {n \in 0..m : sum[n] \in Nat}
  <2>1. 0 \in G BY <1>1, <1>9
  <2>2. ASSUME NEW n \in 1..m, n - 1 \in G PROVE n \in G
    <3>1. n \in 0..m /\ sum[n - 1] \in Nat /\ s[n] \in Nat /\ sum[n] = sum[n - 1] + s[n]
      BY <1>1, <1>9, <2>2
    <3> QED BY <3>1
  <2> HIDE DEF G
  <2>3. \A n \in 0..m : n \in G BY <1>1, <2>1, <2>2, UpTo
  <2> QED BY <1>8, <2>3 DEF G
<1> QED BY <1>2, <1>9, <1>10 DEF Running, m

\* Small terms have a small sum.
LEMMA SumBound ==
  ASSUME NEW s \in Seq(Nat), NEW t, Running(s, t), NEW w \in Nat,
         \A n \in 1 .. Len(s) : s[n] <= w
  PROVE  t[Len(s)] \in Nat /\ t[Len(s)] <= Len(s) * w
<1> DEFINE m == Len(s)
           G == {n \in 0..m : t[n] <= n * w}
<1>1. m \in Nat /\ \A n \in 1..m : s[n] \in Nat BY LenProperties, ElementOfSeq
<1>2. /\ \A n \in 0..m : t[n] \in Nat
      /\ t[0] = 0 /\ \A n \in 1..m : t[n] = t[n - 1] + s[n] /\ s[n] <= w
  BY DEF Running
<1> HIDE DEF m
<1>3. 0 \in G BY <1>1, <1>2
<1>4. ASSUME NEW n \in 1..m, n - 1 \in G PROVE n \in G
  <2>1. n \in Nat /\ n - 1 \in Nat /\ n - 1 \in 0..m /\ n \in 0..m BY <1>1
  <2>2. (n - 1) * w + w = n * w BY <2>1
  <2>3. (n - 1) * w \in Nat /\ n * w \in Nat BY <2>1
  <2>4. t[n - 1] <= (n - 1) * w BY <1>4
  <2>5. t[n - 1] \in Nat /\ t[n] \in Nat /\ s[n] \in Nat BY <1>1, <1>2, <2>1
  <2>6. t[n] = t[n - 1] + s[n] /\ s[n] <= w BY <1>2
  <2> HIDE DEF G
  <2>7. t[n] <= n * w BY <2>2, <2>3, <2>4, <2>5, <2>6
  <2> QED BY <2>1, <2>7 DEF G
<1> HIDE DEF G
<1>5. \A n \in 0..m : n \in G BY <1>1, <1>3, <1>4, UpTo
<1>6. m \in 0..m BY <1>1
<1> QED BY <1>2, <1>5, <1>6 DEF G, m

-----------------------------------------------------------------------------
(* The sums of bytes. *)

HostWords(bytes) == [k \in DOMAIN bytes |-> IF k % 2 = 1 THEN HostWord(bytes, k) ELSE 0]
NetworkWords(bytes) == [k \in DOMAIN bytes |-> (IF k % 2 = 1 THEN 256 ELSE 1) * bytes[k]]

\* What a word has after its first byte
Owed(bytes, k) == IF k % 2 = 1 /\ k < Len(bytes) THEN bytes[k + 1] ELSE 0

\* The terms of both sums, one at each byte.
LEMMA WordsTyped ==
  ASSUME NEW b \in Seq(Nat)
  PROVE  /\ HostWords(b) \in Seq(Nat) /\ Len(HostWords(b)) = Len(b)
         /\ NetworkWords(b) \in Seq(Nat) /\ Len(NetworkWords(b)) = Len(b)
         /\ \A k \in 1 .. Len(b) :
              /\ b[k] \in Nat /\ Owed(b, k) \in Nat
              /\ HostWords(b)[k] = IF k % 2 = 1 THEN b[k] + 256 * Owed(b, k) ELSE 0
              /\ NetworkWords(b)[k] = IF k % 2 = 1 THEN 256 * b[k] ELSE b[k]
<1> DEFINE m == Len(b)
<1>1. m \in Nat /\ DOMAIN b = 1..m /\ \A k \in 1..m : b[k] \in Nat BY LenProperties, ElementOfSeq
<1>2. ASSUME NEW k \in 1..m
      PROVE  /\ Owed(b, k) \in Nat
             /\ HostWords(b)[k] = IF k % 2 = 1 THEN b[k] + 256 * Owed(b, k) ELSE 0
             /\ NetworkWords(b)[k] = IF k % 2 = 1 THEN 256 * b[k] ELSE b[k]
  <2>1. Owed(b, k) \in Nat
    <3>1. CASE k < m
      <4>1. k + 1 \in 1..m BY <1>1, <3>1
      <4> QED BY <1>1, <4>1 DEF Owed
    <3>2. CASE ~(k < m) BY <3>2 DEF Owed
    <3> QED BY <3>1, <3>2
  <2>2. k % 2 = 1 => HostWord(b, k) = b[k] + 256 * Owed(b, k) BY <1>1 DEF HostWord, Owed
  <2>3. HostWords(b)[k] = IF k % 2 = 1 THEN HostWord(b, k) ELSE 0 BY <1>1 DEF HostWords
  <2>4. NetworkWords(b)[k] = (IF k % 2 = 1 THEN 256 ELSE 1) * b[k] BY <1>1 DEF NetworkWords
  <2>5. b[k] \in Nat BY <1>1
  <2> QED BY <2>1, <2>2, <2>3, <2>4, <2>5
<1> HIDE DEF m
<1>3. ASSUME NEW k \in 1..m PROVE HostWords(b)[k] \in Nat /\ NetworkWords(b)[k] \in Nat
  <2>1. b[k] \in Nat /\ Owed(b, k) \in Nat BY <1>1, <1>2
  <2> QED BY <1>2, <2>1
<1>4. HostWords(b) = [k \in 1..m |-> HostWords(b)[k]] BY <1>1 DEF HostWords
<1>5. NetworkWords(b) = [k \in 1..m |-> NetworkWords(b)[k]] BY <1>1 DEF NetworkWords
<1>6. HostWords(b) \in [1..m -> Nat] BY <1>3, <1>4
<1>7. NetworkWords(b) \in [1..m -> Nat] BY <1>3, <1>5
<1>8. HostWords(b) \in Seq(Nat) /\ Len(HostWords(b)) = m BY <1>1, <1>6, SeqDef, LenProperties
<1>9. NetworkWords(b) \in Seq(Nat) /\ Len(NetworkWords(b)) = m BY <1>1, <1>7, SeqDef, LenProperties
<1> QED BY <1>1, <1>2, <1>8, <1>9 DEF m

\* The sums h and n of the same words in both orders
Turned(h, n, e) ==
  h \in Nat /\ n \in Nat /\ e \in Nat /\ 256 * h = n + 65535 * e /\ h <= 256 * n

\* A word b + 256 * c of the host is 256 * b + c on the network.
LEMMA WordAdded ==
  ASSUME NEW h, NEW n, NEW e, Turned(h, n, e), NEW b \in Nat, NEW c \in Nat
  PROVE  Turned(h + (b + 256 * c), (n + 256 * b) + c, e + c)
BY SMT DEF Turned

\* Modulo 65535 the sum of words in the order of the network is 256 times that in the
\* order of the host, and both are zero or none is.
LEMMA SumsAgreeModulo ==
  ASSUME NEW b \in Seq(Nat)
  PROVE  /\ HostSum(b) \in Nat /\ NetworkSum(b) \in Nat
         /\ \E e \in Nat : 256 * HostSum(b) = NetworkSum(b) + 65535 * e
         /\ HostSum(b) <= 256 * NetworkSum(b)
<1> DEFINE m == Len(b)
<1>0. /\ HostWords(b) \in Seq(Nat) /\ Len(HostWords(b)) = m
      /\ NetworkWords(b) \in Seq(Nat) /\ Len(NetworkWords(b)) = m
  BY WordsTyped
<1>1. PICK h : Running(HostWords(b), h) /\ Total(HostWords(b)) = h[m] BY <1>0, RunningSums
<1>2. PICK n : Running(NetworkWords(b), n) /\ Total(NetworkWords(b)) = n[m] BY <1>0, RunningSums
<1>3. HostSum(b) = h[m] /\ NetworkSum(b) = n[m]
  BY <1>1, <1>2 DEF HostSum, NetworkSum, HostWords, NetworkWords
<1>4. m \in Nat BY LenProperties
<1>5. /\ \A k \in 0..m : h[k] \in Nat /\ n[k] \in Nat
      /\ h[0] = 0 /\ n[0] = 0
      /\ \A k \in 1..m : h[k] = h[k - 1] + HostWords(b)[k] /\ n[k] = n[k - 1] + NetworkWords(b)[k]
  BY <1>0, <1>1, <1>2 DEF Running
<1> DEFINE Next(k) == IF k = 0 THEN 0 ELSE Owed(b, k)
           G == {k \in 0..m : \E e : Turned(h[k], n[k] + Next(k), e)}
<1>6. 0 \in G
  <2>1. Turned(h[0], n[0] + Next(0), 0) BY <1>5, SMT DEF Turned
  <2>2. 0 \in 0..m BY <1>4
  <2> HIDE DEF Next
  <2> QED BY <2>1, <2>2
<1>7. ASSUME NEW k \in 1..m, k - 1 \in G PROVE k \in G
  <2>1. k \in Nat /\ k - 1 \in 0..m /\ k \in 0..m BY <1>4
  <2>2. PICK e : Turned(h[k - 1], n[k - 1] + Next(k - 1), e) BY <1>7
  <2>4. /\ h[k - 1] \in Nat /\ n[k - 1] \in Nat /\ h[k] \in Nat /\ n[k] \in Nat
        /\ h[k] = h[k - 1] + HostWords(b)[k] /\ n[k] = n[k - 1] + NetworkWords(b)[k]
    BY <1>5, <2>1
  <2>5. /\ b[k] \in Nat /\ Owed(b, k) \in Nat
        /\ HostWords(b)[k] = IF k % 2 = 1 THEN b[k] + 256 * Owed(b, k) ELSE 0
        /\ NetworkWords(b)[k] = IF k % 2 = 1 THEN 256 * b[k] ELSE b[k]
    BY WordsTyped
  <2>6. Next(k) = Owed(b, k) BY <2>1
  <2>7. CASE k % 2 = 1
    <3>1. Next(k - 1) = 0
      <4>1. CASE k - 1 = 0 BY <4>1
      <4>2. CASE k - 1 # 0
        <5>1. (k - 1) % 2 # 1 BY <2>1, <2>7
        <5> QED BY <5>1 DEF Owed
      <4> QED BY <4>1, <4>2
    <3> HIDE DEF Next
    <3>2. h[k] = h[k - 1] + (b[k] + 256 * Owed(b, k)) /\ n[k] = n[k - 1] + 256 * b[k]
      BY <2>4, <2>5, <2>7
    <3>3. n[k - 1] + Next(k - 1) = n[k - 1] BY <2>4, <3>1
    <3>4. Turned(h[k - 1], n[k - 1], e) BY <2>2, <3>3
    <3>5. b[k] \in Nat /\ Owed(b, k) \in Nat BY <2>5
    <3>6. Turned(h[k - 1] + (b[k] + 256 * Owed(b, k)), (n[k - 1] + 256 * b[k]) + Owed(b, k),
                 e + Owed(b, k))
      BY <3>4, <3>5, WordAdded
    <3>7. Turned(h[k], n[k] + Next(k), e + Owed(b, k)) BY <2>6, <3>2, <3>6
    <3> QED BY <2>1, <3>7
  <2>8. CASE k % 2 # 1
    <3>1. k - 1 # 0 /\ (k - 1) % 2 = 1 /\ k - 1 < m BY <1>4, <2>1, <2>8
    <3>2. Next(k - 1) = b[k] BY <2>1, <3>1 DEF Owed
    <3>3. Next(k) = 0 BY <2>6, <2>8 DEF Owed
    <3> HIDE DEF Next
    <3>4. h[k] = h[k - 1] /\ n[k] = n[k - 1] + b[k] BY <2>4, <2>5, <2>8
    <3>5. n[k - 1] + Next(k - 1) = n[k] + Next(k) BY <2>4, <2>5, <3>2, <3>3, <3>4
    <3>6. Turned(h[k], n[k] + Next(k), e) BY <2>2, <3>4, <3>5
    <3> QED BY <2>1, <3>6
  <2> QED BY <2>7, <2>8
<1>8. Next(m) = 0 BY <1>4 DEF Owed
<1> HIDE DEF G, Next
<1>9. \A k \in 0..m : k \in G BY <1>4, <1>6, <1>7, UpTo
<1>10. m \in 0..m BY <1>4
<1>11. m \in G /\ h[m] \in Nat /\ n[m] \in Nat BY <1>5, <1>9, <1>10
<1>12. PICK e : Turned(h[m], n[m] + Next(m), e) BY <1>11 DEF G
<1>13. n[m] + Next(m) = n[m] BY <1>8, <1>11
<1>14. Turned(h[m], n[m], e) BY <1>12, <1>13
<1> QED BY <1>3, <1>14 DEF Turned

\* Small words have a small sum.
LEMMA HostSumBound ==
  ASSUME NEW b \in Seq(Nat), NEW w \in Nat, \A k \in 1 .. Len(b) : HostWords(b)[k] <= w
  PROVE  HostSum(b) \in Nat /\ HostSum(b) <= Len(b) * w
<1>1. HostWords(b) \in Seq(Nat) /\ Len(HostWords(b)) = Len(b) BY WordsTyped
<1>2. PICK h : Running(HostWords(b), h) /\ Total(HostWords(b)) = h[Len(HostWords(b))]
  BY <1>1, RunningSums
<1>3. h[Len(b)] \in Nat /\ h[Len(b)] <= Len(b) * w BY <1>1, <1>2, SumBound
<1>4. HostSum(b) = h[Len(b)] BY <1>1, <1>2 DEF HostSum, HostWords
<1> QED BY <1>3, <1>4

\* So a bound on what the sequence has bounds its sum.
LEMMA HostSumOf ==
  ASSUME NEW w \in Nat, NEW b \in Seq(0 .. w)
  PROVE  b \in Seq(Nat) /\ HostSum(b) \in Nat /\ HostSum(b) <= Len(b) * (257 * w)
<1>1. Len(b) \in Nat /\ \A k \in 1 .. Len(b) : b[k] \in 0 .. w BY LenProperties, ElementOfSeq
<1>2. b \in Seq(Nat)
  <2>1. \A k \in 1 .. Len(b) : b[k] \in Nat BY <1>1
  <2>2. b \in [1 .. Len(b) -> Nat] BY <2>1, LenProperties
  <2> QED BY <1>1, <2>2, SeqDef
<1>3. ASSUME NEW k \in 1 .. Len(b) PROVE HostWords(b)[k] <= 257 * w
  <2>1. b[k] \in 0 .. w BY <1>1
  <2>2. Owed(b, k) \in 0 .. w
    <3>1. CASE k < Len(b)
      <4>1. k + 1 \in 1 .. Len(b) BY <1>1, <3>1
      <4>2. b[k + 1] \in 0 .. w BY <1>1, <4>1
      <4> QED BY <4>2 DEF Owed
    <3>2. CASE ~(k < Len(b)) BY <3>2 DEF Owed
    <3> QED BY <3>1, <3>2
  <2>3. HostWords(b)[k] = IF k % 2 = 1 THEN b[k] + 256 * Owed(b, k) ELSE 0 BY <1>2, WordsTyped
  <2> QED BY <2>1, <2>2, <2>3
<1>4. 257 * w \in Nat OBVIOUS
<1> QED BY <1>2, <1>3, <1>4, HostSumBound

\* A sum that may be folded twice into 16 bits
Small(h) == h \in Nat /\ h < 4294967296
Word == {n \in Nat : n <= 65535}

\* The sum of the bytes of a header or body is such a number.
LEMMA BytesSumSmall ==
  ASSUME NEW b \in Seq(Byte), Len(b) \in Word
  PROVE  b \in Seq(Nat) /\ Small(HostSum(b))
<1>1. /\ b \in Seq(Nat) /\ HostSum(b) \in Nat
      /\ HostSum(b) <= Len(b) * (257 * 255)
  <2>1. b \in Seq(0 .. 255) BY DEF Byte
  <2> QED BY <2>1, HostSumOf
<1>2. ASSUME NEW h \in Nat, NEW n \in Nat, n <= 65535, h <= n * (257 * 255) PROVE h < 4294967296
  BY <1>2, SMT
<1>3. Len(b) \in Nat /\ Len(b) <= 65535 BY SMT DEF Word
<1> QED BY <1>1, <1>2, <1>3, SMT DEF Small

\* So is that of a few words.
LEMMA WordsSumSmall ==
  ASSUME NEW b \in Seq(Word), Len(b) = 6
  PROVE  b \in Seq(Nat) /\ Small(HostSum(b))
<1>1. /\ b \in Seq(Nat) /\ HostSum(b) \in Nat
      /\ HostSum(b) <= Len(b) * (257 * 65535)
  <2> DEFINE max == 65535
  <2>1. max \in Nat BY SMT
  <2>2. Word = {n \in Nat : n <= max} BY SMT DEF Word
  <2> HIDE DEF max
  <2>3. Word = 0 .. max BY <2>1, <2>2, SMT
  <2>4. b \in Seq(0 .. max) BY <2>3
  <2>5. ASSUME NEW w \in Nat, b \in Seq(0 .. w)
        PROVE  b \in Seq(Nat) /\ HostSum(b) \in Nat /\ HostSum(b) <= Len(b) * (257 * w)
    BY <2>5, HostSumOf
  <2>6. b \in Seq(Nat) /\ HostSum(b) \in Nat /\ HostSum(b) <= Len(b) * (257 * max)
    BY <2>1, <2>4, <2>5
  <2> QED BY <2>6, SMT DEF max
<1>2. HostSum(b) <= 6 * (257 * 65535) BY <1>1, SMT
<1>3. ASSUME NEW h \in Nat, h <= 6 * (257 * 65535) PROVE h < 4294967296 BY <1>3, SMT
<1> QED BY <1>1, <1>2, <1>3, SMT DEF Small

-----------------------------------------------------------------------------
(* The checksums. *)

\* Twice folded, a sum loses a multiple of 65535 and fits into 16 bits.
LEMMA FoldedTwice ==
  ASSUME NEW h, Small(h)
  PROVE  Folded(Folded(h)) \in Word /\ \E q \in Nat : h = Folded(Folded(h)) + 65535 * q
<1> DEFINE a == h \div 65536
           r == h % 65536
           f == Folded(h)
<1>1. h \in Nat /\ h < 4294967296 BY DEF Small
<1>2. /\ a \in Nat /\ a <= 65535 /\ r \in Nat /\ r <= 65535
      /\ h = 65536 * a + r
  BY <1>1, SMT
<1>3. f = r + a BY DEF Folded
<1> HIDE DEF a, r, f
<1>4. f \in Nat /\ f <= 131070 /\ h = f + 65535 * a BY <1>2, <1>3, SMT
<1>5. CASE f < 65536
  <2>1. Folded(f) = f BY <1>4, <1>5, SMT DEF Folded
  <2>2. Folded(f) \in Word BY <1>4, <1>5, <2>1, SMT DEF Word
  <2>3. h = Folded(f) + 65535 * a BY <1>4, <2>1, SMT
  <2> QED BY <1>2, <2>2, <2>3, SMT DEF f
<1>6. CASE f >= 65536
  <2>1. Folded(f) = f - 65535 BY <1>4, <1>6, SMT DEF Folded
  <2>2. Folded(f) \in Word BY <1>4, <1>6, <2>1, SMT DEF Word
  <2>3. h = Folded(f) + 65535 * (a + 1) BY <1>2, <1>4, <2>1, SMT
  <2>4. a + 1 \in Nat BY <1>2, SMT
  <2> QED BY <2>2, <2>3, <2>4, SMT DEF f
<1> QED BY <1>4, <1>5, <1>6, SMT

\* A checksum completes a sum to a multiple of 65535 that is not zero.
Completes(c, h) == c \in Word /\ \E q \in Nat : q > 0 /\ h + c = 65535 * q

\* The checksum of a header completes its sum.
LEMMA HeaderCompletes ==
  ASSUME NEW b, Small(HostSum(b))
  PROVE  Completes(HeaderChecksum(b), HostSum(b))
<1> DEFINE h == HostSum(b)
           f == Folded(Folded(h))
           c == HeaderChecksum(b)
<1>1. f \in Word /\ (\E q \in Nat : h = f + 65535 * q) BY FoldedTwice, SMT
<1>2. c = 65535 - f BY SMT DEF HeaderChecksum
<1>3. h \in Nat BY DEF Small
<1> HIDE DEF h, f, c
<1>4. PICK q \in Nat : h = f + 65535 * q BY <1>1, SMT
<1>5. f \in Nat /\ f <= 65535 BY <1>1, SMT DEF Word
<1>6. c \in Word BY <1>2, <1>5, SMT DEF Word
<1> DEFINE t == q + 1
<1>7. h + c = 65535 * t /\ t \in Nat /\ t > 0 BY <1>2, <1>3, <1>4, <1>5, SMT
<1> HIDE DEF t
<1>8. Completes(c, h) BY <1>6, <1>7, SMT DEF Completes
<1> QED BY <1>8, SMT DEF h, c

\* That of a body and a pseudo header completes the sum of both.
LEMMA TwoPartCompletes ==
  ASSUME NEW b, NEW p, Small(HostSum(b)), Small(HostSum(p))
  PROVE  Completes(TwoPartChecksum(b, p), HostSum(b) + HostSum(p))
<1> DEFINE h == HostSum(b)
           k == HostSum(p)
           f == Folded(Folded(h))
           g == Folded(Folded(k))
           s == f + g
           c == TwoPartChecksum(b, p)
<1>1. f \in Word /\ (\E q \in Nat : h = f + 65535 * q) BY FoldedTwice, SMT
<1>2. g \in Word /\ (\E q \in Nat : k = g + 65535 * q) BY FoldedTwice, SMT
<1>3. c = 65535 - Folded((65535 - (65535 - f)) + (65535 - (65535 - g)))
  BY SMT DEF TwoPartChecksum, HeaderChecksum
<1>4. h \in Nat /\ k \in Nat BY DEF Small
<1> HIDE DEF h, k, f, g, c
<1>5. f \in Nat /\ f <= 65535 /\ g \in Nat /\ g <= 65535 BY <1>1, <1>2, SMT DEF Word
<1>6. (65535 - (65535 - f)) + (65535 - (65535 - g)) = s BY <1>5, SMT
<1>7. c = 65535 - Folded(s) BY <1>3, <1>6, SMT
<1>8. s \in Nat /\ s <= 131070 BY <1>5, SMT
<1>9. PICK q \in Nat : h = f + 65535 * q BY <1>1, SMT
<1>10. PICK r \in Nat : k = g + 65535 * r BY <1>2, SMT
<1>11. h + k = s + 65535 * (q + r) BY <1>5, <1>9, <1>10, SMT
<1> HIDE DEF s
<1>12. ASSUME s < 65536 PROVE Completes(c, h + k)
  <2>1. Folded(s) = s BY <1>8, <1>12, SMT DEF Folded
  <2>2. c = 65535 - s BY <1>7, <2>1, SMT
  <2>3. c \in Word BY <1>8, <1>12, <2>2, SMT DEF Word
  <2> DEFINE t == q + r + 1
  <2>4. (h + k) + c = 65535 * t BY <1>8, <1>9, <1>10, <1>11, <2>2, SMT
  <2>5. t \in Nat /\ t > 0 BY <1>9, <1>10, SMT
  <2> HIDE DEF t
  <2> QED BY <2>3, <2>4, <2>5, SMT DEF Completes
<1>13. ASSUME s >= 65536 PROVE Completes(c, h + k)
  <2>1. Folded(s) = s - 65535 BY <1>8, <1>13, SMT DEF Folded
  <2>2. c = 131070 - s BY <1>7, <1>8, <2>1, SMT
  <2>3. c \in Word BY <1>8, <1>13, <2>2, SMT DEF Word
  <2> DEFINE t == q + r + 2
  <2>4. (h + k) + c = 65535 * t BY <1>8, <1>9, <1>10, <1>11, <2>2, SMT
  <2>5. t \in Nat /\ t > 0 BY <1>9, <1>10, SMT
  <2> HIDE DEF t
  <2> QED BY <2>3, <2>4, <2>5, SMT DEF Completes
<1>14. Completes(c, h + k) BY <1>8, <1>12, <1>13, SMT
<1> QED BY <1>14, SMT DEF h, k, c

\* Bytes verify on the network when their sum is a multiple of 65535 on the host.
LEMMA VerifiesWhenWhole ==
  ASSUME NEW b \in Seq(Nat), Completes(0, HostSum(b))
  PROVE  Verifies(b)
<1> DEFINE h == HostSum(b)
           n == NetworkSum(b)
<1>1. h \in Nat /\ n \in Nat /\ h <= 256 * n BY SumsAgreeModulo, SMT
<1>2. PICK e \in Nat : 256 * h = n + 65535 * e BY SumsAgreeModulo, SMT
<1>3. PICK q \in Nat : q > 0 /\ h + 0 = 65535 * q BY SMT DEF Completes
<1> HIDE DEF h, n
<1>4. n > 0 BY <1>1, <1>3, SMT
<1>5. n = 65535 * (256 * q - e) BY <1>1, <1>2, <1>3, SMT
<1>6. 256 * q - e \in Int BY <1>2, <1>3, SMT
<1>7. n % 65535 = 0 BY <1>1, <1>5, <1>6, SMT
<1> QED BY <1>4, <1>7, SMT DEF Verifies, n

\* The same for a body with a pseudo header.
LEMMA BothVerifyWhenWhole ==
  ASSUME NEW b \in Seq(Nat), NEW p \in Seq(Nat), Completes(0, HostSum(b) + HostSum(p))
  PROVE  (NetworkSum(b) + NetworkSum(p)) % 65535 = 0
<1> DEFINE h == HostSum(b)
           n == NetworkSum(b)
           k == HostSum(p)
           m == NetworkSum(p)
<1>1. h \in Nat /\ n \in Nat /\ k \in Nat /\ m \in Nat BY SumsAgreeModulo, SMT
<1>2. PICK e \in Nat : 256 * h = n + 65535 * e BY SumsAgreeModulo, SMT
<1>3. PICK d \in Nat : 256 * k = m + 65535 * d BY SumsAgreeModulo, SMT
<1>4. PICK q \in Nat : q > 0 /\ (h + k) + 0 = 65535 * q BY SMT DEF Completes
<1> HIDE DEF h, n, k, m
<1>5. n + m = 65535 * (256 * q - e - d) BY <1>1, <1>2, <1>3, <1>4, SMT
<1>6. 256 * q - e - d \in Int BY <1>2, <1>3, <1>4, SMT
<1>7. (n + m) % 65535 = 0 BY <1>1, <1>5, <1>6, SMT
<1> QED BY <1>7, SMT DEF n, m

-----------------------------------------------------------------------------
(* A checksum in its place. *)

\* b has no checksum, and the bytes of t are those of b with checksum c.
Stamped(t, b, c) ==
  /\ b \in Seq(Byte) /\ t \in Seq(Byte) /\ Len(t) = Len(b) /\ Len(b) >= 4
  /\ b[3] = 0 /\ b[4] = 0 /\ t[3] = c % 256 /\ t[4] = c \div 256
  /\ \A k \in 1 .. Len(b) : k \notin {3, 4} => t[k] = b[k]

\* Bytes are natural numbers.
LEMMA BytesAreNumbers == ASSUME NEW b \in Seq(Byte) PROVE b \in Seq(Nat)
<1>1. Len(b) \in Nat /\ b \in [1 .. Len(b) -> Byte] BY LenProperties
<1>2. Byte \subseteq Nat BY DEF Byte
<1>3. b \in [1 .. Len(b) -> Nat] BY <1>1, <1>2
<1> QED BY <1>1, <1>3, SeqDef

\* The checksum is added to the sum.
LEMMA StampAdds ==
  ASSUME NEW t, NEW b, NEW c \in Nat, Stamped(t, b, c)
  PROVE  HostSum(t) = HostSum(b) + c
<1> DEFINE m == Len(b)
<1>1. b \in Seq(Nat) /\ t \in Seq(Nat) /\ Len(t) = m /\ m \in Nat /\ m >= 4
  BY LenProperties, BytesAreNumbers DEF Stamped
<1>2. PICK g : Running(HostWords(b), g) /\ Total(HostWords(b)) = g[m]
  <2>1. HostWords(b) \in Seq(Nat) /\ Len(HostWords(b)) = m BY <1>1, WordsTyped
  <2> QED BY <2>1, RunningSums
<1>3. PICK h : Running(HostWords(t), h) /\ Total(HostWords(t)) = h[m]
  <2>1. HostWords(t) \in Seq(Nat) /\ Len(HostWords(t)) = m BY <1>1, WordsTyped
  <2> QED BY <2>1, RunningSums
<1>4. /\ \A k \in 0..m : g[k] \in Nat /\ h[k] \in Nat
      /\ g[0] = 0 /\ h[0] = 0
      /\ \A k \in 1..m : g[k] = g[k - 1] + HostWords(b)[k] /\ h[k] = h[k - 1] + HostWords(t)[k]
  <2>1. Len(HostWords(b)) = m /\ Len(HostWords(t)) = m BY <1>1, WordsTyped
  <2> QED BY <1>2, <1>3, <2>1 DEF Running
<1>5. ASSUME NEW k \in 1..m, k # 3 PROVE HostWords(t)[k] = HostWords(b)[k]
  <2>1. HostWords(b)[k] = IF k % 2 = 1 THEN b[k] + 256 * Owed(b, k) ELSE 0 BY <1>1, WordsTyped
  <2>2. HostWords(t)[k] = IF k % 2 = 1 THEN t[k] + 256 * Owed(t, k) ELSE 0 BY <1>1, WordsTyped
  <2>3. CASE k % 2 = 1
    <3>1. k \in Nat /\ k # 4 /\ k + 1 # 3 /\ k + 1 # 4 BY <1>5, <2>3
    <3>2. t[k] = b[k] BY <1>5, <3>1 DEF Stamped
    <3>3. k < m => k + 1 \in 1..m BY <1>1
    <3>4. k < m => t[k + 1] = b[k + 1] BY <3>1, <3>3 DEF Stamped
    <3>5. Owed(t, k) = Owed(b, k) BY <1>1, <2>3, <3>4 DEF Owed
    <3> QED BY <2>1, <2>2, <3>2, <3>5
  <2>4. CASE k % 2 # 1 BY <2>1, <2>2, <2>4
  <2> QED BY <2>3, <2>4
<1>6. HostWords(b)[3] = 0 /\ HostWords(t)[3] = c
  <2>1. 3 \in 1..m /\ 3 % 2 = 1 /\ 3 < m BY <1>1
  <2>2. /\ HostWords(b)[3] = IF 3 % 2 = 1 THEN b[3] + 256 * Owed(b, 3) ELSE 0
        /\ HostWords(t)[3] = IF 3 % 2 = 1 THEN t[3] + 256 * Owed(t, 3) ELSE 0
    BY <1>1, <2>1, WordsTyped
  <2>3. Owed(b, 3) = b[4] /\ Owed(t, 3) = t[4] BY <1>1, <2>1 DEF Owed
  <2>4. (c % 256) + 256 * (c \div 256) = c OBVIOUS
  <2> QED BY <2>1, <2>2, <2>3, <2>4 DEF Stamped
<1> DEFINE Plus(k) == IF k >= 3 THEN c ELSE 0
           G == {k \in 0..m : h[k] = g[k] + Plus(k)}
<1>7. 0 \in G BY <1>1, <1>4
<1>8. ASSUME NEW k \in 1..m, k - 1 \in G PROVE k \in G
  <2>1. k \in Nat /\ k - 1 \in 0..m /\ k \in 0..m BY <1>1
  <2>2. /\ g[k - 1] \in Nat /\ h[k - 1] \in Nat /\ g[k] \in Nat /\ h[k] \in Nat
        /\ g[k] = g[k - 1] + HostWords(b)[k] /\ h[k] = h[k - 1] + HostWords(t)[k]
    BY <1>4, <2>1
  <2>3. h[k - 1] = g[k - 1] + Plus(k - 1) BY <1>8
  <2>4. HostWords(b)[k] \in Nat
    <3>1. HostWords(b) \in Seq(Nat) /\ Len(HostWords(b)) = m BY <1>1, WordsTyped
    <3> QED BY <3>1, ElementOfSeq
  <2>5. k = 3 => Plus(k - 1) = 0 /\ Plus(k) = c OBVIOUS
  <2>6. k # 3 => Plus(k - 1) = Plus(k) BY <2>1
  <2>7. Plus(k) \in Nat OBVIOUS
  <2> HIDE DEF Plus
  <2>8. CASE k = 3
    <3>1. HostWords(b)[k] = 0 /\ HostWords(t)[k] = c BY <1>6, <2>8
    <3>2. h[k] = g[k] + Plus(k) BY <2>2, <2>3, <2>5, <2>8, <3>1
    <3> QED BY <2>1, <3>2
  <2>9. CASE k # 3
    <3>1. HostWords(t)[k] = HostWords(b)[k] BY <1>5, <2>9
    <3>2. h[k] = g[k] + Plus(k) BY <2>2, <2>3, <2>4, <2>6, <2>7, <2>9, <3>1
    <3> QED BY <2>1, <3>2
  <2> QED BY <2>8, <2>9
<1> HIDE DEF G
<1>9. \A k \in 0..m : k \in G BY <1>1, <1>7, <1>8, UpTo
<1>10. m \in G BY <1>1, <1>9
<1>11. h[m] = g[m] + c BY <1>1, <1>10 DEF G
<1>12. HostSum(b) = g[m] /\ HostSum(t) = h[m] BY <1>2, <1>3 DEF HostSum, HostWords
<1> QED BY <1>11, <1>12

\* Bytes and bytes after them
LEMMA Joined ==
  ASSUME NEW s \in Seq(Byte), NEW t \in Seq(Byte)
  PROVE  /\ s \o t \in Seq(Byte) /\ Len(s) \in Nat /\ Len(t) \in Nat
         /\ Len(s \o t) = Len(s) + Len(t)
         /\ \A k \in 1 .. Len(s) : (s \o t)[k] = s[k]
         /\ \A k \in 1 .. Len(t) : (s \o t)[Len(s) + k] = t[k]
<1> DEFINE n == Len(s)
           m == Len(t)
<1>1. n \in Nat /\ m \in Nat BY LenProperties
<1>2. /\ s \o t \in Seq(Byte) /\ Len(s \o t) = n + m
      /\ \A k \in 1 .. n + m : (s \o t)[k] = IF k <= n THEN s[k] ELSE t[k - n]
  BY ConcatProperties
<1>3. ASSUME NEW k \in 1 .. m PROVE (s \o t)[n + k] = t[k]
  <2>1. n + k \in 1 .. n + m /\ ~(n + k <= n) /\ (n + k) - n = k BY <1>1
  <2> QED BY <1>2, <2>1
<1>4. ASSUME NEW k \in 1 .. n PROVE (s \o t)[k] = s[k]
  <2>1. k \in 1 .. n + m /\ k <= n BY <1>1
  <2> QED BY <1>2, <2>1
<1> QED BY <1>1, <1>2, <1>3, <1>4

\* Two bytes
LEMMA Two ==
  ASSUME NEW x \in Byte, NEW y \in Byte
  PROVE  <<x, y>> \in Seq(Byte) /\ Len(<<x, y>>) = 2 /\ <<x, y>>[1] = x /\ <<x, y>>[2] = y
OBVIOUS

\* The bytes from place k on
LEMMA Rest ==
  ASSUME NEW b \in Seq(Byte), NEW j \in Nat, j <= Len(b)
  PROVE  /\ SubSeq(b, j + 1, Len(b)) \in Seq(Byte) /\ Len(SubSeq(b, j + 1, Len(b))) = Len(b) - j
         /\ \A k \in 1 .. Len(b) - j : SubSeq(b, j + 1, Len(b))[k] = b[j + k]
<1> DEFINE n == Len(b)
           r == SubSeq(b, j + 1, n)
<1>1. n \in Nat /\ \A k \in 1 .. n : b[k] \in Byte BY LenProperties, ElementOfSeq
<1>2. /\ r \in Seq(Byte) /\ Len(r) = IF j + 1 <= n THEN n - (j + 1) + 1 ELSE 0
      /\ \A k \in 1 .. n - (j + 1) + 1 : r[k] = b[(j + 1) + k - 1]
  <2>1. \A k \in j + 1 .. n : b[k] \in Byte BY <1>1
  <2>2. j + 1 \in Int /\ n \in Int BY <1>1
  <2> QED BY <2>1, <2>2, SubSeqProperties
<1>3. n - (j + 1) + 1 = n - j /\ (j + 1 <= n \/ n - j = 0) BY <1>1
<1>4. \A k \in 1 .. n - j : (j + 1) + k - 1 = j + k BY <1>1
<1> QED BY <1>2, <1>3, <1>4

\* The bytes of a body with a checksum are its bytes but for the third and the fourth.
LEMMA WithChecksumTyped ==
  ASSUME NEW b \in Seq(Byte), Len(b) >= 4, NEW x \in Byte, NEW y \in Byte, NEW t,
         t = WithChecksum(b, <<x, y>>)
  PROVE  /\ t \in Seq(Byte) /\ Len(t) = Len(b) /\ t[3] = x /\ t[4] = y
         /\ \A k \in 1 .. Len(b) : k \notin {3, 4} => t[k] = b[k]
<1> DEFINE n == Len(b)
           head == <<b[1], b[2]>>
           sum == <<x, y>>
           rest == SubSeq(b, 5, n)
           front == head \o sum
<1>1. n \in Nat /\ n >= 4 /\ \A k \in 1..n : b[k] \in Byte BY LenProperties, ElementOfSeq
<1>2. head \in Seq(Byte) /\ Len(head) = 2 /\ head[1] = b[1] /\ head[2] = b[2]
  <2>1. b[1] \in Byte /\ b[2] \in Byte BY <1>1
  <2> QED BY <2>1, Two
<1>3. sum \in Seq(Byte) /\ Len(sum) = 2 /\ sum[1] = x /\ sum[2] = y BY Two
<1>4. rest \in Seq(Byte) /\ Len(rest) = n - 4 /\ \A k \in 1..n - 4 : rest[k] = b[4 + k]
  <2> DEFINE j == 4
  <2>1. j \in Nat /\ j + 1 = 5 /\ j <= n BY <1>1
  <2> HIDE DEF j
  <2>2. /\ SubSeq(b, j + 1, n) \in Seq(Byte) /\ Len(SubSeq(b, j + 1, n)) = n - j
        /\ \A k \in 1 .. n - j : SubSeq(b, j + 1, n)[k] = b[j + k]
    BY <2>1, Rest
  <2> QED BY <2>1, <2>2 DEF j
<1>5. t = front \o rest BY DEF WithChecksum
<1> HIDE DEF head, rest, n, sum
<1>6. /\ front \in Seq(Byte) /\ Len(front) = 2 + 2
      /\ \A k \in 1 .. 2 : front[k] = head[k]
      /\ \A k \in 1 .. 2 : front[2 + k] = sum[k]
  <2>1. /\ front \in Seq(Byte) /\ Len(front) = Len(head) + Len(sum)
        /\ \A k \in 1 .. Len(head) : front[k] = head[k]
        /\ \A k \in 1 .. Len(sum) : front[Len(head) + k] = sum[k]
    BY <1>2, <1>3, Joined
  <2> QED BY <1>2, <1>3, <2>1
<1> HIDE DEF front
<1>7. Len(front) = 4 /\ front[1] = b[1] /\ front[2] = b[2] /\ front[3] = x /\ front[4] = y
  <2>1. 1 \in 1 .. 2 /\ 2 \in 1 .. 2 /\ 2 + 1 = 3 /\ 2 + 2 = 4 OBVIOUS
  <2> QED BY <1>2, <1>3, <1>6, <2>1
<1>8. /\ t \in Seq(Byte) /\ Len(t) = 4 + (n - 4)
      /\ \A k \in 1 .. 4 : t[k] = front[k]
      /\ \A k \in 1 .. n - 4 : t[4 + k] = rest[k]
  <2> DEFINE u == front \o rest
  <2>1. /\ u \in Seq(Byte) /\ Len(u) = Len(front) + Len(rest)
        /\ \A k \in 1 .. Len(front) : u[k] = front[k]
        /\ \A k \in 1 .. Len(rest) : u[Len(front) + k] = rest[k]
    BY <1>4, <1>6, Joined
  <2>2. t = u BY <1>5
  <2> HIDE DEF u
  <2> QED BY <1>4, <1>7, <2>1, <2>2
<1>9. Len(t) = n BY <1>1, <1>8
<1>10. ASSUME NEW k \in 1..n, k \notin {3, 4} PROVE t[k] = b[k]
  <2>1. CASE k \in 1..2 BY <1>7, <1>8, <2>1
  <2>2. CASE k \in 5..n
    <3>1. k - 4 \in 1..n - 4 /\ 4 + (k - 4) = k BY <1>1, <2>2
    <3> QED BY <1>4, <1>8, <3>1
  <2> QED BY <1>1, <1>10, <2>1, <2>2
<1>11. t[3] = x /\ t[4] = y BY <1>7, <1>8
<1> QED BY <1>8, <1>9, <1>10, <1>11 DEF n

\* A checksum is stored in two bytes.
LEMMA StoredTyped ==
  ASSUME NEW c \in Word
  PROVE  c \in Nat /\ c % 256 \in Byte /\ c \div 256 \in Byte /\ Stored(c) = <<c % 256, c \div 256>>
BY SMT DEF Word, Byte, Stored

\* With its checksum a header verifies.
LEMMA StampedVerifies ==
  ASSUME NEW b \in Seq(Byte), Len(b) \in Word, NEW t, Stamped(t, b, HeaderChecksum(b))
  PROVE  Verifies(t)
<1> DEFINE c == HeaderChecksum(b)
<1>1. b \in Seq(Nat) /\ Small(HostSum(b)) BY BytesSumSmall
<1>2. Completes(c, HostSum(b)) BY <1>1, HeaderCompletes
<1>3. c \in Word /\ c \in Nat BY <1>2, StoredTyped DEF Completes
<1>4. HostSum(t) = HostSum(b) + c BY <1>3, StampAdds
<1>5. t \in Seq(Nat) BY BytesAreNumbers DEF Stamped
<1>6. HostSum(t) \in Nat BY <1>5, SumsAgreeModulo
<1> HIDE DEF c
<1>7. Completes(0, HostSum(t)) BY <1>2, <1>4, <1>6, SMT DEF Completes, Word
<1> QED BY <1>5, <1>7, VerifiesWhenWhole

\* With its checksum a body verifies together with its pseudo header.
LEMMA StampedVerifiesWith ==
  ASSUME NEW b \in Seq(Byte), Len(b) \in Word, NEW p \in Seq(Word), Len(p) = 6,
         NEW t, Stamped(t, b, TwoPartChecksum(b, p))
  PROVE  (NetworkSum(t) + NetworkSum(p)) % 65535 = 0
<1> DEFINE c == TwoPartChecksum(b, p)
<1>1. b \in Seq(Nat) /\ Small(HostSum(b)) /\ p \in Seq(Nat) /\ Small(HostSum(p))
  BY BytesSumSmall, WordsSumSmall
<1>2. Completes(c, HostSum(b) + HostSum(p)) BY <1>1, TwoPartCompletes
<1>3. c \in Word /\ c \in Nat BY <1>2, StoredTyped DEF Completes
<1>4. HostSum(t) = HostSum(b) + c BY <1>3, StampAdds
<1>5. t \in Seq(Nat) BY BytesAreNumbers DEF Stamped
<1>6. HostSum(t) \in Nat /\ HostSum(b) \in Nat /\ HostSum(p) \in Nat BY <1>1, <1>5, SumsAgreeModulo
<1> HIDE DEF c
<1>7. (HostSum(b) + HostSum(p)) + c = (HostSum(t) + HostSum(p)) + 0 BY <1>3, <1>4, <1>6
<1>8. 0 \in Word BY SMT DEF Word
<1>9. Completes(0, HostSum(t) + HostSum(p)) BY <1>2, <1>7, <1>8, SMT DEF Completes
<1> QED BY <1>1, <1>5, <1>9, BothVerifyWhenWhole

\* Bytes whose checksum is found right verify.
LEMMA ValidVerifies ==
  ASSUME NEW b \in Seq(Byte), Len(b) \in Word, HeaderChecksum(b) = 0
  PROVE  Verifies(b)
<1>1. b \in Seq(Nat) /\ Small(HostSum(b)) BY BytesSumSmall
<1>2. Completes(0, HostSum(b)) BY <1>1, HeaderCompletes
<1> QED BY <1>1, <1>2, VerifiesWhenWhole

\* The same of a body with its pseudo header
LEMMA BothValidVerify ==
  ASSUME NEW b \in Seq(Byte), Len(b) \in Word, NEW p \in Seq(Word), Len(p) = 6, TwoPartChecksum(b, p) = 0
  PROVE  (NetworkSum(b) + NetworkSum(p)) % 65535 = 0
<1>1. b \in Seq(Nat) /\ Small(HostSum(b)) /\ p \in Seq(Nat) /\ Small(HostSum(p))
  BY BytesSumSmall, WordsSumSmall
<1>2. Completes(0, HostSum(b) + HostSum(p)) BY <1>1, TwoPartCompletes
<1> QED BY <1>1, <1>2, BothVerifyWhenWhole

-----------------------------------------------------------------------------
(* The layers of a packet. *)

Fields ==
  [dmac : Byte, smac : Byte, ttl : Byte, proto : Byte, src : Byte, dst : Byte,
   first : Byte, second : Byte]

Packet == [raw : Raw, fields : Fields, upper : {"none", "icmp", "udp"}, checksum : BOOLEAN]

EthSays(p) == p.raw.eth[1] = p.fields.dmac /\ p.raw.eth[2] = p.fields.smac

IpSays(p) ==
  /\ p.raw.ip[1] = p.fields.ttl /\ p.raw.ip[2] = p.fields.proto
  /\ p.raw.ip[5] = p.fields.src /\ p.raw.ip[6] = p.fields.dst

BodySays(p) == p.raw.l4[1] = p.fields.first /\ p.raw.l4[2] = p.fields.second

\* The body of a packet that has the addresses and the protocol of f
BodyVerifies(f, body) ==
  IF f.proto = ICMP THEN Verifies(body)
  ELSE \/ f.proto = UDP /\ SubSeq(body, 3, 4) = <<0, 0>>
       \/ (NetworkSum(body) + NetworkSum(PseudoHeader(f, body))) % 65535 = 0

UpperFits(p) == (p.upper = "icmp" => p.fields.proto = ICMP) /\ (p.upper = "udp" => p.fields.proto = UDP)

\* A packet whose bytes say what its objects say
Good(p) == p \in Packet /\ EthSays(p) /\ IpSays(p) /\ (p.upper # "none" => BodySays(p)) /\ UpperFits(p)

PacketInv ==
  /\ Good(packet) /\ handled \in Nat /\ whole \in BOOLEAN
  /\ handled > 0 => Verifies(packet.raw.ip)
  /\ whole => BodyVerifies(packet.fields, packet.raw.l4)

\* q differs from p in its bytes at most.
SameObjects(q, p) == q.fields = p.fields /\ q.upper = p.upper /\ q.checksum = p.checksum

\* What a packet has
LEMMA PacketParts ==
  ASSUME NEW p \in Packet
  PROVE  /\ p.raw \in Raw /\ p.fields \in Fields /\ p.upper \in {"none", "icmp", "udp"}
         /\ p.checksum \in BOOLEAN
         /\ p = [raw |-> p.raw, fields |-> p.fields, upper |-> p.upper, checksum |-> p.checksum]
BY DEF Packet

\* What the bytes are
LEMMA RawParts ==
  ASSUME NEW r \in Raw
  PROVE  /\ r = [eth |-> r.eth, ip |-> r.ip, l4 |-> r.l4]
         /\ r.eth \in Seq(Byte) /\ Len(r.eth) = 2
         /\ r.ip \in Seq(Byte) /\ Len(r.ip) = 6
         /\ r.l4 \in Seq(Byte) /\ Len(r.l4) >= 4 /\ Len(r.l4) \in Word
<1>1. /\ r \in [eth : Seq(Byte), ip : Seq(Byte), l4 : Seq(Byte)]
      /\ Len(r.eth) = 2 /\ Len(r.ip) = 6 /\ 4 <= Len(r.l4) /\ Len(r.l4) <= 65535
  BY SMT DEF Raw
<1>2. r.eth \in Seq(Byte) /\ r.ip \in Seq(Byte) /\ r.l4 \in Seq(Byte) BY <1>1, SMT
<1>3. Len(r.l4) \in Nat BY <1>2, LenProperties, SMT
<1>4. Len(r.l4) \in Word /\ Len(r.l4) >= 4 BY <1>1, <1>3, SMT DEF Word
<1> QED BY <1>1, <1>2, <1>4, SMT

\* Bytes of the right lengths are a frame's.
LEMMA RawOf ==
  ASSUME NEW eth \in Seq(Byte), NEW ip \in Seq(Byte), NEW l4 \in Seq(Byte),
         Len(eth) = 2, Len(ip) = 6, Len(l4) >= 4, Len(l4) \in Word
  PROVE  [eth |-> eth, ip |-> ip, l4 |-> l4] \in Raw
<1> DEFINE r == [eth |-> eth, ip |-> ip, l4 |-> l4]
<1>1. r \in [eth : Seq(Byte), ip : Seq(Byte), l4 : Seq(Byte)] BY SMT
<1>2. r.eth = eth /\ r.ip = ip /\ r.l4 = l4 BY SMT
<1> HIDE DEF r
<1>3. 4 <= Len(r.l4) /\ Len(r.l4) <= 65535 BY <1>2, SMT DEF Word
<1>4. r \in Raw BY <1>1, <1>2, <1>3, SMT DEF Raw
<1> QED BY <1>4 DEF r

\* A packet with other bytes of one layer
PacketWith(p, eth, ip, l4) ==
  [raw |-> [eth |-> eth, ip |-> ip, l4 |-> l4], fields |-> p.fields, upper |-> p.upper,
   checksum |-> p.checksum]

\* It is a packet, and nothing else has changed.
LEMMA PacketWithTyped ==
  ASSUME NEW p \in Packet, NEW eth \in Seq(Byte), NEW ip \in Seq(Byte), NEW l4 \in Seq(Byte),
         Len(eth) = 2, Len(ip) = 6, Len(l4) >= 4, Len(l4) \in Word, NEW q, q = PacketWith(p, eth, ip, l4)
  PROVE  /\ q \in Packet /\ SameObjects(q, p)
         /\ q.raw.eth = eth /\ q.raw.ip = ip /\ q.raw.l4 = l4
<1> DEFINE r == [eth |-> eth, ip |-> ip, l4 |-> l4]
<1>1. r \in Raw BY RawOf
<1>2. r.eth = eth /\ r.ip = ip /\ r.l4 = l4 OBVIOUS
<1>3. q = [raw |-> r, fields |-> p.fields, upper |-> p.upper, checksum |-> p.checksum]
  BY DEF PacketWith
<1> HIDE DEF r
<1>4. /\ p.fields \in Fields /\ p.upper \in {"none", "icmp", "udp"} /\ p.checksum \in BOOLEAN
  BY PacketParts
<1>5. q \in Packet BY <1>1, <1>3, <1>4 DEF Packet
<1>6. q.raw = r /\ q.fields = p.fields /\ q.upper = p.upper /\ q.checksum = p.checksum BY <1>3
<1> QED BY <1>2, <1>5, <1>6 DEF SameObjects

\* The changes that populating makes
LEMMA LayerChanged ==
  ASSUME NEW p \in Packet, NEW v
  PROVE  /\ [p EXCEPT !.raw.eth = v] = PacketWith(p, v, p.raw.ip, p.raw.l4)
         /\ [p EXCEPT !.raw.ip = v] = PacketWith(p, p.raw.eth, v, p.raw.l4)
         /\ [p EXCEPT !.raw.l4 = v] = PacketWith(p, p.raw.eth, p.raw.ip, v)
<1>1. /\ p.raw \in Raw
      /\ p = [raw |-> p.raw, fields |-> p.fields, upper |-> p.upper, checksum |-> p.checksum]
  BY PacketParts
<1>2. p.raw = [eth |-> p.raw.eth, ip |-> p.raw.ip, l4 |-> p.raw.l4] BY <1>1, RawParts
<1> QED BY <1>1, <1>2 DEF PacketWith

\* The fields are bytes.
LEMMA FieldsParts ==
  ASSUME NEW f \in Fields
  PROVE  /\ f.dmac \in Byte /\ f.smac \in Byte /\ f.ttl \in Byte /\ f.proto \in Byte
         /\ f.src \in Byte /\ f.dst \in Byte /\ f.first \in Byte /\ f.second \in Byte
BY DEF Fields

\* EthernetFrame::populateToRawFrame
LEMMA EthernetPopulated ==
  ASSUME NEW p \in Packet, NEW q, q = PopulateEthernet(p)
  PROVE  /\ q \in Packet /\ SameObjects(q, p) /\ EthSays(q)
         /\ q.raw.ip = p.raw.ip /\ q.raw.l4 = p.raw.l4
<1> DEFINE v == <<p.fields.dmac, p.fields.smac>>
<1>1. q = PacketWith(p, v, p.raw.ip, p.raw.l4) BY LayerChanged DEF PopulateEthernet
<1>2. p.raw \in Raw /\ p.fields \in Fields BY PacketParts
<1>3. v \in Seq(Byte) /\ Len(v) = 2 /\ v[1] = p.fields.dmac /\ v[2] = p.fields.smac
  <2>1. p.fields.dmac \in Byte /\ p.fields.smac \in Byte BY <1>2, FieldsParts
  <2> QED BY <2>1, Two
<1> HIDE DEF v
<1>4. /\ q \in Packet /\ SameObjects(q, p)
      /\ q.raw.eth = v /\ q.raw.ip = p.raw.ip /\ q.raw.l4 = p.raw.l4
  BY <1>1, <1>2, <1>3, RawParts, PacketWithTyped
<1> QED BY <1>3, <1>4 DEF EthSays, SameObjects

\* The header of an IPv4 packet without its checksum
HeaderOf(f) == <<f.ttl, f.proto, 0, 0, f.src, f.dst>>
WithHeaderChecksum(f) == <<f.ttl, f.proto>> \o Stored(HeaderChecksum(HeaderOf(f))) \o <<f.src, f.dst>>

\* The header that is populated has its checksum.
LEMMA HeaderStamped ==
  ASSUME NEW f \in Fields, NEW t, t = WithHeaderChecksum(f)
  PROVE  /\ Len(t) = 6 /\ t \in Seq(Byte) /\ Verifies(t)
         /\ t[1] = f.ttl /\ t[2] = f.proto /\ t[5] = f.src /\ t[6] = f.dst
<1> DEFINE b == HeaderOf(f)
           c == HeaderChecksum(b)
           x == c % 256
           y == c \div 256
           front == <<f.ttl, f.proto>>
           sum == <<x, y>>
           end == <<f.src, f.dst>>
           u == front \o sum
           w == u \o end
<1>1. f.ttl \in Byte /\ f.proto \in Byte /\ f.src \in Byte /\ f.dst \in Byte /\ 0 \in Byte
  BY FieldsParts DEF Byte
<1>2. b \in Seq(Byte) /\ Len(b) = 6
  BY <1>1 DEF HeaderOf
<1>3. /\ b[1] = f.ttl /\ b[2] = f.proto /\ b[3] = 0 /\ b[4] = 0 /\ b[5] = f.src /\ b[6] = f.dst
  BY DEF HeaderOf
<1> HIDE DEF b
<1>4. Len(b) \in Word BY <1>2, SMT DEF Word
<1>5. c \in Word
  <2>1. Small(HostSum(b)) BY <1>2, <1>4, BytesSumSmall
  <2> QED BY <2>1, HeaderCompletes DEF Completes
<1> HIDE DEF c
<1>6. c \in Nat /\ x \in Byte /\ y \in Byte /\ Stored(c) = sum BY <1>5, StoredTyped
<1>7. t = w BY <1>6 DEF WithHeaderChecksum, b, c
<1> HIDE DEF x, y
<1>8. /\ front \in Seq(Byte) /\ Len(front) = 2 /\ front[1] = f.ttl /\ front[2] = f.proto
      /\ sum \in Seq(Byte) /\ Len(sum) = 2 /\ sum[1] = x /\ sum[2] = y
      /\ end \in Seq(Byte) /\ Len(end) = 2 /\ end[1] = f.src /\ end[2] = f.dst
  BY <1>1, <1>6, Two
<1> HIDE DEF front, sum, end
<1>9. /\ u \in Seq(Byte) /\ Len(u) = 4
      /\ u[1] = f.ttl /\ u[2] = f.proto /\ u[3] = x /\ u[4] = y
  <2>1. /\ u \in Seq(Byte) /\ Len(u) = Len(front) + Len(sum)
        /\ \A k \in 1 .. Len(front) : u[k] = front[k]
        /\ \A k \in 1 .. Len(sum) : u[Len(front) + k] = sum[k]
    BY <1>8, Joined
  <2> HIDE DEF u
  <2>2. 1 \in 1 .. 2 /\ 2 \in 1 .. 2 /\ 2 + 1 = 3 /\ 2 + 2 = 4 OBVIOUS
  <2> QED BY <1>8, <2>1, <2>2
<1> HIDE DEF u
<1>10. /\ w \in Seq(Byte) /\ Len(w) = 6
       /\ w[1] = f.ttl /\ w[2] = f.proto /\ w[3] = x /\ w[4] = y /\ w[5] = f.src /\ w[6] = f.dst
  <2>1. /\ w \in Seq(Byte) /\ Len(w) = Len(u) + Len(end)
        /\ \A k \in 1 .. Len(u) : w[k] = u[k]
        /\ \A k \in 1 .. Len(end) : w[Len(u) + k] = end[k]
    BY <1>8, <1>9, Joined
  <2> HIDE DEF w
  <2>2. 1 \in 1 .. 2 /\ 2 \in 1 .. 2 /\ 4 + 1 = 5 /\ 4 + 2 = 6 /\ \A k \in {1, 2, 3, 4} : k \in 1 .. 4
    OBVIOUS
  <2> QED BY <1>8, <1>9, <2>1, <2>2
<1> HIDE DEF w
<1>11. Stamped(w, b, c)
  <2>1. ASSUME NEW k \in 1 .. 6, k \notin {3, 4} PROVE w[k] = b[k]
    <3>1. k \in {1, 2, 5, 6} BY <2>1
    <3> QED BY <1>3, <1>10, <3>1
  <2> QED BY <1>2, <1>3, <1>10, <2>1 DEF Stamped, x, y
<1>12. Verifies(w) BY <1>2, <1>4, <1>11, StampedVerifies DEF c
<1> QED BY <1>7, <1>10, <1>12

\* IPv4Packet::populateToRawFrame
LEMMA Ipv4Populated ==
  ASSUME NEW p \in Packet, NEW q, q = PopulateIPv4(p)
  PROVE  /\ q \in Packet /\ SameObjects(q, p) /\ q.raw.l4 = p.raw.l4
         /\ EthSays(q) /\ IpSays(q) /\ Verifies(q.raw.ip)
<1> DEFINE t == WithHeaderChecksum(p.fields)
           r == [p EXCEPT !.raw.ip = t]
<1>1. q = PopulateEthernet(r) BY DEF PopulateIPv4, WithHeaderChecksum, HeaderOf
<1>2. p.raw \in Raw /\ p.fields \in Fields BY PacketParts
<1>3. /\ Len(t) = 6 /\ t \in Seq(Byte) /\ Verifies(t)
      /\ t[1] = p.fields.ttl /\ t[2] = p.fields.proto /\ t[5] = p.fields.src /\ t[6] = p.fields.dst
  BY <1>2, HeaderStamped
<1> HIDE DEF t
<1>4. r = PacketWith(p, p.raw.eth, t, p.raw.l4) BY LayerChanged
<1> HIDE DEF r
<1>5. /\ r \in Packet /\ SameObjects(r, p) /\ r.raw.ip = t /\ r.raw.l4 = p.raw.l4
  BY <1>2, <1>3, <1>4, RawParts, PacketWithTyped
<1>6. /\ q \in Packet /\ SameObjects(q, r) /\ EthSays(q)
      /\ q.raw.ip = r.raw.ip /\ q.raw.l4 = r.raw.l4
  BY <1>1, <1>5, EthernetPopulated
<1> QED BY <1>3, <1>5, <1>6 DEF SameObjects, IpSays

\* The body's fields are written over its first two bytes.
LEMMA BodyPopulated ==
  ASSUME NEW p \in Packet, NEW q, q = PopulateBody(p)
  PROVE  /\ q \in Packet /\ SameObjects(q, p) /\ BodySays(q)
         /\ q.raw.eth = p.raw.eth /\ q.raw.ip = p.raw.ip /\ Len(q.raw.l4) = Len(p.raw.l4)
<1> DEFINE b == p.raw.l4
           head == <<p.fields.first, p.fields.second>>
           j == 2
           rest == SubSeq(b, j + 1, Len(b))
           t == head \o rest
<1>1. p.raw \in Raw /\ p.fields \in Fields BY PacketParts
<1>2. b \in Seq(Byte) /\ Len(b) \in Nat /\ Len(b) >= 4 /\ Len(b) \in Word
  BY <1>1, RawParts, LenProperties
<1>3. q = [p EXCEPT !.raw.l4 = t] BY DEF PopulateBody
<1>4. q = PacketWith(p, p.raw.eth, p.raw.ip, t)
  <2> HIDE DEF t
  <2> QED BY <1>3, LayerChanged
<1>5. /\ head \in Seq(Byte) /\ Len(head) = 2
      /\ head[1] = p.fields.first /\ head[2] = p.fields.second
  BY <1>1, FieldsParts, Two
<1> HIDE DEF b, head
<1>6. rest \in Seq(Byte) /\ Len(rest) = Len(b) - 2
  <2>1. j \in Nat /\ j <= Len(b) BY <1>2
  <2> HIDE DEF j
  <2>2. rest \in Seq(Byte) /\ Len(rest) = Len(b) - j BY <1>2, <2>1, Rest
  <2> QED BY <2>2 DEF j
<1> HIDE DEF rest
<1>7. /\ t \in Seq(Byte) /\ Len(t) = Len(head) + Len(rest)
      /\ \A k \in 1 .. Len(head) : t[k] = head[k]
  BY <1>5, <1>6, Joined
<1> HIDE DEF t
<1>8. Len(t) = Len(b) /\ t[1] = p.fields.first /\ t[2] = p.fields.second
  BY <1>2, <1>5, <1>6, <1>7
<1>9. /\ q \in Packet /\ SameObjects(q, p)
      /\ q.raw.eth = p.raw.eth /\ q.raw.ip = p.raw.ip /\ q.raw.l4 = t
  BY <1>1, <1>2, <1>4, <1>7, <1>8, RawParts, PacketWithTyped
<1> QED BY <1>8, <1>9 DEF BodySays, SameObjects, b

StampedBody(p, x, y) == [p EXCEPT !.raw.l4 = WithChecksum(@, <<x, y>>)]

\* A checksum is written into the body.
LEMMA BodyStamped ==
  ASSUME NEW p \in Packet, NEW x \in Byte, NEW y \in Byte, NEW q,
         q = StampedBody(p, x, y)
  PROVE  /\ q \in Packet /\ SameObjects(q, p)
         /\ q.raw.eth = p.raw.eth /\ q.raw.ip = p.raw.ip
         /\ Len(q.raw.l4) = Len(p.raw.l4) /\ q.raw.l4[3] = x /\ q.raw.l4[4] = y
         /\ \A k \in 1 .. Len(p.raw.l4) : k \notin {3, 4} => q.raw.l4[k] = p.raw.l4[k]
<1> DEFINE t == WithChecksum(p.raw.l4, <<x, y>>)
<1>1. p.raw \in Raw BY PacketParts
<1>2. /\ t \in Seq(Byte) /\ Len(t) = Len(p.raw.l4) /\ t[3] = x /\ t[4] = y
      /\ \A k \in 1 .. Len(p.raw.l4) : k \notin {3, 4} => t[k] = p.raw.l4[k]
  BY <1>1, RawParts, WithChecksumTyped
<1> HIDE DEF t
<1>3. q = [p EXCEPT !.raw.l4 = t] BY DEF t, StampedBody
<1>4. q = PacketWith(p, p.raw.eth, p.raw.ip, t) BY <1>3, LayerChanged
<1>5. /\ q \in Packet /\ SameObjects(q, p)
      /\ q.raw.eth = p.raw.eth /\ q.raw.ip = p.raw.ip /\ q.raw.l4 = t
  <2>1. /\ p.raw.eth \in Seq(Byte) /\ Len(p.raw.eth) = 2 /\ p.raw.ip \in Seq(Byte) /\ Len(p.raw.ip) = 6
        /\ t \in Seq(Byte) /\ Len(t) >= 4 /\ Len(t) \in Word
    BY <1>1, <1>2, RawParts
  <2> QED BY <1>4, <2>1, PacketWithTyped
<1> QED BY <1>2, <1>5

\* ICMPPacketImp::populateToRawFrame
LEMMA IcmpPopulated ==
  ASSUME NEW p \in Packet, NEW q, q = PopulateICMP(p)
  PROVE  /\ q \in Packet /\ SameObjects(q, p) /\ EthSays(q) /\ IpSays(q) /\ BodySays(q)
         /\ Verifies(q.raw.ip) /\ Verifies(q.raw.l4)
<1> DEFINE a == PopulateBody(p)
           z == StampedBody(a, 0, 0)
           b == z.raw.l4
           c == HeaderChecksum(b)
           t == StampedBody(z, c % 256, c \div 256)
<1>1. a \in Packet /\ SameObjects(a, p) /\ BodySays(a) BY BodyPopulated
<1> HIDE DEF a
<1>2. /\ z \in Packet /\ SameObjects(z, a) /\ Len(b) = Len(a.raw.l4) /\ b[3] = 0 /\ b[4] = 0
      /\ \A k \in 1 .. Len(a.raw.l4) : k \notin {3, 4} => b[k] = a.raw.l4[k]
  <2>1. 0 \in Byte BY DEF Byte
  <2> QED BY <1>1, <2>1, BodyStamped
<1>3. b \in Seq(Byte) /\ Len(b) >= 4 /\ Len(b) \in Word BY <1>2, PacketParts, RawParts
<1>4. c \in Word
  <2>1. Small(HostSum(b)) BY <1>3, BytesSumSmall
  <2> QED BY <2>1, HeaderCompletes DEF Completes
<1>5. c % 256 \in Byte /\ c \div 256 \in Byte /\ Stored(c) = <<c % 256, c \div 256>> BY <1>4, StoredTyped
<1>6. z = [a EXCEPT !.raw.l4 = Zeroed(@)] BY DEF StampedBody, Zeroed
<1>7. t = [z EXCEPT !.raw.l4 = WithChecksum(@, Stored(HeaderChecksum(@)))]
  <2>1. t = [z EXCEPT !.raw.l4 = WithChecksum(@, Stored(c))] BY <1>5 DEF StampedBody
  <2> QED BY <2>1
<1>8. q = PopulateIPv4(t) BY <1>6, <1>7 DEF PopulateICMP, a
<1> HIDE DEF z, b, c
<1>9. /\ t \in Packet /\ SameObjects(t, z) /\ Len(t.raw.l4) = Len(z.raw.l4)
      /\ t.raw.l4[3] = c % 256 /\ t.raw.l4[4] = c \div 256
      /\ \A k \in 1 .. Len(z.raw.l4) : k \notin {3, 4} => t.raw.l4[k] = z.raw.l4[k]
  BY <1>2, <1>5, BodyStamped
<1> HIDE DEF t
<1>10. Stamped(t.raw.l4, b, c)
  <2>1. t.raw.l4 \in Seq(Byte) BY <1>9, PacketParts, RawParts
  <2> QED BY <1>2, <1>3, <1>9, <2>1 DEF Stamped, b
<1>11. Verifies(t.raw.l4) BY <1>3, <1>10, StampedVerifies DEF c
<1>12. BodySays(t)
  <2>1. Len(b) \in Nat BY <1>3, LenProperties
  <2>2. 1 \in 1 .. Len(b) /\ 2 \in 1 .. Len(b) /\ 1 \notin {3, 4} /\ 2 \notin {3, 4} BY <1>3, <2>1
  <2>3. t.raw.l4[1] = b[1] /\ t.raw.l4[2] = b[2] BY <1>9, <2>2 DEF b
  <2>4. b[1] = a.raw.l4[1] /\ b[2] = a.raw.l4[2] BY <1>2, <2>2
  <2> QED BY <1>1, <1>2, <1>9, <2>3, <2>4 DEF BodySays, SameObjects
<1>13. /\ q \in Packet /\ SameObjects(q, t) /\ q.raw.l4 = t.raw.l4
       /\ EthSays(q) /\ IpSays(q) /\ Verifies(q.raw.ip)
  BY <1>8, <1>9, Ipv4Populated
<1> QED BY <1>1, <1>2, <1>9, <1>11, <1>12, <1>13 DEF BodySays, SameObjects

\* A pseudo header has six words.
LEMMA PseudoTyped ==
  ASSUME NEW f \in Fields, NEW b, Len(b) \in Word
  PROVE  PseudoHeader(f, b) \in Seq(Word) /\ Len(PseudoHeader(f, b)) = 6
<1>1. \A x \in Byte : x \in Word BY SMT DEF Byte, Word
<1>2. 0 \in Word BY SMT DEF Word
<1>3. f.src \in Word /\ f.dst \in Word /\ f.proto \in Word BY <1>1, FieldsParts
<1> QED BY <1>2, <1>3 DEF PseudoHeader

\* A body whose checksum is off says so.
LEMMA WithoutChecksum ==
  ASSUME NEW b \in Seq(Byte), Len(b) >= 4, b[3] = 0, b[4] = 0
  PROVE  SubSeq(b, 3, 4) = <<0, 0>>
<1> DEFINE s == SubSeq(b, 3, 4)
<1>1. Len(b) \in Nat BY LenProperties
<1>2. s \in Seq(Byte) /\ Len(s) = IF 3 <= 4 THEN 4 - 3 + 1 ELSE 0
  <2>1. \A k \in 3 .. 4 : b[k] \in Byte
    <3>1. 3 .. 4 \subseteq 1 .. Len(b) BY <1>1
    <3> QED BY <3>1, ElementOfSeq
  <2> QED BY <2>1, SubSeqProperties
<1>3. \A k \in 1 .. 4 - 3 + 1 : s[k] = b[3 + k - 1]
  <2>1. \A k \in 3 .. 4 : b[k] \in Byte
    <3>1. 3 .. 4 \subseteq 1 .. Len(b) BY <1>1
    <3> QED BY <3>1, ElementOfSeq
  <2> QED BY <2>1, SubSeqProperties
<1> HIDE DEF s
<1>4. Len(s) = 2 /\ s[1] = 0 /\ s[2] = 0
  <2>1. 1 \in 1 .. 4 - 3 + 1 /\ 2 \in 1 .. 4 - 3 + 1 OBVIOUS
  <2>2. s[1] = b[3 + 1 - 1] /\ s[2] = b[3 + 2 - 1] BY <1>3, <2>1
  <2> QED BY <1>2, <2>2
<1>5. s = <<0, 0>> BY <1>2, <1>4
<1> QED BY <1>5 DEF s

\* UDPPacketImp::populateToRawFrame
LEMMA UdpPopulated ==
  ASSUME NEW p \in Packet, p.fields.proto = UDP, NEW q, q = PopulateUDP(p)
  PROVE  /\ q \in Packet /\ SameObjects(q, p) /\ EthSays(q) /\ IpSays(q) /\ BodySays(q)
         /\ Verifies(q.raw.ip) /\ BodyVerifies(q.fields, q.raw.l4)
<1> DEFINE a == PopulateBody(p)
           y == StampedBody(a, 0, 0)
           z == PopulateIPv4(y)
           b == z.raw.l4
           h == PseudoHeader(z.fields, b)
           c == IF p.checksum THEN TwoPartChecksum(b, h) ELSE 0
<1>1. a \in Packet /\ SameObjects(a, p) /\ BodySays(a) BY BodyPopulated
<1>0. q = [z EXCEPT !.raw.l4 = WithChecksum(@, Stored(c))] BY DEF PopulateUDP, StampedBody, Zeroed
<1> HIDE DEF a
<1>2. /\ y \in Packet /\ SameObjects(y, a) /\ Len(y.raw.l4) = Len(a.raw.l4)
      /\ y.raw.l4[3] = 0 /\ y.raw.l4[4] = 0
      /\ \A k \in 1 .. Len(a.raw.l4) : k \notin {3, 4} => y.raw.l4[k] = a.raw.l4[k]
  <2>1. 0 \in Byte BY DEF Byte
  <2> QED BY <1>1, <2>1, BodyStamped
<1> HIDE DEF y
<1>3. /\ z \in Packet /\ SameObjects(z, y) /\ b = y.raw.l4
      /\ EthSays(z) /\ IpSays(z) /\ Verifies(z.raw.ip)
  BY <1>2, Ipv4Populated
<1> HIDE DEF z
<1>4. b \in Seq(Byte) /\ Len(b) >= 4 /\ Len(b) \in Word /\ z.fields \in Fields
  BY <1>3, PacketParts, RawParts
<1>5. h \in Seq(Word) /\ Len(h) = 6 BY <1>4, PseudoTyped
<1>6. c \in Word
  <2>1. 0 \in Word BY SMT DEF Word
  <2>2. TwoPartChecksum(b, h) \in Word
    <3>1. Small(HostSum(b)) /\ Small(HostSum(h)) BY <1>4, <1>5, BytesSumSmall, WordsSumSmall
    <3> QED BY <3>1, TwoPartCompletes DEF Completes
  <2> QED BY <2>1, <2>2
<1> HIDE DEF c, h
<1>7. c % 256 \in Byte /\ c \div 256 \in Byte /\ Stored(c) = <<c % 256, c \div 256>> BY <1>6, StoredTyped
<1>8. q = StampedBody(z, c % 256, c \div 256) BY <1>0, <1>7 DEF StampedBody
<1>9. /\ q \in Packet /\ SameObjects(q, z) /\ q.raw.eth = z.raw.eth /\ q.raw.ip = z.raw.ip
      /\ Len(q.raw.l4) = Len(b) /\ q.raw.l4[3] = c % 256 /\ q.raw.l4[4] = c \div 256
      /\ \A k \in 1 .. Len(b) : k \notin {3, 4} => q.raw.l4[k] = b[k]
  <2> DEFINE r == StampedBody(z, c % 256, c \div 256)
  <2>1. /\ r \in Packet /\ SameObjects(r, z) /\ r.raw.eth = z.raw.eth /\ r.raw.ip = z.raw.ip
        /\ Len(r.raw.l4) = Len(z.raw.l4) /\ r.raw.l4[3] = c % 256 /\ r.raw.l4[4] = c \div 256
        /\ \A k \in 1 .. Len(z.raw.l4) : k \notin {3, 4} => r.raw.l4[k] = z.raw.l4[k]
    <3>1. z \in Packet /\ c % 256 \in Byte /\ c \div 256 \in Byte BY <1>3, <1>7
    <3> HIDE DEF b
    <3> QED BY <3>1, BodyStamped
  <2>2. q = r BY <1>8
  <2> HIDE DEF r
  <2> QED BY <2>1, <2>2
<1> HIDE DEF b
<1>10. q.raw.l4 \in Seq(Byte) BY <1>9, PacketParts, RawParts
<1>11. Stamped(q.raw.l4, b, c)
  BY <1>2, <1>3, <1>4, <1>9, <1>10 DEF Stamped
<1>12. BodySays(q)
  <2>1. Len(b) \in Nat BY <1>4, LenProperties
  <2>2. 1 \in 1 .. Len(b) /\ 2 \in 1 .. Len(b) /\ 1 \notin {3, 4} /\ 2 \notin {3, 4} BY <1>4, <2>1
  <2>3. q.raw.l4[1] = b[1] /\ q.raw.l4[2] = b[2] BY <1>9, <2>2
  <2>4. b[1] = a.raw.l4[1] /\ b[2] = a.raw.l4[2] BY <1>2, <1>3, <2>2
  <2> QED BY <1>1, <1>2, <1>3, <1>9, <2>3, <2>4 DEF BodySays, SameObjects
<1>13. q.fields = z.fields /\ q.fields.proto = UDP /\ SameObjects(q, p)
  BY <1>1, <1>2, <1>3, <1>9 DEF SameObjects
<1>14. BodyVerifies(q.fields, q.raw.l4)
  <2>1. UDP # ICMP BY DEF UDP, ICMP
  <2>2. CASE p.checksum
    <3>1. c = TwoPartChecksum(b, h) BY <2>2 DEF c
    <3>2. (NetworkSum(q.raw.l4) + NetworkSum(h)) % 65535 = 0
      BY <1>4, <1>5, <1>11, <3>1, StampedVerifiesWith
    <3>3. PseudoHeader(q.fields, q.raw.l4) = h BY <1>9, <1>13 DEF PseudoHeader, h
    <3> QED BY <1>13, <2>1, <3>2, <3>3, SMT DEF BodyVerifies
  <2>3. CASE ~p.checksum
    <3>1. c = 0 BY <2>3 DEF c
    <3>2. q.raw.l4[3] = 0 /\ q.raw.l4[4] = 0 BY <1>9, <3>1
    <3>3. Len(q.raw.l4) >= 4 BY <1>4, <1>9
    <3>4. SubSeq(q.raw.l4, 3, 4) = <<0, 0>> BY <1>10, <3>2, <3>3, WithoutChecksum
    <3> QED BY <1>13, <2>1, <3>4, SMT DEF BodyVerifies
  <2> QED BY <2>2, <2>3
<1>15. EthSays(q) /\ IpSays(q) /\ Verifies(q.raw.ip)
  BY <1>3, <1>9, <1>13 DEF EthSays, IpSays
<1> QED BY <1>9, <1>12, <1>13, <1>14, <1>15

\* A packet with other fields
FieldsSet(p, f) == [raw |-> p.raw, fields |-> f, upper |-> p.upper, checksum |-> p.checksum]

\* The setters of the objects change the fields.
LEMMA SettersSet ==
  ASSUME NEW p \in Packet, NEW v
  PROVE  /\ [p EXCEPT !.fields.dmac = v] = FieldsSet(p, [p.fields EXCEPT !.dmac = v])
         /\ [p EXCEPT !.fields.smac = v] = FieldsSet(p, [p.fields EXCEPT !.smac = v])
         /\ [p EXCEPT !.fields.ttl = v] = FieldsSet(p, [p.fields EXCEPT !.ttl = v])
         /\ [p EXCEPT !.fields.src = v] = FieldsSet(p, [p.fields EXCEPT !.src = v])
         /\ [p EXCEPT !.fields.dst = v] = FieldsSet(p, [p.fields EXCEPT !.dst = v])
         /\ [p EXCEPT !.fields.first = v] = FieldsSet(p, [p.fields EXCEPT !.first = v])
         /\ [p EXCEPT !.fields.second = v] = FieldsSet(p, [p.fields EXCEPT !.second = v])
<1>1. p = [raw |-> p.raw, fields |-> p.fields, upper |-> p.upper, checksum |-> p.checksum]
  BY PacketParts
<1> QED BY <1>1 DEF FieldsSet

\* Fields stay bytes.
LEMMA FieldsSetTyped ==
  ASSUME NEW p \in Packet, NEW f \in Fields, NEW q, q = FieldsSet(p, f)
  PROVE  q \in Packet /\ q.raw = p.raw /\ q.fields = f /\ q.upper = p.upper /\ q.checksum = p.checksum
<1>1. p.raw \in Raw /\ p.upper \in {"none", "icmp", "udp"} /\ p.checksum \in BOOLEAN BY PacketParts
<1> QED BY <1>1 DEF FieldsSet, Packet

\* The same addresses and protocol
SameRoute(q, p) ==
  q.fields.src = p.fields.src /\ q.fields.dst = p.fields.dst /\ q.fields.proto = p.fields.proto

\* The same fields of the body's object
SameBody(q, p) == q.fields.first = p.fields.first /\ q.fields.second = p.fields.second

\* The same bytes and kinds of objects
SameBytes(q, p) ==
  q \in Packet /\ q.raw = p.raw /\ q.upper = p.upper /\ q.checksum = p.checksum
    /\ q.fields.proto = p.fields.proto

\* A setter leaves the other fields alone.
LEMMA SetterKeeps ==
  ASSUME NEW p \in Packet, NEW v \in Byte
  PROVE  /\ LET q == [p EXCEPT !.fields.dmac = v]
            IN SameBytes(q, p) /\ q.fields = [p.fields EXCEPT !.dmac = v]
         /\ LET q == [p EXCEPT !.fields.smac = v]
            IN SameBytes(q, p) /\ q.fields = [p.fields EXCEPT !.smac = v]
         /\ LET q == [p EXCEPT !.fields.ttl = v]
            IN SameBytes(q, p) /\ q.fields = [p.fields EXCEPT !.ttl = v]
         /\ LET q == [p EXCEPT !.fields.src = v]
            IN SameBytes(q, p) /\ q.fields = [p.fields EXCEPT !.src = v]
         /\ LET q == [p EXCEPT !.fields.dst = v]
            IN SameBytes(q, p) /\ q.fields = [p.fields EXCEPT !.dst = v]
         /\ LET q == [p EXCEPT !.fields.first = v]
            IN SameBytes(q, p) /\ q.fields = [p.fields EXCEPT !.first = v]
         /\ LET q == [p EXCEPT !.fields.second = v]
            IN SameBytes(q, p) /\ q.fields = [p.fields EXCEPT !.second = v]
<1> DEFINE f == p.fields
           F == {[f EXCEPT !.dmac = v], [f EXCEPT !.smac = v], [f EXCEPT !.ttl = v], [f EXCEPT !.src = v],
                 [f EXCEPT !.dst = v], [f EXCEPT !.first = v], [f EXCEPT !.second = v]}
<1>1. f \in Fields BY PacketParts
<1>2. \A g \in F : g \in Fields /\ g.proto = f.proto
  <2>1. [f EXCEPT !.dmac = v] \in Fields /\ [f EXCEPT !.dmac = v].proto = f.proto BY <1>1 DEF Fields
  <2>2. [f EXCEPT !.smac = v] \in Fields /\ [f EXCEPT !.smac = v].proto = f.proto BY <1>1 DEF Fields
  <2>3. [f EXCEPT !.ttl = v] \in Fields /\ [f EXCEPT !.ttl = v].proto = f.proto BY <1>1 DEF Fields
  <2>4. [f EXCEPT !.src = v] \in Fields /\ [f EXCEPT !.src = v].proto = f.proto BY <1>1 DEF Fields
  <2>5. [f EXCEPT !.dst = v] \in Fields /\ [f EXCEPT !.dst = v].proto = f.proto BY <1>1 DEF Fields
  <2>6. [f EXCEPT !.first = v] \in Fields /\ [f EXCEPT !.first = v].proto = f.proto BY <1>1 DEF Fields
  <2>7. [f EXCEPT !.second = v] \in Fields /\ [f EXCEPT !.second = v].proto = f.proto BY <1>1 DEF Fields
  <2> QED BY <2>1, <2>2, <2>3, <2>4, <2>5, <2>6, <2>7, Zenon
<1> HIDE DEF F, f
<1>3. \A g \in F : LET q == FieldsSet(p, g) IN SameBytes(q, p) /\ q.fields = g
  BY <1>2, FieldsSetTyped DEF SameBytes, f
<1>4. /\ [f EXCEPT !.dmac = v] \in F /\ [f EXCEPT !.smac = v] \in F /\ [f EXCEPT !.ttl = v] \in F
      /\ [f EXCEPT !.src = v] \in F /\ [f EXCEPT !.dst = v] \in F
      /\ [f EXCEPT !.first = v] \in F /\ [f EXCEPT !.second = v] \in F
  BY Zenon DEF F
<1>5. /\ [p EXCEPT !.fields.dmac = v] = FieldsSet(p, [f EXCEPT !.dmac = v])
      /\ [p EXCEPT !.fields.smac = v] = FieldsSet(p, [f EXCEPT !.smac = v])
      /\ [p EXCEPT !.fields.ttl = v] = FieldsSet(p, [f EXCEPT !.ttl = v])
      /\ [p EXCEPT !.fields.src = v] = FieldsSet(p, [f EXCEPT !.src = v])
      /\ [p EXCEPT !.fields.dst = v] = FieldsSet(p, [f EXCEPT !.dst = v])
      /\ [p EXCEPT !.fields.first = v] = FieldsSet(p, [f EXCEPT !.first = v])
      /\ [p EXCEPT !.fields.second = v] = FieldsSet(p, [f EXCEPT !.second = v])
  BY SettersSet DEF f
<1>6. \A q, g : g \in F /\ q = FieldsSet(p, g) => SameBytes(q, p) /\ q.fields = g BY <1>3
<1>7. LET q == [p EXCEPT !.fields.dmac = v] IN SameBytes(q, p) /\ q.fields = [f EXCEPT !.dmac = v]
  BY <1>4, <1>5, <1>6, Zenon
<1>8. LET q == [p EXCEPT !.fields.smac = v] IN SameBytes(q, p) /\ q.fields = [f EXCEPT !.smac = v]
  BY <1>4, <1>5, <1>6, Zenon
<1>9. LET q == [p EXCEPT !.fields.ttl = v] IN SameBytes(q, p) /\ q.fields = [f EXCEPT !.ttl = v]
  BY <1>4, <1>5, <1>6, Zenon
<1>10. LET q == [p EXCEPT !.fields.src = v] IN SameBytes(q, p) /\ q.fields = [f EXCEPT !.src = v]
  BY <1>4, <1>5, <1>6, Zenon
<1>11. LET q == [p EXCEPT !.fields.dst = v] IN SameBytes(q, p) /\ q.fields = [f EXCEPT !.dst = v]
  BY <1>4, <1>5, <1>6, Zenon
<1>12. LET q == [p EXCEPT !.fields.first = v] IN SameBytes(q, p) /\ q.fields = [f EXCEPT !.first = v]
  BY <1>4, <1>5, <1>6, Zenon
<1>13. LET q == [p EXCEPT !.fields.second = v] IN SameBytes(q, p) /\ q.fields = [f EXCEPT !.second = v]
  BY <1>4, <1>5, <1>6, Zenon
<1> QED BY <1>7, <1>8, <1>9, <1>10, <1>11, <1>12, <1>13 DEF f

\* The constants are bytes.
LEMMA ConstantBytes ==
  /\ NodeMac \in Byte /\ \A a \in NodeIp : a \in Byte
  /\ {0, 1, 3, 4, 5, 6, 7, 8, 9, 64, 254, 255} \subseteq Byte
  /\ ICMP \in Byte /\ UDP \in Byte /\ TypeEcho \in Byte /\ TypeEchoReply \in Byte /\ TypeUnreachable \in Byte
BY PacketLayersAssumption DEF Byte, ICMP, UDP, TypeEcho, TypeEchoReply, TypeUnreachable

\* A frame that goes back keeps its bytes, addresses and protocol.
LEMMA ReturnedKeeps ==
  ASSUME NEW p \in Packet, NEW q, q = Returned(p)
  PROVE  SameBytes(q, p) /\ SameRoute(q, p) /\ SameBody(q, p)
<1> DEFINE v == p.fields.smac
           r == [p EXCEPT !.fields.dmac = v]
           s == [r EXCEPT !.fields.smac = NodeMac]
<1>1. q = s BY DEF Returned
<1>2. p.fields \in Fields /\ v \in Byte /\ NodeMac \in Byte BY PacketParts, FieldsParts, ConstantBytes
<1> HIDE DEF v
<1>3. SameBytes(r, p) /\ r.fields = [p.fields EXCEPT !.dmac = v] BY <1>2, SetterKeeps
<1> HIDE DEF r
<1>4. SameBytes(s, r) /\ s.fields = [r.fields EXCEPT !.smac = NodeMac]
  <2>1. r \in Packet BY <1>3 DEF SameBytes
  <2> QED BY <1>2, <2>1, SetterKeeps
<1> HIDE DEF s
<1>5. SameRoute(r, p) /\ SameBody(r, p) BY <1>2, <1>3 DEF SameRoute, SameBody, Fields
<1>6. SameRoute(s, r) /\ SameBody(s, r)
  <2>1. r.fields \in Fields BY <1>3, PacketParts DEF SameBytes
  <2> QED BY <1>4, <2>1 DEF SameRoute, SameBody, Fields
<1> QED BY <1>1, <1>3, <1>4, <1>5, <1>6 DEF SameBytes, SameRoute, SameBody

\* A packet with other addresses keeps its bytes.
LEMMA ReaddressedKeeps ==
  ASSUME NEW p \in Packet, NEW src \in Byte, NEW dst \in Byte, NEW q, q = Readdressed(p, src, dst)
  PROVE  SameBytes(q, p) /\ SameBody(q, p) /\ q.fields.smac = p.fields.smac
<1> DEFINE r == [p EXCEPT !.fields.src = src]
           s == [r EXCEPT !.fields.dst = dst]
<1>1. q = s BY DEF Readdressed
<1>2. SameBytes(r, p) /\ r.fields = [p.fields EXCEPT !.src = src] BY SetterKeeps
<1> HIDE DEF r
<1>3. SameBytes(s, r) /\ s.fields = [r.fields EXCEPT !.dst = dst]
  <2>1. r \in Packet BY <1>2 DEF SameBytes
  <2> QED BY <2>1, SetterKeeps
<1> HIDE DEF s
<1>4. SameBody(r, p) /\ r.fields.smac = p.fields.smac
  <2>1. p.fields \in Fields BY PacketParts
  <2> QED BY <1>2, <2>1 DEF SameBody, Fields
<1>5. SameBody(s, r) /\ s.fields.smac = r.fields.smac
  <2>1. r.fields \in Fields BY <1>2, PacketParts DEF SameBytes
  <2> QED BY <1>3, <2>1 DEF SameBody, Fields
<1> QED BY <1>1, <1>2, <1>3, <1>4, <1>5 DEF SameBytes, SameBody

\* A frame that is sent on is populated with its new hardware addresses.
LEMMA SentOnKeeps ==
  ASSUME NEW p \in Packet, NEW mac \in Byte, NEW q, q = SentOn(p, mac)
  PROVE  /\ q \in Packet /\ q.raw.ip = p.raw.ip /\ q.raw.l4 = p.raw.l4 /\ q.upper = p.upper
         /\ EthSays(q) /\ SameRoute(q, p) /\ q.fields.ttl = p.fields.ttl
         /\ q.fields.first = p.fields.first /\ q.fields.second = p.fields.second
<1> DEFINE r == [p EXCEPT !.fields.smac = NodeMac]
           s == [r EXCEPT !.fields.dmac = mac]
<1>1. q = PopulateEthernet(s) BY DEF SentOn
<1>2. p.fields \in Fields /\ NodeMac \in Byte BY PacketParts, ConstantBytes
<1>3. SameBytes(r, p) /\ r.fields = [p.fields EXCEPT !.smac = NodeMac] BY <1>2, SetterKeeps
<1> HIDE DEF r
<1>4. SameBytes(s, r) /\ s.fields = [r.fields EXCEPT !.dmac = mac]
  <2>1. r \in Packet BY <1>3 DEF SameBytes
  <2> QED BY <2>1, SetterKeeps
<1> HIDE DEF s
<1>5. /\ SameRoute(r, p) /\ r.fields.ttl = p.fields.ttl
      /\ r.fields.first = p.fields.first /\ r.fields.second = p.fields.second
  BY <1>2, <1>3 DEF SameRoute, Fields
<1>6. /\ SameRoute(s, r) /\ s.fields.ttl = r.fields.ttl
      /\ s.fields.first = r.fields.first /\ s.fields.second = r.fields.second
  <2>1. r.fields \in Fields BY <1>3, PacketParts DEF SameBytes
  <2> QED BY <1>4, <2>1 DEF SameRoute, Fields
<1>7. s \in Packet /\ s.raw = p.raw /\ s.upper = p.upper BY <1>3, <1>4 DEF SameBytes
<1>8. /\ q \in Packet /\ SameObjects(q, s) /\ EthSays(q)
      /\ q.raw.ip = s.raw.ip /\ q.raw.l4 = s.raw.l4
  BY <1>1, <1>7, EthernetPopulated
<1> QED BY <1>5, <1>6, <1>7, <1>8 DEF SameObjects, SameRoute

\* What a good packet has is good after it was sent on.
LEMMA SentOnGood ==
  ASSUME NEW p \in Packet, IpSays(p), p.upper # "none" => BodySays(p), UpperFits(p),
         NEW mac \in Byte, NEW q, q = SentOn(p, mac)
  PROVE  Good(q) /\ q.raw.ip = p.raw.ip /\ q.raw.l4 = p.raw.l4 /\ SameRoute(q, p)
BY SentOnKeeps DEF Good, IpSays, BodySays, UpperFits, SameRoute

\* Whether a body verifies depends on its bytes, the addresses and the protocol only.
LEMMA VerifiesByRoute ==
  ASSUME NEW p, NEW q, SameRoute(q, p), NEW body, BodyVerifies(p.fields, body)
  PROVE  BodyVerifies(q.fields, body)
<1>1. PseudoHeader(q.fields, body) = PseudoHeader(p.fields, body) BY DEF PseudoHeader, SameRoute
<1>2. q.fields.proto = p.fields.proto BY DEF SameRoute
<1> QED BY <1>1, <1>2, SMT DEF BodyVerifies

\* A packet with an object for its body
WithBody(p, upper, checksum) ==
  [raw |-> p.raw, fields |-> [p.fields EXCEPT !.first = p.raw.l4[1], !.second = p.raw.l4[2]],
   upper |-> upper, checksum |-> checksum]

\* An object for the body has the fields that its bytes have.
LEMMA WithBodyGood ==
  ASSUME NEW p, Good(p), NEW upper \in {"icmp", "udp"}, NEW checksum \in BOOLEAN,
         upper = "icmp" => p.fields.proto = ICMP, upper = "udp" => p.fields.proto = UDP,
         NEW q, q = WithBody(p, upper, checksum)
  PROVE  Good(q) /\ q.raw = p.raw /\ SameRoute(q, p) /\ q.fields.smac = p.fields.smac
<1> DEFINE x == p.raw.l4[1]
           y == p.raw.l4[2]
           f == [p.fields EXCEPT !.first = x, !.second = y]
<1>1. p \in Packet /\ EthSays(p) /\ IpSays(p) BY DEF Good
<1>2. p.raw \in Raw /\ p.fields \in Fields BY <1>1, PacketParts
<1>3. x \in Byte /\ y \in Byte
  <2>1. p.raw.l4 \in Seq(Byte) /\ Len(p.raw.l4) >= 4 /\ Len(p.raw.l4) \in Nat
    BY <1>2, RawParts, LenProperties
  <2>2. 1 \in 1 .. Len(p.raw.l4) /\ 2 \in 1 .. Len(p.raw.l4) BY <2>1
  <2> QED BY <2>1, <2>2, ElementOfSeq
<1>4. q = [raw |-> p.raw, fields |-> f, upper |-> upper, checksum |-> checksum] BY DEF WithBody
<1> HIDE DEF x, y
<1>5. /\ f \in Fields /\ f.first = x /\ f.second = y
      /\ f.dmac = p.fields.dmac /\ f.smac = p.fields.smac /\ f.ttl = p.fields.ttl
      /\ f.proto = p.fields.proto /\ f.src = p.fields.src /\ f.dst = p.fields.dst
  BY <1>2, <1>3 DEF Fields
<1> HIDE DEF f
<1>6. q.raw = p.raw /\ q.fields = f /\ q.upper = upper /\ q.checksum = checksum BY <1>4
<1>7. q \in Packet BY <1>2, <1>4, <1>5 DEF Packet
<1>8. EthSays(q) /\ IpSays(q) BY <1>1, <1>5, <1>6 DEF EthSays, IpSays
<1>9. BodySays(q) BY <1>5, <1>6 DEF BodySays, x, y
<1>10. UpperFits(q) BY <1>5, <1>6 DEF UpperFits
<1> QED BY <1>5, <1>6, <1>7, <1>8, <1>9, <1>10 DEF Good, SameRoute

\* The fields that an object of the body reads
LEMMA ReadBodyIs ==
  ASSUME NEW p \in Packet, NEW upper
  PROVE  ReadBody(p, upper) = WithBody(p, upper, p.checksum)
<1> DEFINE x == p.raw.l4[1]
           y == p.raw.l4[2]
           r == p.raw
           f == p.fields
           c == p.checksum
           a == [p EXCEPT !.upper = upper]
           b == [a EXCEPT !.fields.first = x]
           d == [b EXCEPT !.fields.second = y]
<1>1. ReadBody(p, upper) = d BY DEF ReadBody
<1>2. WithBody(p, upper, c) = [raw |-> r, fields |-> [f EXCEPT !.first = x, !.second = y],
                               upper |-> upper, checksum |-> c]
  BY DEF WithBody
<1>3. p = [raw |-> r, fields |-> f, upper |-> p.upper, checksum |-> c] BY PacketParts
<1>4. f \in Fields BY PacketParts
<1> HIDE DEF x, y, r, f, c
<1>5. a = [raw |-> r, fields |-> f, upper |-> upper, checksum |-> c] BY <1>3
<1> HIDE DEF a
<1>6. b = [raw |-> r, fields |-> [f EXCEPT !.first = x], upper |-> upper, checksum |-> c] BY <1>5
<1> HIDE DEF b
<1>7. d = [raw |-> r, fields |-> [[f EXCEPT !.first = x] EXCEPT !.second = y], upper |-> upper,
           checksum |-> c]
  BY <1>6
<1>8. [[f EXCEPT !.first = x] EXCEPT !.second = y] = [f EXCEPT !.first = x, !.second = y] OBVIOUS
<1> QED BY <1>1, <1>2, <1>7, <1>8 DEF c

\* A packet of these objects, and one with its checksum on or off
PacketOf(raw, f, upper, checksum) == [raw |-> raw, fields |-> f, upper |-> upper, checksum |-> checksum]
ChecksumSetTo(p, checksum) == [p EXCEPT !.checksum = checksum]

\* UDPPacket::setChecksum
LEMMA ChecksumIsSet ==
  ASSUME NEW raw, NEW f, NEW upper, NEW old, NEW new
  PROVE  ChecksumSetTo(PacketOf(raw, f, upper, old), new) = PacketOf(raw, f, upper, new)
BY DEF ChecksumSetTo, PacketOf

\* analyze leaves the bytes and what the objects say.
LEMMA AnalyzedGood ==
  ASSUME NEW p, Good(p), NEW q, q = Analyzed(p)
  PROVE  Good(q) /\ q.raw = p.raw /\ SameRoute(q, p) /\ q.fields.smac = p.fields.smac
<1>1. p \in Packet BY DEF Good
<1>2. p = [raw |-> p.raw, fields |-> p.fields, upper |-> p.upper, checksum |-> p.checksum]
      /\ p.checksum \in BOOLEAN
  BY <1>1, PacketParts
<1>3. IcmpRead(p) = WithBody(p, "icmp", p.checksum) BY <1>1, ReadBodyIs DEF IcmpRead
<1>4. \E c \in BOOLEAN : UdpRead(p) = WithBody(p, "udp", c)
  <2>1. ReadBody(p, "udp") = WithBody(p, "udp", p.checksum) BY <1>1, ReadBodyIs
  <2> DEFINE g == [p.fields EXCEPT !.first = p.raw.l4[1], !.second = p.raw.l4[2]]
  <2>2. \A c : WithBody(p, "udp", c) = PacketOf(p.raw, g, "udp", c) BY DEF WithBody, PacketOf
  <2>3. UdpRead(p) = ChecksumSetTo(ReadBody(p, "udp"), TRUE) BY Zenon DEF UdpRead, ChecksumSetTo
  <2>4. \E c \in BOOLEAN : UdpRead(p) = ChecksumSetTo(ReadBody(p, "udp"), c)
    <3>1. TRUE \in BOOLEAN OBVIOUS
    <3> WITNESS TRUE \in BOOLEAN
    <3> QED BY <2>3, Zenon
  <2> HIDE DEF g
  <2>5. PICK c \in BOOLEAN : UdpRead(p) = ChecksumSetTo(ReadBody(p, "udp"), c) BY <2>4, Zenon
  <2>6. ReadBody(p, "udp") = PacketOf(p.raw, g, "udp", p.checksum) BY <2>1, <2>2, Zenon
  <2>7. UdpRead(p) = PacketOf(p.raw, g, "udp", c) BY <2>5, <2>6, ChecksumIsSet
  <2> QED BY <2>2, <2>7, Zenon
<1>5. CASE q = p BY <1>5 DEF SameRoute
<1>6. CASE p.fields.proto = ICMP /\ q = WithBody(p, "icmp", p.checksum)
  BY <1>2, <1>6, WithBodyGood
<1>7. CASE p.fields.proto = UDP /\ \E c \in BOOLEAN : q = WithBody(p, "udp", c)
  BY <1>7, WithBodyGood
<1> QED BY <1>3, <1>4, <1>5, <1>6, <1>7 DEF Analyzed

\* Setters and copies one after the other
LEMMA SameBytesOn ==
  ASSUME NEW p, NEW q, NEW r, SameBytes(q, p), SameBytes(r, q)
  PROVE  SameBytes(r, p)
BY DEF SameBytes

\* An ICMP packet is good when it was populated, whatever its bytes were.
LEMMA IcmpGood ==
  ASSUME NEW p \in Packet, p.fields.proto = ICMP, UpperFits(p), NEW q, q = PopulateICMP(p)
  PROVE  Good(q) /\ SameObjects(q, p) /\ Verifies(q.raw.ip) /\ BodyVerifies(q.fields, q.raw.l4)
<1>1. /\ q \in Packet /\ SameObjects(q, p) /\ EthSays(q) /\ IpSays(q) /\ BodySays(q)
      /\ Verifies(q.raw.ip) /\ Verifies(q.raw.l4)
  BY IcmpPopulated
<1>2. UpperFits(q) /\ q.fields.proto = ICMP BY <1>1 DEF UpperFits, SameObjects
<1> QED BY <1>1, <1>2 DEF Good, BodyVerifies

\* So is a UDP packet.
LEMMA UdpGood ==
  ASSUME NEW p \in Packet, p.fields.proto = UDP, UpperFits(p), NEW q, q = PopulateUDP(p)
  PROVE  Good(q) /\ SameObjects(q, p) /\ Verifies(q.raw.ip) /\ BodyVerifies(q.fields, q.raw.l4)
<1>1. /\ q \in Packet /\ SameObjects(q, p) /\ EthSays(q) /\ IpSays(q) /\ BodySays(q)
      /\ Verifies(q.raw.ip) /\ BodyVerifies(q.fields, q.raw.l4)
  BY UdpPopulated
<1>2. UpperFits(q) BY <1>1 DEF UpperFits, SameObjects
<1> QED BY <1>1, <1>2 DEF Good

\* Populating the header leaves the body alone.
LEMMA Ipv4Good ==
  ASSUME NEW p \in Packet, p.upper # "none" => BodySays(p), UpperFits(p), NEW q, q = PopulateIPv4(p)
  PROVE  Good(q) /\ SameObjects(q, p) /\ Verifies(q.raw.ip) /\ q.raw.l4 = p.raw.l4
<1>1. /\ q \in Packet /\ SameObjects(q, p) /\ q.raw.l4 = p.raw.l4
      /\ EthSays(q) /\ IpSays(q) /\ Verifies(q.raw.ip)
  BY Ipv4Populated
<1>2. UpperFits(q) BY <1>1 DEF UpperFits, SameObjects
<1>3. q.upper # "none" => BodySays(q) BY <1>1 DEF BodySays, SameObjects
<1> QED BY <1>1, <1>2, <1>3 DEF Good

\* A packet of a node's own, before it is populated
LEMMA MadeTyped ==
  ASSUME NEW proto \in {ICMP, UDP}, NEW src \in Byte, NEW dst \in Byte, NEW body \in Seq(Byte),
         Len(body) >= 4, Len(body) \in Word, NEW q, q = Made(proto, src, dst, body)
  PROVE  /\ q \in Packet /\ UpperFits(q) /\ q.raw.l4 = body /\ q.fields.proto = proto
         /\ q.upper = IF proto = ICMP THEN "icmp" ELSE "udp"
<1> DEFINE x == body[1]
           y == body[2]
           f == [dmac |-> 0, smac |-> NodeMac, ttl |-> 64, proto |-> proto, src |-> src,
                 dst |-> dst, first |-> x, second |-> y]
           eth == <<0, 0>>
           ip == <<0, 0, 0, 0, 0, 0>>
           raw == [eth |-> eth, ip |-> ip, l4 |-> body]
           upper == IF proto = ICMP THEN "icmp" ELSE "udp"
<1>1. q = [raw |-> raw, fields |-> f, upper |-> upper, checksum |-> TRUE] BY Zenon DEF Made
<1>2. x \in Byte /\ y \in Byte
  <2>1. Len(body) \in Nat BY LenProperties
  <2>2. 1 \in 1 .. Len(body) /\ 2 \in 1 .. Len(body) BY <2>1
  <2> QED BY <2>2, ElementOfSeq
<1>3. eth \in Seq(Byte) /\ Len(eth) = 2 /\ ip \in Seq(Byte) /\ Len(ip) = 6
  <2>1. 0 \in Byte BY ConstantBytes
  <2> QED BY <2>1
<1> HIDE DEF x, y, eth, ip
<1>4. f \in Fields /\ f.proto = proto
  <2>1. 0 \in Byte /\ 64 \in Byte /\ NodeMac \in Byte /\ proto \in Byte BY ConstantBytes
  <2> QED BY <1>2, <2>1 DEF Fields
<1>5. raw \in Raw BY <1>3, RawOf
<1>6. upper \in {"icmp", "udp"} /\ (upper = "icmp" => proto = ICMP) /\ (upper = "udp" => proto = UDP)
  OBVIOUS
<1>7. raw.l4 = body OBVIOUS
<1>8. q = PacketOf(raw, f, upper, TRUE) BY <1>1, Zenon DEF PacketOf
<1> HIDE DEF f, raw, upper
<1>9. PICK c \in BOOLEAN : q = PacketOf(raw, f, upper, c)
  <2>1. TRUE \in BOOLEAN OBVIOUS
  <2>2. \E c \in BOOLEAN : q = PacketOf(raw, f, upper, c)
    <3> WITNESS TRUE \in BOOLEAN
    <3> QED BY <1>8, Zenon
  <2> QED BY <2>2, Zenon
<1>10. q.raw = raw /\ q.fields = f /\ q.upper = upper /\ q.checksum = c BY <1>9 DEF PacketOf
<1>11. q \in Packet BY <1>4, <1>5, <1>6, <1>9 DEF Packet, PacketOf
<1>12. UpperFits(q) BY <1>4, <1>6, <1>10 DEF UpperFits
<1> QED BY <1>4, <1>7, <1>10, <1>11, <1>12 DEF upper
\* What the objects of the packet at a node say is the packet's.
LEMMA HereGood ==
  ASSUME PacketInv
  PROVE  /\ Good(Here) /\ Here \in Packet /\ Here.raw = packet.raw /\ UpperFits(Here)
         /\ Here.upper # "none" => BodySays(Here)
         /\ whole => BodyVerifies(Here.fields, Here.raw.l4)
<1>1. Good(packet) /\ (whole => BodyVerifies(packet.fields, packet.raw.l4)) BY DEF PacketInv
<1>2. Good(Here) /\ Here.raw = packet.raw /\ SameRoute(Here, packet) BY <1>1, AnalyzedGood DEF Here
<1> QED BY <1>1, <1>2, VerifiesByRoute DEF Good

\* A good packet with a header that verifies may be handed on, with its body as it came.
LEMMA HandedOnGood ==
  ASSUME PacketInv, NEW q, HandedOn(q), Good(q), Verifies(q.raw.ip),
         whole => BodyVerifies(q.fields, q.raw.l4)
  PROVE  PacketInv'
<1>1. packet' = q /\ handled' = handled + 1 /\ whole' = whole BY DEF HandedOn
<1>2. handled \in Nat /\ whole \in BOOLEAN BY DEF PacketInv
<1>3. handled' \in Nat BY <1>1, <1>2
<1>4. Good(packet') BY <1>1
<1>5. Verifies(packet'.raw.ip) BY <1>1
<1>6. whole' => BodyVerifies(packet'.fields, packet'.raw.l4) BY <1>1
<1> QED BY <1>1, <1>2, <1>3, <1>4, <1>5, <1>6 DEF PacketInv

\* An answer goes from the packet's destination to its source.
LEMMA AnswerTyped ==
  ASSUME NEW p \in Packet, NEW q, q = AnswerOf(p)
  PROVE  SameBytes(q, p)
<1> DEFINE r == Readdressed(p, p.fields.dst, p.fields.src)
<1>1. p.fields.dst \in Byte /\ p.fields.src \in Byte BY PacketParts, FieldsParts
<1>2. SameBytes(r, p) BY <1>1, ReaddressedKeeps
<1>3. q = Returned(r) BY DEF AnswerOf
<1> HIDE DEF r
<1>4. SameBytes(q, r)
  <2>1. r \in Packet BY <1>2 DEF SameBytes
  <2> QED BY <1>3, <2>1, ReturnedKeeps
<1> QED BY <1>2, <1>4, SameBytesOn

\* Node::processReceivedFrame answers an echo request.
LEMMA AnswerEchoGood == PacketInv /\ AnswerEcho => PacketInv'
<1> SUFFICES ASSUME PacketInv, AnswerEcho PROVE PacketInv'
  OBVIOUS
<1> DEFINE h == Here
           a == AnswerOf(h)
           b == [a EXCEPT !.fields.first = TypeEchoReply]
           c == [b EXCEPT !.fields.ttl = 64]
           q == PopulateICMP(c)
<1>1. h \in Packet /\ UpperFits(h) /\ h.upper = "icmp" BY HereGood DEF AnswerEcho
<1>2. HandedOn(q) BY DEF AnswerEcho
<1> HIDE DEF h
<1>3. SameBytes(a, h) BY <1>1, AnswerTyped
<1> HIDE DEF a
<1>4. SameBytes(b, a)
  <2>1. a \in Packet /\ TypeEchoReply \in Byte BY <1>3, ConstantBytes DEF SameBytes
  <2> QED BY <2>1, SetterKeeps
<1> HIDE DEF b
<1>5. SameBytes(c, b)
  <2>1. b \in Packet /\ 64 \in Byte BY <1>4, ConstantBytes DEF SameBytes
  <2> QED BY <2>1, SetterKeeps
<1> HIDE DEF c
<1>6. SameBytes(c, h) BY <1>3, <1>4, <1>5, SameBytesOn
<1>7. c \in Packet /\ c.fields.proto = ICMP /\ UpperFits(c) BY <1>1, <1>6 DEF SameBytes, UpperFits
<1>8. Good(q) /\ Verifies(q.raw.ip) /\ BodyVerifies(q.fields, q.raw.l4) BY <1>7, IcmpGood
<1> HIDE DEF q
<1> QED BY <1>2, <1>8, HandedOnGood

\* UDPPingResponder::processReceivedPacket answers with the ports exchanged.
LEMMA AnswerUdpGood == PacketInv /\ AnswerUdp => PacketInv'
<1> SUFFICES ASSUME PacketInv, AnswerUdp PROVE PacketInv'
  OBVIOUS
<1> DEFINE h == Here
           x == h.fields.first
           y == h.fields.second
           a == AnswerOf(h)
           b == [a EXCEPT !.fields.first = y]
           c == [b EXCEPT !.fields.second = x]
           q == PopulateUDP(c)
<1>1. h \in Packet /\ UpperFits(h) /\ h.upper = "udp" BY HereGood DEF AnswerUdp
<1>2. HandedOn(q) BY DEF AnswerUdp
<1> HIDE DEF h
<1>3. SameBytes(a, h) BY <1>1, AnswerTyped
<1>4. x \in Byte /\ y \in Byte BY <1>1, PacketParts, FieldsParts
<1> HIDE DEF a, x, y
<1>5. SameBytes(b, a)
  <2>1. a \in Packet BY <1>3 DEF SameBytes
  <2> QED BY <1>4, <2>1, SetterKeeps
<1> HIDE DEF b
<1>6. SameBytes(c, b)
  <2>1. b \in Packet BY <1>5 DEF SameBytes
  <2> QED BY <1>4, <2>1, SetterKeeps
<1> HIDE DEF c
<1>7. SameBytes(c, h) BY <1>3, <1>5, <1>6, SameBytesOn
<1>8. c \in Packet /\ c.fields.proto = UDP /\ UpperFits(c) BY <1>1, <1>7 DEF SameBytes, UpperFits
<1>9. Good(q) /\ Verifies(q.raw.ip) /\ BodyVerifies(q.fields, q.raw.l4) BY <1>8, UdpGood
<1> HIDE DEF q
<1> QED BY <1>2, <1>9, HandedOnGood

\* Router::routePacket populates the header with the time to live that is left.
LEMMA ForwardGood == PacketInv /\ Forward => PacketInv'
<1> SUFFICES ASSUME PacketInv, Forward PROVE PacketInv'
  OBVIOUS
<1>1. PICK mac \in {3, 4} : HandedOn(SentOn(PopulateIPv4([Here EXCEPT !.fields.ttl = @ - 1]), mac))
  BY DEF Forward
<1> DEFINE h == Here
           v == h.fields.ttl - 1
           b == [h EXCEPT !.fields.ttl = v]
           c == PopulateIPv4(b)
           q == SentOn(c, mac)
<1>2. /\ h \in Packet /\ UpperFits(h) /\ (h.upper # "none" => BodySays(h))
      /\ (whole => BodyVerifies(h.fields, h.raw.l4)) /\ h.fields.ttl > 1
  BY HereGood DEF Forward
<1>3. HandedOn(q) BY <1>1
<1>4. mac \in Byte BY ConstantBytes
<1> HIDE DEF h
<1>5. v \in Byte /\ h.fields \in Fields
  <2>1. h.fields.ttl \in Byte /\ h.fields \in Fields BY <1>2, PacketParts, FieldsParts
  <2> QED BY <1>2, <2>1 DEF Byte
<1> HIDE DEF v
<1>6. SameBytes(b, h) /\ b.fields = [h.fields EXCEPT !.ttl = v] BY <1>2, <1>5, SetterKeeps
<1> HIDE DEF b
<1>7. SameRoute(b, h) /\ SameBody(b, h) BY <1>5, <1>6 DEF SameRoute, SameBody, Fields
<1>8. b \in Packet /\ UpperFits(b) /\ (b.upper # "none" => BodySays(b))
  BY <1>2, <1>6, <1>7 DEF SameBytes, SameBody, UpperFits, BodySays
<1>9. Good(c) /\ SameObjects(c, b) /\ Verifies(c.raw.ip) /\ c.raw.l4 = b.raw.l4 BY <1>8, Ipv4Good
<1> HIDE DEF c
<1>10. Good(q) /\ q.raw.ip = c.raw.ip /\ q.raw.l4 = c.raw.l4 /\ SameRoute(q, c)
  <2>1. c \in Packet /\ IpSays(c) /\ (c.upper # "none" => BodySays(c)) /\ UpperFits(c) BY <1>9 DEF Good
  <2> QED BY <1>4, <2>1, SentOnGood
<1> HIDE DEF q
<1>11. SameRoute(q, h) /\ q.raw.l4 = h.raw.l4
  BY <1>6, <1>7, <1>9, <1>10 DEF SameRoute, SameObjects, SameBytes
<1>12. whole => BodyVerifies(q.fields, q.raw.l4) BY <1>2, <1>11, VerifiesByRoute
<1> QED BY <1>3, <1>9, <1>10, <1>12, HandedOnGood

\* A body of an ICMP packet verifies whatever its addresses are.
LEMMA IcmpByProtocol ==
  ASSUME NEW f, NEW g, f.proto = ICMP, g.proto = ICMP, NEW body, BodyVerifies(f, body)
  PROVE  BodyVerifies(g, body)
BY DEF BodyVerifies

\* OneToOneIcmpProxy::processReceivedPacket changes the addresses only.
LEMMA PassIcmpGood == PacketInv /\ PassIcmp => PacketInv'
<1> SUFFICES ASSUME PacketInv, PassIcmp PROVE PacketInv'
  OBVIOUS
<1>1. PICK me \in NodeIp, to \in NodeIp : HandedOn(SentOn(PopulateIPv4(Readdressed(Here, me, to)), 3))
  BY DEF PassIcmp
<1> DEFINE h == Here
           b == Readdressed(h, me, to)
           c == PopulateIPv4(b)
           q == SentOn(c, 3)
<1>2. /\ h \in Packet /\ UpperFits(h) /\ (h.upper # "none" => BodySays(h))
      /\ (whole => BodyVerifies(h.fields, h.raw.l4)) /\ h.fields.proto = ICMP
  BY HereGood DEF PassIcmp
<1>3. HandedOn(q) BY <1>1
<1>4. me \in Byte /\ to \in Byte /\ 3 \in Byte BY ConstantBytes
<1> HIDE DEF h
<1>5. SameBytes(b, h) /\ SameBody(b, h) BY <1>2, <1>4, ReaddressedKeeps
<1> HIDE DEF b
<1>6. b \in Packet /\ UpperFits(b) /\ (b.upper # "none" => BodySays(b))
  BY <1>2, <1>5 DEF SameBytes, SameBody, UpperFits, BodySays
<1>7. Good(c) /\ SameObjects(c, b) /\ Verifies(c.raw.ip) /\ c.raw.l4 = b.raw.l4 BY <1>6, Ipv4Good
<1> HIDE DEF c
<1>8. Good(q) /\ q.raw.ip = c.raw.ip /\ q.raw.l4 = c.raw.l4 /\ SameRoute(q, c)
  <2>1. c \in Packet /\ IpSays(c) /\ (c.upper # "none" => BodySays(c)) /\ UpperFits(c) BY <1>7 DEF Good
  <2> QED BY <1>4, <2>1, SentOnGood
<1> HIDE DEF q
<1>9. q.fields.proto = ICMP /\ q.raw.l4 = h.raw.l4
  BY <1>2, <1>5, <1>7, <1>8 DEF SameRoute, SameObjects, SameBytes
<1>10. whole => BodyVerifies(q.fields, q.raw.l4) BY <1>2, <1>9, IcmpByProtocol
<1> QED BY <1>3, <1>7, <1>8, <1>10, HandedOnGood

\* The first bytes
LEMMA FirstBytes ==
  ASSUME NEW b \in Seq(Byte), NEW j \in Nat, j <= Len(b)
  PROVE  SubSeq(b, 1, j) \in Seq(Byte) /\ Len(SubSeq(b, 1, j)) = j
<1> DEFINE r == SubSeq(b, 1, j)
<1>1. Len(b) \in Nat BY LenProperties
<1>2. \A k \in 1 .. j : b[k] \in Byte BY <1>1, ElementOfSeq
<1>3. r \in Seq(Byte) /\ Len(r) = IF 1 <= j THEN j - 1 + 1 ELSE 0 BY <1>2, SubSeqProperties
<1> HIDE DEF r
<1>4. Len(r) = j BY <1>3
<1> QED BY <1>3, <1>4 DEF r

BodySetTo(p, body) == [p EXCEPT !.raw.l4 = body]

\* Other bytes in the body
LEMMA BodyReplaced ==
  ASSUME NEW p \in Packet, NEW v \in Seq(Byte), Len(v) >= 4, Len(v) \in Word,
         NEW q, q = BodySetTo(p, v)
  PROVE  q \in Packet /\ SameObjects(q, p) /\ q.raw.l4 = v
<1>1. q = PacketWith(p, p.raw.eth, p.raw.ip, v) BY LayerChanged DEF BodySetTo
<1>2. /\ p.raw.eth \in Seq(Byte) /\ Len(p.raw.eth) = 2
      /\ p.raw.ip \in Seq(Byte) /\ Len(p.raw.ip) = 6
  BY PacketParts, RawParts
<1> QED BY <1>1, <1>2, PacketWithTyped

\* The checksum is turned on or off.
LEMMA ChecksumSetTyped ==
  ASSUME NEW p \in Packet, NEW c \in BOOLEAN, NEW q, q = ChecksumSetTo(p, c)
  PROVE  q \in Packet /\ q.raw = p.raw /\ q.fields = p.fields /\ q.upper = p.upper
<1>1. /\ p.raw \in Raw /\ p.fields \in Fields /\ p.upper \in {"none", "icmp", "udp"}
      /\ p = PacketOf(p.raw, p.fields, p.upper, p.checksum)
  BY PacketParts DEF PacketOf
<1>2. q = PacketOf(p.raw, p.fields, p.upper, c) BY <1>1, ChecksumIsSet
<1>3. q = [raw |-> p.raw, fields |-> p.fields, upper |-> p.upper, checksum |-> c] BY <1>2 DEF PacketOf
<1> QED BY <1>1, <1>3 DEF Packet

\* An ICMP packet of a node's own
LEMMA IcmpMade ==
  ASSUME NEW src \in Byte, NEW dst \in Byte, NEW body \in Seq(Byte), Len(body) >= 4, Len(body) \in Word,
         NEW a, a = Made(ICMP, src, dst, body)
  PROVE  a \in Packet /\ UpperFits(a) /\ a.fields.proto = ICMP
<1>1. ICMP \in {ICMP, UDP} OBVIOUS
<1> QED BY <1>1, MadeTyped

\* Router::createICMPMessage and its kin: an error quotes the packet it is about.
LEMMA AnswerErrorGood == PacketInv /\ AnswerError => PacketInv'
<1> SUFFICES ASSUME PacketInv, AnswerError PROVE PacketInv'
  OBVIOUS
<1> DEFINE h == Here
           head == <<TypeUnreachable, 0, 0, 0>>
           front == SubSeq(h.raw.l4, 1, 2)
           quoted == h.raw.ip \o front
           body == head \o quoted
<1>1. PICK me \in NodeIp :
        LET error == Made(ICMP, me, h.fields.src, <<TypeUnreachable, 0, 0, 0>> \o Quoted(h))
        IN HandedOn(PopulateICMP([error EXCEPT !.fields.dmac = h.fields.smac]))
  BY DEF AnswerError
<1> DEFINE a == Made(ICMP, me, h.fields.src, body)
           b == [a EXCEPT !.fields.dmac = h.fields.smac]
           q == PopulateICMP(b)
<1>2. HandedOn(q) BY <1>1 DEF Quoted
<1>3. h \in Packet BY HereGood
<1>4. me \in Byte BY ConstantBytes
<1> HIDE DEF h
<1>5. h.raw \in Raw /\ h.fields.src \in Byte /\ h.fields.smac \in Byte
  BY <1>3, PacketParts, FieldsParts
<1>6. head \in Seq(Byte) /\ Len(head) = 4
  <2>1. TypeUnreachable \in Byte /\ 0 \in Byte BY ConstantBytes
  <2> QED BY <2>1
<1>7. front \in Seq(Byte) /\ Len(front) = 2
  <2>1. h.raw.l4 \in Seq(Byte) /\ Len(h.raw.l4) >= 4 /\ Len(h.raw.l4) \in Nat
    BY <1>5, RawParts, LenProperties
  <2>2. 2 \in Nat /\ 2 <= Len(h.raw.l4) BY <2>1
  <2> QED BY <2>1, <2>2, FirstBytes
<1> HIDE DEF head, front
<1>8. quoted \in Seq(Byte) /\ Len(quoted) = 8
  <2>1. h.raw.ip \in Seq(Byte) /\ Len(h.raw.ip) = 6 BY <1>5, RawParts
  <2>2. quoted \in Seq(Byte) /\ Len(quoted) = Len(h.raw.ip) + Len(front) BY <1>7, <2>1, Joined
  <2> QED BY <1>7, <2>1, <2>2
<1> HIDE DEF quoted
<1>9. body \in Seq(Byte) /\ Len(body) = 12
  <2>1. body \in Seq(Byte) /\ Len(body) = Len(head) + Len(quoted) BY <1>6, <1>8, Joined
  <2> QED BY <1>6, <1>8, <2>1
<1> HIDE DEF body
<1>10. a \in Packet /\ UpperFits(a) /\ a.fields.proto = ICMP
  <2>1. Len(body) >= 4 /\ Len(body) \in Word BY <1>9, SMT DEF Word
  <2>2. a = Made(ICMP, me, h.fields.src, body) OBVIOUS
  <2> HIDE DEF a
  <2> QED BY <1>4, <1>5, <1>9, <2>1, <2>2, IcmpMade
<1> HIDE DEF a
<1>11. SameBytes(b, a) BY <1>5, <1>10, SetterKeeps
<1> HIDE DEF b
<1>12. b \in Packet /\ b.fields.proto = ICMP /\ UpperFits(b) BY <1>10, <1>11 DEF SameBytes, UpperFits
<1>13. Good(q) /\ Verifies(q.raw.ip) /\ BodyVerifies(q.fields, q.raw.l4) BY <1>12, IcmpGood
<1> HIDE DEF q
<1> QED BY <1>2, <1>13, HandedOnGood

\* A packet of a UDP program's own, before it is populated and after
LEMMA UdpMade ==
  ASSUME NEW src \in Byte, NEW dst \in Byte, NEW body \in Seq(Byte), Len(body) >= 4, Len(body) \in Word,
         NEW q, q = PopulateUDP(Made(UDP, src, dst, body))
  PROVE  Good(q) /\ q.fields.proto = UDP
<1> DEFINE a == Made(UDP, src, dst, body)
<1>1. a \in Packet /\ UpperFits(a) /\ a.fields.proto = UDP
  <2>1. UDP \in {ICMP, UDP} OBVIOUS
  <2> QED BY <2>1, MadeTyped
<1>2. q = PopulateUDP(a) OBVIOUS
<1> HIDE DEF a
<1>3. Good(q) /\ SameObjects(q, a) BY <1>1, <1>2, UdpGood
<1> QED BY <1>1, <1>3 DEF SameObjects

\* BitTorrentTracker: the answer's data is written to its bytes, and it is populated again.
LEMMA AnswerTrackerGood == PacketInv /\ AnswerTracker => PacketInv'
<1> SUFFICES ASSUME PacketInv, AnswerTracker PROVE PacketInv'
  OBVIOUS
<1> DEFINE h == Here
           body == <<5, 6, 0, 0, 0, 0, 0>>
           p == PopulateUDP(Made(UDP, h.fields.dst, h.fields.src, body))
           front == SubSeq(p.raw.l4, 1, 4)
           data == <<255, 254, 9>>
           v == front \o data
           a == BodySetTo(p, v)
<1>1. PICK force \in BOOLEAN :
        HandedOn(SentOn(PopulateUDP([p EXCEPT !.raw.l4 = SubSeq(@, 1, 4) \o <<255, 254, 9>>,
                                              !.checksum = force]), 3))
  BY DEF AnswerTracker
<1> DEFINE b == ChecksumSetTo(a, force)
           c == PopulateUDP(b)
           q == SentOn(c, 3)
<1>2. h \in Packet BY HereGood
<1>3. h.fields.dst \in Byte /\ h.fields.src \in Byte BY <1>2, PacketParts, FieldsParts
<1>4. HandedOn(q)
  <2> HIDE DEF h, p
  <2>1. [p EXCEPT !.raw.l4 = SubSeq(@, 1, 4) \o <<255, 254, 9>>, !.checksum = force] = b
    BY DEF ChecksumSetTo, BodySetTo
  <2> HIDE DEF b
  <2> QED BY <1>1, <2>1
<1> HIDE DEF h
<1>5. body \in Seq(Byte) /\ Len(body) = 7
  <2>1. 0 \in Byte /\ 5 \in Byte /\ 6 \in Byte BY ConstantBytes
  <2> QED BY <2>1
<1> HIDE DEF body
<1>6. Good(p) /\ p.fields.proto = UDP
  <2>1. Len(body) >= 4 /\ Len(body) \in Word BY <1>5, SMT DEF Word
  <2> QED BY <1>3, <1>5, <2>1, UdpMade
<1> HIDE DEF p
<1>7. front \in Seq(Byte) /\ Len(front) = 4
  <2>1. p.raw \in Raw BY <1>6, PacketParts DEF Good
  <2>2. p.raw.l4 \in Seq(Byte) /\ Len(p.raw.l4) >= 4 BY <2>1, RawParts
  <2>3. 4 \in Nat /\ 4 <= Len(p.raw.l4)
    <3>1. Len(p.raw.l4) \in Nat BY <2>2, LenProperties
    <3> QED BY <2>2, <3>1
  <2> QED BY <2>2, <2>3, FirstBytes
<1>8. data \in Seq(Byte) /\ Len(data) = 3
  <2>1. 255 \in Byte /\ 254 \in Byte /\ 9 \in Byte BY ConstantBytes
  <2> QED BY <2>1
<1> HIDE DEF front, data
<1>9. v \in Seq(Byte) /\ Len(v) >= 4 /\ Len(v) \in Word
  <2>1. v \in Seq(Byte) /\ Len(v) = Len(front) + Len(data) BY <1>7, <1>8, Joined
  <2>2. Len(v) = 7 BY <1>7, <1>8, <2>1
  <2> QED BY <2>1, <2>2, SMT DEF Word
<1> HIDE DEF v
<1>10. a \in Packet /\ SameObjects(a, p)
  <2>1. p \in Packet BY <1>6 DEF Good
  <2> QED BY <1>9, <2>1, BodyReplaced
<1> HIDE DEF a
<1>11. b \in Packet /\ b.fields = a.fields /\ b.upper = a.upper BY <1>10, ChecksumSetTyped
<1> HIDE DEF b
<1>12. b.fields.proto = UDP /\ UpperFits(b)
  BY <1>6, <1>10, <1>11 DEF Good, SameObjects, UpperFits
<1>13. Good(c) /\ Verifies(c.raw.ip) /\ BodyVerifies(c.fields, c.raw.l4) BY <1>11, <1>12, UdpGood
<1> HIDE DEF c
<1>14. Good(q) /\ q.raw.ip = c.raw.ip /\ q.raw.l4 = c.raw.l4 /\ SameRoute(q, c)
  <2>1. c \in Packet /\ IpSays(c) /\ (c.upper # "none" => BodySays(c)) /\ UpperFits(c) BY <1>13 DEF Good
  <2>2. 3 \in Byte BY ConstantBytes
  <2> QED BY <2>1, <2>2, SentOnGood
<1> HIDE DEF q
<1>15. BodyVerifies(q.fields, q.raw.l4) BY <1>13, <1>14, VerifiesByRoute
<1> QED BY <1>4, <1>13, <1>14, <1>15, HandedOnGood

\* A body and the checksum over it and the pseudo header of f verify.
LEMMA StampedBodyVerifies ==
  ASSUME NEW f \in Fields, f.proto # ICMP, NEW b \in Seq(Byte), Len(b) >= 4, Len(b) \in Word,
         b[3] = 0, b[4] = 0,
         NEW t, t = WithChecksum(b, Stored(TwoPartChecksum(b, PseudoHeader(f, b))))
  PROVE  t \in Seq(Byte) /\ Len(t) = Len(b) /\ BodyVerifies(f, t)
<1> DEFINE h == PseudoHeader(f, b)
           c == TwoPartChecksum(b, h)
<1>1. h \in Seq(Word) /\ Len(h) = 6 BY PseudoTyped
<1>2. t = WithChecksum(b, Stored(c)) OBVIOUS
<1> HIDE DEF h
<1>3. c \in Word
  <2>1. Small(HostSum(b)) /\ Small(HostSum(h)) BY <1>1, BytesSumSmall, WordsSumSmall
  <2> QED BY <2>1, TwoPartCompletes DEF Completes
<1> HIDE DEF c
<1>4. c % 256 \in Byte /\ c \div 256 \in Byte /\ Stored(c) = <<c % 256, c \div 256>> BY <1>3, StoredTyped
<1>5. /\ t \in Seq(Byte) /\ Len(t) = Len(b) /\ t[3] = c % 256 /\ t[4] = c \div 256
      /\ \A k \in 1 .. Len(b) : k \notin {3, 4} => t[k] = b[k]
  <2> DEFINE x == c % 256
             y == c \div 256
  <2>1. x \in Byte /\ y \in Byte /\ t = WithChecksum(b, <<x, y>>) BY <1>2, <1>4
  <2> HIDE DEF x, y
  <2>2. /\ t \in Seq(Byte) /\ Len(t) = Len(b) /\ t[3] = x /\ t[4] = y
        /\ \A k \in 1 .. Len(b) : k \notin {3, 4} => t[k] = b[k]
    BY <2>1, WithChecksumTyped
  <2> QED BY <2>2 DEF x, y
<1>6. Stamped(t, b, c) BY <1>5 DEF Stamped
<1>7. (NetworkSum(t) + NetworkSum(h)) % 65535 = 0 BY <1>1, <1>6, StampedVerifiesWith DEF c
<1>8. PseudoHeader(f, t) = h BY <1>5 DEF PseudoHeader, h
<1>9. BodyVerifies(f, t) BY <1>7, <1>8 DEF BodyVerifies
<1> QED BY <1>5, <1>9

\* GeneralTCPReverseProxy writes the ports and the checksum into the bytes.
LEMMA RelayTcpGood == PacketInv /\ RelayTcp => PacketInv'
<1> SUFFICES ASSUME PacketInv, RelayTcp PROVE PacketInv'
  OBVIOUS
<1>1. PICK to \in NodeIp :
        LET p == [Readdressed(Here, Here.fields.dst, to) EXCEPT !.fields.ttl = 64]
            body == Zeroed(<<5, 6>> \o SubSeq(p.raw.l4, 3, Len(p.raw.l4)))
            checksum == TwoPartChecksum(body, PseudoHeader(p.fields, body))
        IN HandedOn(PopulateIPv4(Returned([p EXCEPT !.raw.l4 = WithChecksum(body, Stored(checksum))])))
  BY DEF RelayTcp
<1> DEFINE h == Here
           a == Readdressed(h, h.fields.dst, to)
           p == [a EXCEPT !.fields.ttl = 64]
           l4 == p.raw.l4
           ports == <<5, 6>>
           rest == SubSeq(l4, 3, Len(l4))
           b == ports \o rest
           body == Zeroed(b)
           t == WithChecksum(body, Stored(TwoPartChecksum(body, PseudoHeader(p.fields, body))))
           d == BodySetTo(p, t)
           e == Returned(d)
           q == PopulateIPv4(e)
<1>2. HandedOn(q)
  <2> HIDE DEF h
  <2> QED BY <1>1 DEF BodySetTo, h
<1>3. h \in Packet /\ UpperFits(h) /\ h.fields.proto = TCP BY HereGood DEF RelayTcp
<1>4. to \in Byte /\ 64 \in Byte BY ConstantBytes
<1>5. TCP # ICMP /\ TCP # UDP BY DEF TCP, ICMP, UDP
<1> HIDE DEF h
<1>6. SameBytes(a, h)
  <2>1. h.fields.dst \in Byte BY <1>3, PacketParts, FieldsParts
  <2> QED BY <1>3, <1>4, <2>1, ReaddressedKeeps
<1> HIDE DEF a
<1>7. SameBytes(p, a)
  <2>1. a \in Packet BY <1>6 DEF SameBytes
  <2> QED BY <1>4, <2>1, SetterKeeps
<1> HIDE DEF p
<1>8. p \in Packet /\ p.fields.proto = TCP /\ UpperFits(p) /\ p.upper = "none"
  <2>1. p \in Packet /\ p.upper = h.upper /\ p.fields.proto = h.fields.proto
    BY <1>6, <1>7 DEF SameBytes
  <2>2. p.upper \in {"none", "icmp", "udp"} BY <2>1, PacketParts
  <2> QED BY <1>3, <1>5, <2>1, <2>2 DEF UpperFits
<1>9. p.fields \in Fields /\ l4 \in Seq(Byte) /\ Len(l4) >= 4 /\ Len(l4) \in Word /\ Len(l4) \in Nat
  BY <1>8, PacketParts, RawParts, LenProperties
<1> HIDE DEF l4
<1>10. ports \in Seq(Byte) /\ Len(ports) = 2
  <2>1. 5 \in Byte /\ 6 \in Byte BY ConstantBytes
  <2> QED BY <2>1
<1>11. rest \in Seq(Byte) /\ Len(rest) = Len(l4) - 2
  <2> DEFINE j == 2
  <2>1. j \in Nat /\ j <= Len(l4) /\ j + 1 = 3 BY <1>9
  <2>2. rest = SubSeq(l4, j + 1, Len(l4)) BY <2>1
  <2> HIDE DEF j, rest
  <2>3. rest \in Seq(Byte) /\ Len(rest) = Len(l4) - j BY <1>9, <2>1, <2>2, Rest
  <2> QED BY <2>3 DEF j
<1> HIDE DEF ports, rest
<1>12. b \in Seq(Byte) /\ Len(b) = Len(l4)
  <2>1. b \in Seq(Byte) /\ Len(b) = Len(ports) + Len(rest) BY <1>10, <1>11, Joined
  <2> QED BY <1>9, <1>10, <1>11, <2>1
<1> HIDE DEF b
<1>13. body \in Seq(Byte) /\ Len(body) = Len(l4) /\ body[3] = 0 /\ body[4] = 0
  <2> DEFINE z == 0
  <2>1. z \in Byte /\ Len(b) >= 4 /\ body = WithChecksum(b, <<z, z>>)
    BY <1>9, <1>12, ConstantBytes DEF Zeroed
  <2> HIDE DEF z, body
  <2>2. body \in Seq(Byte) /\ Len(body) = Len(b) /\ body[3] = z /\ body[4] = z
    BY <1>12, <2>1, WithChecksumTyped
  <2> QED BY <1>12, <2>2 DEF z
<1> HIDE DEF body
<1>14. t \in Seq(Byte) /\ Len(t) = Len(body) /\ BodyVerifies(p.fields, t)
  <2>1. p.fields.proto # ICMP /\ Len(body) >= 4 /\ Len(body) \in Word BY <1>5, <1>8, <1>9, <1>13
  <2> QED BY <1>9, <1>13, <2>1, StampedBodyVerifies
<1> HIDE DEF t
<1>15. d \in Packet /\ SameObjects(d, p) /\ d.raw.l4 = t
  <2>1. Len(t) >= 4 /\ Len(t) \in Word BY <1>9, <1>13, <1>14
  <2> QED BY <1>8, <1>14, <2>1, BodyReplaced
<1> HIDE DEF d
<1>16. SameBytes(e, d) /\ SameRoute(e, d) BY <1>15, ReturnedKeeps
<1> HIDE DEF e
<1>17. e \in Packet /\ e.upper = "none" /\ UpperFits(e)
  BY <1>8, <1>15, <1>16 DEF SameBytes, SameObjects, UpperFits
<1>18. Good(q) /\ SameObjects(q, e) /\ Verifies(q.raw.ip) /\ q.raw.l4 = e.raw.l4 BY <1>17, Ipv4Good
<1> HIDE DEF q
<1>19. SameRoute(q, p) /\ q.raw.l4 = t
  BY <1>15, <1>16, <1>18 DEF SameRoute, SameObjects, SameBytes
<1>20. BodyVerifies(q.fields, q.raw.l4) BY <1>14, <1>19, VerifiesByRoute
<1> QED BY <1>2, <1>18, <1>20, HandedOnGood

-----------------------------------------------------------------------------
(* The bytes of a packet come back, or its objects are copied. *)

\* The objects that are read from bytes say what the bytes say.
LEMMA FromBytesGood ==
  ASSUME NEW raw \in Raw, NEW q, q = FromBytes(raw)
  PROVE  Good(q) /\ q.raw = raw /\ q.upper = "none"
<1> DEFINE f == FieldsOf(raw)
<1>1. /\ raw.eth \in Seq(Byte) /\ Len(raw.eth) = 2 /\ raw.ip \in Seq(Byte) /\ Len(raw.ip) = 6
      /\ raw.l4 \in Seq(Byte) /\ Len(raw.l4) >= 4 /\ Len(raw.l4) \in Nat
  BY RawParts, LenProperties
<1>2. /\ raw.eth[1] \in Byte /\ raw.eth[2] \in Byte /\ raw.ip[1] \in Byte /\ raw.ip[2] \in Byte
      /\ raw.ip[5] \in Byte /\ raw.ip[6] \in Byte /\ raw.l4[1] \in Byte /\ raw.l4[2] \in Byte
  <2>1. /\ 1 \in 1 .. Len(raw.eth) /\ 2 \in 1 .. Len(raw.eth) /\ 1 \in 1 .. Len(raw.l4)
        /\ 2 \in 1 .. Len(raw.l4)
    BY <1>1
  <2>2. 1 \in 1 .. Len(raw.ip) /\ 2 \in 1 .. Len(raw.ip) /\ 5 \in 1 .. Len(raw.ip) /\ 6 \in 1 .. Len(raw.ip)
    BY <1>1
  <2> QED BY <1>1, <2>1, <2>2, ElementOfSeq
<1>3. f \in Fields BY <1>2 DEF FieldsOf, Fields
<1>4. /\ f.dmac = raw.eth[1] /\ f.smac = raw.eth[2] /\ f.ttl = raw.ip[1] /\ f.proto = raw.ip[2]
      /\ f.src = raw.ip[5] /\ f.dst = raw.ip[6]
  BY DEF FieldsOf
<1> HIDE DEF f
<1>5. PICK c \in BOOLEAN : q = PacketOf(raw, f, "none", c)
  <2>1. q = PacketOf(raw, f, "none", TRUE) BY Zenon DEF FromBytes, PacketOf, f
  <2>2. TRUE \in BOOLEAN OBVIOUS
  <2>3. \E c \in BOOLEAN : q = PacketOf(raw, f, "none", c)
    <3> WITNESS TRUE \in BOOLEAN
    <3> QED BY <2>1, Zenon
  <2> QED BY <2>3, Zenon
<1>6. q.raw = raw /\ q.fields = f /\ q.upper = "none" /\ q \in Packet
  BY <1>3, <1>5 DEF PacketOf, Packet
<1>7. EthSays(q) /\ IpSays(q) BY <1>4, <1>6 DEF EthSays, IpSays
<1> QED BY <1>6, <1>7 DEF Good, UpperFits

\* A client or an adapter sends the bytes back.
LEMMA ThroughClientGood == PacketInv /\ ThroughClient => PacketInv'
<1> SUFFICES ASSUME PacketInv, ThroughClient PROVE PacketInv'
  OBVIOUS
<1> DEFINE q == FromBytes(packet.raw)
<1>1. packet' = q /\ handled' = handled /\ whole' = whole BY DEF ThroughClient
<1>2. /\ Good(packet) /\ handled \in Nat /\ whole \in BOOLEAN
      /\ handled > 0 => Verifies(packet.raw.ip)
      /\ whole => BodyVerifies(packet.fields, packet.raw.l4)
  BY DEF PacketInv
<1>3. Good(q) /\ q.raw = packet.raw
  <2>1. packet.raw \in Raw BY <1>2, PacketParts DEF Good
  <2> QED BY <2>1, FromBytesGood
<1> HIDE DEF q
<1>4. SameRoute(q, packet) BY <1>2, <1>3 DEF Good, IpSays, SameRoute
<1>5. whole => BodyVerifies(q.fields, q.raw.l4) BY <1>2, <1>3, <1>4, VerifiesByRoute
<1> QED BY <1>1, <1>2, <1>3, <1>5 DEF PacketInv

\* A copy of the objects says the same.
LEMMA ClonedGood ==
  ASSUME NEW p, Good(p), NEW q, q = Cloned(p)
  PROVE  Good(q) /\ q.raw = p.raw /\ SameRoute(q, p)
<1>1. p \in Packet BY DEF Good
<1>2. p.raw \in Raw /\ p.fields \in Fields /\ p.upper \in {"none", "icmp", "udp"} BY <1>1, PacketParts
<1>3. \A u : [ClonedIPv4(p) EXCEPT !.upper = u] = PacketOf(p.raw, p.fields, u, TRUE)
  <2>1. ASSUME NEW c PROVE \A u : [PacketOf(p.raw, p.fields, "none", c) EXCEPT !.upper = u]
                                    = PacketOf(p.raw, p.fields, u, c)
    BY DEF PacketOf
  <2>2. ClonedIPv4(p) = PacketOf(p.raw, p.fields, "none", TRUE) BY Zenon DEF ClonedIPv4, PacketOf
  <2> QED BY <2>1, <2>2, Zenon
<1>4. q = PacketOf(p.raw, p.fields, p.upper, TRUE)
  <2>1. ClonedIPv4(p) = PacketOf(p.raw, p.fields, "none", TRUE) BY Zenon DEF ClonedIPv4, PacketOf
  <2>2. CASE p.upper = "none" BY <2>1, <2>2 DEF Cloned
  <2>3. CASE p.upper = "icmp" BY <1>3, <2>3 DEF Cloned, ClonedIcmp
  <2>4. CASE p.upper = "udp" BY <1>3, <2>4 DEF Cloned, ClonedUdp
  <2> QED BY <1>2, <2>2, <2>3, <2>4
<1>5. PICK c \in BOOLEAN : q = PacketOf(p.raw, p.fields, p.upper, c)
  <2>1. TRUE \in BOOLEAN OBVIOUS
  <2>2. \E c \in BOOLEAN : q = PacketOf(p.raw, p.fields, p.upper, c)
    <3> WITNESS TRUE \in BOOLEAN
    <3> QED BY <1>4, Zenon
  <2> QED BY <2>2, Zenon
<1>6. q.raw = p.raw /\ q.fields = p.fields /\ q.upper = p.upper /\ q \in Packet
  BY <1>2, <1>5 DEF PacketOf, Packet
<1> QED BY <1>6 DEF Good, EthSays, IpSays, BodySays, UpperFits, SameRoute

\* A copy takes the place of a shared packet.
LEMMA CopiedGood == PacketInv /\ Copied => PacketInv'
<1> SUFFICES ASSUME PacketInv, Copied PROVE PacketInv'
  OBVIOUS
<1> DEFINE q == Cloned(packet)
<1>1. packet' = q /\ handled' = handled /\ whole' = whole BY DEF Copied
<1>2. /\ Good(packet) /\ handled \in Nat /\ whole \in BOOLEAN
      /\ handled > 0 => Verifies(packet.raw.ip)
      /\ whole => BodyVerifies(packet.fields, packet.raw.l4)
  BY DEF PacketInv
<1>3. Good(q) /\ q.raw = packet.raw /\ SameRoute(q, packet) BY <1>2, ClonedGood
<1> HIDE DEF q
<1>4. whole => BodyVerifies(q.fields, q.raw.l4) BY <1>2, <1>3, VerifiesByRoute
<1> QED BY <1>1, <1>2, <1>3, <1>4 DEF PacketInv

-----------------------------------------------------------------------------
(* The invariant holds, and it says what a frame that is sent has. *)

\* Pinger numbers its echo requests in a field.
LEMMA PingGood ==
  ASSUME NEW me \in NodeIp, NEW to \in NodeIp, NEW seq \in Byte, NEW q, q = Ping(me, to, seq)
  PROVE  Good(q) /\ Verifies(q.raw.ip) /\ BodyVerifies(q.fields, q.raw.l4)
<1> DEFINE body == <<TypeEcho, 0, 0, 0, 0>>
           a == Made(ICMP, me, to, body)
           p == PopulateICMP(a)
           b == [p EXCEPT !.fields.second = seq]
           c == PopulateICMP(b)
<1>1. q = SentOn(c, 3) BY DEF Ping
<1>2. me \in Byte /\ to \in Byte /\ 3 \in Byte BY ConstantBytes
<1>3. body \in Seq(Byte) /\ Len(body) = 5
  <2>1. 0 \in Byte /\ TypeEcho \in Byte BY ConstantBytes
  <2> QED BY <2>1
<1> HIDE DEF body
<1>4. a \in Packet /\ UpperFits(a) /\ a.fields.proto = ICMP
  <2>1. Len(body) >= 4 /\ Len(body) \in Word BY <1>3, SMT DEF Word
  <2>2. a = Made(ICMP, me, to, body) OBVIOUS
  <2> HIDE DEF a
  <2> QED BY <1>2, <1>3, <2>1, <2>2, IcmpMade
<1> HIDE DEF a
<1>5. Good(p) /\ SameObjects(p, a) BY <1>4, IcmpGood
<1> HIDE DEF p
<1>6. SameBytes(b, p)
  <2>1. p \in Packet BY <1>5 DEF Good
  <2> QED BY <2>1, SetterKeeps
<1> HIDE DEF b
<1>7. b \in Packet /\ b.fields.proto = ICMP /\ UpperFits(b)
  BY <1>4, <1>5, <1>6 DEF Good, SameBytes, SameObjects, UpperFits
<1>8. Good(c) /\ Verifies(c.raw.ip) /\ BodyVerifies(c.fields, c.raw.l4) BY <1>7, IcmpGood
<1> HIDE DEF c
<1>9. Good(q) /\ q.raw.ip = c.raw.ip /\ q.raw.l4 = c.raw.l4 /\ SameRoute(q, c)
  <2>1. c \in Packet /\ IpSays(c) /\ (c.upper # "none" => BodySays(c)) /\ UpperFits(c) BY <1>8 DEF Good
  <2> QED BY <1>1, <1>2, <2>1, SentOnGood
<1> QED BY <1>8, <1>9, VerifiesByRoute

\* UDPPinger writes the number into the bytes, and populates them again.
LEMMA UdpPingGood ==
  ASSUME NEW me \in NodeIp, NEW to \in NodeIp, NEW seq \in Byte, NEW q, q = UdpPing(me, to, seq)
  PROVE  Good(q) /\ Verifies(q.raw.ip) /\ BodyVerifies(q.fields, q.raw.l4)
<1> DEFINE body == <<7, 7, 0, 0, 0>>
           p == PopulateUDP(Made(UDP, me, to, body))
           l4 == p.raw.l4
           v == [l4 EXCEPT ![5] = seq]
           b == BodySetTo(p, v)
           c == PopulateUDP(b)
<1>1. q = SentOn(c, 3)
  <2> HIDE DEF p
  <2>1. [p EXCEPT !.raw.l4[5] = seq] = b BY DEF BodySetTo
  <2> HIDE DEF b
  <2> QED BY <2>1 DEF UdpPing, p
<1>2. me \in Byte /\ to \in Byte /\ 3 \in Byte BY ConstantBytes
<1>3. body \in Seq(Byte) /\ Len(body) = 5
  <2>1. 0 \in Byte /\ 7 \in Byte BY ConstantBytes
  <2> QED BY <2>1
<1> HIDE DEF body
<1>4. Good(p) /\ p.fields.proto = UDP
  <2>1. Len(body) >= 4 /\ Len(body) \in Word BY <1>3, SMT DEF Word
  <2> QED BY <1>2, <1>3, <2>1, UdpMade
<1> HIDE DEF p
<1>5. l4 \in Seq(Byte) /\ Len(l4) >= 4 /\ Len(l4) \in Word BY <1>4, PacketParts, RawParts DEF Good
<1> HIDE DEF l4
<1>6. v \in Seq(Byte) /\ Len(v) = Len(l4)
  <2>1. Len(l4) \in Nat BY <1>5, LenProperties
  <2>2. CASE Len(l4) >= 5
    <3>1. 5 \in 1 .. Len(l4) BY <2>1, <2>2
    <3> QED BY <1>5, <3>1, ExceptSeq
  <2>3. CASE Len(l4) = 4
    <3>1. 5 \notin DOMAIN l4 BY <1>5, <2>3
    <3>2. v = l4 BY <1>5, <3>1
    <3> QED BY <1>5, <3>2
  <2> HIDE DEF v
  <2>4. Len(l4) >= 5 \/ Len(l4) = 4
    <3> DEFINE n == Len(l4)
    <3>1. n \in Nat /\ n >= 4 BY <1>5, <2>1
    <3> HIDE DEF n
    <3>2. n >= 5 \/ n = 4 BY <3>1
    <3> QED BY <3>2 DEF n
  <2> QED BY <2>2, <2>3, <2>4
<1> HIDE DEF v
<1>7. b \in Packet /\ SameObjects(b, p)
  <2>1. p \in Packet /\ Len(v) >= 4 /\ Len(v) \in Word BY <1>4, <1>5, <1>6 DEF Good
  <2> QED BY <1>6, <2>1, BodyReplaced
<1> HIDE DEF b
<1>8. b.fields.proto = UDP /\ UpperFits(b) BY <1>4, <1>7 DEF Good, SameObjects, UpperFits
<1>9. Good(c) /\ Verifies(c.raw.ip) /\ BodyVerifies(c.fields, c.raw.l4) BY <1>7, <1>8, UdpGood
<1> HIDE DEF c
<1>10. Good(q) /\ q.raw.ip = c.raw.ip /\ q.raw.l4 = c.raw.l4 /\ SameRoute(q, c)
  <2>1. c \in Packet /\ IpSays(c) /\ (c.upper # "none" => BodySays(c)) /\ UpperFits(c) BY <1>9 DEF Good
  <2> QED BY <1>1, <1>2, <2>1, SentOnGood
<1> QED BY <1>9, <1>10, VerifiesByRoute

\* A packet whose checksum is found right when it comes has a body that verifies.
LEMMA ArrivedWhole ==
  ASSUME NEW p \in Packet,
         IF p.fields.proto = ICMP THEN IcmpValid(p) ELSE UdpValid(p, p.fields.proto = UDP)
  PROVE  BodyVerifies(p.fields, p.raw.l4)
<1> DEFINE b == p.raw.l4
           f == p.fields
           h == PseudoHeader(f, b)
<1>1. b \in Seq(Byte) /\ Len(b) \in Word /\ f \in Fields BY PacketParts, RawParts
<1>2. CASE f.proto = ICMP
  <2>1. HeaderChecksum(b) = 0 BY <1>2 DEF IcmpValid
  <2>2. Verifies(b) BY <1>1, <2>1, ValidVerifies
  <2> QED BY <1>2, <2>2 DEF BodyVerifies
<1>3. CASE f.proto # ICMP
  <2>1. \/ f.proto = UDP /\ SubSeq(b, 3, 4) = <<0, 0>>
        \/ TwoPartChecksum(b, h) = 0
    BY <1>3 DEF UdpValid
  <2>2. h \in Seq(Word) /\ Len(h) = 6 BY <1>1, PseudoTyped
  <2>3. TwoPartChecksum(b, h) = 0 => (NetworkSum(b) + NetworkSum(h)) % 65535 = 0
    <3> HIDE DEF b, h
    <3> QED BY <1>1, <2>2, BothValidVerify
  <2> QED BY <1>3, <2>1, <2>3 DEF BodyVerifies
<1> QED BY <1>2, <1>3

\* Frames come from outside, or from a pinger.
LEMMA PacketsInitGood == PacketsInit => PacketInv
<1> SUFFICES ASSUME PacketsInit PROVE PacketInv
  OBVIOUS
<1> DEFINE valid == IF packet.fields.proto = ICMP THEN IcmpValid(packet)
                    ELSE UdpValid(packet, packet.fields.proto = UDP)
<1>1. CASE (\E raw \in Arriving : packet = FromBytes(raw)) /\ handled = 0 /\ whole = valid
  <2>1. PICK raw \in Arriving : packet = FromBytes(raw) BY <1>1
  <2>2. Good(packet)
    <3>1. raw \in Raw BY PacketLayersAssumption
    <3> QED BY <2>1, <3>1, FromBytesGood
  <2>3. whole \in BOOLEAN
    <3>1. valid \in BOOLEAN BY DEF IcmpValid, UdpValid
    <3> QED BY <1>1, <3>1
  <2>4. whole => BodyVerifies(packet.fields, packet.raw.l4)
    <3>1. whole => valid BY <1>1
    <3> QED BY <2>2, <3>1, ArrivedWhole DEF Good
  <2>5. handled \in Nat /\ ~(handled > 0) BY <1>1
  <2> QED BY <2>2, <2>3, <2>4, <2>5 DEF PacketInv
<1>2. CASE /\ \E me, to \in NodeIp, seq \in {1, 255} : packet \in {Ping(me, to, seq), UdpPing(me, to, seq)}
           /\ handled = 1 /\ whole = TRUE
  <2>1. PICK me \in NodeIp, to \in NodeIp, seq \in {1, 255} :
          packet = Ping(me, to, seq) \/ packet = UdpPing(me, to, seq)
    BY <1>2
  <2>2. seq \in Byte BY ConstantBytes
  <2>3. Good(packet) /\ Verifies(packet.raw.ip) /\ BodyVerifies(packet.fields, packet.raw.l4)
    BY <2>1, <2>2, PingGood, UdpPingGood
  <2>4. handled \in Nat /\ whole \in BOOLEAN BY <1>2
  <2> QED BY <2>3, <2>4 DEF PacketInv
<1> QED BY <1>1, <1>2 DEF PacketsInit

\* Every step keeps the invariant.
LEMMA PacketsStepGood == PacketInv /\ [PacketsNext]_packetVars => PacketInv'
<1> SUFFICES ASSUME PacketInv, [PacketsNext]_packetVars PROVE PacketInv'
  OBVIOUS
<1>1. CASE AnswerEcho BY <1>1, AnswerEchoGood
<1>2. CASE Forward BY <1>2, ForwardGood
<1>3. CASE AnswerError BY <1>3, AnswerErrorGood
<1>4. CASE AnswerUdp BY <1>4, AnswerUdpGood
<1>5. CASE PassIcmp BY <1>5, PassIcmpGood
<1>6. CASE RelayTcp BY <1>6, RelayTcpGood
<1>7. CASE AnswerTracker BY <1>7, AnswerTrackerGood
<1>8. CASE ThroughClient BY <1>8, ThroughClientGood
<1>9. CASE Copied BY <1>9, CopiedGood
<1>10. CASE UNCHANGED packetVars
  BY <1>10 DEF packetVars, PacketInv
<1> QED BY <1>1, <1>2, <1>3, <1>4, <1>5, <1>6, <1>7, <1>8, <1>9, <1>10 DEF PacketsNext

\* What the invariant says of the bytes
LEMMA PacketInvSays == PacketInv => SentFramesVerify
<1> SUFFICES ASSUME PacketInv, handled > 0 PROVE SentFramesVerify
  BY DEF SentFramesVerify
<1> DEFINE f == FieldsOf(packet.raw)
           g == packet.fields
<1>1. /\ EthSays(packet) /\ IpSays(packet) /\ (packet.upper # "none" => BodySays(packet))
      /\ Verifies(packet.raw.ip) /\ (whole => BodyVerifies(g, packet.raw.l4))
  BY DEF PacketInv, Good
<1>2. DOMAIN f = {"dmac", "smac", "ttl", "proto", "src", "dst", "first", "second"} BY DEF FieldsOf
<1>3. /\ g.dmac = f.dmac /\ g.smac = f.smac /\ g.ttl = f.ttl /\ g.proto = f.proto
      /\ g.src = f.src /\ g.dst = f.dst
  BY <1>1 DEF EthSays, IpSays, FieldsOf
<1>4. packet.upper # "none" => g.first = f.first /\ g.second = f.second
  BY <1>1 DEF BodySays, FieldsOf
<1> HIDE DEF f
<1>5. ASSUME NEW n \in IF packet.upper = "none" THEN DOMAIN f \ {"first", "second"} ELSE DOMAIN f
      PROVE  g[n] = f[n]
  <2>1. \/ n \in {"dmac", "smac", "ttl", "proto", "src", "dst"}
        \/ packet.upper # "none" /\ n \in {"first", "second"}
    BY <1>2, <1>5
  <2> QED BY <1>3, <1>4, <2>1
<1>6. whole => BodyVerifies(f, packet.raw.l4)
  <2>1. PseudoHeader(f, packet.raw.l4) = PseudoHeader(g, packet.raw.l4) BY <1>3 DEF PseudoHeader
  <2> QED BY <1>1, <1>3, <2>1, SMT DEF BodyVerifies
<1>7. whole => IF f.proto = ICMP THEN Verifies(packet.raw.l4)
               ELSE \/ f.proto = UDP /\ SubSeq(packet.raw.l4, 3, 4) = <<0, 0>>
                    \/ (NetworkSum(packet.raw.l4) + NetworkSum(PseudoHeader(f, packet.raw.l4))) % 65535 = 0
  BY <1>6, SMT DEF BodyVerifies
<1> QED BY <1>1, <1>5, <1>7 DEF f, SentFramesVerify

\* Frames that nodes send say what the packets' objects say, and their checksums are right.
THEOREM SentFramesAlwaysVerify == PacketsSpec => []SentFramesVerify
<1>1. PacketsInit => PacketInv BY PacketsInitGood
<1>2. PacketInv /\ [PacketsNext]_packetVars => PacketInv' BY PacketsStepGood
<1>3. PacketInv => SentFramesVerify BY PacketInvSays
<1> QED BY <1>1, <1>2, <1>3, PTL DEF PacketsSpec
-----------------------------------------------------------------------------
(***************************************************************************)
(* Second: the packets of a node that resolves addresses, all of which     *)
(* are copies of one, say what was meant when they were sent.              *)
(***************************************************************************)

\* n words and k are m together.
Adds(n, k, m) == n \in Nat /\ k \in Nat /\ m = n + k

\* r has the n words of s, and then the k words of t.
Follows(r, s, n, t, k, m) ==
  /\ IsWords(r, m)
  /\ \A i \in 1 .. n : r[i] = s[i]
  /\ \A i \in 1 .. k : r[n + i] = t[i]

\* Words that follow others are found where the others end.
LEMMA Appended ==
  ASSUME NEW s, NEW t, NEW n, NEW k, NEW m, Adds(n, k, m), IsWords(s, n), IsWords(t, k)
  PROVE  Follows(s \o t, s, n, t, k, m)
<1>1. /\ s \in Seq(Nat) /\ t \in Seq(Nat) /\ Len(s) = n /\ Len(t) = k
      /\ n \in Nat /\ k \in Nat /\ m = n + k
  BY DEF IsWords, Adds
<1>2. s \o t \in Seq(Nat) /\ Len(s \o t) = n + k BY <1>1, ConcatProperties
<1>3. \A i \in 1 .. n + k : (s \o t)[i] = IF i <= n THEN s[i] ELSE t[i - n]
  BY <1>1, ConcatProperties
<1> QED BY <1>1, <1>2, <1>3 DEF IsWords, Follows

\* Words cut from others are those at their places.
LEMMA CutWords ==
  ASSUME NEW s, NEW n \in Nat, NEW k \in Nat \ {0}, NEW l \in Nat \ {0}, IsWords(s, n), k + l - 1 <= n
  PROVE  /\ IsWords(SubSeq(s, k, k + l - 1), l)
         /\ \A i \in 1 .. l : SubSeq(s, k, k + l - 1)[i] = s[k + i - 1]
<1>1. \A i \in k .. k + l - 1 : s[i] \in Nat BY DEF IsWords
<1>2. SubSeq(s, k, k + l - 1) \in Seq(Nat) /\ Len(SubSeq(s, k, k + l - 1)) = l
  BY <1>1, SubSeqProperties
<1>3. \A i \in 1 .. l : SubSeq(s, k, k + l - 1)[i] = s[k + i - 1]
  BY <1>1, SubSeqProperties
<1> QED BY <1>2, <1>3 DEF IsWords

\* Words are what they are at each place.
LEMMA SameWords ==
  ASSUME NEW s, NEW t, NEW n \in Nat, IsWords(s, n), IsWords(t, n), \A i \in 1 .. n : s[i] = t[i]
  PROVE  s = t
BY DEF IsWords

\* One number is one word.
LEMMA OneWord ==
  ASSUME NEW x \in Nat
  PROVE  IsWords(<<x>>, 1) /\ <<x>>[1] = x
BY DEF IsWords

\* A hardware address is read as it was written.
LEMMA MacRead ==
  ASSUME NEW b, NEW n \in Nat, NEW k \in Nat \ {0}, NEW m, IsWords(b, n), k + 2 <= n, IsMac(m),
         \A i \in 1 .. 3 : b[k - 1 + i] = Written(m)[i]
  PROVE  MacAt(b, k) = m
<1>1. IsWords(m, 4) /\ m[4] = 0 BY DEF IsMac
<1>2. IsWords(Written(m), 3) /\ \A i \in 1 .. 3 : Written(m)[i] = m[i]
  <2>1. /\ IsWords(SubSeq(m, 1, 1 + 3 - 1), 3)
        /\ \A i \in 1 .. 3 : SubSeq(m, 1, 1 + 3 - 1)[i] = m[1 + i - 1]
    BY <1>1, CutWords
  <2>2. Written(m) = SubSeq(m, 1, 1 + 3 - 1) BY DEF Written
  <2> QED BY <2>1, <2>2
<1>3. IsWords(SubSeq(b, k, k + 2), 3) /\ \A i \in 1 .. 3 : SubSeq(b, k, k + 2)[i] = b[k - 1 + i]
  <2>1. /\ IsWords(SubSeq(b, k, k + 3 - 1), 3)
        /\ \A i \in 1 .. 3 : SubSeq(b, k, k + 3 - 1)[i] = b[k + i - 1]
    BY CutWords
  <2>2. k + 3 - 1 = k + 2 /\ \A i \in 1 .. 3 : k + i - 1 = k - 1 + i OBVIOUS
  <2> QED BY <2>1, <2>2
<1>4. IsWords(<<0>>, 1) /\ <<0>>[1] = 0 /\ Adds(3, 1, 4) BY OneWord DEF Adds
<1>5. /\ IsWords(MacAt(b, k), 4)
      /\ \A i \in 1 .. 3 : MacAt(b, k)[i] = SubSeq(b, k, k + 2)[i]
      /\ \A i \in 1 .. 1 : MacAt(b, k)[3 + i] = <<0>>[i]
  BY <1>3, <1>4, Appended DEF MacAt, Follows
<1>6. \A i \in 1 .. 4 : MacAt(b, k)[i] = m[i]
  <2>1. \A i \in 1 .. 3 : MacAt(b, k)[i] = m[i] BY <1>2, <1>3, <1>5
  <2>2. MacAt(b, k)[4] = m[4]
    <3>1. 1 \in 1 .. 1 /\ 3 + 1 = 4 OBVIOUS
    <3> QED BY <1>1, <1>4, <1>5, <3>1
  <2> QED BY <2>1, <2>2
<1> QED BY <1>1, <1>5, <1>6, SameWords

\* The l words from k to h are some of n.
Spans(k, l, h, n) ==
  n \in Nat /\ k \in Nat \ {0} /\ l \in Nat \ {0} /\ h = k + l - 1 /\ h <= n

\* Two words, or three, that are found at their place are those that were written.
LEMMA WordsRead ==
  ASSUME NEW b, NEW n, NEW k, NEW h, NEW l, NEW w, IsWords(b, n),
         Spans(k, l, h, n), IsWords(w, l), \A i \in 1 .. l : b[k - 1 + i] = w[i]
  PROVE  SubSeq(b, k, h) = w
<1> USE DEF Spans
<1>1. /\ IsWords(SubSeq(b, k, k + l - 1), l)
      /\ \A i \in 1 .. l : SubSeq(b, k, k + l - 1)[i] = b[k + i - 1]
  BY CutWords
<1>2. \A i \in 1 .. l : k + i - 1 = k - 1 + i OBVIOUS
<1> QED BY <1>1, <1>2, SameWords

\* The address that is written has three words.
LEMMA MacWritten ==
  ASSUME NEW m, IsMac(m)
  PROVE  IsWords(Written(m), 3)
<1>1. IsWords(SubSeq(m, 1, 1 + 3 - 1), 3) BY CutWords DEF IsMac
<1> QED BY <1>1 DEF Written

\* What is populated to the bytes is read from them again.
LEMMA ReadAsWritten ==
  ASSUME NEW eth, NEW f, IsEthernet(eth), IsArp(f)
  PROVE  /\ IsWords(Bytes(eth, f), 21)
         /\ EthernetAt(Bytes(eth, f)) = eth /\ FieldsAt(Bytes(eth, f)) = f
<1> DEFINE c1 == Written(eth.dst)
           c2 == c1 \o Written(eth.src)
           c3 == c2 \o <<eth.type>>
           c4 == c3 \o f.kinds
           c5 == c4 \o <<f.op>>
           c6 == c5 \o Written(f.sha)
           c7 == c6 \o f.spa
           c8 == c7 \o Written(f.tha)
           b == c8 \o f.tpa
<1>1. Bytes(eth, f) = b BY DEF Bytes
<1>2. /\ IsWords(Written(eth.dst), 3) /\ IsWords(Written(eth.src), 3)
      /\ IsWords(Written(f.sha), 3) /\ IsWords(Written(f.tha), 3)
      /\ IsWords(f.kinds, 3) /\ IsWords(f.spa, 2) /\ IsWords(f.tpa, 2)
      /\ IsWords(<<eth.type>>, 1) /\ <<eth.type>>[1] = eth.type
      /\ IsWords(<<f.op>>, 1) /\ <<f.op>>[1] = f.op
  BY MacWritten, OneWord DEF IsEthernet, IsArp
<1>3. Follows(c2, c1, 3, Written(eth.src), 3, 6)
  <2>1. IsWords(c1, 3) /\ IsWords(Written(eth.src), 3) BY <1>2
  <2> HIDE DEF c1, c3, c4, c5, c6, c7, c8, b
  <2>2. Adds(3, 3, 6) BY DEF Adds
  <2> QED BY <2>1, <2>2, Appended
<1>4. Follows(c3, c2, 6, <<eth.type>>, 1, 7)
  <2>1. IsWords(c2, 6) /\ IsWords(<<eth.type>>, 1) BY <1>2, <1>3 DEF Follows
  <2> HIDE DEF c1, c2, c4, c5, c6, c7, c8, b
  <2>2. Adds(6, 1, 7) BY DEF Adds
  <2> QED BY <2>1, <2>2, Appended
<1>5. Follows(c4, c3, 7, f.kinds, 3, 10)
  <2>1. IsWords(c3, 7) /\ IsWords(f.kinds, 3) BY <1>2, <1>4 DEF Follows
  <2> HIDE DEF c1, c2, c3, c5, c6, c7, c8, b
  <2>2. Adds(7, 3, 10) BY DEF Adds
  <2> QED BY <2>1, <2>2, Appended
<1>6. Follows(c5, c4, 10, <<f.op>>, 1, 11)
  <2>1. IsWords(c4, 10) /\ IsWords(<<f.op>>, 1) BY <1>2, <1>5 DEF Follows
  <2> HIDE DEF c1, c2, c3, c4, c6, c7, c8, b
  <2>2. Adds(10, 1, 11) BY DEF Adds
  <2> QED BY <2>1, <2>2, Appended
<1>7. Follows(c6, c5, 11, Written(f.sha), 3, 14)
  <2>1. IsWords(c5, 11) /\ IsWords(Written(f.sha), 3) BY <1>2, <1>6 DEF Follows
  <2> HIDE DEF c1, c2, c3, c4, c5, c7, c8, b
  <2>2. Adds(11, 3, 14) BY DEF Adds
  <2> QED BY <2>1, <2>2, Appended
<1>8. Follows(c7, c6, 14, f.spa, 2, 16)
  <2>1. IsWords(c6, 14) /\ IsWords(f.spa, 2) BY <1>2, <1>7 DEF Follows
  <2> HIDE DEF c1, c2, c3, c4, c5, c6, c8, b
  <2>2. Adds(14, 2, 16) BY DEF Adds
  <2> QED BY <2>1, <2>2, Appended
<1>9. Follows(c8, c7, 16, Written(f.tha), 3, 19)
  <2>1. IsWords(c7, 16) /\ IsWords(Written(f.tha), 3) BY <1>2, <1>8 DEF Follows
  <2> HIDE DEF c1, c2, c3, c4, c5, c6, c7, b
  <2>2. Adds(16, 3, 19) BY DEF Adds
  <2> QED BY <2>1, <2>2, Appended
<1>10. Follows(b, c8, 19, f.tpa, 2, 21)
  <2>1. IsWords(c8, 19) /\ IsWords(f.tpa, 2) BY <1>2, <1>9 DEF Follows
  <2> HIDE DEF c1, c2, c3, c4, c5, c6, c7, c8
  <2>2. Adds(19, 2, 21) BY DEF Adds
  <2> QED BY <2>1, <2>2, Appended
<1> HIDE DEF c1, c2, c3, c4, c5, c6, c7, c8, b
<1>10a. IsWords(b, 21) BY <1>10 DEF Follows
<1>11. \A i \in 1 .. 3 : b[1 - 1 + i] = Written(eth.dst)[i]
  BY <1>3, <1>4, <1>5, <1>6, <1>7, <1>8, <1>9, <1>10 DEF c1, Follows
<1>12. \A i \in 1 .. 3 : b[4 - 1 + i] = Written(eth.src)[i]
  BY <1>3, <1>4, <1>5, <1>6, <1>7, <1>8, <1>9, <1>10 DEF Follows
<1>13. b[7] = eth.type
  <2>1. 1 \in 1 .. 1 /\ 6 + 1 = 7 /\ 7 \in 1 .. 7 /\ 7 \in 1 .. 10 /\ 7 \in 1 .. 11 /\ 7 \in 1 .. 14
          /\ 7 \in 1 .. 16 /\ 7 \in 1 .. 19
    OBVIOUS
  <2> QED BY <1>2, <1>4, <1>5, <1>6, <1>7, <1>8, <1>9, <1>10, <2>1 DEF Follows
<1>14. \A i \in 1 .. 3 : b[8 - 1 + i] = f.kinds[i]
  BY <1>5, <1>6, <1>7, <1>8, <1>9, <1>10 DEF Follows
<1>15. b[11] = f.op
  <2>1. 1 \in 1 .. 1 /\ 10 + 1 = 11 /\ 11 \in 1 .. 11 /\ 11 \in 1 .. 14 /\ 11 \in 1 .. 16 /\ 11 \in 1 .. 19
    OBVIOUS
  <2> QED BY <1>2, <1>6, <1>7, <1>8, <1>9, <1>10, <2>1 DEF Follows
<1>16. \A i \in 1 .. 3 : b[12 - 1 + i] = Written(f.sha)[i]
  BY <1>7, <1>8, <1>9, <1>10 DEF Follows
<1>17. \A i \in 1 .. 2 : b[15 - 1 + i] = f.spa[i]
  BY <1>8, <1>9, <1>10 DEF Follows
<1>18. \A i \in 1 .. 3 : b[17 - 1 + i] = Written(f.tha)[i]
  BY <1>9, <1>10 DEF Follows
<1>19. \A i \in 1 .. 2 : b[20 - 1 + i] = f.tpa[i]
  BY <1>10 DEF Follows
<1>20. MacAt(b, 1) = eth.dst /\ MacAt(b, 4) = eth.src
  <2>1. IsMac(eth.dst) /\ IsMac(eth.src) BY DEF IsEthernet
  <2> QED BY <1>10a, <1>11, <1>12, <2>1, MacRead
<1>21. MacAt(b, 12) = f.sha /\ MacAt(b, 17) = f.tha
  <2>1. IsMac(f.sha) /\ IsMac(f.tha) BY DEF IsArp
  <2> QED BY <1>10a, <1>16, <1>18, <2>1, MacRead
<1>22. SubSeq(b, 8, 10) = f.kinds
  <2>1. Spans(8, 3, 10, 21) BY DEF Spans
  <2>2. IsWords(b, 21) /\ IsWords(f.kinds, 3) BY <1>2, <1>10a
  <2> QED BY <1>14, <2>1, <2>2, WordsRead
<1>23. SubSeq(b, 15, 16) = f.spa
  <2>1. Spans(15, 2, 16, 21) BY DEF Spans
  <2>2. IsWords(b, 21) /\ IsWords(f.spa, 2) BY <1>2, <1>10a
  <2> QED BY <1>17, <2>1, <2>2, WordsRead
<1>24. SubSeq(b, 20, 21) = f.tpa
  <2>1. Spans(20, 2, 21, 21) BY DEF Spans
  <2>2. IsWords(b, 21) /\ IsWords(f.tpa, 2) BY <1>2, <1>10a
  <2> QED BY <1>19, <2>1, <2>2, WordsRead
<1>25. EthernetAt(b) = eth
  <2>1. EthernetAt(b) = [dst |-> MacAt(b, 1), src |-> MacAt(b, 4), type |-> b[7]] BY DEF EthernetAt
  <2>2. eth = [dst |-> eth.dst, src |-> eth.src, type |-> eth.type] BY DEF IsEthernet
  <2> QED BY <1>13, <1>20, <2>1, <2>2
<1>26. FieldsAt(b) = f
  <2>1. FieldsAt(b) = [kinds |-> SubSeq(b, 8, 10), op |-> b[11], sha |-> MacAt(b, 12),
                       spa |-> SubSeq(b, 15, 16), tha |-> MacAt(b, 17), tpa |-> SubSeq(b, 20, 21)]
    BY DEF FieldsAt
  <2>2. f = [kinds |-> f.kinds, op |-> f.op, sha |-> f.sha, spa |-> f.spa, tha |-> f.tha, tpa |-> f.tpa]
    BY DEF IsArp
  <2> QED BY <1>15, <1>21, <1>22, <1>23, <1>24, <2>1, <2>2
<1> QED BY <1>1, <1>10a, <1>25, <1>26

\* The objects of the lower layer say what their bytes say, and the ARP object of one stands
\* on it and says what they say.
UppersStand(fr, ar) ==
  \A f \in DOMAIN fr :
    /\ fr[f] = [eth |-> fr[f].eth, bytes |-> fr[f].bytes, upper |-> fr[f].upper]
    /\ fr[f].eth = EthernetAt(fr[f].bytes)
    /\ fr[f].upper # 0 =>
         /\ fr[f].upper \in DOMAIN ar /\ ar[fr[f].upper].lower = f
         /\ ar[fr[f].upper].fields = FieldsAt(fr[f].bytes)

\* An ARP object is known to the object that it stands on.
LowersStand(fr, ar) ==
  \A a \in DOMAIN ar :
    /\ a # 0 /\ ar[a] = [fields |-> ar[a].fields, lower |-> ar[a].lower]
    /\ ar[a].lower \in DOMAIN fr /\ fr[ar[a].lower].upper = a

\* The node's own packet is a valid ARP packet.
OwnStands(fr, ar, o) ==
  /\ o \in DOMAIN ar
  /\ IsArp(ar[o].fields) /\ ar[o].fields.kinds = ValidKinds
  /\ IsEthernet(fr[ar[o].lower].eth) /\ fr[ar[o].lower].eth.type = TypeARP

\* An ARP object is the node's own, or that of a packet on its way.
ArpsHeld(ar, o, fl) == \A a \in DOMAIN ar : a = o \/ \E e \in fl : e.arp = a

\* A packet on its way has its objects, and its bytes are what was meant.
FliersStand(fr, fl) ==
  \A e \in fl :
    /\ {"n", "copy", "frame", "arp", "meant"} = DOMAIN e
    /\ e.frame \in DOMAIN fr /\ (e.arp # 0 => fr[e.frame].upper = e.arp)
    /\ EthernetAt(fr[e.frame].bytes) = e.meant.eth /\ FieldsAt(fr[e.frame].bytes) = e.meant.arp

ArpStands(fr, ar, o, fl) ==
  /\ IsFiniteSet(DOMAIN fr) /\ IsFiniteSet(DOMAIN ar)
  /\ UppersStand(fr, ar) /\ LowersStand(fr, ar) /\ OwnStands(fr, ar, o)
  /\ ArpsHeld(ar, o, fl) /\ FliersStand(fr, fl)

ArpInv == ArpStands(frames, arps, own, flying)

\* A new object has an address where there was none.
LEMMA NewAddress ==
  ASSUME NEW objects, IsFiniteSet(DOMAIN objects)
  PROVE  NewId(objects) \notin DOMAIN objects /\ NewId(objects) # 0
<1> DEFINE c == Cardinality(DOMAIN objects)
<1>1. c \in Nat BY FS_CardinalityType
<1>2. IsFiniteSet(1 .. c + 1) /\ Cardinality(1 .. c + 1) = c + 1 BY <1>1, FS_Interval
<1>3. ~(1 .. c + 1 \subseteq DOMAIN objects)
  <2>1. ~(c + 1 <= c) BY <1>1
  <2> QED BY <1>2, <2>1, FS_Subset
<1>4. \E n \in 1 .. c + 1 : n \notin DOMAIN objects BY <1>3
<1>5. NewId(objects) \in 1 .. c + 1 /\ NewId(objects) \notin DOMAIN objects
  BY <1>4 DEF NewId
<1> QED BY <1>1, <1>5

\* There is one more object, and the others stay.
OneMoreObject(new, objects, id, object) ==
  /\ DOMAIN new = DOMAIN objects \cup {id} /\ IsFiniteSet(DOMAIN new)
  /\ new[id] = object /\ \A x \in DOMAIN objects : x # id => new[x] = objects[x]

\* An object is added.
LEMMA AddedObject ==
  ASSUME NEW objects, NEW id, NEW object, IsFiniteSet(DOMAIN objects)
  PROVE  OneMoreObject(Added(objects, id, object), objects, id, object)
<1>1. DOMAIN Added(objects, id, object) = DOMAIN objects \cup {id} BY DEF Added
<1>2. IsFiniteSet(DOMAIN objects \cup {id}) BY FS_AddElement
<1> QED BY <1>1, <1>2 DEF Added, OneMoreObject

\* The node's packet is made with its objects, and nothing is on its way.
LEMMA ArpStarts == ArpPacketInit => ArpInv
<1> SUFFICES ASSUME ArpPacketInit PROVE ArpInv OBVIOUS
<1> DEFINE eth == [dst |-> NullMac, src |-> NullMac, type |-> TypeARP]
           arp == [kinds |-> ValidKinds, op |-> Request, sha |-> NullMac, spa |-> <<0, 0>>,
                   tha |-> NullMac, tpa |-> <<0, 0>>]
<1>1. /\ frames = [f \in {1} |-> [eth |-> eth, bytes |-> Bytes(eth, arp), upper |-> 1]]
      /\ arps = [a \in {1} |-> [fields |-> arp, lower |-> 1]]
      /\ own = 1 /\ flying = {}
  BY DEF ArpPacketInit
<1>2. IsMac(NullMac) BY DEF IsMac, IsWords, NullMac
<1>3. IsEthernet(eth) BY <1>2 DEF IsEthernet, TypeARP
<1>4. IsWords(<<0, 0>>, 2) BY DEF IsWords
<1>5. IsWords(ValidKinds, 3) BY DEF IsWords, ValidKinds, TypeIP
<1>6. IsArp(arp) BY <1>2, <1>4, <1>5 DEF IsArp, Request
<1>7. EthernetAt(Bytes(eth, arp)) = eth /\ FieldsAt(Bytes(eth, arp)) = arp
  BY <1>3, <1>6, ReadAsWritten
<1>8. eth.type = TypeARP /\ arp.kinds = ValidKinds OBVIOUS
<1> HIDE DEF eth, arp
<1>9. IsFiniteSet(DOMAIN frames) /\ IsFiniteSet(DOMAIN arps) BY <1>1, FS_Singleton
<1>10. UppersStand(frames, arps) /\ LowersStand(frames, arps)
  BY <1>1, <1>7 DEF UppersStand, LowersStand
<1>11. OwnStands(frames, arps, own) BY <1>1, <1>3, <1>6, <1>8 DEF OwnStands
<1>12. ArpsHeld(arps, own, flying) /\ FliersStand(frames, flying)
  BY <1>1 DEF ArpsHeld, FliersStand
<1> QED BY <1>9, <1>10, <1>11, <1>12 DEF ArpInv, ArpStands

\* A detached packet has objects of its own: nothing on its way shares them.
DetachedAlone(s, fl) ==
  /\ ArpStands(s.frames, s.arps, s.own, fl)
  /\ \A e \in fl : e.frame # s.arps[s.own].lower

\* All layers are copied: the copy of the ARP fields is read from the bytes again.
LEMMA CopyAllStands ==
  ASSUME ArpInv, \E e \in flying : e.arp = own
  PROVE  DetachedAlone(CopiedAll, flying)
<1> DEFINE a == NewId(arps)
           f == NewId(frames)
           fr == Added(frames, f, [frames[Lower] EXCEPT !.upper = a])
           ar == Added(arps, a, [fields |-> FieldsAt(frames[Lower].bytes), lower |-> f])
<1>1. CopiedAll = [frames |-> fr, arps |-> ar, own |-> a] BY DEF CopiedAll
<1>2. /\ IsFiniteSet(DOMAIN frames) /\ IsFiniteSet(DOMAIN arps)
      /\ UppersStand(frames, arps) /\ LowersStand(frames, arps) /\ OwnStands(frames, arps, own)
      /\ ArpsHeld(arps, own, flying) /\ FliersStand(frames, flying)
  BY DEF ArpInv, ArpStands
<1>3. a \notin DOMAIN arps /\ a # 0 /\ f \notin DOMAIN frames BY <1>2, NewAddress
<1>4. /\ own \in DOMAIN arps /\ Lower \in DOMAIN frames /\ frames[Lower].upper = own /\ own # 0
      /\ arps[own].fields = FieldsAt(frames[Lower].bytes)
      /\ frames[Lower].eth = EthernetAt(frames[Lower].bytes)
      /\ IsArp(arps[own].fields) /\ arps[own].fields.kinds = ValidKinds
      /\ IsEthernet(frames[Lower].eth) /\ frames[Lower].eth.type = TypeARP
  BY <1>2 DEF OwnStands, LowersStand, UppersStand, Lower
<1>5. [frames[Lower] EXCEPT !.upper = a]
        = [eth |-> frames[Lower].eth, bytes |-> frames[Lower].bytes, upper |-> a]
  BY <1>2, <1>4 DEF UppersStand
<1> DEFINE copied == [eth |-> frames[Lower].eth, bytes |-> frames[Lower].bytes, upper |-> a]
           read == [fields |-> FieldsAt(frames[Lower].bytes), lower |-> f]
<1>6. OneMoreObject(fr, frames, f, copied) BY <1>2, <1>5, AddedObject
<1>7. OneMoreObject(ar, arps, a, read) BY <1>2, AddedObject
<1> HIDE DEF fr, ar, a, f
<1>8. UppersStand(fr, ar) BY <1>2, <1>3, <1>4, <1>6, <1>7 DEF UppersStand, OneMoreObject
<1>9. LowersStand(fr, ar) BY <1>2, <1>3, <1>4, <1>6, <1>7 DEF LowersStand, OneMoreObject
<1>10. OwnStands(fr, ar, a) BY <1>3, <1>4, <1>6, <1>7 DEF OwnStands, OneMoreObject
<1>11. ArpsHeld(ar, a, flying) BY <1>2, <1>7 DEF ArpsHeld, OneMoreObject
<1>12. FliersStand(fr, flying) BY <1>2, <1>3, <1>6 DEF FliersStand, OneMoreObject
<1>13. \A e \in flying : e.frame # ar[a].lower BY <1>2, <1>3, <1>7 DEF FliersStand, OneMoreObject
<1> QED BY <1>1, <1>6, <1>7, <1>8, <1>9, <1>10, <1>11, <1>12, <1>13 DEF DetachedAlone, ArpStands, OneMoreObject

\* Only the lower layer is copied: the ARP object moves to the copy.
LEMMA CopyLowerStands ==
  ASSUME ArpInv, ~\E e \in flying : e.arp = own
  PROVE  DetachedAlone(CopiedLower, flying)
<1> DEFINE f == NewId(frames)
           old == [frames EXCEPT ![Lower].upper = 0]
           fr == Added(old, f, [frames[Lower] EXCEPT !.upper = own])
           ar == [arps EXCEPT ![own].lower = f]
<1>1. CopiedLower = [frames |-> fr, arps |-> ar, own |-> own] BY DEF CopiedLower
<1>2. /\ IsFiniteSet(DOMAIN frames) /\ IsFiniteSet(DOMAIN arps)
      /\ UppersStand(frames, arps) /\ LowersStand(frames, arps) /\ OwnStands(frames, arps, own)
      /\ ArpsHeld(arps, own, flying) /\ FliersStand(frames, flying)
  BY DEF ArpInv, ArpStands
<1>3. f \notin DOMAIN frames BY <1>2, NewAddress
<1>4. /\ own \in DOMAIN arps /\ Lower \in DOMAIN frames /\ frames[Lower].upper = own /\ own # 0
      /\ Lower = arps[own].lower
      /\ arps[own].fields = FieldsAt(frames[Lower].bytes)
      /\ frames[Lower].eth = EthernetAt(frames[Lower].bytes)
      /\ IsArp(arps[own].fields) /\ arps[own].fields.kinds = ValidKinds
      /\ IsEthernet(frames[Lower].eth) /\ frames[Lower].eth.type = TypeARP
  BY <1>2 DEF OwnStands, LowersStand, UppersStand, Lower
<1> DEFINE eth == frames[Lower].eth
           bytes == frames[Lower].bytes
<1>5. /\ [frames[Lower] EXCEPT !.upper = own] = [eth |-> eth, bytes |-> bytes, upper |-> own]
      /\ [frames[Lower] EXCEPT !.upper = 0] = [eth |-> eth, bytes |-> bytes, upper |-> 0]
      /\ [arps[own] EXCEPT !.lower = f] = [fields |-> arps[own].fields, lower |-> f]
  BY <1>2, <1>4 DEF UppersStand, LowersStand
<1>6. /\ DOMAIN old = DOMAIN frames /\ old[Lower] = [eth |-> eth, bytes |-> bytes, upper |-> 0]
      /\ \A x \in DOMAIN frames : x # Lower => old[x] = frames[x]
  BY <1>4, <1>5
<1>7. OneMoreObject(fr, old, f, [eth |-> eth, bytes |-> bytes, upper |-> own])
  BY <1>2, <1>5, <1>6, AddedObject
<1>8. /\ DOMAIN ar = DOMAIN arps /\ ar[own] = [fields |-> arps[own].fields, lower |-> f]
      /\ \A x \in DOMAIN arps : x # own => ar[x] = arps[x]
  BY <1>4, <1>5
<1> HIDE DEF fr, ar, f, old
<1>9. UppersStand(fr, ar) BY <1>2, <1>3, <1>4, <1>6, <1>7, <1>8 DEF UppersStand, OneMoreObject
<1>10. LowersStand(fr, ar) BY <1>2, <1>3, <1>4, <1>6, <1>7, <1>8 DEF LowersStand, OneMoreObject
<1>11. OwnStands(fr, ar, own) BY <1>3, <1>4, <1>6, <1>7, <1>8 DEF OwnStands, OneMoreObject
<1>12. ArpsHeld(ar, own, flying) BY <1>2, <1>8 DEF ArpsHeld, OneMoreObject
<1>13. FliersStand(fr, flying) BY <1>2, <1>3, <1>4, <1>6, <1>7 DEF FliersStand, OneMoreObject
<1>14. \A e \in flying : e.frame # ar[own].lower BY <1>2, <1>3, <1>4, <1>8 DEF FliersStand, OneMoreObject
<1> QED BY <1>1, <1>2, <1>7, <1>8, <1>9, <1>10, <1>11, <1>12, <1>13, <1>14 DEF DetachedAlone, ArpStands, OneMoreObject

\* Whatever is shared, the packet is detached before it is written.
LEMMA DetachedStands == ArpInv => DetachedAlone(Detached, flying)
<1> SUFFICES ASSUME ArpInv PROVE DetachedAlone(Detached, flying) OBVIOUS
<1>1. CASE \E e \in flying : e.arp = own BY <1>1, CopyAllStands DEF Detached
<1>2. CASE ~(\E e \in flying : e.arp = own) /\ \E e \in flying : e.frame = Lower
  BY <1>2, CopyLowerStands DEF Detached
<1>3. CASE ~(\E e \in flying : e.arp = own) /\ ~\E e \in flying : e.frame = Lower
  <2>1. Detached = [frames |-> frames, arps |-> arps, own |-> own] BY <1>3 DEF Detached
  <2> QED BY <1>3, <2>1 DEF DetachedAlone, ArpInv, Lower
<1> QED BY <1>1, <1>2, <1>3

\* What is written to a packet that nothing shares is what flies.
LEMMA WrittenStands ==
  ASSUME NEW s, NEW fl, NEW n, NEW eth, NEW arp, DetachedAlone(s, fl), IsEthernet(eth), IsArp(arp),
         eth.type = TypeARP, arp.kinds = ValidKinds
  PROVE  LET f == s.arps[s.own].lower
             e == [n |-> n, copy |-> FALSE, frame |-> f, arp |-> s.own,
                   meant |-> [eth |-> eth, arp |-> arp]]
         IN ArpStands([s.frames EXCEPT ![f] = [eth |-> eth, bytes |-> Bytes(eth, arp), upper |-> @.upper]],
                      [s.arps EXCEPT ![s.own].fields = arp], s.own, fl \cup {e})
<1> DEFINE old == s.frames
           stood == s.arps
           o == s.own
           f == stood[o].lower
           b == Bytes(eth, arp)
           e == [n |-> n, copy |-> FALSE, frame |-> f, arp |-> o,
                 meant |-> [eth |-> eth, arp |-> arp]]
           fr == [old EXCEPT ![f] = [eth |-> eth, bytes |-> b, upper |-> @.upper]]
           ar == [stood EXCEPT ![o].fields = arp]
<1>1. /\ IsFiniteSet(DOMAIN old) /\ IsFiniteSet(DOMAIN stood)
      /\ UppersStand(old, stood) /\ LowersStand(old, stood) /\ OwnStands(old, stood, o)
      /\ ArpsHeld(stood, o, fl) /\ FliersStand(old, fl)
      /\ \A x \in fl : x.frame # f
  BY DEF DetachedAlone, ArpStands
<1>2. EthernetAt(b) = eth /\ FieldsAt(b) = arp BY ReadAsWritten
<1> HIDE DEF old, stood, o, b
<1>3. o \in DOMAIN stood /\ o # 0 /\ f \in DOMAIN old /\ old[f].upper = o
  BY <1>1 DEF OwnStands, LowersStand
<1>4. /\ DOMAIN fr = DOMAIN old /\ fr[f] = [eth |-> eth, bytes |-> b, upper |-> o]
      /\ \A x \in DOMAIN old : x # f => fr[x] = old[x]
  BY <1>3
<1>5. /\ DOMAIN ar = DOMAIN stood /\ ar[o] = [fields |-> arp, lower |-> f]
      /\ \A x \in DOMAIN stood : x # o => ar[x] = stood[x]
  <2>1. stood[o] = [fields |-> stood[o].fields, lower |-> f]
    BY <1>1, <1>3 DEF LowersStand
  <2>2. [stood[o] EXCEPT !.fields = arp] = [fields |-> arp, lower |-> f]
    BY <2>1
  <2> QED BY <1>3, <2>2
<1>6. \A a \in DOMAIN stood : a # o => stood[a].lower # f BY <1>1, <1>3 DEF LowersStand
<1> HIDE DEF f, fr, ar
<1>7. UppersStand(fr, ar) BY <1>1, <1>2, <1>3, <1>4, <1>5 DEF UppersStand
<1>8. LowersStand(fr, ar) BY <1>1, <1>3, <1>4, <1>5, <1>6 DEF LowersStand
<1>9. OwnStands(fr, ar, o) BY <1>3, <1>4, <1>5 DEF OwnStands
<1>10. ArpsHeld(ar, o, fl \cup {e}) BY <1>1, <1>5 DEF ArpsHeld
<1>11. FliersStand(fr, fl \cup {e}) BY <1>1, <1>2, <1>3, <1>4 DEF FliersStand
<1>12. ArpStands(fr, ar, o, fl \cup {e}) BY <1>1, <1>4, <1>5, <1>7, <1>8, <1>9, <1>10, <1>11 DEF ArpStands
<1> QED BY <1>12 DEF fr, ar, f, old, stood, o, b

\* A packet is sent, whatever the one before was.
LEMMA SendStands ==
  ASSUME ArpInv, NEW op \in {Request, Reply}, NEW source, NEW target, NEW dst, NEW i,
         IsWords(source, 2), IsMac(target.mac), IsWords(target.ip, 2), IsMac(dst), IsMac(i.mac),
         Send(op, source, target, dst, i, Meant(op, source, target, dst, i))
  PROVE  ArpInv'
<1> DEFINE s == Detached
           f == s.arps[s.own].lower
           old == s.arps[s.own].fields
           under == s.frames[f].eth
           arp == [kinds |-> ValidKinds, op |-> op, sha |-> i.mac, spa |-> source,
                   tha |-> target.mac, tpa |-> target.ip]
           eth == [dst |-> dst, src |-> i.mac, type |-> TypeARP]
<1>1. DetachedAlone(s, flying) BY DetachedStands
<1>2. IsArp(old) /\ old.kinds = ValidKinds /\ IsEthernet(under) /\ under.type = TypeARP
  BY <1>1 DEF DetachedAlone, ArpStands, OwnStands
<1>3. [kinds |-> old.kinds, op |-> op, sha |-> i.mac, spa |-> source, tha |-> target.mac,
       tpa |-> target.ip] = arp
  BY <1>2
<1>4. [dst |-> dst, src |-> i.mac, type |-> under.type] = eth BY <1>2
<1>5. IsArp(arp) /\ arp.kinds = ValidKinds
  <2>1. IsWords(ValidKinds, 3) BY DEF IsWords, ValidKinds, TypeIP
  <2>2. op \in Nat BY DEF Request, Reply
  <2> QED BY <2>1, <2>2 DEF IsArp
<1>6. IsEthernet(eth) /\ eth.type = TypeARP
  <2>1. TypeARP \in Nat BY DEF TypeARP
  <2> QED BY <2>1 DEF IsEthernet
<1>7. Meant(op, source, target, dst, i) = [eth |-> eth, arp |-> arp] BY DEF Meant
<1>8. /\ frames' = [s.frames EXCEPT ![f] = [eth |-> eth, bytes |-> Bytes(eth, arp), upper |-> @.upper]]
      /\ arps' = [s.arps EXCEPT ![s.own].fields = arp] /\ own' = s.own
      /\ flying' = flying \cup {[n |-> sends', copy |-> FALSE, frame |-> f, arp |-> s.own,
                                 meant |-> [eth |-> eth, arp |-> arp]]}
  <2> HIDE DEF arp, eth
  <2> QED BY <1>3, <1>4, <1>7 DEF Send
<1> HIDE DEF s, arp, eth
<1>9. ArpStands([s.frames EXCEPT ![f] = [eth |-> eth, bytes |-> Bytes(eth, arp), upper |-> @.upper]],
                [s.arps EXCEPT ![s.own].fields = arp], s.own,
                flying \cup {[n |-> sends', copy |-> FALSE, frame |-> f, arp |-> s.own,
                              meant |-> [eth |-> eth, arp |-> arp]]})
  BY <1>1, <1>5, <1>6, WrittenStands
<1> QED BY <1>8, <1>9 DEF ArpInv

\* A request says who asks, and for whom.
LEMMA RequestStands == ArpInv /\ SendARPRequestPacket => ArpInv'
<1> SUFFICES ASSUME ArpInv, SendARPRequestPacket PROVE ArpInv' OBVIOUS
<1>1. PICK i \in Interfaces, hop \in Hops :
        Send(Request, i.ip, [mac |-> NullMac, ip |-> hop], Broadcast, i,
             Meant(Request, i.ip, [mac |-> NullMac, ip |-> hop], Broadcast, i))
  BY DEF SendARPRequestPacket
<1> DEFINE target == [mac |-> NullMac, ip |-> hop]
<1>2. IsWords(i.ip, 2) /\ IsMac(i.mac) /\ IsWords(target.ip, 2) BY ArpPacketsAssumption
<1>3. IsMac(target.mac) /\ IsMac(Broadcast) BY DEF IsMac, IsWords, NullMac, Broadcast
<1>4. Request \in {Request, Reply} OBVIOUS
<1>5. Send(Request, i.ip, target, Broadcast, i, Meant(Request, i.ip, target, Broadcast, i)) BY <1>1
<1> HIDE DEF target
<1> QED BY <1>2, <1>3, <1>4, <1>5, SendStands

\* A reply says what was asked for, to who asked.
LEMMA ReplyStands == ArpInv /\ SendARPReplyPacket => ArpInv'
<1> SUFFICES ASSUME ArpInv, SendARPReplyPacket PROVE ArpInv' OBVIOUS
<1> DEFINE bytes(q) == Bytes(q.eth, q.arp)
           question(q) == FieldsAt(bytes(q))
           origin(q) == [mac |-> question(q).sha, ip |-> question(q).spa]
           meant(q) == [mac |-> q.arp.sha, ip |-> q.arp.spa]
<1>1. PICK i \in Interfaces, q \in Questions :
        /\ question(q).tpa \in {i.ip} \cup i.proxied
        /\ Send(Reply, question(q).tpa, origin(q), EthernetAt(bytes(q)).src, i,
                Meant(Reply, q.arp.tpa, meant(q), q.eth.src, i))
  BY DEF SendARPReplyPacket
<1>2. IsEthernet(q.eth) /\ IsArp(q.arp) /\ IsMac(i.mac) BY ArpPacketsAssumption
<1>3. EthernetAt(bytes(q)) = q.eth /\ question(q) = q.arp BY <1>2, ReadAsWritten
<1> HIDE DEF bytes, question
<1>4. Send(Reply, q.arp.tpa, meant(q), q.eth.src, i, Meant(Reply, q.arp.tpa, meant(q), q.eth.src, i))
  BY <1>1, <1>3
<1>5. /\ IsWords(q.arp.tpa, 2) /\ IsMac(meant(q).mac) /\ IsWords(meant(q).ip, 2)
      /\ IsMac(q.eth.src)
  BY <1>2 DEF IsEthernet, IsArp
<1>6. Reply \in {Request, Reply} OBVIOUS
<1> HIDE DEF meant
<1> QED BY <1>2, <1>4, <1>5, <1>6, SendStands

\* A link clones a packet without its upper layers.
LEMMA CloneStands == ArpInv /\ CloneFromLink => ArpInv'
<1> SUFFICES ASSUME ArpInv, CloneFromLink PROVE ArpInv' OBVIOUS
<1>1. PICK e \in flying : flying' = flying \cup {[e EXCEPT !.copy = TRUE, !.arp = 0]}
  BY DEF CloneFromLink
<1>2. frames' = frames /\ arps' = arps /\ own' = own BY DEF CloneFromLink
<1>3. /\ FliersStand(frames, flying) /\ ArpsHeld(arps, own, flying)
      /\ IsFiniteSet(DOMAIN frames) /\ IsFiniteSet(DOMAIN arps)
      /\ UppersStand(frames, arps) /\ LowersStand(frames, arps) /\ OwnStands(frames, arps, own)
  BY DEF ArpInv, ArpStands
<1> DEFINE c == [e EXCEPT !.copy = TRUE, !.arp = 0]
<1>4. DOMAIN c = DOMAIN e /\ c.frame = e.frame /\ c.arp = 0 /\ c.meant = e.meant
  BY <1>3 DEF FliersStand
<1> HIDE DEF c
<1>5. FliersStand(frames, flying \cup {c}) BY <1>3, <1>4 DEF FliersStand
<1>6. ArpsHeld(arps, own, flying \cup {c}) BY <1>3 DEF ArpsHeld
<1>7. ArpStands(frames, arps, own, flying \cup {c}) BY <1>3, <1>5, <1>6 DEF ArpStands
<1>8. flying' = flying \cup {c} BY <1>1 DEF c
<1> QED BY <1>2, <1>7, <1>8 DEF ArpInv

\* The ARP object that a packet finds, or makes from the bytes, says what the bytes say.
LEMMA AnalyzeStands == ArpInv /\ AnalyzeArp => ArpInv'
<1> SUFFICES ASSUME ArpInv, AnalyzeArp PROVE ArpInv' OBVIOUS
<1> DEFINE arpOf(e) == IF frames[e.frame].upper # 0 THEN frames[e.frame].upper ELSE NewId(arps)
<1>1. PICK e \in flying :
        /\ e.arp = 0
        /\ flying' = (flying \ {e}) \cup {[e EXCEPT !.arp = arpOf(e)]}
        /\ frames' = [frames EXCEPT ![e.frame].upper = arpOf(e)]
        /\ arps' = IF frames[e.frame].upper # 0 THEN arps
                   ELSE Added(arps, arpOf(e), [fields |-> FieldsAt(frames[e.frame].bytes), lower |-> e.frame])
  BY DEF AnalyzeArp
<1>2. /\ FliersStand(frames, flying) /\ ArpsHeld(arps, own, flying)
      /\ IsFiniteSet(DOMAIN frames) /\ IsFiniteSet(DOMAIN arps)
      /\ UppersStand(frames, arps) /\ LowersStand(frames, arps) /\ OwnStands(frames, arps, own)
  BY DEF ArpInv, ArpStands
<1> DEFINE f == e.frame
           a == arpOf(e)
           g == [e EXCEPT !.arp = a]
           fl == (flying \ {e}) \cup {g}
<1>3. f \in DOMAIN frames BY <1>2 DEF FliersStand
<1>4. flying' = fl /\ e.arp = 0 BY <1>1
<1>4a. DOMAIN g = DOMAIN e /\ g.frame = f /\ g.arp = a /\ g.meant = e.meant
  <2> HIDE DEF a
  <2> QED BY <1>2 DEF FliersStand
<1>5. /\ DOMAIN frames' = DOMAIN frames
      /\ frames'[f] = [eth |-> frames[f].eth, bytes |-> frames[f].bytes, upper |-> a]
      /\ \A x \in DOMAIN frames : x # f => frames'[x] = frames[x]
  <2> HIDE DEF a
  <2>1. [frames[f] EXCEPT !.upper = a] = [eth |-> frames[f].eth, bytes |-> frames[f].bytes, upper |-> a]
    BY <1>2, <1>3 DEF UppersStand
  <2>2. frames' = [frames EXCEPT ![f].upper = a] BY <1>1 DEF a
  <2> QED BY <1>3, <2>1, <2>2
<1>6. own' = own BY DEF AnalyzeArp
<1>7. CASE frames[f].upper # 0
  <2>1. arps' = arps /\ a = frames[f].upper BY <1>1, <1>7
  <2>2. a \in DOMAIN arps /\ a # 0 BY <1>2, <1>3, <1>7, <2>1 DEF UppersStand
  <2> HIDE DEF a
  <2>3. frames'[f] = frames[f] BY <1>2, <1>3, <1>5, <2>1 DEF UppersStand
  <2> HIDE DEF f
  <2>4. \A x \in DOMAIN frames : frames'[x] = frames[x] BY <1>5, <2>3
  <2>5. UppersStand(frames', arps') BY <1>2, <1>5, <2>1, <2>4 DEF UppersStand
  <2>6. LowersStand(frames', arps') BY <1>2, <1>5, <2>1, <2>4 DEF LowersStand
  <2>7. OwnStands(frames', arps', own')
    <3>1. arps[own].lower \in DOMAIN frames BY <1>2 DEF OwnStands, LowersStand
    <3> QED BY <1>2, <1>6, <2>1, <2>4, <3>1 DEF OwnStands
  <2>8. ArpsHeld(arps', own', fl)
    <3> HIDE DEF g
    <3> QED BY <1>2, <1>4, <1>4a, <1>6, <2>1 DEF ArpsHeld, LowersStand
  <2>9. FliersStand(frames', fl)
    <3>1. \A x \in flying : x.frame \in DOMAIN frames BY <1>2 DEF FliersStand
    <3>2. f = e.frame BY DEF f
    <3> HIDE DEF g
    <3> QED BY <1>2, <1>3, <1>4a, <1>5, <2>1, <2>4, <3>1, <3>2 DEF FliersStand
  <2> QED BY <1>2, <1>4, <1>5, <2>1, <2>5, <2>6, <2>7, <2>8, <2>9 DEF ArpInv, ArpStands
<1>8. CASE frames[f].upper = 0
  <2> DEFINE read == [fields |-> FieldsAt(frames[f].bytes), lower |-> f]
  <2>1. arps' = Added(arps, a, read) /\ a = NewId(arps) BY <1>1, <1>8
  <2>2. a \notin DOMAIN arps /\ a # 0 BY <1>2, <2>1, NewAddress
  <2>3. OneMoreObject(arps', arps, a, read) BY <1>2, <2>1, AddedObject
  <2> HIDE DEF a
  <2>4. UppersStand(frames', arps')
    BY <1>2, <1>3, <1>5, <2>2, <2>3 DEF UppersStand, OneMoreObject
  <2>5. \A x \in DOMAIN arps : arps[x].lower # f BY <1>2, <1>3, <1>8 DEF LowersStand
  <2>6. LowersStand(frames', arps')
    BY <1>2, <1>3, <1>5, <2>2, <2>3, <2>5 DEF LowersStand, OneMoreObject
  <2>7. OwnStands(frames', arps', own')
    <3>1. own \in DOMAIN arps /\ arps[own].lower \in DOMAIN frames /\ arps[own].lower # f
      BY <1>2, <2>5 DEF OwnStands, LowersStand
    <3> QED BY <1>2, <1>5, <1>6, <2>2, <2>3, <3>1 DEF OwnStands, OneMoreObject
  <2>8. ArpsHeld(arps', own', fl)
    <3>1. \A x \in DOMAIN arps : x # 0 BY <1>2 DEF LowersStand
    <3> HIDE DEF g
    <3> QED BY <1>2, <1>4, <1>4a, <1>6, <2>3, <3>1 DEF ArpsHeld, OneMoreObject
  <2>9. FliersStand(frames', fl)
    <3>1. \A x \in flying : x.frame = f => x.arp = 0 BY <1>2, <1>8 DEF FliersStand
    <3> HIDE DEF g
    <3> QED BY <1>2, <1>3, <1>4a, <1>5, <3>1 DEF FliersStand
  <2> QED BY <1>2, <1>4, <1>5, <2>3, <2>4, <2>6, <2>7, <2>8, <2>9
       DEF ArpInv, ArpStands, OneMoreObject
<1> QED BY <1>7, <1>8

\* Who lets a packet go takes with it only what nobody else holds.
LEMMA FinalizeStands == ArpInv /\ FinalizeArp => ArpInv'
<1> SUFFICES ASSUME ArpInv, FinalizeArp PROVE ArpInv' OBVIOUS
<1> DEFINE rest(e) == flying \ {e}
           heldArps(e) == {own} \cup {c.arp : c \in rest(e)}
           heldFrames(e) == {Lower} \cup {c.frame : c \in rest(e)}
           unlinked(e) == IF e.arp \in heldArps(e) \cup {0} THEN frames
                          ELSE [frames EXCEPT ![arps[e.arp].lower].upper = 0]
<1>1. PICK e \in flying :
        /\ flying' = rest(e)
        /\ arps' = [a \in DOMAIN arps \cap heldArps(e) |-> arps[a]]
        /\ frames' = [f \in DOMAIN frames \cap heldFrames(e) |-> unlinked(e)[f]]
  BY DEF FinalizeArp
<1>2. own' = own BY DEF FinalizeArp
<1>3. /\ FliersStand(frames, flying) /\ ArpsHeld(arps, own, flying)
      /\ IsFiniteSet(DOMAIN frames) /\ IsFiniteSet(DOMAIN arps)
      /\ UppersStand(frames, arps) /\ LowersStand(frames, arps) /\ OwnStands(frames, arps, own)
  BY DEF ArpInv, ArpStands
<1> DEFINE ha == heldArps(e)
           hf == heldFrames(e)
           fr == unlinked(e)
<1>4. /\ own \in ha /\ Lower \in hf /\ \A c \in rest(e) : c.arp \in ha /\ c.frame \in hf
      /\ \A a \in ha : a = own \/ \E c \in rest(e) : c.arp = a
  OBVIOUS
<1>5. /\ DOMAIN arps' = DOMAIN arps \cap ha /\ \A a \in DOMAIN arps' : arps'[a] = arps[a]
      /\ DOMAIN frames' = DOMAIN frames \cap hf /\ \A f \in DOMAIN frames' : frames'[f] = fr[f]
      /\ flying' = rest(e)
  <2> HIDE DEF heldArps, heldFrames, unlinked
  <2> QED BY <1>1
<1>6. \A f \in DOMAIN frames :
        IF frames[f].upper = e.arp /\ e.arp # 0 /\ e.arp \notin ha
        THEN fr[f] = [eth |-> frames[f].eth, bytes |-> frames[f].bytes, upper |-> 0]
        ELSE fr[f] = frames[f]
  <2>1. CASE e.arp \in ha \cup {0} BY <2>1
  <2>2. CASE ~(e.arp \in ha \cup {0})
    <3> DEFINE l == arps[e.arp].lower
    <3>1. fr = [frames EXCEPT ![l].upper = 0] BY <2>2
    <3>2. frames[e.frame].upper = e.arp /\ e.frame \in DOMAIN frames BY <1>3, <2>2 DEF FliersStand
    <3>3. e.arp \in DOMAIN arps /\ l \in DOMAIN frames /\ frames[l].upper = e.arp
      BY <1>3, <2>2, <3>2 DEF UppersStand, LowersStand
    <3>4. \A f \in DOMAIN frames : frames[f].upper = e.arp => f = l
      BY <1>3, <2>2, <3>3 DEF UppersStand
    <3>5. [frames[l] EXCEPT !.upper = 0] = [eth |-> frames[l].eth, bytes |-> frames[l].bytes, upper |-> 0]
      BY <1>3, <3>3 DEF UppersStand
    <3> HIDE DEF l, ha, fr
    <3> QED BY <2>2, <3>1, <3>3, <3>4, <3>5
  <2> QED BY <2>1, <2>2
<1> HIDE DEF ha, hf, fr
<1>6a. \A f \in DOMAIN frames :
         /\ fr[f].eth = frames[f].eth /\ fr[f].bytes = frames[f].bytes
         /\ fr[f] = [eth |-> fr[f].eth, bytes |-> fr[f].bytes, upper |-> fr[f].upper]
  <2> TAKE f \in DOMAIN frames
  <2>1. CASE fr[f] = frames[f] BY <1>3, <2>1 DEF UppersStand
  <2>2. CASE fr[f] = [eth |-> frames[f].eth, bytes |-> frames[f].bytes, upper |-> 0] BY <2>2
  <2> QED BY <1>6, <2>1, <2>2
<1>7. own \in DOMAIN arps' /\ arps'[own] = arps[own] BY <1>3, <1>4, <1>5 DEF OwnStands
<1>8. \A a \in DOMAIN arps' : a \in DOMAIN arps /\ a \in ha /\ arps'[a] = arps[a] /\ arps[a].lower \in hf
  <2>1. \A c \in rest(e) : c.arp \in DOMAIN arps => arps[c.arp].lower = c.frame
    BY <1>3 DEF FliersStand, UppersStand, LowersStand
  <2> QED BY <1>4, <1>5, <2>1 DEF Lower
<1>9. \A f \in DOMAIN frames' : f \in DOMAIN frames /\ f \in hf /\ frames'[f] = fr[f] BY <1>5
<1>10. UppersStand(frames', arps')
  <2>1. \A f \in DOMAIN frames : frames[f].upper # 0 /\ frames[f].upper \notin ha => frames[f].upper = e.arp
    BY <1>3, <1>4 DEF UppersStand, ArpsHeld
  <2>2. \A f \in DOMAIN frames' :
          /\ f \in DOMAIN frames /\ frames'[f] = fr[f]
          /\ fr[f] = [eth |-> fr[f].eth, bytes |-> fr[f].bytes, upper |-> fr[f].upper]
          /\ fr[f].eth = EthernetAt(fr[f].bytes)
    <3> TAKE f \in DOMAIN frames'
    <3>1. f \in DOMAIN frames /\ frames'[f] = fr[f] BY <1>9
    <3>2. frames[f].eth = EthernetAt(frames[f].bytes) BY <1>3, <3>1 DEF UppersStand
    <3> QED BY <1>6a, <3>1, <3>2
  <2>3. \A f \in DOMAIN frames' : fr[f].upper # 0 =>
          /\ fr[f].upper \in DOMAIN arps' /\ arps'[fr[f].upper].lower = f
          /\ arps'[fr[f].upper].fields = FieldsAt(fr[f].bytes)
    <3> SUFFICES ASSUME NEW f \in DOMAIN frames', fr[f].upper # 0
                 PROVE  /\ fr[f].upper \in DOMAIN arps' /\ arps'[fr[f].upper].lower = f
                        /\ arps'[fr[f].upper].fields = FieldsAt(fr[f].bytes)
      OBVIOUS
    <3>1. f \in DOMAIN frames BY <1>9
    <3>2. ~(frames[f].upper = e.arp /\ e.arp # 0 /\ e.arp \notin ha)
      <4> SUFFICES ASSUME frames[f].upper = e.arp, e.arp # 0, e.arp \notin ha PROVE FALSE OBVIOUS
      <4>1. fr[f] = [eth |-> frames[f].eth, bytes |-> frames[f].bytes, upper |-> 0] BY <1>6, <3>1
      <4>2. fr[f].upper = 0 BY <4>1
      <4> QED BY <4>2
    <3>3. fr[f] = frames[f] BY <1>6, <3>1, <3>2
    <3>4. frames[f].upper \in ha BY <2>1, <3>1, <3>2, <3>3
    <3>5. /\ frames[f].upper \in DOMAIN arps /\ arps[frames[f].upper].lower = f
          /\ arps[frames[f].upper].fields = FieldsAt(frames[f].bytes)
      BY <1>3, <3>1, <3>3 DEF UppersStand
    <3> QED BY <1>5, <1>8, <3>3, <3>4, <3>5
  <2> QED BY <2>2, <2>3 DEF UppersStand
<1>11. LowersStand(frames', arps')
  <2> SUFFICES ASSUME NEW a \in DOMAIN arps'
               PROVE  /\ a # 0 /\ arps'[a] = [fields |-> arps'[a].fields, lower |-> arps'[a].lower]
                      /\ arps'[a].lower \in DOMAIN frames' /\ frames'[arps'[a].lower].upper = a
    BY DEF LowersStand
  <2>1. /\ a # 0 /\ arps[a] = [fields |-> arps[a].fields, lower |-> arps[a].lower]
        /\ arps[a].lower \in DOMAIN frames /\ frames[arps[a].lower].upper = a
    BY <1>3, <1>8 DEF LowersStand
  <2> QED BY <1>5, <1>6, <1>8, <1>9, <2>1
<1>12. OwnStands(frames', arps', own')
  <2>1. Lower \in DOMAIN frames /\ frames[Lower].upper = own BY <1>3 DEF OwnStands, LowersStand, Lower
  <2>2. Lower \in DOMAIN frames' /\ frames'[Lower] = frames[Lower] BY <1>4, <1>5, <1>6, <2>1
  <2> QED BY <1>2, <1>3, <1>7, <2>2 DEF OwnStands, Lower
<1>13. ArpsHeld(arps', own', flying') BY <1>2, <1>4, <1>5, <1>8 DEF ArpsHeld
<1>14. FliersStand(frames', flying')
  <2> SUFFICES ASSUME NEW c \in rest(e)
               PROVE  /\ {"n", "copy", "frame", "arp", "meant"} = DOMAIN c
                      /\ c.frame \in DOMAIN frames' /\ (c.arp # 0 => frames'[c.frame].upper = c.arp)
                      /\ EthernetAt(frames'[c.frame].bytes) = c.meant.eth
                      /\ FieldsAt(frames'[c.frame].bytes) = c.meant.arp
    BY <1>5 DEF FliersStand
  <2>1. /\ {"n", "copy", "frame", "arp", "meant"} = DOMAIN c
        /\ c.frame \in DOMAIN frames /\ (c.arp # 0 => frames[c.frame].upper = c.arp)
        /\ EthernetAt(frames[c.frame].bytes) = c.meant.eth
        /\ FieldsAt(frames[c.frame].bytes) = c.meant.arp
    BY <1>3 DEF FliersStand
  <2>2. c.frame \in DOMAIN frames' /\ frames'[c.frame] = fr[c.frame] /\ c.arp \in ha
    BY <1>4, <1>5, <2>1
  <2>3. fr[c.frame].bytes = frames[c.frame].bytes BY <1>6a, <2>1
  <2>4. c.arp # 0 => fr[c.frame] = frames[c.frame] BY <1>6, <2>1, <2>2
  <2> QED BY <2>1, <2>2, <2>3, <2>4
<1>15. IsFiniteSet(DOMAIN frames') /\ IsFiniteSet(DOMAIN arps')
  <2>1. DOMAIN frames' \subseteq DOMAIN frames /\ DOMAIN arps' \subseteq DOMAIN arps BY <1>5
  <2> QED BY <1>3, <2>1, FS_Subset
<1> QED BY <1>10, <1>11, <1>12, <1>13, <1>14, <1>15 DEF ArpInv, ArpStands

\* Every packet on its way says what the node meant, in its objects and its bytes: whatever
\* the node sends, receives, clones, analyzes and lets go, for any addresses and questions.
THEOREM ArpAlwaysSays == ArpPacketSpec => []ArpSaysWhatWasMeant
<1>1. ArpInv /\ [ArpPacketNext]_arpPacketVars => ArpInv'
  <2> SUFFICES ASSUME ArpInv, [ArpPacketNext]_arpPacketVars PROVE ArpInv' OBVIOUS
  <2>1. CASE UNCHANGED arpPacketVars BY <2>1 DEF arpPacketVars, ArpInv
  <2>2. CASE ArpPacketNext
    BY <2>2, RequestStands, ReplyStands, CloneStands, AnalyzeStands, FinalizeStands DEF ArpPacketNext
  <2> QED BY <2>1, <2>2
<1>2. ArpInv => ArpSaysWhatWasMeant
  BY DEF ArpInv, ArpStands, UppersStand, FliersStand, ArpSaysWhatWasMeant
<1> QED BY ArpStarts, <1>1, <1>2, PTL DEF ArpPacketSpec

(***************************************************************************)
(* Third: holders of shared frames in one thread read what they got and    *)
(* wrote, and an implementation lives as long as somebody has it.          *)
(***************************************************************************)

-----------------------------------------------------------------------------
(* The inductive invariant of shared frames, for holders in one thread. *)

\* The maps that share a frame run in one thread.
OneThread == \A g, h \in Holder : ThreadOf[g] = ThreadOf[h]

\* The holder h is about to put its layers above the copies on them.
Pending(h) == task[h].at = 0 /\ task[h].above # 0

ImpsTyped ==
  /\ IsFiniteSet(Imp) /\ Imp \subseteq Nat \ {0}
  /\ \A i \in Imp :
       /\ DOMAIN imps[i] = {"layer", "refs", "lower", "upper", "field", "bytes"}
       /\ imps[i].refs \in Nat \ {0}

\* A chain has one implementation of each layer, up to the last that was analyzed.
ChainsTyped ==
  /\ DOMAIN chain = Holder /\ DOMAIN unrefs = Holder /\ DOMAIN task = Holder
  /\ DOMAIN expected = Holder
  /\ \A h \in Holder :
       /\ chain[h] \in Seq(Imp) /\ Top(h) <= Depth
       /\ expected[h] \in [1 .. Depth -> Nat]
       /\ \A k \in 1 .. Top(h) : imps[chain[h][k]].layer = k
  /\ writes \in Nat

\* It follows the lower pointers, but for a layer that waits for its new lower layer.
ChainsLinked ==
  \A h \in Holder : \A k \in 2 .. Top(h) :
    ~(Pending(h) /\ k = task[h].above) => imps[chain[h][k]].lower = chain[h][k - 1]

\* An upper pointer leads to the layer above.
UppersLinked ==
  \A i \in Imp :
    imps[i].upper # 0 =>
      /\ imps[i].upper \in Imp
      /\ imps[imps[i].upper].lower = i /\ imps[imps[i].upper].layer = imps[i].layer + 1

\* Who shares a layer shares those below it.
SharedBelow ==
  \A g, h \in Holder : \A k \in DOMAIN chain[g] \cap DOMAIN chain[h] :
    chain[g][k] = chain[h][k] => \A j \in 1 .. k : chain[g][j] = chain[h][j]

\* Layers say what their holders expect, at any time.
FramesSay ==
  \A h \in Holder : chain[h] # <<>> =>
    /\ imps[chain[h][1]].bytes = expected[h]
    /\ \A k \in 1 .. Top(h) : imps[chain[h][k]].field = expected[h][k]

\* What h is about to write is its own already, above the layer it looks at.
Detaching(h) ==
  /\ task[h].layer \in 1 .. Top(h) /\ task[h].at \in -1 .. Top(h) /\ task[h].value \in Nat
  /\ DOMAIN task[h] = {"layer", "value", "at", "above"}
  /\ \A k \in 1 .. Top(h) : \A g \in Holder \ {h} :
       k > task[h].at => ~Contains(chain[g], chain[h][k])
  /\ task[h].at > 0 => task[h].above = 0 /\ unrefs[h] = <<>>
  /\ task[h].at = -1 => unrefs[h] = <<>>
  /\ Pending(h) =>
       /\ task[h].above \in 2 .. Top(h)
       /\ \A i \in Imp : imps[i].upper # chain[h][task[h].above]

\* What h lets go goes from the top down.
LettingGo(h) ==
  /\ unrefs[h] \in Seq(Imp)
  /\ \A k \in 1 .. Len(unrefs[h]) : imps[unrefs[h][k]].layer = Len(unrefs[h]) - k + 1

\* One holder is in the middle of something at a time.
OneBusy ==
  /\ \A h \in Holder : (task[h] # Idle => Detaching(h)) /\ LettingGo(h)
  /\ \A g, h \in Holder : Busy(g) /\ Busy(h) => g = h

FrameInv ==
  /\ ImpsTyped /\ ChainsTyped /\ ChainsLinked /\ UppersLinked /\ SharedBelow /\ FramesSay
  /\ OneBusy /\ CountsExact

-----------------------------------------------------------------------------
(* Counting who has an implementation. *)

\* The holders in whose sequence i is
Having(i, s) == {h \in Holder : Contains(s[h], i)}

\* They can be counted.
LEMMA HavingFinite ==
  ASSUME NEW i, NEW s
  PROVE  IsFiniteSet(Having(i, s)) /\ Cardinality(Having(i, s)) \in Nat
<1>1. Having(i, s) \subseteq Holder BY DEF Having
<1> QED BY <1>1, FrameAssumption, FS_Subset, FS_CardinalityType

\* One more holder has it.
LEMMA HavingMore ==
  ASSUME NEW i, NEW s, NEW t, NEW h \in Holder, ~Contains(s[h], i), Contains(t[h], i),
         \A g \in Holder \ {h} : Contains(t[g], i) <=> Contains(s[g], i)
  PROVE  Cardinality(Having(i, t)) = Cardinality(Having(i, s)) + 1
<1>1. Having(i, t) = Having(i, s) \cup {h} /\ h \notin Having(i, s) BY DEF Having
<1> QED BY <1>1, HavingFinite, FS_AddElement

\* The same holders have it.
LEMMA HavingSame ==
  ASSUME NEW i, NEW s, NEW t, \A g \in Holder : Contains(t[g], i) <=> Contains(s[g], i)
  PROVE  Cardinality(Having(i, t)) = Cardinality(Having(i, s))
<1>1. Having(i, t) = Having(i, s) BY DEF Having
<1> QED BY <1>1

\* Nobody has it.
LEMMA HavingNone ==
  ASSUME NEW i, NEW s
  PROVE  Cardinality(Having(i, s)) = 0 <=> \A g \in Holder : ~Contains(s[g], i)
<1>1. Cardinality(Having(i, s)) = 0 <=> Having(i, s) = {} BY HavingFinite, FS_EmptySet
<1> QED BY <1>1 DEF Having

\* Who alone has it is the only one.
LEMMA HavingAlone ==
  ASSUME NEW i, NEW s, NEW h \in Holder, Contains(s[h], i)
  PROVE  /\ Cardinality(Having(i, s)) >= 1
         /\ Cardinality(Having(i, s)) = 1 => \A g \in Holder \ {h} : ~Contains(s[g], i)
<1>1. h \in Having(i, s) BY DEF Having
<1>2. Cardinality(Having(i, s) \ {h}) = Cardinality(Having(i, s)) - 1
  BY <1>1, HavingFinite, FS_RemoveElement
<1>3. IsFiniteSet(Having(i, s) \ {h}) /\ Cardinality(Having(i, s) \ {h}) \in Nat
  BY HavingFinite, FS_RemoveElement, FS_CardinalityType
<1>4. Cardinality(Having(i, s)) = 1 => Having(i, s) \ {h} = {}
  BY <1>2, <1>3, FS_EmptySet, HavingFinite
<1>5. Cardinality(Having(i, s)) >= 1 BY <1>2, <1>3, HavingFinite
<1> QED BY <1>4, <1>5 DEF Having

\* The counter of i counts those who have it, and those who let it go.
Counted(i, n, ch, un) == n = Cardinality(Having(i, ch)) + Cardinality(Having(i, un))

\* CountsExact, in these words
LEMMA CountsAre == CountsExact <=> \A i \in Imp : Counted(i, imps[i].refs, chain, unrefs)
BY DEF CountsExact, Counted, Having

-----------------------------------------------------------------------------
(* New implementations. *)

\* ids are n addresses, where nothing is.
NewAddresses(ids, n) ==
  /\ ids \in [1 .. n -> Nat \ {0}]
  /\ \A j, k \in 1 .. n : ids[j] = ids[k] => j = k
  /\ \A k \in 1 .. n : ids[k] \notin Imp

\* There are always enough addresses.
LEMMA FreshAddresses ==
  ASSUME IsFiniteSet(Imp), NEW n \in Nat
  PROVE  NewAddresses(Fresh(n), n)
<1> DEFINE c == Cardinality(Imp)
           I == 1 .. c + n
           S == I \ Imp
           Ids == [1 .. n -> S]
<1>1. c \in Nat BY FS_CardinalityType
<1>2. IsFiniteSet(I) /\ Cardinality(I) = c + n
  <2> HIDE DEF c
  <2> DEFINE m == c + n
  <2>1. m \in Int BY <1>1
  <2>2. I = 1 .. m OBVIOUS
  <2> HIDE DEF m, I
  <2>3. IsFiniteSet(I) /\ Cardinality(I) = IF 1 > m THEN 0 ELSE m - 1 + 1 BY <2>1, <2>2, FS_Interval
  <2> QED BY <1>1, <2>3 DEF m
<1>3. I \subseteq Nat \ {0}
  <2> HIDE DEF c
  <2> QED BY <1>1
<1> HIDE DEF I
<1>4. IsFiniteSet(S) /\ Cardinality(S) = Cardinality(I) - Cardinality(I \cap Imp)
  BY <1>2, FS_Difference, Zenon
<1>16. IsFiniteSet(I \cap Imp) /\ Cardinality(I \cap Imp) <= c BY FS_Intersection
<1> HIDE DEF c
<1>5. Cardinality(S) \in Nat /\ ExistsBijection(1 .. Cardinality(S), S) BY <1>4, FS_CardinalityType
<1>6. Cardinality(I \cap Imp) \in Nat BY <1>16, FS_CardinalityType
<1>7. Cardinality(S) >= n BY <1>1, <1>2, <1>4, <1>16, <1>5, <1>6
<1>8. PICK f : f \in Bijection(1 .. Cardinality(S), S) BY <1>5 DEF ExistsBijection
<1>9. /\ f \in [1 .. Cardinality(S) -> S]
      /\ \A j, k \in 1 .. Cardinality(S) : f[j] = f[k] => j = k
  BY <1>8 DEF Bijection, Injection, IsInjective
<1> DEFINE g == [k \in 1 .. n |-> f[k]]
<1>10. 1 .. n \subseteq 1 .. Cardinality(S) BY <1>5, <1>7
<1>11. g \in Ids BY <1>9, <1>10
<1>12. IsInjective(g) BY <1>9, <1>10 DEF IsInjective
<1>13. Fresh(n) \in Ids /\ IsInjective(Fresh(n))
  <2> HIDE DEF g
  <2> QED BY <1>11, <1>12 DEF Fresh, I, c
<1>14. S \subseteq Nat \ {0} /\ S \cap Imp = {} BY <1>3
<1>15. DOMAIN Fresh(n) = 1 .. n BY <1>13
<1> HIDE DEF S
<1> QED BY <1>13, <1>14, <1>15 DEF NewAddresses, IsInjective

\* In m the implementation of the layer k of n at the addresses ids stands on the one below.
StackedAt(m, ids, n, k, fields, bytes) ==
  /\ DOMAIN m[ids[k]] = {"layer", "refs", "lower", "upper", "field", "bytes"}
  /\ m[ids[k]].layer = k /\ m[ids[k]].refs = 1 /\ m[ids[k]].field = fields[k]
  /\ k # 1 => m[ids[k]].lower = ids[k - 1]
  /\ k # n => m[ids[k]].upper = ids[k + 1]
  /\ k = n => m[ids[k]].upper = 0
  /\ k = 1 => m[ids[k]].bytes = bytes

\* What is new at the addresses ids: a layer on the other.
LEMMA StackIs ==
  ASSUME NEW n \in Nat, NEW ids, NewAddresses(ids, n), NEW fields, NEW bytes
  PROVE  /\ DOMAIN Stack(ids, fields, bytes) = Range(ids) /\ IsFiniteSet(Range(ids))
         /\ Range(ids) \subseteq Nat \ {0} /\ Range(ids) \cap Imp = {}
         /\ \A i \in Range(ids) : \E k \in 1 .. n : ids[k] = i
         /\ \A k \in 1 .. n :
              /\ ids[k] \in Range(ids)
              /\ StackedAt(Stack(ids, fields, bytes), ids, n, k, fields, bytes)
<1>1. DOMAIN ids = 1 .. n /\ Len(ids) = n /\ ids \in [1 .. n -> Nat \ {0}]
  BY DEF NewAddresses
<1>2. Range(ids) \subseteq Nat \ {0} /\ Range(ids) \cap Imp = {} BY <1>1 DEF NewAddresses, Range
<1>3. \A i \in Range(ids) : \E k \in 1 .. n : ids[k] = i BY <1>1 DEF Range
<1>4. \A k \in 1 .. n : ids[k] \in Range(ids) BY <1>1 DEF Range
<1>5. IsFiniteSet(Range(ids))
  <2>1. ids \in Surjection(1 .. n, Range(ids)) BY <1>1 DEF Surjection, Range
  <2>2. IsFiniteSet(1 .. n) BY FS_Interval
  <2> QED BY <2>1, <2>2, FS_Surjection
<1>6. ASSUME NEW k \in 1 .. n
      PROVE  (CHOOSE j \in DOMAIN ids : ids[j] = ids[k]) = k
  BY <1>1 DEF NewAddresses
<1>7. DOMAIN Stack(ids, fields, bytes) = Range(ids) BY DEF Stack
<1>8. ASSUME NEW k \in 1 .. n
      PROVE  Stack(ids, fields, bytes)[ids[k]] =
                   [layer |-> k, refs |-> 1, field |-> fields[k],
                    lower |-> IF k = 1 THEN 0 ELSE ids[k-1],
                    upper |-> IF k = n THEN 0 ELSE ids[k+1],
                    bytes |-> IF k = 1 THEN bytes ELSE <<>>]
  BY <1>1, <1>4, <1>6 DEF Stack
<1>9. \A k \in 1 .. n : StackedAt(Stack(ids, fields, bytes), ids, n, k, fields, bytes)
  <2> SUFFICES ASSUME NEW k \in 1 .. n
               PROVE  StackedAt(Stack(ids, fields, bytes), ids, n, k, fields, bytes)
    OBVIOUS
  <2> DEFINE r == Stack(ids, fields, bytes)[ids[k]]
             low == IF k = 1 THEN 0 ELSE ids[k-1]
             up == IF k = n THEN 0 ELSE ids[k+1]
             says == IF k = 1 THEN bytes ELSE <<>>
  <2>1. r = [layer |-> k, refs |-> 1, field |-> fields[k], lower |-> low, upper |-> up, bytes |-> says]
    BY <1>8
  <2>2. (k # 1 => low = ids[k - 1]) /\ (k # n => up = ids[k + 1]) /\ (k = n => up = 0)
        /\ (k = 1 => says = bytes)
    OBVIOUS
  <2> HIDE DEF r, low, up, says
  <2>3. /\ DOMAIN r = {"layer", "refs", "lower", "upper", "field", "bytes"}
        /\ r.layer = k /\ r.refs = 1 /\ r.field = fields[k] /\ r.lower = low /\ r.upper = up
        /\ r.bytes = says
    BY <2>1
  <2> QED BY <2>2, <2>3 DEF StackedAt, r
<1> QED BY <1>2, <1>3, <1>4, <1>5, <1>7, <1>9

-----------------------------------------------------------------------------
(* Chains. *)

\* A holder's chain, by layer
LEMMA ChainFacts ==
  ASSUME ImpsTyped, ChainsTyped, NEW h \in Holder
  PROVE  /\ Top(h) \in Nat /\ DOMAIN chain[h] = 1 .. Top(h) /\ Len(chain[h]) = Top(h)
         /\ chain[h] \in [1 .. Top(h) -> Imp]
         /\ \A k \in 1 .. Top(h) :
              /\ chain[h][k] \in Imp /\ chain[h][k] # 0
              /\ imps[chain[h][k]].layer = k
         /\ \A i : Contains(chain[h], i) <=> \E k \in 1 .. Top(h) : chain[h][k] = i
         /\ chain[h] # <<>> <=> Top(h) # 0
<1>1. chain[h] \in Seq(Imp) BY DEF ChainsTyped
<1>2. Top(h) \in Nat /\ DOMAIN chain[h] = 1 .. Top(h) /\ Len(chain[h]) = Top(h)
  BY <1>1 DEF Top
<1>3. \A k \in 1 .. Top(h) : chain[h][k] \in Imp BY <1>1, <1>2
<1>4. \A k \in 1 .. Top(h) : imps[chain[h][k]].layer = k BY DEF ChainsTyped
<1>5. \A i : Contains(chain[h], i) <=> \E k \in 1 .. Top(h) : chain[h][k] = i
  BY <1>2 DEF Contains
<1>6. chain[h] # <<>> <=> Top(h) # 0 BY <1>1, <1>2
<1>7. chain[h] \in [1 .. Top(h) -> Imp] BY <1>1, <1>2
<1> QED BY <1>2, <1>3, <1>4, <1>5, <1>6, <1>7 DEF ImpsTyped

\* The implementations under one in a chain are those of the chain.
LEMMA UnderChain ==
  ASSUME ImpsTyped, ChainsTyped, ChainsLinked, NEW h \in Holder, NEW n \in 1 .. Top(h),
         Pending(h) => task[h].above > n, Pending(h) => task[h].above \in Nat
  PROVE  Under(chain[h][n]) = [k \in 1 .. n |-> chain[h][k]]
<1> DEFINE i == chain[h][n]
           c == [k \in 1 .. n |-> chain[h][k]]
           Is(f) == f = [k \in 1 .. imps[i].layer |->
                           IF k = imps[i].layer THEN i ELSE imps[f[k + 1]].lower]
<1>1. Top(h) \in Nat /\ imps[i].layer = n BY ChainFacts
<1>2. \A k \in 2 .. n : imps[chain[h][k]].lower = chain[h][k - 1]
  <2> SUFFICES ASSUME NEW k \in 2 .. n PROVE imps[chain[h][k]].lower = chain[h][k - 1] OBVIOUS
  <2>1. k \in 2 .. Top(h) /\ n \in Nat BY <1>1
  <2>2. ~(Pending(h) /\ k = task[h].above) BY <2>1
  <2> QED BY <2>1, <2>2 DEF ChainsLinked
<1>3. Is(c)
  <2>1. ASSUME NEW k \in 1 .. n, k # n PROVE c[k] = imps[c[k + 1]].lower
    <3>1. k + 1 \in 2 .. n /\ k + 1 \in 1 .. n /\ (k + 1) - 1 = k BY <1>1, <2>1
    <3> QED BY <1>2, <3>1
  <2>2. c = [k \in 1 .. n |-> IF k = n THEN i ELSE imps[c[k + 1]].lower] BY <1>1, <2>1
  <2> QED BY <1>1, <2>2
<1>4. ASSUME NEW f, Is(f) PROVE f = c
  <2>1. DOMAIN f = 1 .. n /\ f = [k \in 1 .. n |-> f[k]] BY <1>1, <1>4
  <2> DEFINE Bad == {d \in 0 .. n - 1 : f[n - d] # c[n - d]}
  <2>2. Bad = {}
    <3> SUFFICES ASSUME Bad # {} PROVE FALSE OBVIOUS
    <3>1. Bad \in SUBSET Nat OBVIOUS
    <3> HIDE DEF Bad
    <3>2. PICK d \in Bad : \A e \in Bad : d <= e BY <3>1, LeastNumber
    <3>3. d \in 0 .. n - 1 /\ f[n - d] # c[n - d] BY DEF Bad
    <3>4. d # 0 BY <1>1, <1>4, <3>3
    <3>5. d - 1 \in 0 .. n - 1 /\ d - 1 \notin Bad BY <1>1, <3>2, <3>3, <3>4
    <3>6. n - (d - 1) = (n - d) + 1 /\ n - d \in 1 .. n /\ n - d # n BY <1>1, <3>3, <3>4
    <3>7. f[(n - d) + 1] = c[(n - d) + 1] BY <3>5, <3>6 DEF Bad
    <3>8. f[n - d] = imps[f[(n - d) + 1]].lower BY <1>1, <1>4, <3>6
    <3>9. c[n - d] = imps[c[(n - d) + 1]].lower BY <1>3, <3>6
    <3> QED BY <3>3, <3>7, <3>8, <3>9
  <2>3. \A k \in 1 .. n : f[k] = c[k]
    <3> SUFFICES ASSUME NEW k \in 1 .. n PROVE f[k] = c[k] OBVIOUS
    <3>1. n - k \in 0 .. n - 1 /\ n - (n - k) = k BY <1>1
    <3> QED BY <2>2, <3>1
  <2> QED BY <2>1, <2>3
<1> HIDE DEF c
<1>5. Under(i) = CHOOSE f : Is(f) BY Zenon DEF Under
<1> HIDE DEF Is
<1>6. (CHOOSE f : Is(f)) = c BY <1>3, <1>4
<1> QED BY <1>5, <1>6 DEF c

-----------------------------------------------------------------------------
(* Each step keeps the invariant. *)

\* In the turn of a holder no other is in the middle of something.
LEMMA OthersIdle ==
  ASSUME OneThread, NEW h \in Holder, Turn(h)
  PROVE  /\ \A g \in Holder \ {h} : task[g] = Idle /\ unrefs[g] = <<>> /\ ~Pending(g)
         /\ ~Busy(h) => task[h] = Idle /\ unrefs[h] = <<>> /\ ~Pending(h)
BY DEF OneThread, Turn, Busy, Pending, Idle

\* A function of the first m numbers is a sequence.
LEMMA SequenceOf ==
  ASSUME NEW S, NEW m \in Nat, NEW f, f = [j \in 1 .. m |-> f[j]], \A j \in 1 .. m : f[j] \in S
  PROVE  f \in Seq(S) /\ Len(f) = m
OBVIOUS

\* A holder starts to write.
LEMMA WriteKeeps ==
  ASSUME FrameInv, OneThread, NEW h \in Holder, NEW k, Write(h, k)
  PROVE  FrameInv'
<1> USE DEF FrameInv
<1>1. /\ Free(h) /\ k \in 1 .. Top(h) /\ k \in 1 .. Top(h)'
      /\ task' = [task EXCEPT ![h] = [layer |-> k, value |-> writes + 1, at |-> Top(h), above |-> 0]]
      /\ writes' = writes + 1 /\ imps' = imps /\ chain' = chain /\ unrefs' = unrefs
      /\ expected' = expected /\ writes \in Nat /\ DOMAIN task = Holder
  BY DEF Write, ChainsTyped, Top
<1>2. \A g \in Holder : task[g] = Idle /\ unrefs[g] = <<>> /\ ~Pending(g)
  BY <1>1, OthersIdle DEF Free
<1>3. task'[h].at = Top(h) /\ task'[h].above = 0 /\ task'[h].layer = k /\ task'[h].value = writes + 1
      /\ DOMAIN task'[h] = {"layer", "value", "at", "above"}
  BY <1>1
<1>4. \A g \in Holder \ {h} : task'[g] = Idle BY <1>1, <1>2
<1>5. \A g \in Holder : ~Pending(g)' BY <1>3, <1>4 DEF Pending, Idle
<1>6. ImpsTyped' BY <1>1 DEF ImpsTyped, Imp
<1>7. ChainsTyped' BY <1>1 DEF ChainsTyped, Imp, Top
<1>8. ChainsLinked' BY <1>1, <1>2, <1>5 DEF ChainsLinked, Top
<1>9. UppersLinked' BY <1>1 DEF UppersLinked, Imp
<1>10. SharedBelow' BY <1>1 DEF SharedBelow
<1>11. FramesSay' BY <1>1 DEF FramesSay, Top
<1>12. CountsExact' BY <1>1 DEF CountsExact, Imp
<1>13. Detaching(h)'
  <2>1. Top(h) \in Nat BY ChainFacts
  <2> QED BY <1>1, <1>2, <1>3, <1>5, <2>1 DEF Detaching, Top
<1>14. \A g \in Holder : LettingGo(g)' BY <1>1 DEF OneBusy, LettingGo, Imp
<1>15. OneBusy' BY <1>1, <1>2, <1>4, <1>13, <1>14 DEF OneBusy, Busy
<1> QED BY <1>6, <1>7, <1>8, <1>9, <1>10, <1>11, <1>12, <1>15

\* A holder lets its frame go.
LEMMA FinalizeKeeps ==
  ASSUME FrameInv, OneThread, NEW h \in Holder, Finalize(h)
  PROVE  FrameInv'
<1> USE DEF FrameInv
<1>1. /\ Free(h) /\ unrefs' = [unrefs EXCEPT ![h] = Reverse(chain[h])]
      /\ chain' = [chain EXCEPT ![h] = <<>>] /\ expected' = [expected EXCEPT ![h] = Sent]
      /\ imps' = imps /\ task' = task /\ writes' = writes
      /\ DOMAIN chain = Holder /\ DOMAIN unrefs = Holder /\ DOMAIN expected = Holder
  BY DEF Finalize, ChainsTyped
<1>2. \A g \in Holder : task[g] = Idle /\ unrefs[g] = <<>> /\ ~Pending(g)
  BY <1>1, OthersIdle DEF Free
<1>3. \A g \in Holder : ~Pending(g)' BY <1>1, <1>2 DEF Pending
<1>4. /\ chain'[h] = <<>> /\ Top(h)' = 0 /\ unrefs'[h] = Reverse(chain[h]) /\ expected'[h] = Sent
      /\ \A g \in Holder \ {h} : chain'[g] = chain[g] /\ unrefs'[g] = unrefs[g]
                                 /\ expected'[g] = expected[g] /\ Top(g)' = Top(g)
  BY <1>1 DEF Top
<1>5. /\ Top(h) \in Nat /\ DOMAIN chain[h] = 1 .. Top(h) /\ Len(chain[h]) = Top(h)
      /\ chain[h] \in [1 .. Top(h) -> Imp] /\ Imp' = Imp
  BY <1>1, ChainFacts DEF Imp
<1>6. ImpsTyped' BY <1>1 DEF ImpsTyped, Imp
<1>7. ChainsTyped'
  <2>1. Sent \in [1 .. Depth -> Nat] BY DEF Sent
  <2>2. ASSUME NEW g \in Holder
        PROVE  (/\ chain[g] \in Seq(Imp) /\ Top(g) <= Depth
                /\ expected[g] \in [1 .. Depth -> Nat]
                /\ \A k \in 1 .. Top(g) : imps[chain[g][k]].layer = k)'
    <3>1. CASE g = h
      <4>1. chain'[h] \in Seq(Imp') /\ Top(h)' <= Depth BY <1>4, FrameAssumption
      <4>2. \A k \in 1 .. Top(h)' : FALSE BY <1>4
      <4>3. expected'[g] \in [1 .. Depth -> Nat] /\ chain'[g] \in Seq(Imp') BY <1>4, <2>1, <3>1, <4>1
      <4>4. Top(g)' = Top(h)' BY <3>1 DEF Top
      <4> QED BY <4>1, <4>2, <4>3, <4>4
    <3>2. CASE g # h BY <1>1, <1>4, <1>5, <3>2 DEF ChainsTyped
    <3> QED BY <3>1, <3>2
  <2> QED BY <1>1, <2>2 DEF ChainsTyped
<1>8. ChainsLinked' BY <1>1, <1>2, <1>4 DEF ChainsLinked
<1>9. UppersLinked' BY <1>1 DEF UppersLinked, Imp
<1>10. SharedBelow' BY <1>4 DEF SharedBelow
<1>11. FramesSay' BY <1>1, <1>4 DEF FramesSay
<1>12. CountsExact'
  <2> SUFFICES ASSUME NEW i \in Imp' PROVE Counted(i, imps'[i].refs, chain', unrefs')
    BY DEF CountsExact, Counted, Having
  <2>1. Counted(i, imps'[i].refs, chain, unrefs) BY <1>1, <1>5, CountsAre
  <2>2. Contains(unrefs'[h], i) <=> Contains(chain[h], i)
    BY <1>4, <1>5 DEF Contains, Reverse
  <2>3. ~Contains(chain'[h], i) /\ ~Contains(unrefs[h], i) BY <1>2, <1>4 DEF Contains
  <2>4. CASE Contains(chain[h], i)
    <3>1. Cardinality(Having(i, chain)) = Cardinality(Having(i, chain')) + 1
      BY <1>4, <2>3, <2>4, HavingMore
    <3>2. Cardinality(Having(i, unrefs')) = Cardinality(Having(i, unrefs)) + 1
      BY <1>4, <2>2, <2>3, <2>4, HavingMore
    <3>3. Cardinality(Having(i, chain')) \in Nat /\ Cardinality(Having(i, unrefs)) \in Nat
      BY HavingFinite
    <3> QED BY <2>1, <3>1, <3>2, <3>3 DEF Counted
  <2>5. CASE ~Contains(chain[h], i)
    <3>1. Cardinality(Having(i, chain)) = Cardinality(Having(i, chain'))
      BY <1>4, <2>3, <2>5, HavingSame
    <3>2. Cardinality(Having(i, unrefs')) = Cardinality(Having(i, unrefs))
      BY <1>4, <2>2, <2>3, <2>5, HavingSame
    <3> QED BY <2>1, <3>1, <3>2 DEF Counted
  <2> QED BY <2>4, <2>5
<1>13. ASSUME NEW g \in Holder PROVE LettingGo(g)'
  <2>1. CASE g = h
    <3>1. /\ Len(unrefs'[h]) = Top(h) /\ unrefs'[h] \in Seq(Imp)
          /\ \A k \in 1 .. Top(h) : unrefs'[h][k] = chain[h][Top(h) - k + 1]
      <4>1. unrefs'[h] = [k \in 1 .. Top(h) |-> chain[h][Top(h) - k + 1]] BY <1>4, <1>5 DEF Reverse
      <4>2. \A k \in 1 .. Top(h) : chain[h][Top(h) - k + 1] \in Imp BY <1>5
      <4> QED BY <1>5, <4>1, <4>2
    <3>2. ASSUME NEW k \in 1 .. Top(h) PROVE imps[unrefs'[h][k]].layer = Top(h) - k + 1
      <4>1. Top(h) - k + 1 \in 1 .. Top(h) BY <1>5
      <4> QED BY <3>1, <4>1, ChainFacts
    <3> QED BY <1>1, <1>5, <2>1, <3>1, <3>2 DEF LettingGo
  <2>2. CASE g # h BY <1>1, <1>4, <1>5, <2>2 DEF OneBusy, LettingGo
  <2> QED BY <2>1, <2>2
<1>14. OneBusy' BY <1>1, <1>2, <1>4, <1>13 DEF OneBusy, Busy
<1> QED BY <1>6, <1>7, <1>8, <1>9, <1>10, <1>11, <1>12, <1>14

\* The first layers of a new frame are made, where there is none.
LEMMA NewFrameKeeps ==
  ASSUME FrameInv, OneThread, NEW h \in Holder, NEW n \in 2 .. Depth, NewFrame(h, n)
  PROVE  FrameInv'
<1> USE DEF FrameInv
<1> DEFINE ids == Fresh(n)
           new == Stack(ids, Sent, Sent)
<1>0. n \in Nat /\ n <= Depth /\ n # 0 /\ Depth \in Nat /\ 1 .. n \subseteq 1 .. Depth
  BY FrameAssumption
<1>1. NewAddresses(ids, n) BY <1>0, FreshAddresses DEF ImpsTyped
<1>2. /\ DOMAIN new = Range(ids) /\ IsFiniteSet(Range(ids)) /\ Range(ids) \subseteq Nat \ {0}
      /\ \A i \in Range(ids) : \E k \in 1 .. n : ids[k] = i
      /\ \A k \in 1 .. n :
           /\ ids[k] \in Range(ids)
           /\ StackedAt(new, ids, n, k, Sent, Sent)
  BY <1>0, <1>1, StackIs
<1>3. /\ Free(h) /\ imps = <<>> /\ imps' = new /\ chain' = [chain EXCEPT ![h] = ids]
      /\ expected' = [expected EXCEPT ![h] = Sent] /\ writes' = 0
      /\ task' = task /\ unrefs' = unrefs
      /\ DOMAIN chain = Holder /\ DOMAIN expected = Holder
  BY DEF NewFrame, ChainsTyped
<1>4. ids \in [1 .. n -> Range(ids)] /\ Len(ids) = n /\ DOMAIN ids = 1 .. n
      /\ \A j, k \in 1 .. n : ids[j] = ids[k] => j = k
  <2>1. DOMAIN ids = 1 .. n BY <1>1 DEF NewAddresses
  <2> QED BY <1>0, <1>1, <1>2, <2>1 DEF NewAddresses
<1> HIDE DEF new, ids
<1>19. \A k \in 1 .. n : StackedAt(imps', ids, n, k, Sent, Sent) BY <1>2, <1>3
<1>5. \A g \in Holder : task[g] = Idle /\ unrefs[g] = <<>> /\ ~Pending(g)
  BY <1>3, OthersIdle DEF Free
<1>6. \A g \in Holder : ~Pending(g)' BY <1>3, <1>5 DEF Pending
<1>7. Imp' = Range(ids) /\ Imp = {} BY <1>2, <1>3 DEF Imp
<1>8. \A g \in Holder : chain[g] = <<>>
  <2> SUFFICES ASSUME NEW g \in Holder PROVE chain[g] = <<>> OBVIOUS
  <2>1. Top(g) \in Nat /\ \A k \in 1 .. Top(g) : chain[g][k] \in Imp BY ChainFacts
  <2>2. ~(Top(g) >= 1)
    <3> SUFFICES ASSUME Top(g) >= 1 PROVE FALSE OBVIOUS
    <3>1. 1 \in 1 .. Top(g) BY <2>1
    <3> QED BY <1>7, <2>1, <3>1
  <2> QED BY <2>1, <2>2, ChainFacts
<1>9. /\ chain'[h] = ids /\ Top(h)' = n /\ expected'[h] = Sent
      /\ \A g \in Holder \ {h} : chain'[g] = <<>> /\ expected'[g] = expected[g] /\ Top(g)' = 0
  BY <1>3, <1>4, <1>8 DEF Top
<1>10. ImpsTyped'
  <2>1. ASSUME NEW i \in Imp'
        PROVE  /\ DOMAIN imps'[i] = {"layer", "refs", "lower", "upper", "field", "bytes"}
               /\ imps'[i].refs \in Nat \ {0}
    <3>1. PICK k \in 1 .. n : ids[k] = i BY <1>2, <1>7
    <3>2. StackedAt(imps', ids, n, k, Sent, Sent) BY <1>19
    <3> QED BY <3>1, <3>2 DEF StackedAt
  <2> QED BY <1>2, <1>7, <2>1 DEF ImpsTyped
<1>11. ChainsTyped'
  <2>1. Sent \in [1 .. Depth -> Nat] BY DEF Sent
  <2>2. ids \in Seq(Imp') BY <1>0, <1>4, <1>7
  <2>3. ASSUME NEW g \in Holder
        PROVE  (/\ chain[g] \in Seq(Imp) /\ Top(g) <= Depth
                /\ expected[g] \in [1 .. Depth -> Nat]
                /\ \A k \in 1 .. Top(g) : imps[chain[g][k]].layer = k)'
    <3>1. CASE g = h
      <4>1. Top(g)' = n BY <1>9, <3>1 DEF Top
      <4>2. \A k \in 1 .. n : imps'[chain'[g][k]].layer = k BY <1>19, <1>9, <3>1 DEF StackedAt
      <4> QED BY <1>0, <1>9, <2>1, <2>2, <3>1, <4>1, <4>2
    <3>2. CASE g # h
      <4>1. Top(g)' = 0 /\ chain'[g] = <<>> /\ expected'[g] = expected[g] BY <1>9, <3>2
      <4>2. expected[g] \in [1 .. Depth -> Nat] BY DEF ChainsTyped
      <4>3. \A k \in 1 .. 0 : FALSE OBVIOUS
      <4>4. <<>> \in Seq(Imp') OBVIOUS
      <4> QED BY <1>0, <4>1, <4>2, <4>3, <4>4
    <3> QED BY <3>1, <3>2
  <2> QED BY <1>3, <2>3 DEF ChainsTyped
<1>12. ChainsLinked'
  <2> SUFFICES ASSUME NEW g \in Holder, NEW k \in 2 .. Top(g)'
               PROVE  imps'[chain'[g][k]].lower = chain'[g][k - 1]
    BY DEF ChainsLinked
  <2>1. g = h /\ k \in 2 .. n /\ k \in 1 .. n BY <1>0, <1>9
  <2>2. imps'[ids[k]].lower = ids[k - 1] BY <1>19, <2>1 DEF StackedAt
  <2> QED BY <1>9, <2>1, <2>2
<1>13. UppersLinked'
  <2> SUFFICES ASSUME NEW i \in Imp', imps'[i].upper # 0
               PROVE  /\ imps'[i].upper \in Imp'
                      /\ imps'[imps'[i].upper].lower = i
                      /\ imps'[imps'[i].upper].layer = imps'[i].layer + 1
    BY DEF UppersLinked
  <2>1. PICK k \in 1 .. n : ids[k] = i BY <1>2, <1>7
  <2>2. imps'[i].upper = (IF k = n THEN 0 ELSE ids[k+1]) /\ imps'[i].layer = k
    BY <1>19, <2>1 DEF StackedAt
  <2>3. k # n /\ k + 1 \in 1 .. n /\ k + 1 # 1 /\ (k + 1) - 1 = k BY <1>0, <2>2
  <2>4. imps'[ids[k + 1]].layer = k + 1
        /\ imps'[ids[k + 1]].lower = ids[(k + 1) - 1]
    BY <1>19, <2>3 DEF StackedAt
  <2> QED BY <1>2, <1>7, <2>1, <2>2, <2>3, <2>4
<1>14. SharedBelow'
  <2> SUFFICES ASSUME NEW f \in Holder, NEW g \in Holder,
                      NEW k \in DOMAIN chain'[f] \cap DOMAIN chain'[g], chain'[f][k] = chain'[g][k]
               PROVE  \A j \in 1 .. k : chain'[f][j] = chain'[g][j]
    BY DEF SharedBelow
  <2>1. \A e \in Holder \ {h} : DOMAIN chain'[e] = {} BY <1>9
  <2> QED BY <2>1
<1>15. FramesSay'
  <2> SUFFICES ASSUME NEW g \in Holder, chain'[g] # <<>>
               PROVE  /\ imps'[chain'[g][1]].bytes = expected'[g]
                      /\ \A k \in 1 .. Top(g)' : imps'[chain'[g][k]].field = expected'[g][k]
    BY DEF FramesSay
  <2>1. g = h /\ 1 \in 1 .. n BY <1>0, <1>9
  <2>2. Top(g)' = n BY <1>9, <2>1 DEF Top
  <2>3. imps'[ids[1]].bytes = Sent BY <1>19, <2>1 DEF StackedAt
  <2>4. \A k \in 1 .. n : imps'[ids[k]].field = Sent[k] BY <1>19 DEF StackedAt
  <2> QED BY <1>9, <2>1, <2>2, <2>3, <2>4
<1>16. CountsExact'
  <2> SUFFICES ASSUME NEW i \in Imp' PROVE Counted(i, imps'[i].refs, chain', unrefs')
    BY DEF CountsExact, Counted, Having
  <2>1. PICK k \in 1 .. n : ids[k] = i BY <1>2, <1>7
  <2>2. imps'[i].refs = 1 BY <1>19, <2>1 DEF StackedAt
  <2>3. \A g \in Holder : ~Contains(chain[g], i) /\ ~Contains(unrefs'[g], i)
    BY <1>3, <1>5, <1>8 DEF Contains
  <2>4. Contains(chain'[h], i) /\ \A g \in Holder \ {h} : ~Contains(chain'[g], i)
    BY <1>4, <1>9, <2>1 DEF Contains
  <2>5. Cardinality(Having(i, chain')) = Cardinality(Having(i, chain)) + 1
    BY <2>3, <2>4, HavingMore
  <2>6. Cardinality(Having(i, chain)) = 0 /\ Cardinality(Having(i, unrefs')) = 0
    BY <2>3, HavingNone
  <2> QED BY <2>2, <2>5, <2>6 DEF Counted
<1>17. ASSUME NEW g \in Holder PROVE LettingGo(g)'
  <2>1. unrefs'[g] = <<>> BY <1>3, <1>5
  <2> QED BY <2>1 DEF LettingGo
<1>18. OneBusy' BY <1>3, <1>5, <1>17 DEF OneBusy, Busy
<1> QED BY <1>10, <1>11, <1>12, <1>13, <1>14, <1>15, <1>16, <1>18

\* m has of the implementation i what there was, but for the counter.
SaysTheSame(m, i) ==
  /\ DOMAIN m[i] = {"layer", "refs", "lower", "upper", "field", "bytes"}
  /\ m[i].layer = imps[i].layer /\ m[i].lower = imps[i].lower /\ m[i].upper = imps[i].upper
  /\ m[i].field = imps[i].field /\ m[i].bytes = imps[i].bytes

\* Counting references changes nothing else.
LEMMA ReferencedIs ==
  ASSUME ImpsTyped, NEW ids, NEW by \in Int
  PROVE  /\ DOMAIN Referenced(ids, by) = Imp
         /\ \A i \in Imp :
              /\ SaysTheSame(Referenced(ids, by), i)
              /\ Referenced(ids, by)[i].refs =
                   IF i \in Range(ids) THEN imps[i].refs + by ELSE imps[i].refs
<1>1. DOMAIN Referenced(ids, by) = Imp BY DEF Referenced
<1>2. ASSUME NEW i \in Imp
      PROVE  /\ SaysTheSame(Referenced(ids, by), i)
             /\ Referenced(ids, by)[i].refs =
                  IF i \in Range(ids) THEN imps[i].refs + by ELSE imps[i].refs
  <2> DEFINE r == imps[i]
             n == IF i \in Range(ids) THEN r.refs + by ELSE r.refs
  <2>1. Referenced(ids, by)[i] = [r EXCEPT !.refs = n] BY DEF Referenced
  <2>2. DOMAIN r = {"layer", "refs", "lower", "upper", "field", "bytes"} BY DEF ImpsTyped
  <2> HIDE DEF n
  <2>3. SaysTheSame(Referenced(ids, by), i) /\ Referenced(ids, by)[i].refs = n
    BY <2>1, <2>2 DEF SaysTheSame
  <2> QED BY <2>3 DEF n
<1> QED BY <1>1, <1>2

\* The holder g gets what h has up to the layer n, and nothing else happens but counting.
HoldsLike(g, h, n) ==
  /\ \A f \in Holder : task[f] = Idle /\ unrefs[f] = <<>> /\ ~Pending(f)
  /\ task' = task /\ unrefs' = unrefs /\ writes' = writes
  /\ DOMAIN chain' = Holder /\ DOMAIN expected' = Holder
  /\ Imp' = Imp
  /\ \A i \in Imp : SaysTheSame(imps', i) /\ imps'[i].refs \in Nat \ {0}
  /\ Len(chain'[g]) = n /\ DOMAIN chain'[g] = 1 .. n /\ chain'[g] \in Seq(Imp)
  /\ \A k \in 1 .. n : chain'[g][k] = chain[h][k]
  /\ expected'[g] = expected[h]
  /\ \A f \in Holder \ {g} : chain'[f] = chain[f] /\ expected'[f] = expected[f]

\* That keeps the invariant, as far as it was counted.
LEMMA LikeAnother ==
  ASSUME FrameInv, NEW h \in Holder, NEW g \in Holder \ {h}, NEW n \in 1 .. Top(h),
         HoldsLike(g, h, n), CountsExact'
  PROVE  FrameInv'
<1> USE DEF FrameInv
<1> DEFINE c == chain'[g]
<1>2. /\ task' = task /\ unrefs' = unrefs /\ writes' = writes
      /\ DOMAIN chain' = Holder /\ DOMAIN expected' = Holder
  BY DEF HoldsLike
<1>3. \A f \in Holder : task[f] = Idle /\ unrefs[f] = <<>> /\ ~Pending(f) BY DEF HoldsLike
<1>4. \A f \in Holder : ~Pending(f)' BY <1>2, <1>3 DEF Pending
<1>5. /\ Top(h) \in Nat /\ chain[h] \in [1 .. Top(h) -> Imp] /\ n \in 1 .. Top(h) /\ n \in Nat
      /\ 1 \in 1 .. n /\ 1 .. n \subseteq 1 .. Top(h)
  BY ChainFacts
<1>6. /\ Len(c) = n /\ DOMAIN c = 1 .. n /\ c \in Seq(Imp)
      /\ \A k \in 1 .. n : c[k] = chain[h][k]
  BY DEF HoldsLike
<1>7. /\ Imp' = Imp
      /\ \A i \in Imp : SaysTheSame(imps', i) /\ imps'[i].refs \in Nat \ {0}
  BY DEF HoldsLike
<1>8. /\ chain'[g] = c /\ Top(g)' = n /\ expected'[g] = expected[h]
      /\ \A f \in Holder \ {g} : chain'[f] = chain[f] /\ expected'[f] = expected[f] /\ Top(f)' = Top(f)
  BY DEF HoldsLike, Top
<1> HIDE DEF c
<1>9. \A f \in Holder : \A k \in 1 .. Top(f)' : chain'[f][k] \in Imp
  <2> SUFFICES ASSUME NEW f \in Holder, NEW k \in 1 .. Top(f)' PROVE chain'[f][k] \in Imp OBVIOUS
  <2>1. CASE f = g
    <3>1. k \in 1 .. n /\ k \in 1 .. Top(h) BY <1>5, <1>8, <2>1 DEF Top
    <3> QED BY <1>5, <1>6, <1>8, <2>1, <3>1
  <2>2. CASE f # g BY <1>8, <2>2, ChainFacts
  <2> QED BY <2>1, <2>2
<1>10. ImpsTyped' BY <1>7 DEF ImpsTyped, SaysTheSame
<1>11. ChainsTyped'
  <2>1. ASSUME NEW f \in Holder
        PROVE  (/\ chain[f] \in Seq(Imp) /\ Top(f) <= Depth
                /\ expected[f] \in [1 .. Depth -> Nat]
                /\ \A k \in 1 .. Top(f) : imps[chain[f][k]].layer = k)'
    <3>1. CASE f = g
      <4>1. Top(f)' = n /\ n <= Depth
        <5>1. Top(h) <= Depth /\ Depth \in Nat BY FrameAssumption DEF ChainsTyped
        <5> QED BY <1>5, <1>8, <3>1, <5>1 DEF Top
      <4>2. \A k \in 1 .. n : imps'[chain'[f][k]].layer = k
        <5> SUFFICES ASSUME NEW k \in 1 .. n PROVE imps'[chain'[f][k]].layer = k OBVIOUS
        <5>1. k \in 1 .. Top(h) /\ chain'[f][k] = chain[h][k] BY <1>5, <1>6, <1>8, <3>1
        <5>2. chain[h][k] \in Imp /\ imps[chain[h][k]].layer = k BY <5>1, ChainFacts
        <5> QED BY <1>7, <5>1, <5>2 DEF SaysTheSame
      <4>3. chain'[f] \in Seq(Imp') /\ expected'[f] \in [1 .. Depth -> Nat]
        BY <1>6, <1>7, <1>8, <3>1 DEF ChainsTyped
      <4> QED BY <4>1, <4>2, <4>3
    <3>2. CASE f # g
      <4>1. Top(f)' = Top(f) /\ chain'[f] = chain[f] /\ expected'[f] = expected[f] BY <1>8, <3>2
      <4>2. \A k \in 1 .. Top(f) : imps'[chain[f][k]].layer = k
        BY <1>7, ChainFacts DEF SaysTheSame
      <4> QED BY <1>7, <4>1, <4>2 DEF ChainsTyped
    <3> QED BY <3>1, <3>2
  <2> QED BY <1>2, <2>1 DEF ChainsTyped
<1>12. ChainsLinked'
  <2> SUFFICES ASSUME NEW f \in Holder, NEW k \in 2 .. Top(f)'
               PROVE  imps'[chain'[f][k]].lower = chain'[f][k - 1]
    BY DEF ChainsLinked
  <2>1. CASE f = g
    <3>1. k \in 2 .. n /\ k \in 1 .. n /\ k - 1 \in 1 .. n /\ k \in 2 .. Top(h) /\ k \in 1 .. Top(h)
      BY <1>5, <1>8, <2>1 DEF Top
    <3>2. imps[chain[h][k]].lower = chain[h][k - 1] BY <1>3, <3>1 DEF ChainsLinked
    <3>3. chain'[f][k] = chain[h][k] /\ chain'[f][k - 1] = chain[h][k - 1] /\ chain[h][k] \in Imp
      BY <1>5, <1>6, <1>8, <2>1, <3>1
    <3> QED BY <1>7, <3>2, <3>3 DEF SaysTheSame
  <2>2. CASE f # g
    <3>1. k \in 2 .. Top(f) /\ k \in 1 .. Top(f) /\ Top(f) \in Nat BY <1>8, <2>2, ChainFacts
    <3>2. imps[chain[f][k]].lower = chain[f][k - 1] BY <1>3, <3>1 DEF ChainsLinked
    <3>3. chain'[f] = chain[f] /\ chain[f][k] \in Imp BY <1>8, <2>2, <3>1, ChainFacts
    <3> QED BY <1>7, <3>2, <3>3 DEF SaysTheSame
  <2> QED BY <2>1, <2>2
<1>13. UppersLinked' BY <1>7 DEF UppersLinked, SaysTheSame
<1>14. SharedBelow'
  <2> DEFINE of(f) == IF f = g THEN h ELSE f
  <2>1. \A f \in Holder : /\ of(f) \in Holder
                          /\ DOMAIN chain'[f] \subseteq DOMAIN chain[of(f)]
                          /\ \A k \in DOMAIN chain'[f] : chain'[f][k] = chain[of(f)][k]
    <3> SUFFICES ASSUME NEW f \in Holder
                 PROVE  /\ of(f) \in Holder
                        /\ DOMAIN chain'[f] \subseteq DOMAIN chain[of(f)]
                        /\ \A k \in DOMAIN chain'[f] : chain'[f][k] = chain[of(f)][k]
      OBVIOUS
    <3>1. CASE f = g BY <1>5, <1>6, <1>8, <3>1
    <3>2. CASE f # g BY <1>8, <3>2
    <3> QED BY <3>1, <3>2
  <2>2. \A f \in Holder : \A k \in DOMAIN chain'[f] : 1 .. k \subseteq DOMAIN chain'[f]
    <3> SUFFICES ASSUME NEW f \in Holder, NEW k \in DOMAIN chain'[f]
                 PROVE 1 .. k \subseteq DOMAIN chain'[f] OBVIOUS
    <3>1. chain'[f] \in Seq(Imp') BY <1>11 DEF ChainsTyped
    <3>2. DOMAIN chain'[f] = 1 .. Len(chain'[f]) /\ Len(chain'[f]) \in Nat BY <3>1
    <3> QED BY <3>2
  <2> SUFFICES ASSUME NEW e \in Holder, NEW f \in Holder,
                      NEW k \in DOMAIN chain'[e] \cap DOMAIN chain'[f], chain'[e][k] = chain'[f][k],
                      NEW j \in 1 .. k
               PROVE  chain'[e][j] = chain'[f][j]
    BY DEF SharedBelow
  <2> HIDE DEF of
  <2>3. /\ k \in DOMAIN chain[of(e)] \cap DOMAIN chain[of(f)] /\ chain[of(e)][k] = chain[of(f)][k]
        /\ j \in DOMAIN chain'[e] /\ j \in DOMAIN chain'[f]
    BY <2>1, <2>2
  <2>4. chain[of(e)][j] = chain[of(f)][j] BY <2>1, <2>3 DEF SharedBelow
  <2> QED BY <2>1, <2>3, <2>4
<1>15. FramesSay'
  <2> SUFFICES ASSUME NEW f \in Holder, chain'[f] # <<>>
               PROVE  /\ imps'[chain'[f][1]].bytes = expected'[f]
                      /\ \A k \in 1 .. Top(f)' : imps'[chain'[f][k]].field = expected'[f][k]
    BY DEF FramesSay
  <2>1. CASE f = g
    <3>1. chain[h] # <<>> BY <1>5, ChainFacts
    <3>2. imps[chain[h][1]].bytes = expected[h]
          /\ \A k \in 1 .. Top(h) : imps[chain[h][k]].field = expected[h][k]
      BY <3>1 DEF FramesSay
    <3>3. Top(f)' = n BY <1>8, <2>1 DEF Top
    <3>4. \A k \in 1 .. n : chain'[f][k] = chain[h][k] /\ chain[h][k] \in Imp
      BY <1>5, <1>6, <1>8, <2>1
    <3> QED BY <1>5, <1>7, <1>8, <2>1, <3>2, <3>3, <3>4 DEF SaysTheSame
  <2>2. CASE f # g
    <3>1. chain'[f] = chain[f] /\ expected'[f] = expected[f] /\ Top(f)' = Top(f) BY <1>8, <2>2
    <3>2. imps[chain[f][1]].bytes = expected[f]
          /\ \A k \in 1 .. Top(f) : imps[chain[f][k]].field = expected[f][k]
      BY <3>1 DEF FramesSay
    <3>3. 1 \in 1 .. Top(f) BY <3>1, ChainFacts
    <3>4. \A k \in 1 .. Top(f) : chain[f][k] \in Imp BY ChainFacts
    <3> QED BY <1>7, <3>1, <3>2, <3>3, <3>4 DEF SaysTheSame
  <2> QED BY <2>1, <2>2
<1>17. ASSUME NEW f \in Holder PROVE LettingGo(f)'
  <2>1. unrefs'[f] = <<>> BY <1>2, <1>3
  <2> QED BY <2>1 DEF LettingGo
<1>18. OneBusy' BY <1>2, <1>3, <1>17 DEF OneBusy, Busy
<1> QED BY <1>10, <1>11, <1>12, <1>13, <1>14, <1>15, <1>18

\* A holder gets a clone of the layers of another, up to one.
LEMMA CloneFrameKeeps ==
  ASSUME FrameInv, OneThread, NEW h \in Holder, NEW g \in Holder \ {h}, CloneFrame(h, g)
  PROVE  FrameInv'
<1> USE DEF FrameInv
<1>1. PICK n \in 2 .. Top(h) :
        /\ imps' = Referenced(SubSeq(chain[h], 1, n), 1)
        /\ chain' = [chain EXCEPT ![g] = SubSeq(chain[h], 1, n)]
  BY DEF CloneFrame
<1>2. /\ Free(h) /\ chain[g] = <<>> /\ expected' = [expected EXCEPT ![g] = expected[h]]
      /\ task' = task /\ unrefs' = unrefs /\ writes' = writes
      /\ DOMAIN chain = Holder /\ DOMAIN expected = Holder
  BY DEF CloneFrame, ChainsTyped
<1>3. \A f \in Holder : task[f] = Idle /\ unrefs[f] = <<>> /\ ~Pending(f)
  BY <1>2, OthersIdle DEF Free
<1> DEFINE c == SubSeq(chain[h], 1, n)
<1>5. /\ Top(h) \in Nat /\ chain[h] \in [1 .. Top(h) -> Imp] /\ n \in 2 .. Top(h) /\ n \in Nat
      /\ 1 \in 1 .. n /\ 1 .. n \subseteq 1 .. Top(h)
  BY ChainFacts
<1>6. /\ Len(c) = n /\ DOMAIN c = 1 .. n /\ c \in Seq(Imp) /\ c # <<>>
      /\ \A k \in 1 .. n : c[k] = chain[h][k]
  <2>1. c = [k \in 1 .. n |-> chain[h][k]] BY <1>5
  <2> QED BY <1>5, <2>1
<1>7. /\ Imp' = Imp
      /\ \A i \in Imp :
           /\ SaysTheSame(imps', i)
           /\ imps'[i].refs = IF i \in Range(c) THEN imps[i].refs + 1 ELSE imps[i].refs
  BY <1>1, ReferencedIs DEF Imp
<1>8. /\ chain'[g] = c /\ Top(g)' = n /\ expected'[g] = expected[h]
      /\ \A f \in Holder \ {g} : chain'[f] = chain[f] /\ expected'[f] = expected[f] /\ Top(f)' = Top(f)
  BY <1>1, <1>2, <1>6 DEF Top
<1> HIDE DEF c
<1>9. CountsExact'
  <2> SUFFICES ASSUME NEW i \in Imp PROVE Counted(i, imps'[i].refs, chain', unrefs')
    BY <1>7 DEF CountsExact, Counted, Having
  <2>1. Counted(i, imps[i].refs, chain, unrefs') BY <1>2, CountsAre
  <2>2. Contains(chain'[g], i) <=> i \in Range(c) BY <1>6, <1>8 DEF Contains, Range
  <2>3. ~Contains(chain[g], i) BY <1>2 DEF Contains
  <2>4. CASE i \in Range(c)
    <3>1. Cardinality(Having(i, chain')) = Cardinality(Having(i, chain)) + 1
      BY <1>8, <2>2, <2>3, <2>4, HavingMore
    <3>2. Cardinality(Having(i, chain)) \in Nat /\ Cardinality(Having(i, unrefs')) \in Nat
      BY HavingFinite
    <3> QED BY <1>7, <2>1, <2>4, <3>1, <3>2 DEF Counted
  <2>5. CASE i \notin Range(c)
    <3>1. Cardinality(Having(i, chain')) = Cardinality(Having(i, chain))
      BY <1>8, <2>2, <2>3, <2>5, HavingSame
    <3> QED BY <1>7, <2>1, <2>5, <3>1 DEF Counted
  <2> QED BY <2>4, <2>5
<1>10. HoldsLike(g, h, n)
  <2>1. \A i \in Imp : imps'[i].refs \in Nat \ {0}
    <3>1. \A i \in Imp : imps[i].refs \in Nat \ {0} BY DEF ImpsTyped
    <3> QED BY <1>7, <3>1
  <2>2. DOMAIN chain' = Holder /\ DOMAIN expected' = Holder BY <1>1, <1>2
  <2> QED BY <1>2, <1>3, <1>6, <1>7, <1>8, <2>1, <2>2 DEF HoldsLike
<1>11. n \in 1 .. Top(h) BY <1>5
<1> QED BY <1>9, <1>10, <1>11, LikeAnother

\* A holder gets a layer that was analyzed by another.
LEMMA ShareUpperKeeps ==
  ASSUME FrameInv, OneThread, NEW h \in Holder, Free(h), Top(h) \in 1 .. Depth - 1,
         ShareUpper(h, chain[h][Top(h)]), UNCHANGED <<task, unrefs, expected, writes>>
  PROVE  FrameInv'
<1> USE DEF FrameInv
<1> DEFINE t == Top(h)
           i == chain[h][t]
           u == imps[i].upper
<1>1. /\ u # 0 /\ imps' = Referenced(<<u>>, 1) /\ chain' = [chain EXCEPT ![h] = Append(chain[h], u)]
      /\ task' = task /\ unrefs' = unrefs /\ writes' = writes /\ expected' = expected
      /\ DOMAIN chain = Holder /\ DOMAIN expected = Holder
  BY DEF ShareUpper, ChainsTyped
<1>2. \A f \in Holder : task[f] = Idle /\ unrefs[f] = <<>> /\ ~Pending(f)
  BY OthersIdle DEF Free
<1>3. /\ t \in Nat /\ t \in 1 .. t /\ chain[h] \in [1 .. t -> Imp] /\ chain[h] \in Seq(Imp) /\ i \in Imp
      /\ imps[i].layer = t /\ Len(chain[h]) = t
  BY ChainFacts DEF ChainsTyped
<1>4. u \in Imp /\ imps[u].lower = i /\ imps[u].layer = t + 1 BY <1>1, <1>3 DEF UppersLinked
<1>5. PICK g \in Holder : Contains(chain[g], u)
  <2> SUFFICES ASSUME \A g \in Holder : ~Contains(chain[g], u) PROVE FALSE OBVIOUS
  <2>1. \A g \in Holder : ~Contains(unrefs[g], u) BY <1>2 DEF Contains
  <2>2. Cardinality(Having(u, chain)) = 0 /\ Cardinality(Having(u, unrefs)) = 0
    BY <2>1, HavingNone
  <2>3. Counted(u, imps[u].refs, chain, unrefs) BY <1>4, CountsAre
  <2>4. imps[u].refs \in Nat \ {0} BY <1>4 DEF ImpsTyped
  <2> HIDE DEF u
  <2> QED BY <2>2, <2>3, <2>4 DEF Counted
<1> HIDE DEF t, u
<1>6. t + 1 \in 1 .. Top(g) /\ chain[g][t + 1] = u /\ Top(g) \in Nat
  <2>1. PICK k \in 1 .. Top(g) : chain[g][k] = u BY <1>5, ChainFacts
  <2> QED BY <1>4, <2>1, ChainFacts
<1>7. g # h BY <1>3, <1>6 DEF t
<1>8. t \in 1 .. Top(g) /\ chain[g][t] = i
  <2>1. t + 1 \in 2 .. Top(g) /\ (t + 1) - 1 = t /\ t \in 1 .. Top(g) BY <1>3, <1>6
  <2>2. imps[chain[g][t + 1]].lower = chain[g][(t + 1) - 1] BY <1>2, <2>1 DEF ChainsLinked
  <2> QED BY <1>4, <1>6, <2>1, <2>2
<1>9. \A k \in 1 .. t : chain[h][k] = chain[g][k]
  <2>1. t \in DOMAIN chain[h] \cap DOMAIN chain[g] BY <1>3, <1>8, ChainFacts
  <2> QED BY <1>8, <2>1 DEF SharedBelow
<1>10. expected[h] = expected[g]
  <2>1. chain[h] # <<>> /\ chain[g] # <<>> BY <1>3, <1>8, ChainFacts DEF t
  <2>2. chain[h][1] = chain[g][1] BY <1>3, <1>9
  <2> QED BY <2>1, <2>2 DEF FramesSay
<1>11. /\ Imp' = Imp
       /\ \A j \in Imp :
            /\ SaysTheSame(imps', j)
            /\ imps'[j].refs = IF j = u THEN imps[j].refs + 1 ELSE imps[j].refs
  <2>1. Range(<<u>>) = {u} BY DEF Range
  <2> QED BY <1>1, <2>1, ReferencedIs DEF Imp
<1> DEFINE c == Append(chain[h], u)
<1>12. /\ Len(c) = t + 1 /\ DOMAIN c = 1 .. t + 1 /\ c \in Seq(Imp)
       /\ \A k \in 1 .. t : c[k] = chain[h][k]
       /\ c[t + 1] = u
  BY <1>3, <1>4 DEF t
<1> HIDE DEF c
<1>13. \A k \in 1 .. t + 1 : c[k] = chain[g][k]
  <2> SUFFICES ASSUME NEW k \in 1 .. t + 1 PROVE c[k] = chain[g][k] OBVIOUS
  <2>1. k \in 1 .. t \/ k = t + 1 BY <1>3
  <2> QED BY <1>6, <1>9, <1>12, <2>1
<1>14. chain'[h] = c /\ DOMAIN chain' = Holder
       /\ \A f \in Holder \ {h} : chain'[f] = chain[f]
  BY <1>1 DEF c
<1>15. CountsExact'
  <2> SUFFICES ASSUME NEW j \in Imp PROVE Counted(j, imps'[j].refs, chain', unrefs')
    BY <1>11 DEF CountsExact, Counted, Having
  <2>1. Counted(j, imps[j].refs, chain, unrefs') BY <1>1, CountsAre
  <2>2. ~Contains(chain[h], u)
    <3>1. \A k \in 1 .. Top(h) : chain[h][k] # u BY <1>3, <1>4, ChainFacts DEF t
    <3> QED BY <1>3, <3>1 DEF Contains, t
  <2>3. Contains(chain'[h], j) <=> j = u \/ Contains(chain[h], j)
    BY <1>3, <1>12, <1>14 DEF Contains
  <2>4. CASE j = u
    <3>1. Cardinality(Having(j, chain')) = Cardinality(Having(j, chain)) + 1
      BY <1>14, <2>2, <2>3, <2>4, HavingMore
    <3>2. Cardinality(Having(j, chain)) \in Nat /\ Cardinality(Having(j, unrefs')) \in Nat
      BY HavingFinite
    <3> QED BY <1>11, <2>1, <2>4, <3>1, <3>2 DEF Counted
  <2>5. CASE j # u
    <3>1. Cardinality(Having(j, chain')) = Cardinality(Having(j, chain))
      BY <1>14, <2>3, <2>5, HavingSame
    <3> QED BY <1>11, <2>1, <2>5, <3>1 DEF Counted
  <2> QED BY <2>4, <2>5
<1>16. HoldsLike(h, g, t + 1)
  <2>1. \A j \in Imp : imps'[j].refs \in Nat \ {0}
    <3>1. \A j \in Imp : imps[j].refs \in Nat \ {0} BY DEF ImpsTyped
    <3> QED BY <1>11, <3>1
  <2> QED BY <1>1, <1>2, <1>10, <1>11, <1>12, <1>13, <1>14, <2>1 DEF HoldsLike
<1> QED BY <1>6, <1>7, <1>15, <1>16, LikeAnother

\* A holder analyzes a layer that nobody has analyzed.
LEMMA ReadUpperKeeps ==
  ASSUME FrameInv, OneThread, NEW h \in Holder, Free(h), Top(h) \in 1 .. Depth - 1,
         ReadUpper(h, chain[h][Top(h)]), UNCHANGED <<task, unrefs, expected, writes>>
  PROVE  FrameInv'
<1> USE DEF FrameInv
<1> DEFINE t == Top(h)
           i == chain[h][t]
           new == Fresh(1)[1]
           said == BytesUnder(i)[t + 1]
           read == [layer |-> t + 1, refs |-> 1, lower |-> i, upper |-> 0,
                    field |-> said, bytes |-> <<>>]
           old == [imps EXCEPT ![i].upper = new]
<1>1. /\ imps[i].upper = 0 /\ imps' = Beside([j \in {new} |-> read], old)
      /\ chain' = [chain EXCEPT ![h] = Append(chain[h], new)]
      /\ task' = task /\ unrefs' = unrefs /\ writes' = writes /\ expected' = expected
      /\ DOMAIN chain = Holder /\ DOMAIN expected = Holder
  BY DEF ReadUpper, ChainsTyped
<1>2. \A f \in Holder : task[f] = Idle /\ unrefs[f] = <<>> /\ ~Pending(f)
  BY OthersIdle DEF Free
<1>3. \A f \in Holder : ~Pending(f)' BY <1>1, <1>2 DEF Pending
<1>4. /\ t \in Nat /\ t \in 1 .. t /\ chain[h] \in [1 .. t -> Imp] /\ chain[h] \in Seq(Imp) /\ i \in Imp
      /\ imps[i].layer = t /\ Len(chain[h]) = t /\ chain[h] # <<>> /\ 1 \in 1 .. t
      /\ t + 1 \in 1 .. Depth
  BY FrameAssumption, ChainFacts DEF ChainsTyped
<1>5. new \in Nat \ {0} /\ new \notin Imp
  <2>1. NewAddresses(Fresh(1), 1) BY FreshAddresses DEF ImpsTyped
  <2> QED BY <2>1 DEF NewAddresses
<1>6. said = expected[h][t + 1]
  <2>1. Under(i) = [k \in 1 .. t |-> chain[h][k]]
    <3>1. ~Pending(h) BY <1>2
    <3> QED BY <1>4, <3>1, UnderChain
  <2>2. Under(i)[1] = chain[h][1] BY <1>4, <2>1
  <2>3. imps[chain[h][1]].bytes = expected[h] BY <1>4 DEF FramesSay
  <2> QED BY <2>2, <2>3 DEF BytesUnder
<1> HIDE DEF t, new, said
<1>7. /\ Imp' = Imp \cup {new} /\ imps'[new] = read
      /\ \A j \in Imp : imps'[j] = IF j = i THEN [imps[j] EXCEPT !.upper = new] ELSE imps[j]
  <2>1. DOMAIN old = Imp BY DEF Imp
  <2>2. \A j \in Imp : old[j] = IF j = i THEN [imps[j] EXCEPT !.upper = new] ELSE imps[j]
    BY DEF Imp
  <2> HIDE DEF old, read
  <2>3. Imp' = Imp \cup {new} BY <1>1, <2>1 DEF Imp, Beside
  <2>4. imps'[new] = read BY <1>1, <2>1 DEF Beside
  <2>5. ASSUME NEW j \in Imp PROVE imps'[j] = old[j] BY <1>1, <1>5, <2>1, <2>5 DEF Beside
  <2> QED BY <2>2, <2>3, <2>4, <2>5
<1>8. /\ DOMAIN imps'[new] = {"layer", "refs", "lower", "upper", "field", "bytes"}
      /\ imps'[new].layer = t + 1 /\ imps'[new].refs = 1 /\ imps'[new].lower = i
      /\ imps'[new].upper = 0 /\ imps'[new].field = said
  BY <1>7
<1>9. ASSUME NEW j \in Imp
      PROVE  /\ DOMAIN imps'[j] = {"layer", "refs", "lower", "upper", "field", "bytes"}
             /\ imps'[j].layer = imps[j].layer /\ imps'[j].lower = imps[j].lower
             /\ imps'[j].refs = imps[j].refs /\ imps'[j].field = imps[j].field
             /\ imps'[j].bytes = imps[j].bytes
             /\ imps'[j].upper = IF j = i THEN new ELSE imps[j].upper
  <2> DEFINE r == imps[j]
  <2>1. DOMAIN r = {"layer", "refs", "lower", "upper", "field", "bytes"} BY DEF ImpsTyped
  <2>2. imps'[j] = IF j = i THEN [r EXCEPT !.upper = new] ELSE r BY <1>7
  <2> QED BY <2>1, <2>2
<1> DEFINE c == Append(chain[h], new)
<1>10. /\ Len(c) = t + 1 /\ DOMAIN c = 1 .. t + 1 /\ c \in Seq(Imp \cup {new})
       /\ \A k \in 1 .. t : c[k] = chain[h][k] /\ chain[h][k] \in Imp
       /\ c[t + 1] = new /\ c # <<>>
  BY <1>4
<1> HIDE DEF c
<1>11. /\ chain'[h] = c /\ DOMAIN chain' = Holder /\ Top(h)' = t + 1
       /\ \A f \in Holder \ {h} : chain'[f] = chain[f] /\ Top(f)' = Top(f)
  BY <1>1, <1>10 DEF c, Top
<1>12. \A k \in 1 .. t + 1 : k \in 1 .. t \/ (k = t + 1 /\ k \notin 1 .. t) BY <1>4
<1>13. ImpsTyped'
  <2>1. IsFiniteSet(Imp') BY <1>7, FS_AddElement DEF ImpsTyped
  <2>2. Imp' \subseteq Nat \ {0} BY <1>5, <1>7 DEF ImpsTyped
  <2>3. \A j \in Imp : imps[j].refs \in Nat \ {0} BY DEF ImpsTyped
  <2>4. ASSUME NEW j \in Imp'
        PROVE  /\ DOMAIN imps'[j] = {"layer", "refs", "lower", "upper", "field", "bytes"}
               /\ imps'[j].refs \in Nat \ {0}
    <3>1. CASE j = new BY <1>8, <3>1
    <3>2. CASE j # new
      <4>1. j \in Imp BY <1>7, <3>2
      <4> QED BY <1>9, <2>3, <4>1
    <3> QED BY <3>1, <3>2
  <2> QED BY <2>1, <2>2, <2>4 DEF ImpsTyped
<1>14. ChainsTyped'
  <2>1. ASSUME NEW f \in Holder
        PROVE  (/\ chain[f] \in Seq(Imp) /\ Top(f) <= Depth
                /\ expected[f] \in [1 .. Depth -> Nat]
                /\ \A k \in 1 .. Top(f) : imps[chain[f][k]].layer = k)'
    <3>1. CASE f = h
      <4>1. Top(f)' = t + 1 /\ t + 1 <= Depth BY <1>4, <1>11, <3>1 DEF Top
      <4>2. ASSUME NEW k \in 1 .. t + 1 PROVE imps'[chain'[f][k]].layer = k
        <5>1. CASE k \in 1 .. t
          <6>1. chain[h][k] \in Imp /\ imps[chain[h][k]].layer = k BY <5>1, ChainFacts DEF t
          <6> QED BY <1>9, <1>10, <1>11, <3>1, <5>1, <6>1
        <5>2. CASE k = t + 1 BY <1>8, <1>10, <1>11, <3>1, <5>2
        <5> QED BY <1>12, <5>1, <5>2
      <4>3. chain'[f] \in Seq(Imp') /\ expected'[f] \in [1 .. Depth -> Nat]
        BY <1>1, <1>7, <1>10, <1>11, <3>1 DEF ChainsTyped
      <4> QED BY <4>1, <4>2, <4>3
    <3>2. CASE f # h
      <4>1. Top(f)' = Top(f) /\ chain'[f] = chain[f] /\ expected'[f] = expected[f] BY <1>1, <1>11, <3>2
      <4>2. ASSUME NEW k \in 1 .. Top(f) PROVE imps'[chain[f][k]].layer = k
        <5>1. chain[f][k] \in Imp /\ imps[chain[f][k]].layer = k BY ChainFacts
        <5> QED BY <1>9, <5>1
      <4>3. chain[f] \in Seq(Imp) /\ Top(f) <= Depth /\ expected[f] \in [1 .. Depth -> Nat]
        BY DEF ChainsTyped
      <4>4. chain[f] \in Seq(Imp') BY <1>7, <4>3
      <4> QED BY <4>1, <4>2, <4>3, <4>4
    <3> QED BY <3>1, <3>2
  <2> QED BY <1>1, <1>11, <2>1 DEF ChainsTyped
<1>15. ChainsLinked'
  <2> SUFFICES ASSUME NEW f \in Holder, NEW k \in 2 .. Top(f)'
               PROVE  imps'[chain'[f][k]].lower = chain'[f][k - 1]
    BY DEF ChainsLinked
  <2>1. CASE f = h
    <3>1. k \in 2 .. t + 1 /\ k \in 1 .. t + 1 /\ k - 1 \in 1 .. t
      BY <1>4, <1>11, <2>1 DEF Top
    <3>2. chain'[f][k] = c[k] /\ chain'[f][k - 1] = chain[h][k - 1] BY <1>10, <1>11, <2>1, <3>1
    <3>3. CASE k \in 1 .. t
      <4>1. k \in 2 .. Top(h) BY <1>4, <3>1, <3>3 DEF t
      <4>2. imps[chain[h][k]].lower = chain[h][k - 1] BY <1>2, <4>1 DEF ChainsLinked
      <4> QED BY <1>9, <1>10, <3>2, <3>3, <4>2
    <3>4. CASE k = t + 1
      <4>1. k - 1 = t BY <1>4, <3>4
      <4> QED BY <1>8, <1>10, <3>2, <3>4, <4>1
    <3> QED BY <1>12, <3>1, <3>3, <3>4
  <2>2. CASE f # h
    <3>1. k \in 2 .. Top(f) /\ k \in 1 .. Top(f) /\ Top(f) \in Nat BY <1>11, <2>2, ChainFacts
    <3>2. imps[chain[f][k]].lower = chain[f][k - 1] BY <1>2, <3>1 DEF ChainsLinked
    <3>3. chain'[f] = chain[f] /\ chain[f][k] \in Imp BY <1>11, <2>2, <3>1, ChainFacts
    <3> QED BY <1>9, <3>2, <3>3
  <2> QED BY <2>1, <2>2
<1>16. UppersLinked'
  <2> SUFFICES ASSUME NEW j \in Imp', imps'[j].upper # 0
               PROVE  /\ imps'[j].upper \in Imp'
                      /\ imps'[imps'[j].upper].lower = j
                      /\ imps'[imps'[j].upper].layer = imps'[j].layer + 1
    BY DEF UppersLinked
  <2>1. j \in Imp BY <1>7, <1>8
  <2>2. CASE j = i BY <1>4, <1>7, <1>8, <1>9, <2>1, <2>2
  <2>3. CASE j # i
    <3>1. imps'[j].upper = imps[j].upper /\ imps[j].upper # 0 /\ imps'[j].layer = imps[j].layer
      BY <1>9, <2>1, <2>3
    <3>2. /\ imps[j].upper \in Imp /\ imps[imps[j].upper].lower = j
          /\ imps[imps[j].upper].layer = imps[j].layer + 1
      BY <2>1, <3>1 DEF UppersLinked
    <3> QED BY <1>7, <1>9, <3>1, <3>2
  <2> QED BY <2>2, <2>3
<1>17. SharedBelow'
  <2>1. \A f \in Holder : \A k \in DOMAIN chain'[f] :
          chain'[f][k] # new => k \in DOMAIN chain[f] /\ \A j \in 1 .. k : chain'[f][j] = chain[f][j]
    <3> SUFFICES ASSUME NEW f \in Holder, NEW k \in DOMAIN chain'[f], chain'[f][k] # new
                 PROVE  k \in DOMAIN chain[f] /\ \A j \in 1 .. k : chain'[f][j] = chain[f][j]
      OBVIOUS
    <3>1. CASE f = h
      <4>1. k \in 1 .. t BY <1>10, <1>11, <1>12, <3>1
      <4>2. \A j \in 1 .. k : j \in 1 .. t BY <1>4, <4>1
      <4> QED BY <1>4, <1>10, <1>11, <3>1, <4>1, <4>2
    <3>2. CASE f # h BY <1>11, <3>2
    <3> QED BY <3>1, <3>2
  <2>2. \A f \in Holder : \A k \in DOMAIN chain'[f] : chain'[f][k] = new => f = h /\ k = t + 1
    <3> SUFFICES ASSUME NEW f \in Holder, NEW k \in DOMAIN chain'[f], chain'[f][k] = new
                 PROVE  f = h /\ k = t + 1
      OBVIOUS
    <3>1. CASE f = h BY <1>5, <1>10, <1>11, <1>12, <3>1
    <3>2. CASE f # h
      <4>1. chain'[f] = chain[f] /\ k \in 1 .. Top(f) BY <1>11, <3>2, ChainFacts
      <4>2. chain[f][k] \in Imp BY <4>1, ChainFacts
      <4> QED BY <1>5, <4>1, <4>2
    <3> QED BY <3>1, <3>2
  <2> SUFFICES ASSUME NEW e \in Holder, NEW f \in Holder,
                      NEW k \in DOMAIN chain'[e] \cap DOMAIN chain'[f], chain'[e][k] = chain'[f][k],
                      NEW j \in 1 .. k
               PROVE  chain'[e][j] = chain'[f][j]
    BY DEF SharedBelow
  <2>3. CASE chain'[e][k] = new BY <2>2, <2>3
  <2>4. CASE chain'[e][k] # new
    <3>1. /\ k \in DOMAIN chain[e] /\ k \in DOMAIN chain[f]
          /\ \A d \in 1 .. k : chain'[e][d] = chain[e][d]
          /\ \A d \in 1 .. k : chain'[f][d] = chain[f][d]
      BY <2>1, <2>4
    <3>2. k \in 1 .. k
      <4>1. k \in 1 .. Top(e) BY <3>1, ChainFacts
      <4> QED BY <4>1
    <3>3. chain[e][k] = chain[f][k] BY <3>1, <3>2
    <3>4. chain[e][j] = chain[f][j] BY <3>1, <3>3 DEF SharedBelow
    <3> QED BY <3>1, <3>4
  <2> QED BY <2>3, <2>4
<1>18. FramesSay'
  <2> SUFFICES ASSUME NEW f \in Holder, chain'[f] # <<>>
               PROVE  /\ imps'[chain'[f][1]].bytes = expected'[f]
                      /\ \A k \in 1 .. Top(f)' : imps'[chain'[f][k]].field = expected'[f][k]
    BY DEF FramesSay
  <2>3. expected'[f] = expected[f] BY <1>1
  <2>1. CASE f = h
    <3>1. imps[chain[h][1]].bytes = expected[h]
          /\ \A k \in 1 .. t : imps[chain[h][k]].field = expected[h][k]
      BY <1>4 DEF FramesSay, t
    <3>2. Top(f)' = t + 1 BY <1>11, <2>1 DEF Top
    <3>3. ASSUME NEW k \in 1 .. t + 1 PROVE imps'[chain'[f][k]].field = expected[f][k]
      <4>1. CASE k \in 1 .. t BY <1>9, <1>10, <1>11, <2>1, <3>1, <4>1
      <4>2. CASE k = t + 1 BY <1>6, <1>8, <1>10, <1>11, <2>1, <4>2
      <4> QED BY <1>12, <4>1, <4>2
    <3>4. imps'[chain'[f][1]].bytes = expected[f] BY <1>4, <1>9, <1>10, <1>11, <2>1, <3>1
    <3> QED BY <2>3, <3>2, <3>3, <3>4
  <2>2. CASE f # h
    <3>1. chain'[f] = chain[f] /\ Top(f)' = Top(f) BY <1>11, <2>2
    <3>2. imps[chain[f][1]].bytes = expected[f]
          /\ \A k \in 1 .. Top(f) : imps[chain[f][k]].field = expected[f][k]
      BY <3>1 DEF FramesSay
    <3>3. 1 \in 1 .. Top(f) BY <3>1, ChainFacts
    <3>4. \A k \in 1 .. Top(f) : chain[f][k] \in Imp BY ChainFacts
    <3> QED BY <1>9, <2>3, <3>1, <3>2, <3>3, <3>4
  <2> QED BY <2>1, <2>2
<1>19. CountsExact'
  <2> SUFFICES ASSUME NEW j \in Imp' PROVE Counted(j, imps'[j].refs, chain', unrefs')
    BY DEF CountsExact, Counted, Having
  <2>1. \A g \in Holder : ~Contains(unrefs'[g], j) BY <1>1, <1>2 DEF Contains
  <2>2. Contains(chain'[h], j) <=> j = new \/ Contains(chain[h], j)
    BY <1>4, <1>10, <1>11, <1>12 DEF Contains
  <2>3. CASE j = new
    <3>1. \A g \in Holder : ~Contains(chain[g], j)
      <4> SUFFICES ASSUME NEW g \in Holder PROVE ~Contains(chain[g], j) OBVIOUS
      <4>1. \A k \in 1 .. Top(g) : chain[g][k] # j BY <1>5, <2>3, ChainFacts
      <4>2. Len(chain[g]) = Top(g) BY ChainFacts
      <4> QED BY <4>1, <4>2 DEF Contains
    <3>2. \A g \in Holder \ {h} : Contains(chain'[g], j) <=> Contains(chain[g], j) BY <1>11
    <3>3. Cardinality(Having(j, chain')) = Cardinality(Having(j, chain)) + 1
      BY <2>2, <2>3, <3>1, <3>2, HavingMore
    <3>4. Cardinality(Having(j, chain)) = 0 /\ Cardinality(Having(j, unrefs')) = 0
      BY <2>1, <3>1, HavingNone
    <3> QED BY <1>8, <2>3, <3>3, <3>4 DEF Counted
  <2>4. CASE j # new
    <3>1. j \in Imp BY <1>7, <2>4
    <3>2. Counted(j, imps[j].refs, chain, unrefs') BY <1>1, <3>1, CountsAre
    <3>3. Cardinality(Having(j, chain')) = Cardinality(Having(j, chain))
      BY <1>11, <2>2, <2>4, HavingSame
    <3> QED BY <1>9, <3>1, <3>2, <3>3 DEF Counted
  <2> QED BY <2>3, <2>4
<1>20. ASSUME NEW f \in Holder PROVE LettingGo(f)'
  <2>1. unrefs'[f] = <<>> BY <1>1, <1>2
  <2> QED BY <2>1 DEF LettingGo
<1>21. OneBusy' BY <1>1, <1>2, <1>20 DEF OneBusy, Busy
<1> QED BY <1>13, <1>14, <1>15, <1>16, <1>17, <1>18, <1>19, <1>21

\* A layer that nobody shares is left as it is.
LEMMA NotSharedKeeps ==
  ASSUME FrameInv, OneThread, NEW h \in Holder, Turn(h), unrefs[h] = <<>>, task[h].at > 0,
         NotShared(h, task[h].at, chain[h][task[h].at]), UNCHANGED <<expected, writes>>
  PROVE  FrameInv'
<1> USE DEF FrameInv
<1> DEFINE k == task[h].at
           i == chain[h][k]
<1>1. /\ imps[i].refs = 1 /\ task' = [task EXCEPT ![h].at = k - 1] /\ DOMAIN task = Holder
      /\ imps' = imps /\ chain' = chain /\ unrefs' = unrefs /\ expected' = expected /\ writes' = writes
  BY DEF NotShared, ChainsTyped
<1>2. \A g \in Holder \ {h} : task[g] = Idle /\ unrefs[g] = <<>> /\ ~Pending(g) BY OthersIdle
<1>3. Detaching(h) /\ task[h] # Idle
  <2>1. task[h] # Idle BY DEF Idle
  <2> QED BY <2>1 DEF OneBusy
<1>4. /\ k \in 1 .. Top(h) /\ k \in Nat /\ k - 1 \in -1 .. Top(h) /\ task[h].above = 0 /\ i \in Imp
      /\ Top(h) \in Nat /\ DOMAIN task[h] = {"layer", "value", "at", "above"}
  <2>1. Top(h) \in Nat BY ChainFacts
  <2>2. k \in -1 .. Top(h) BY <1>3 DEF Detaching
  <2>3. k \in 1 .. Top(h) BY <2>1, <2>2
  <2>4. i \in Imp BY <2>3, ChainFacts
  <2>5. task[h].above = 0 /\ DOMAIN task[h] = {"layer", "value", "at", "above"}
    BY <1>3 DEF Detaching
  <2>6. k \in Nat /\ k - 1 \in -1 .. Top(h) BY <2>1, <2>3
  <2> QED BY <2>1, <2>3, <2>4, <2>5, <2>6
<1>5. \A g \in Holder \ {h} : ~Contains(chain[g], i)
  <2>1. Contains(chain[h], i) BY <1>4, ChainFacts DEF Contains
  <2>2. Counted(i, 1, chain, unrefs) BY <1>1, <1>4, CountsAre
  <2>3. Cardinality(Having(i, chain)) >= 1
        /\ (Cardinality(Having(i, chain)) = 1 => \A g \in Holder \ {h} : ~Contains(chain[g], i))
    BY <2>1, HavingAlone
  <2>4. Cardinality(Having(i, chain)) \in Nat /\ Cardinality(Having(i, unrefs)) \in Nat
    BY HavingFinite
  <2>5. Cardinality(Having(i, chain)) = 1 BY <2>2, <2>3, <2>4 DEF Counted
  <2> QED BY <2>3, <2>5
<1>6. /\ task'[h].at = k - 1 /\ task'[h].above = 0 /\ task'[h].layer = task[h].layer
      /\ task'[h].value = task[h].value /\ DOMAIN task'[h] = {"layer", "value", "at", "above"}
  <2> DEFINE r == task[h]
  <2>1. task'[h] = [r EXCEPT !.at = k - 1] BY <1>1
  <2>2. DOMAIN r = {"layer", "value", "at", "above"} BY <1>4
  <2> QED BY <1>4, <2>1, <2>2
<1>7. DOMAIN task' = Holder /\ \A g \in Holder \ {h} : task'[g] = task[g] BY <1>1
<1>8. \A g \in Holder : ~Pending(g)' /\ ~Pending(g) BY <1>2, <1>4, <1>6, <1>7 DEF Pending, Idle
<1> HIDE DEF k, i
<1>9. ImpsTyped' BY <1>1 DEF ImpsTyped, Imp
<1>10. ChainsTyped' BY <1>1, <1>7 DEF ChainsTyped, Imp, Top
<1>11. ChainsLinked' BY <1>1, <1>8 DEF ChainsLinked, Top
<1>12. UppersLinked' BY <1>1 DEF UppersLinked, Imp
<1>13. SharedBelow' BY <1>1 DEF SharedBelow
<1>14. FramesSay' BY <1>1 DEF FramesSay, Top
<1>15. CountsExact' BY <1>1 DEF CountsExact, Imp
<1>16. Detaching(h)'
  <2>1. ASSUME NEW j \in 1 .. Top(h), NEW g \in Holder \ {h}, j > k - 1
        PROVE  ~Contains(chain[g], chain[h][j])
    <3>1. j = k \/ j > k BY <1>4, <2>1
    <3>2. j > k => ~Contains(chain[g], chain[h][j]) BY <1>3 DEF Detaching, k
    <3> QED BY <1>5, <3>1, <3>2 DEF i
  <2>2. Top(h)' = Top(h) BY <1>1 DEF Top
  <2>3. task'[h].layer \in 1 .. Top(h)' /\ task'[h].value \in Nat BY <1>3, <1>6, <2>2 DEF Detaching
  <2>4. \A j \in 1 .. Top(h)' : \A g \in Holder \ {h} :
          j > task'[h].at => ~Contains(chain'[g], chain'[h][j])
    BY <1>1, <1>6, <2>1, <2>2
  <2>5. unrefs'[h] = <<>> BY <1>1
  <2> QED BY <1>4, <1>6, <1>8, <2>2, <2>3, <2>4, <2>5 DEF Detaching
<1>17. \A g \in Holder : LettingGo(g)' BY <1>1 DEF OneBusy, LettingGo, Imp
<1>18. OneBusy'
  <2>1. \A g \in Holder : task'[g] # Idle => Detaching(g)' BY <1>2, <1>7, <1>16
  <2>2. \A g \in Holder \ {h} : ~Busy(g)' BY <1>1, <1>2, <1>7 DEF Busy
  <2> QED BY <1>17, <2>1, <2>2 DEF OneBusy
<1> QED BY <1>9, <1>10, <1>11, <1>12, <1>13, <1>14, <1>15, <1>18

\* A layer that is shared is copied with those below it, which are to be let go.
LEMMA CopySharedKeeps ==
  ASSUME FrameInv, OneThread, NEW h \in Holder, Turn(h), unrefs[h] = <<>>, task[h].at > 0,
         CopyShared(h, task[h].at, chain[h][task[h].at]), UNCHANGED <<expected, writes>>
  PROVE  FrameInv'
<1> USE DEF FrameInv
<1> DEFINE k == task[h].at
           n == Top(h)
           i == chain[h][k]
           was == Under(i)
           new == Fresh(k)
           fields == [j \in 1 .. k |-> imps[was[j]].field]
           copies == Stack(new, fields, BytesUnder(i))
           old == [imps EXCEPT ![i].refs = @ - 1, ![i].upper = 0]
           up == IF k < n THEN k + 1 ELSE 0
<1>1. \A g \in Holder \ {h} : task[g] = Idle /\ unrefs[g] = <<>> /\ ~Pending(g) BY OthersIdle
<1>2. Detaching(h) /\ task[h] # Idle
  <2>1. task[h] # Idle BY DEF Idle
  <2> QED BY <2>1 DEF OneBusy
<1>3. /\ n \in Nat /\ k \in 1 .. n /\ k \in Nat /\ 1 \in 1 .. k /\ k \in 1 .. k /\ i \in Imp
      /\ chain[h] \in [1 .. n -> Imp] /\ Len(chain[h]) = n /\ imps[i].layer = k
      /\ task[h].above = 0 /\ DOMAIN task[h] = {"layer", "value", "at", "above"}
      /\ chain[h] # <<>>
  <2>1. n \in Nat /\ chain[h] \in [1 .. n -> Imp] /\ Len(chain[h]) = n BY ChainFacts
  <2>2. k \in -1 .. n BY <1>2 DEF Detaching
  <2>3. k \in 1 .. n BY <2>1, <2>2
  <2>4. i \in Imp /\ imps[i].layer = k /\ chain[h] # <<>> BY <2>1, <2>3, ChainFacts
  <2>5. task[h].above = 0 /\ DOMAIN task[h] = {"layer", "value", "at", "above"}
    BY <1>2 DEF Detaching
  <2> QED BY <2>1, <2>3, <2>4, <2>5
<1>4. \A j \in 1 .. k : j \in 1 .. n BY <1>3
<1>5. was = [j \in 1 .. k |-> chain[h][j]] /\ Len(was) = k /\ DOMAIN was = 1 .. k
  <2>1. ~Pending(h) BY <1>3 DEF Pending
  <2>2. was = [j \in 1 .. k |-> chain[h][j]] BY <1>3, <2>1, UnderChain
  <2> QED BY <1>3, <2>2
<1>6. /\ \A j \in 1 .. k : fields[j] = expected[h][j]
      /\ BytesUnder(i) = expected[h]
  <2>1. imps[chain[h][1]].bytes = expected[h]
        /\ \A j \in 1 .. n : imps[chain[h][j]].field = expected[h][j]
    BY <1>3 DEF FramesSay
  <2> QED BY <1>3, <1>4, <1>5, <2>1 DEF BytesUnder
<1>7. /\ imps[i].refs > 1 /\ imps' = Beside(copies, old)
      /\ chain' = [chain EXCEPT ![h] = new \o SubSeq(chain[h], k + 1, Len(chain[h]))]
      /\ unrefs' = [unrefs EXCEPT ![h] = Reverse(SubSeq(chain[h], 1, k - 1))]
      /\ task' = [task EXCEPT ![h].at = 0, ![h].above = up]
      /\ expected' = expected /\ writes' = writes
      /\ DOMAIN chain = Holder /\ DOMAIN unrefs = Holder /\ DOMAIN task = Holder
      /\ DOMAIN expected = Holder
  BY <1>5 DEF CopyShared, ChainsTyped
<1> HIDE DEF was, fields
<1>8. NewAddresses(new, k) BY <1>3, FreshAddresses DEF ImpsTyped
<1>9. /\ DOMAIN copies = Range(new) /\ IsFiniteSet(Range(new))
      /\ Range(new) \subseteq Nat \ {0} /\ Range(new) \cap Imp = {}
      /\ \A a \in Range(new) : \E j \in 1 .. k : new[j] = a
      /\ \A j \in 1 .. k :
           /\ new[j] \in Range(new)
           /\ StackedAt(copies, new, k, j, fields, BytesUnder(i))
  <2> HIDE DEF k, i, new
  <2>1. k \in Nat BY <1>3
  <2> QED BY <1>8, <2>1, StackIs
<1>10. DOMAIN new = 1 .. k /\ Len(new) = k
       /\ \A a, b \in 1 .. k : new[a] = new[b] => a = b
  <2>1. DOMAIN new = 1 .. k BY <1>8 DEF NewAddresses
  <2>2. new = [j \in 1 .. k |-> new[j]] BY <1>8 DEF NewAddresses
  <2>3. \A a, b \in 1 .. k : new[a] = new[b] => a = b BY <1>8 DEF NewAddresses
  <2> HIDE DEF new, k
  <2>4. Len(new) = k BY <1>3, <2>2
  <2> QED BY <2>1, <2>3, <2>4
<1> HIDE DEF k, n, i, new, copies, up
<1>11. /\ Imp' = Imp \cup Range(new)
       /\ \A j \in 1 .. k : new[j] \in Imp' /\ imps'[new[j]] = copies[new[j]]
       /\ \A j \in Imp : imps'[j] = IF j = i THEN [imps[j] EXCEPT !.refs = @ - 1, !.upper = 0]
                                    ELSE imps[j]
  <2>1. DOMAIN old = Imp BY DEF Imp
  <2>2. \A j \in Imp : old[j] = IF j = i THEN [imps[j] EXCEPT !.refs = @ - 1, !.upper = 0]
                                ELSE imps[j]
    BY DEF Imp
  <2> HIDE DEF old
  <2>3. Imp' = Imp \cup Range(new) BY <1>7, <1>9, <2>1 DEF Imp, Beside
  <2>4. \A j \in 1 .. k : imps'[new[j]] = copies[new[j]] BY <1>7, <1>9, <2>1 DEF Beside
  <2>5. ASSUME NEW j \in Imp PROVE imps'[j] = old[j]
    <3>1. j \notin Range(new) BY <1>9
    <3> QED BY <1>7, <1>9, <2>1, <3>1 DEF Beside
  <2> QED BY <1>9, <2>2, <2>3, <2>4, <2>5
<1>12. \A j \in 1 .. k : StackedAt(imps', new, k, j, fields, expected[h])
  <2> SUFFICES ASSUME NEW j \in 1 .. k PROVE StackedAt(imps', new, k, j, fields, expected[h]) OBVIOUS
  <2>1. StackedAt(copies, new, k, j, fields, expected[h]) BY <1>6, <1>9
  <2>2. imps'[new[j]] = copies[new[j]] BY <1>11
  <2> QED BY <2>1, <2>2 DEF StackedAt
<1>13. ASSUME NEW j \in Imp
      PROVE  /\ DOMAIN imps'[j] = {"layer", "refs", "lower", "upper", "field", "bytes"}
             /\ imps'[j].layer = imps[j].layer /\ imps'[j].lower = imps[j].lower
             /\ imps'[j].field = imps[j].field /\ imps'[j].bytes = imps[j].bytes
             /\ imps'[j].refs = IF j = i THEN imps[j].refs - 1 ELSE imps[j].refs
             /\ imps'[j].upper = IF j = i THEN 0 ELSE imps[j].upper
  <2> DEFINE r == imps[j]
             q == imps'[j]
  <2>1. DOMAIN r = {"layer", "refs", "lower", "upper", "field", "bytes"} BY DEF ImpsTyped
  <2>2. CASE j = i
    <3>1. q = [r EXCEPT !.refs = r.refs - 1, !.upper = 0] BY <1>11, <2>2
    <3> HIDE DEF q, r
    <3>2. /\ DOMAIN q = {"layer", "refs", "lower", "upper", "field", "bytes"}
          /\ q.layer = r.layer /\ q.lower = r.lower /\ q.field = r.field /\ q.bytes = r.bytes
          /\ q.refs = r.refs - 1 /\ q.upper = 0
      BY <2>1, <3>1
    <3> QED BY <2>2, <3>2 DEF q, r
  <2>3. CASE j # i BY <1>11, <2>1, <2>3
  <2> QED BY <2>2, <2>3
<1> DEFINE c == chain'[h]
           u == unrefs'[h]
<1>14. /\ Len(c) = n /\ DOMAIN c = 1 .. n /\ c \in Seq(Imp')
       /\ \A j \in 1 .. k : c[j] = new[j]
       /\ \A j \in k + 1 .. n : c[j] = chain[h][j]
  <2> DEFINE rest == SubSeq(chain[h], k + 1, n)
  <2>1. rest = [j \in 1 .. n - k |-> chain[h][j + k]] BY <1>3
  <2>2. c = new \o rest BY <1>3, <1>7
  <2>3. new \in Seq(Imp')
    <3>1. new = [j \in 1 .. k |-> new[j]] BY <1>8 DEF NewAddresses
    <3>2. \A j \in 1 .. k : new[j] \in Imp' BY <1>11
    <3> QED BY <1>3, <3>1, <3>2, SequenceOf
  <2>4. n - k \in Nat /\ \A j \in 1 .. n - k : j + k \in 1 .. n BY <1>3
  <2> HIDE DEF rest, c
  <2>5. Len(rest) = n - k /\ rest \in Seq(Imp')
    <3>1. \A j \in 1 .. n - k : rest[j] = chain[h][j + k] BY <2>1
    <3>2. rest = [j \in 1 .. n - k |-> rest[j]] BY <2>1, <3>1
    <3>3. ASSUME NEW j \in 1 .. n - k PROVE rest[j] \in Imp'
      <4>1. Imp \subseteq Imp' BY <1>11
      <4>2. j + k \in 1 .. n /\ rest[j] = chain[h][j + k] BY <2>4, <3>1
      <4>3. chain[h][j + k] \in Imp BY <1>3, <4>2
      <4> QED BY <4>1, <4>2, <4>3
    <3> QED BY <2>4, <3>2, <3>3, SequenceOf
  <2>6. c \in Seq(Imp') /\ Len(c) = n
    <3> DEFINE S == Imp'
    <3>1. new \in Seq(S) /\ rest \in Seq(S) BY <2>3, <2>5
    <3> HIDE DEF S
    <3>2. c \in Seq(S) /\ Len(c) = Len(new) + Len(rest) BY <2>2, <3>1
    <3>3. k + (n - k) = n BY <1>3
    <3> QED BY <1>10, <2>5, <3>2, <3>3 DEF S
  <2>7. \A j \in 1 .. k : c[j] = new[j] BY <1>3, <1>10, <2>2, <2>3, <2>5
  <2>8. ASSUME NEW j \in k + 1 .. n PROVE c[j] = chain[h][j]
    <3>1. j - k \in 1 .. n - k /\ (j - k) + k = j /\ j \in 1 .. k + (n - k) /\ ~(j <= k) BY <1>3
    <3>2. c[j] = rest[j - k] BY <1>3, <1>10, <2>2, <2>3, <2>5, <3>1
    <3> QED BY <2>1, <3>1, <3>2
  <2> QED BY <2>6, <2>7, <2>8
<1>15. /\ u \in Seq(Imp) /\ Len(u) = k - 1
       /\ \A m \in 1 .. k - 1 : u[m] = chain[h][k - m]
  <2> DEFINE low == SubSeq(chain[h], 1, k - 1)
  <2>1. low = [j \in 1 .. k - 1 |-> chain[h][j]] BY <1>3
  <2>2. u = Reverse(low) BY <1>7
  <2> HIDE DEF low, u
  <2>3. Len(low) = k - 1 /\ k - 1 \in Nat BY <1>3, <2>1
  <2>4. u = [m \in 1 .. k - 1 |-> low[(k - 1) - m + 1]] BY <2>2, <2>3 DEF Reverse
  <2>5. \A m \in 1 .. k - 1 : (k - 1) - m + 1 = k - m /\ k - m \in 1 .. k - 1 /\ k - m \in 1 .. n
    BY <1>3
  <2>6. \A m \in 1 .. k - 1 : u[m] = chain[h][k - m] /\ u[m] \in Imp BY <1>3, <2>1, <2>4, <2>5
  <2>7. u = [m \in 1 .. k - 1 |-> u[m]] BY <2>4
  <2>8. \A m \in 1 .. k - 1 : u[m] \in Imp BY <2>6
  <2>9. u \in Seq(Imp) /\ Len(u) = k - 1 BY <2>3, <2>7, <2>8, SequenceOf
  <2> QED BY <2>6, <2>9
<1> HIDE DEF c, u
<1>16. /\ chain'[h] = c /\ unrefs'[h] = u /\ DOMAIN chain' = Holder /\ DOMAIN unrefs' = Holder
       /\ Top(h)' = n /\ DOMAIN task' = Holder
       /\ \A g \in Holder \ {h} : chain'[g] = chain[g] /\ unrefs'[g] = unrefs[g] /\ task'[g] = task[g]
                                  /\ Top(g)' = Top(g)
  BY <1>7, <1>14 DEF c, u, Top
<1>17. /\ task'[h].at = 0 /\ task'[h].above = up /\ task'[h].layer = task[h].layer
       /\ task'[h].value = task[h].value /\ DOMAIN task'[h] = {"layer", "value", "at", "above"}
  <2> DEFINE r == task[h]
             q == task'[h]
  <2>1. q = [r EXCEPT !.at = 0, !.above = up] BY <1>7
  <2>2. DOMAIN r = {"layer", "value", "at", "above"} BY <1>3
  <2> HIDE DEF q, r
  <2>3. /\ q.at = 0 /\ q.above = up /\ q.layer = r.layer /\ q.value = r.value
        /\ DOMAIN q = {"layer", "value", "at", "above"}
    BY <2>1, <2>2
  <2> QED BY <2>3 DEF q, r
<1>18. \A g \in Holder \ {h} : ~Pending(g)' BY <1>1, <1>16 DEF Pending
<1>19. \A j \in 1 .. n : (j \in 1 .. k /\ ~(j > k)) \/ (j \in k + 1 .. n /\ j > k /\ j \notin 1 .. k) BY <1>3
<1>20. \A j \in k + 1 .. n : /\ j \in 1 .. n /\ c[j] = chain[h][j] /\ chain[h][j] \in Imp
                             /\ imps[chain[h][j]].layer = j /\ chain[h][j] # i
                             /\ \A g \in Holder \ {h} : ~Contains(chain[g], chain[h][j])
  <2> SUFFICES ASSUME NEW j \in k + 1 .. n
               PROVE  /\ j \in 1 .. n /\ c[j] = chain[h][j] /\ chain[h][j] \in Imp
                      /\ imps[chain[h][j]].layer = j /\ chain[h][j] # i
                      /\ \A g \in Holder \ {h} : ~Contains(chain[g], chain[h][j])
    OBVIOUS
  <2>1. j \in 1 .. n /\ j > k /\ j # k BY <1>3
  <2>2. chain[h][j] \in Imp /\ imps[chain[h][j]].layer = j BY <2>1, ChainFacts DEF n
  <2>3. \A g \in Holder \ {h} : ~Contains(chain[g], chain[h][j]) BY <1>2, <2>1 DEF Detaching, k, n
  <2>4. chain[h][j] # i BY <1>3, <2>1, <2>2
  <2> QED BY <1>14, <2>1, <2>2, <2>3, <2>4
<1>21. ImpsTyped'
  <2>1. IsFiniteSet(Imp') BY <1>9, <1>11, FS_Union DEF ImpsTyped
  <2>2. Imp' \subseteq Nat \ {0} BY <1>9, <1>11 DEF ImpsTyped
  <2>3. \A j \in Imp : imps[j].refs \in Nat \ {0} BY DEF ImpsTyped
  <2>4. ASSUME NEW j \in Imp'
        PROVE  /\ DOMAIN imps'[j] = {"layer", "refs", "lower", "upper", "field", "bytes"}
               /\ imps'[j].refs \in Nat \ {0}
    <3>1. CASE j \in Imp
      <4>1. imps[j].refs \in Nat \ {0} BY <2>3, <3>1
      <4>2. j = i => imps[j].refs > 1 BY <1>7 DEF i
      <4>3. imps'[j].refs = IF j = i THEN imps[j].refs - 1 ELSE imps[j].refs BY <1>13, <3>1
      <4>4. imps'[j].refs \in Nat \ {0} BY <4>1, <4>2, <4>3
      <4> QED BY <1>13, <3>1, <4>4
    <3>2. CASE j \notin Imp
      <4>1. PICK m \in 1 .. k : new[m] = j BY <1>9, <1>11, <3>2
      <4>2. StackedAt(imps', new, k, m, fields, expected[h]) BY <1>12
      <4> QED BY <4>1, <4>2 DEF StackedAt
    <3> QED BY <3>1, <3>2
  <2> QED BY <2>1, <2>2, <2>4 DEF ImpsTyped
<1>22. ASSUME NEW j \in 1 .. n
       PROVE  imps'[c[j]].layer = j /\ imps'[c[j]].field = expected[h][j]
              /\ (j = 1 => imps'[c[j]].bytes = expected[h])
  <2>1. CASE j \in 1 .. k
    <3>1. StackedAt(imps', new, k, j, fields, expected[h]) /\ fields[j] = expected[h][j] BY <1>6, <1>12, <2>1
    <3>2. c[j] = new[j] BY <1>14, <2>1
    <3> QED BY <3>1, <3>2 DEF StackedAt
  <2>2. CASE j \in k + 1 .. n
    <3>1. c[j] = chain[h][j] /\ chain[h][j] \in Imp /\ imps[chain[h][j]].layer = j BY <1>20, <2>2
    <3>2. imps[chain[h][j]].field = expected[h][j] BY <1>3 DEF FramesSay, n
    <3>3. j # 1 BY <1>3, <2>2
    <3> QED BY <1>13, <3>1, <3>2, <3>3
  <2> QED BY <1>19, <2>1, <2>2
<1>23. ChainsTyped'
  <2>1. ASSUME NEW f \in Holder
        PROVE  (/\ chain[f] \in Seq(Imp) /\ Top(f) <= Depth
                /\ expected[f] \in [1 .. Depth -> Nat]
                /\ \A j \in 1 .. Top(f) : imps[chain[f][j]].layer = j)'
    <3>1. CASE f = h
      <4>1. Top(f)' = n /\ n <= Depth BY <1>16, <3>1 DEF Top, ChainsTyped, n
      <4>2. \A j \in 1 .. n : imps'[chain'[f][j]].layer = j BY <1>16, <1>22, <3>1
      <4>3. chain'[f] \in Seq(Imp') /\ expected'[f] \in [1 .. Depth -> Nat]
        BY <1>7, <1>14, <1>16, <3>1 DEF ChainsTyped
      <4> QED BY <4>1, <4>2, <4>3
    <3>2. CASE f # h
      <4>1. Top(f)' = Top(f) /\ chain'[f] = chain[f] /\ expected'[f] = expected[f] BY <1>7, <1>16, <3>2
      <4>2. ASSUME NEW j \in 1 .. Top(f) PROVE imps'[chain[f][j]].layer = j
        <5>1. chain[f][j] \in Imp /\ imps[chain[f][j]].layer = j BY ChainFacts
        <5> QED BY <1>13, <5>1
      <4>3. chain[f] \in Seq(Imp) /\ Top(f) <= Depth /\ expected[f] \in [1 .. Depth -> Nat]
        BY DEF ChainsTyped
      <4>4. chain[f] \in Seq(Imp')
        <5>1. Imp \subseteq Imp' BY <1>11
        <5> QED BY <4>3, <5>1
      <4> QED BY <4>1, <4>2, <4>3, <4>4
    <3> QED BY <3>1, <3>2
  <2>2. writes' \in Nat BY <1>7 DEF ChainsTyped
  <2> QED BY <1>7, <1>16, <2>1, <2>2 DEF ChainsTyped
<1>24. ChainsLinked'
  <2> SUFFICES ASSUME NEW f \in Holder, NEW j \in 2 .. Top(f)', ~(Pending(f)' /\ j = task'[f].above)
               PROVE  imps'[chain'[f][j]].lower = chain'[f][j - 1]
    BY DEF ChainsLinked
  <2>1. CASE f = h
    <3>1. j \in 2 .. n /\ j \in 1 .. n /\ j - 1 \in 1 .. n BY <1>3, <1>16, <2>1 DEF Top
    <3>2. CASE j \in 1 .. k
      <4>1. StackedAt(imps', new, k, j, fields, expected[h]) BY <1>12, <3>2
      <4>2. j # 1 /\ j - 1 \in 1 .. k BY <1>3, <3>1, <3>2
      <4>3. c[j] = new[j] /\ c[j - 1] = new[j - 1] BY <1>14, <3>2, <4>2
      <4> QED BY <1>16, <2>1, <4>1, <4>2, <4>3 DEF StackedAt
    <3>3. CASE j \in k + 1 .. n
      <4>1. j # k + 1
        <5> SUFFICES ASSUME j = k + 1 PROVE FALSE OBVIOUS
        <5>1. k < n BY <1>3, <3>3
        <5>2. up = k + 1 /\ k + 1 # 0 BY <1>3, <5>1 DEF up
        <5>3. Pending(h)' /\ j = task'[h].above BY <1>17, <5>2 DEF Pending
        <5> QED BY <2>1, <5>3 DEF Pending
      <4>2. j - 1 \in k + 1 .. n BY <1>3, <3>3, <4>1
      <4>3. c[j] = chain[h][j] /\ c[j - 1] = chain[h][j - 1] /\ chain[h][j] \in Imp BY <1>20, <3>3, <4>2
      <4>4. imps[chain[h][j]].lower = chain[h][j - 1]
        <5>1. ~Pending(h) BY <1>3 DEF Pending
        <5> QED BY <3>1, <5>1 DEF ChainsLinked, n
      <4> QED BY <1>13, <1>16, <2>1, <4>3, <4>4
    <3> QED BY <1>19, <3>1, <3>2, <3>3
  <2>2. CASE f # h
    <3>1. j \in 2 .. Top(f) /\ j \in 1 .. Top(f) /\ Top(f) \in Nat BY <1>16, <2>2, ChainFacts
    <3>2. imps[chain[f][j]].lower = chain[f][j - 1] BY <1>1, <2>2, <3>1 DEF ChainsLinked
    <3>3. chain'[f] = chain[f] /\ chain[f][j] \in Imp BY <1>16, <2>2, <3>1, ChainFacts
    <3> QED BY <1>13, <3>2, <3>3
  <2> QED BY <2>1, <2>2
<1>25. ASSUME NEW j \in Imp', imps'[j].upper # 0
       PROVE  \/ /\ j \in Imp /\ j # i /\ imps[j].upper # 0 /\ imps'[j].upper = imps[j].upper
              \/ \E m \in 1 .. k : m # k /\ m + 1 \in 1 .. k /\ j = new[m] /\ imps'[j].upper = new[m + 1]
  <2>1. CASE j \in Imp BY <1>13, <1>25, <2>1
  <2>2. CASE j \notin Imp
    <3>1. PICK m \in 1 .. k : new[m] = j BY <1>9, <1>11, <2>2
    <3>2. StackedAt(imps', new, k, m, fields, expected[h]) BY <1>12
    <3>3. m # k /\ imps'[j].upper = new[m + 1] BY <1>25, <3>1, <3>2 DEF StackedAt
    <3>4. m + 1 \in 1 .. k BY <1>3, <3>3
    <3> QED BY <3>1, <3>3, <3>4
  <2> QED BY <2>1, <2>2
<1>26. UppersLinked'
  <2> SUFFICES ASSUME NEW j \in Imp', imps'[j].upper # 0
               PROVE  /\ imps'[j].upper \in Imp'
                      /\ imps'[imps'[j].upper].lower = j
                      /\ imps'[imps'[j].upper].layer = imps'[j].layer + 1
    BY DEF UppersLinked
  <2>1. CASE j \in Imp /\ j # i /\ imps[j].upper # 0 /\ imps'[j].upper = imps[j].upper
    <3>1. /\ imps[j].upper \in Imp /\ imps[imps[j].upper].lower = j
          /\ imps[imps[j].upper].layer = imps[j].layer + 1
      BY <2>1 DEF UppersLinked
    <3> QED BY <1>11, <1>13, <2>1, <3>1
  <2>2. CASE \E m \in 1 .. k : m # k /\ m + 1 \in 1 .. k /\ j = new[m] /\ imps'[j].upper = new[m + 1]
    <3>1. PICK m \in 1 .. k : m # k /\ m + 1 \in 1 .. k /\ j = new[m] /\ imps'[j].upper = new[m + 1]
      BY <2>2
    <3>2. StackedAt(imps', new, k, m + 1, fields, expected[h]) /\ StackedAt(imps', new, k, m, fields, expected[h])
      BY <1>12, <3>1
    <3>3. m + 1 # 1 /\ (m + 1) - 1 = m BY <1>3
    <3>4. new[m + 1] \in Imp' BY <1>11, <3>1
    <3> QED BY <3>1, <3>2, <3>3, <3>4 DEF StackedAt
  <2> QED BY <1>25, <2>1, <2>2
<1>27. \A g \in Holder \ {h} : \A m \in 1 .. Top(g) : \A j \in 1 .. n : chain[g][m] # c[j]
  <2> SUFFICES ASSUME NEW g \in Holder \ {h}, NEW m \in 1 .. Top(g), NEW j \in 1 .. n
               PROVE  chain[g][m] # c[j]
    OBVIOUS
  <2>1. chain[g][m] \in Imp /\ Contains(chain[g], chain[g][m])
    <3>1. chain[g][m] \in Imp BY ChainFacts
    <3>2. Len(chain[g]) = Top(g) BY ChainFacts
    <3> QED BY <3>1, <3>2 DEF Contains
  <2>2. CASE j \in 1 .. k
    <3>1. c[j] = new[j] /\ new[j] \in Range(new) BY <1>9, <1>14, <2>2
    <3> QED BY <1>9, <2>1, <3>1
  <2>3. CASE j \in k + 1 .. n
    <3>1. c[j] = chain[h][j] /\ ~Contains(chain[g], chain[h][j]) BY <1>20, <2>3
    <3> QED BY <2>1, <3>1
  <2> QED BY <1>19, <2>2, <2>3
<1>28. SharedBelow'
  <2> SUFFICES ASSUME NEW e \in Holder, NEW f \in Holder,
                      NEW m \in DOMAIN chain'[e] \cap DOMAIN chain'[f], chain'[e][m] = chain'[f][m],
                      NEW j \in 1 .. m
               PROVE  chain'[e][j] = chain'[f][j]
    BY DEF SharedBelow
  <2>1. CASE e = h /\ f = h BY <2>1
  <2>2. CASE e = h /\ f # h
    <3>1. m \in 1 .. n /\ m \in 1 .. Top(f) /\ chain[f][m] = c[m] BY <1>14, <1>16, <2>2, ChainFacts
    <3> QED BY <1>27, <2>2, <3>1
  <2>3. CASE e # h /\ f = h
    <3>1. m \in 1 .. n /\ m \in 1 .. Top(e) /\ chain[e][m] = c[m] BY <1>14, <1>16, <2>3, ChainFacts
    <3> QED BY <1>27, <2>3, <3>1
  <2>4. CASE e # h /\ f # h
    <3>1. chain'[e] = chain[e] /\ chain'[f] = chain[f] BY <1>16, <2>4
    <3> QED BY <3>1 DEF SharedBelow
  <2> QED BY <2>1, <2>2, <2>3, <2>4
<1>29. FramesSay'
  <2> SUFFICES ASSUME NEW f \in Holder, chain'[f] # <<>>
               PROVE  /\ imps'[chain'[f][1]].bytes = expected'[f]
                      /\ \A j \in 1 .. Top(f)' : imps'[chain'[f][j]].field = expected'[f][j]
    BY DEF FramesSay
  <2>1. CASE f = h
    <3>1. Top(f)' = n /\ 1 \in 1 .. n /\ chain'[f] = c /\ expected'[f] = expected[h]
      BY <1>3, <1>4, <1>7, <1>16, <2>1 DEF Top
    <3> QED BY <1>22, <3>1
  <2>2. CASE f # h
    <3>1. chain'[f] = chain[f] /\ Top(f)' = Top(f) /\ expected'[f] = expected[f] BY <1>7, <1>16, <2>2
    <3>2. imps[chain[f][1]].bytes = expected[f]
          /\ \A j \in 1 .. Top(f) : imps[chain[f][j]].field = expected[f][j]
      BY <3>1 DEF FramesSay
    <3>3. 1 \in 1 .. Top(f) BY <3>1, ChainFacts
    <3>4. \A j \in 1 .. Top(f) : chain[f][j] \in Imp BY ChainFacts
    <3> QED BY <1>13, <3>1, <3>2, <3>3, <3>4
  <2> QED BY <2>1, <2>2
<1>30. CountsExact'
  <2> SUFFICES ASSUME NEW j \in Imp' PROVE Counted(j, imps'[j].refs, chain', unrefs')
    BY DEF CountsExact, Counted, Having
  <2>1. \A g \in Holder : ~Contains(unrefs[g], j) BY <1>1 DEF Contains
  <2>2. \A g \in Holder \ {h} : ~Contains(unrefs'[g], j) BY <1>16, <2>1
  <2>3. Contains(chain'[h], j) <=> \E m \in 1 .. n : c[m] = j BY <1>14, <1>16 DEF Contains
  <2>4. Contains(chain[h], j) <=> \E m \in 1 .. n : chain[h][m] = j BY ChainFacts DEF n
  <2>5. Contains(unrefs'[h], j) <=> \E m \in 1 .. k - 1 : u[m] = j BY <1>15, <1>16 DEF Contains
  <2>6. \A g \in Holder \ {h} : Contains(chain'[g], j) <=> Contains(chain[g], j) BY <1>16
  <2>7. \A g \in Holder \ {h} : Contains(unrefs'[g], j) <=> Contains(unrefs[g], j) BY <1>16
  <2>8. /\ Cardinality(Having(j, chain)) \in Nat /\ Cardinality(Having(j, chain')) \in Nat
        /\ Cardinality(Having(j, unrefs)) \in Nat /\ Cardinality(Having(j, unrefs')) \in Nat
    BY HavingFinite
  <2>9. Cardinality(Having(j, unrefs)) = 0 BY <2>1, HavingNone
  <2>10. CASE j \notin Imp
    <3>1. PICK m \in 1 .. k : new[m] = j BY <1>9, <1>11, <2>10
    <3>2. imps'[j].refs = 1 BY <1>12, <3>1 DEF StackedAt
    <3>3. \A g \in Holder : ~Contains(chain[g], j)
      <4> SUFFICES ASSUME NEW g \in Holder PROVE ~Contains(chain[g], j) OBVIOUS
      <4>1. \A a \in 1 .. Top(g) : chain[g][a] # j BY <2>10, ChainFacts
      <4>2. Len(chain[g]) = Top(g) BY ChainFacts
      <4> QED BY <4>1, <4>2 DEF Contains
    <3>4. Contains(chain'[h], j)
      <4>1. m \in 1 .. n /\ c[m] = j BY <1>4, <1>14, <3>1
      <4> QED BY <2>3, <4>1
    <3>5. Cardinality(Having(j, chain')) = Cardinality(Having(j, chain)) + 1
      BY <2>6, <3>3, <3>4, HavingMore
    <3>6. Cardinality(Having(j, chain)) = 0 BY <3>3, HavingNone
    <3>7. ~Contains(unrefs'[h], j)
      <4>1. \A a \in 1 .. k - 1 : u[a] \in Imp BY <1>15
      <4> QED BY <2>5, <2>10, <4>1
    <3>8. Cardinality(Having(j, unrefs')) = 0 BY <2>2, <3>7, HavingNone
    <3> QED BY <3>2, <3>5, <3>6, <3>8 DEF Counted
  <2>11. CASE j \in Imp
    <3>1. Counted(j, imps[j].refs, chain, unrefs) /\ imps[j].refs \in Nat
      BY <2>11, CountsAre DEF ImpsTyped
    <3>2. imps[j].refs = Cardinality(Having(j, chain)) BY <2>8, <2>9, <3>1 DEF Counted
    <3>3. \A m \in 1 .. k : c[m] # j BY <1>9, <1>14, <2>11
    <3>4. imps'[j].refs = IF j = i THEN imps[j].refs - 1 ELSE imps[j].refs BY <1>13, <2>11
    <3>5. ASSUME NEW m \in 1 .. n, chain[h][m] = j PROVE imps[j].layer = m
      BY <3>5, ChainFacts DEF n
    <3>6. ASSUME NEW m \in 1 .. k - 1, u[m] = j PROVE imps[j].layer = k - m /\ k - m \in 1 .. k - 1
      <4>1. k - m \in 1 .. n /\ k - m \in 1 .. k - 1 BY <1>3
      <4> QED BY <1>15, <3>5, <3>6, <4>1
    <3>7. CASE \E m \in k + 1 .. n : chain[h][m] = j
      <4>1. PICK m \in k + 1 .. n : chain[h][m] = j BY <3>7
      <4>2. m \in 1 .. n /\ c[m] = j /\ j # i BY <1>20, <4>1
      <4>3. Contains(chain'[h], j) /\ Contains(chain[h], j) BY <2>3, <2>4, <4>1, <4>2
      <4>4. imps[j].layer = m /\ m > k BY <1>3, <3>5, <4>1, <4>2
      <4>5. ~Contains(unrefs'[h], j)
        <5>1. \A a \in 1 .. k - 1 : u[a] # j BY <1>3, <3>6, <4>4
        <5> QED BY <2>5, <5>1
      <4>6. Cardinality(Having(j, chain')) = Cardinality(Having(j, chain))
        BY <2>6, <4>3, HavingSame
      <4>7. Cardinality(Having(j, unrefs')) = 0 BY <2>2, <4>5, HavingNone
      <4> QED BY <2>8, <3>2, <3>4, <4>2, <4>6, <4>7 DEF Counted
    <3>8. CASE ~\E m \in k + 1 .. n : chain[h][m] = j
      <4>1. ~Contains(chain'[h], j)
        <5>1. \A m \in 1 .. n : c[m] # j BY <1>19, <1>20, <3>3, <3>8
        <5> QED BY <2>3, <5>1
      <4>2. CASE ~Contains(chain[h], j)
        <5>1. j # i BY <1>3, <2>4, <4>2 DEF i
        <5>2. ~Contains(unrefs'[h], j)
          <6>1. \A a \in 1 .. k - 1 : u[a] # j
            <7> SUFFICES ASSUME NEW a \in 1 .. k - 1 PROVE u[a] # j OBVIOUS
            <7>1. k - a \in 1 .. n /\ u[a] = chain[h][k - a] BY <1>3, <1>15
            <7> QED BY <2>4, <4>2, <7>1
          <6> QED BY <2>5, <6>1
        <5>3. Cardinality(Having(j, chain')) = Cardinality(Having(j, chain))
          BY <2>6, <4>1, <4>2, HavingSame
        <5>4. Cardinality(Having(j, unrefs')) = 0 BY <2>2, <5>2, HavingNone
        <5> QED BY <2>8, <3>2, <3>4, <5>1, <5>3, <5>4 DEF Counted
      <4>3. CASE Contains(chain[h], j)
        <5>1. PICK m \in 1 .. n : chain[h][m] = j BY <2>4, <4>3
        <5>2. m \in 1 .. k /\ imps[j].layer = m BY <1>19, <3>5, <3>8, <5>1
        <5>3. Cardinality(Having(j, chain)) = Cardinality(Having(j, chain')) + 1
          BY <2>6, <4>1, <4>3, HavingMore
        <5>4. CASE m = k
          <6>1. j = i BY <5>1, <5>4 DEF i
          <6>2. ~Contains(unrefs'[h], j)
            <7>1. \A a \in 1 .. k - 1 : u[a] # j BY <1>3, <3>6, <5>2, <5>4
            <7> QED BY <2>5, <7>1
          <6>3. Cardinality(Having(j, unrefs')) = 0 BY <2>2, <6>2, HavingNone
          <6> QED BY <2>8, <3>2, <3>4, <5>3, <6>1, <6>3 DEF Counted
        <5>5. CASE m # k
          <6>1. j # i BY <1>3, <5>2, <5>5
          <6>2. k - m \in 1 .. k - 1 /\ k - (k - m) = m BY <1>3, <5>2, <5>5
          <6>3. u[k - m] = j BY <1>15, <5>1, <6>2
          <6>4. Contains(unrefs'[h], j) BY <2>5, <6>2, <6>3
          <6>5. Cardinality(Having(j, unrefs')) = Cardinality(Having(j, unrefs)) + 1
            BY <2>1, <2>7, <6>4, HavingMore
          <6> QED BY <2>8, <2>9, <3>2, <3>4, <5>3, <6>1, <6>5 DEF Counted
        <5> QED BY <5>4, <5>5
      <4> QED BY <4>2, <4>3
    <3> QED BY <3>7, <3>8
  <2> QED BY <2>10, <2>11
<1>31. Detaching(h)'
  <2>1. task'[h].layer \in 1 .. Top(h)' /\ task'[h].value \in Nat /\ 0 \in -1 .. Top(h)'
    BY <1>2, <1>3, <1>16, <1>17 DEF Detaching, n
  <2>2. ASSUME NEW j \in 1 .. n, NEW g \in Holder \ {h} PROVE ~Contains(chain'[g], chain'[h][j])
    <3>1. chain'[g] = chain[g] /\ chain'[h][j] = c[j] BY <1>16
    <3>2. \A m \in 1 .. Top(g) : chain[g][m] # c[j] BY <1>27
    <3>3. Len(chain[g]) = Top(g) BY ChainFacts
    <3> QED BY <3>1, <3>2, <3>3 DEF Contains
  <2>3. ASSUME Pending(h)'
        PROVE  /\ task'[h].above \in 2 .. Top(h)'
               /\ \A j \in Imp' : imps'[j].upper # chain'[h][task'[h].above]
    <3>1. up # 0 BY <1>17, <2>3 DEF Pending
    <3>2. up = k + 1 /\ k + 1 \in 2 .. n /\ k + 1 \in k + 1 .. n /\ k \in Nat
      BY <1>3, <3>1 DEF up
    <3>3. /\ c[k + 1] = chain[h][k + 1] /\ chain[h][k + 1] \in Imp /\ chain[h][k + 1] # 0
          /\ imps[chain[h][k + 1]].lower = i
      <4>1. c[k + 1] = chain[h][k + 1] /\ chain[h][k + 1] \in Imp BY <1>20, <3>2
      <4>2. chain[h][k + 1] # 0 BY <4>1 DEF ImpsTyped
      <4>3. ~Pending(h) BY <1>3 DEF Pending
      <4>4. imps[chain[h][k + 1]].lower = chain[h][(k + 1) - 1] BY <3>2, <4>3 DEF ChainsLinked, n
      <4>5. (k + 1) - 1 = k BY <1>3
      <4> QED BY <4>1, <4>2, <4>4, <4>5 DEF i
    <3>4. ASSUME NEW j \in Imp', imps'[j].upper = c[k + 1] PROVE FALSE
      <4>1. imps'[j].upper # 0 BY <3>3, <3>4
      <4>2. CASE j \in Imp /\ j # i /\ imps[j].upper # 0 /\ imps'[j].upper = imps[j].upper
        <5>1. imps[imps[j].upper].lower = j BY <4>2 DEF UppersLinked
        <5> QED BY <3>3, <3>4, <4>2, <5>1
      <4>3. CASE \E m \in 1 .. k : m # k /\ m + 1 \in 1 .. k /\ j = new[m] /\ imps'[j].upper = new[m + 1]
        <5>1. imps'[j].upper \in Range(new) BY <1>9, <4>3
        <5> QED BY <1>9, <3>3, <3>4, <5>1
      <4> QED BY <1>25, <4>1, <4>2, <4>3
    <3> QED BY <1>16, <1>17, <3>2, <3>4
  <2>4. Top(h)' = n BY <1>16
  <2> QED BY <1>17, <2>1, <2>2, <2>3, <2>4 DEF Detaching
<1>32. ASSUME NEW g \in Holder PROVE LettingGo(g)'
  <2>1. CASE g = h
    <3>1. unrefs'[g] = u /\ u \in Seq(Imp') /\ Len(u) = k - 1
      <4>1. Imp \subseteq Imp' BY <1>11
      <4> QED BY <1>15, <1>16, <2>1, <4>1
    <3>2. ASSUME NEW m \in 1 .. k - 1 PROVE imps'[u[m]].layer = (k - 1) - m + 1
      <4>1. k - m \in 1 .. n /\ (k - 1) - m + 1 = k - m BY <1>3
      <4>2. u[m] = chain[h][k - m] BY <1>15
      <4>3. chain[h][k - m] \in Imp /\ imps[chain[h][k - m]].layer = k - m BY <4>1, ChainFacts DEF n
      <4> QED BY <1>13, <4>1, <4>2, <4>3
    <3> QED BY <3>1, <3>2 DEF LettingGo
  <2>2. CASE g # h
    <3>1. unrefs'[g] = <<>> BY <1>1, <1>16, <2>2
    <3> QED BY <3>1 DEF LettingGo
  <2> QED BY <2>1, <2>2
<1>33. OneBusy'
  <2>1. \A g \in Holder : task'[g] # Idle => Detaching(g)' BY <1>1, <1>16, <1>31
  <2>2. \A g \in Holder \ {h} : ~Busy(g)' BY <1>1, <1>16 DEF Busy
  <2> QED BY <1>32, <2>1, <2>2 DEF OneBusy
<1> QED BY <1>21, <1>23, <1>24, <1>26, <1>28, <1>29, <1>30, <1>33

\* A reference is given back, and the implementation deleted if it was the last.
LEMMA LetGoKeeps ==
  ASSUME FrameInv, OneThread, NEW h \in Holder, LetGo(h)
  PROVE  FrameInv'
<1> USE DEF FrameInv
<1> DEFINE s == unrefs[h]
           i == Head(s)
<1>1. /\ Turn(h) /\ s # <<>> /\ imps' = IF imps[i].refs = 1 THEN Deleted(i) ELSE Referenced(<<i>>, -1)
      /\ unrefs' = [unrefs EXCEPT ![h] = Tail(s)] /\ DOMAIN unrefs = Holder
      /\ chain' = chain /\ task' = task /\ expected' = expected /\ writes' = writes
  BY DEF LetGo, ChainsTyped
<1>2. \A g \in Holder \ {h} : task[g] = Idle /\ unrefs[g] = <<>> /\ ~Pending(g)
  BY <1>1, OthersIdle
<1>3. /\ s \in Seq(Imp) /\ Len(s) \in Nat \ {0} /\ i = s[1] /\ i \in Imp /\ 1 \in 1 .. Len(s)
      /\ \A m \in 1 .. Len(s) : s[m] \in Imp /\ imps[s[m]].layer = Len(s) - m + 1
  <2>1. s \in Seq(Imp) /\ \A m \in 1 .. Len(s) : imps[s[m]].layer = Len(s) - m + 1
    BY DEF OneBusy, LettingGo
  <2> HIDE DEF s
  <2>2. Len(s) \in Nat \ {0} /\ Head(s) = s[1] BY <1>1, <2>1
  <2>3. \A m \in 1 .. Len(s) : s[m] \in Imp BY <2>1
  <2>4. 1 \in 1 .. Len(s) BY <2>2
  <2> QED BY <2>1, <2>2, <2>3, <2>4
<1> DEFINE u == unrefs'[h]
<1>4. /\ Len(u) = Len(s) - 1 /\ Len(s) - 1 \in Nat
      /\ u = [m \in 1 .. Len(s) - 1 |-> u[m]]
      /\ \A m \in 1 .. Len(s) - 1 : u[m] = s[m + 1] /\ m + 1 \in 1 .. Len(s)
  <2>1. u = Tail(s) BY <1>1
  <2> HIDE DEF u, s
  <2>2. s \in Seq(Imp) /\ s # <<>> BY <1>1, <1>3
  <2>3. u \in Seq(Imp) /\ Len(u) = Len(s) - 1 BY <2>1, <2>2
  <2>4. \A m \in 1 .. Len(s) - 1 : u[m] = s[m + 1] /\ m + 1 \in 1 .. Len(s) BY <1>3, <2>1, <2>2
  <2>5. u = [m \in 1 .. Len(s) - 1 |-> u[m]] BY <2>3
  <2> QED BY <1>3, <2>3, <2>4, <2>5
<1> HIDE DEF s, i, u
<1>5. unrefs'[h] = u /\ unrefs[h] = s /\ DOMAIN unrefs' = Holder
      /\ \A g \in Holder \ {h} : unrefs'[g] = unrefs[g]
  BY <1>1 DEF u, s
<1>6. \A m \in 1 .. Len(s) - 1 : u[m] # i
  <2> SUFFICES ASSUME NEW m \in 1 .. Len(s) - 1, u[m] = i PROVE FALSE OBVIOUS
  <2>1. imps[s[m + 1]].layer = Len(s) - (m + 1) + 1 /\ imps[s[1]].layer = Len(s) - 1 + 1
    BY <1>3, <1>4
  <2>2. s[m + 1] = s[1] BY <1>3, <1>4
  <2> QED BY <1>3, <2>1, <2>2
<1>7. \A j : Contains(unrefs'[h], j) <=> j # i /\ Contains(unrefs[h], j)
  <2> SUFFICES ASSUME NEW j
               PROVE  (\E m \in 1 .. Len(s) - 1 : u[m] = j) <=> j # i /\ \E m \in 1 .. Len(s) : s[m] = j
    BY <1>4, <1>5 DEF Contains
  <2>1. ASSUME NEW m \in 1 .. Len(s), s[m] = j, j # i PROVE \E a \in 1 .. Len(s) - 1 : u[a] = j
    <3>1. m # 1 BY <1>3, <2>1
    <3>2. m - 1 \in 1 .. Len(s) - 1 /\ (m - 1) + 1 = m BY <1>3, <3>1
    <3>3. u[m - 1] = j BY <1>4, <2>1, <3>2
    <3> QED BY <3>2, <3>3
  <2> QED BY <1>4, <1>6, <2>1
<1>8. Contains(unrefs[h], i) BY <1>3, <1>5 DEF Contains
<1>9. /\ Imp' \subseteq Imp /\ IsFiniteSet(Imp')
      /\ \A j \in Imp' :
           /\ DOMAIN imps'[j] = {"layer", "refs", "lower", "upper", "field", "bytes"}
           /\ imps'[j].layer = imps[j].layer /\ imps'[j].lower = imps[j].lower
           /\ imps'[j].field = imps[j].field /\ imps'[j].bytes = imps[j].bytes
           /\ imps'[j].refs = IF j = i THEN imps[j].refs - 1 ELSE imps[j].refs
           /\ imps'[j].upper \in {0, imps[j].upper}
           /\ i \notin Imp' => imps'[j].upper # i
      /\ IF imps[i].refs = 1 THEN Imp' = Imp \ {i} ELSE Imp' = Imp
  <2>1. CASE imps[i].refs = 1
    <3>1. Imp' = Imp \ {i} BY <1>1, <2>1 DEF Imp, Deleted, i
    <3>2. IsFiniteSet(Imp') BY <3>1, FS_RemoveElement DEF ImpsTyped
    <3>3. ASSUME NEW j \in Imp'
          PROVE  /\ DOMAIN imps'[j] = {"layer", "refs", "lower", "upper", "field", "bytes"}
                 /\ imps'[j].layer = imps[j].layer /\ imps'[j].lower = imps[j].lower
                 /\ imps'[j].field = imps[j].field /\ imps'[j].bytes = imps[j].bytes
                 /\ imps'[j].refs = imps[j].refs
                 /\ imps'[j].upper = IF j = imps[i].lower THEN 0 ELSE imps[j].upper
      <4> DEFINE r == imps[j]
                 q == imps'[j]
                 v == IF j = imps[i].lower THEN 0 ELSE r.upper
      <4>1. q = [r EXCEPT !.upper = v] BY <1>1, <2>1, <3>1 DEF Deleted, i
      <4>2. DOMAIN r = {"layer", "refs", "lower", "upper", "field", "bytes"} BY <3>1 DEF ImpsTyped
      <4> HIDE DEF q, r, v
      <4>3. /\ DOMAIN q = {"layer", "refs", "lower", "upper", "field", "bytes"}
            /\ q.layer = r.layer /\ q.lower = r.lower /\ q.field = r.field /\ q.bytes = r.bytes
            /\ q.refs = r.refs /\ q.upper = v
        BY <4>1, <4>2
      <4> QED BY <4>3 DEF q, r, v
    <3>4. ASSUME NEW j \in Imp' PROVE imps'[j].upper # i
      <4>1. i # 0 /\ j \in Imp BY <1>3, <3>1 DEF ImpsTyped
      <4>2. imps[j].upper = i => imps[i].lower = j BY <4>1 DEF UppersLinked
      <4> QED BY <3>3, <4>1, <4>2
    <3> QED BY <2>1, <3>1, <3>2, <3>3, <3>4
  <2>2. CASE imps[i].refs # 1
    <3>1. imps' = Referenced(<<i>>, -1) BY <1>1, <2>2 DEF i
    <3>2. Range(<<i>>) = {i} BY DEF Range
    <3>3. Imp' = Imp BY <3>1, ReferencedIs DEF Imp
    <3>4. \A j \in Imp : /\ SaysTheSame(imps', j)
                         /\ imps'[j].refs = IF j = i THEN imps[j].refs + (-1) ELSE imps[j].refs
      BY <3>1, <3>2, ReferencedIs
    <3>5. \A j \in Imp : imps[j].refs \in Nat BY DEF ImpsTyped
    <3>6. \A j \in Imp : imps'[j].refs = IF j = i THEN imps[j].refs - 1 ELSE imps[j].refs
      BY <3>4, <3>5
    <3> QED BY <1>3, <2>2, <3>3, <3>4, <3>6 DEF SaysTheSame, ImpsTyped
  <2> QED BY <2>1, <2>2
<1>10. Counted(i, imps[i].refs, chain, unrefs) /\ imps[i].refs \in Nat \ {0}
  BY <1>3, CountsAre DEF ImpsTyped
<1>11. \A j : /\ Cardinality(Having(j, chain)) \in Nat
              /\ Cardinality(Having(j, unrefs)) \in Nat /\ Cardinality(Having(j, unrefs')) \in Nat
  BY HavingFinite
<1>12. ASSUME imps[i].refs = 1 PROVE \A g \in Holder : ~Contains(chain[g], i) /\ ~Contains(unrefs'[g], i)
  <2>1. Cardinality(Having(i, unrefs)) >= 1 BY <1>8, HavingAlone
  <2>2. Cardinality(Having(i, chain)) = 0 BY <1>10, <1>11, <1>12, <2>1 DEF Counted
  <2>3. \A g \in Holder : ~Contains(chain[g], i) BY <2>2, HavingNone
  <2>4. \A g \in Holder \ {h} : ~Contains(unrefs'[g], i) BY <1>2, <1>5 DEF Contains
  <2> QED BY <1>7, <2>3, <2>4
<1>13. \A g \in Holder : \A j \in 1 .. Top(g) : chain[g][j] \in Imp'
  <2> SUFFICES ASSUME NEW g \in Holder, NEW j \in 1 .. Top(g) PROVE chain[g][j] \in Imp' OBVIOUS
  <2>1. chain[g][j] \in Imp /\ Len(chain[g]) = Top(g) BY ChainFacts
  <2>2. imps[i].refs = 1 => chain[g][j] # i BY <1>12, <2>1 DEF Contains
  <2> QED BY <1>9, <2>1, <2>2
<1>14. ImpsTyped'
  <2>1. ASSUME NEW j \in Imp' PROVE imps'[j].refs \in Nat \ {0}
    <3>1. imps[j].refs \in Nat \ {0} BY <1>9 DEF ImpsTyped
    <3>2. j = i => imps[j].refs # 1 BY <1>9
    <3>3. imps'[j].refs = IF j = i THEN imps[j].refs - 1 ELSE imps[j].refs BY <1>9
    <3> QED BY <3>1, <3>2, <3>3
  <2>2. Imp' \subseteq Nat \ {0} BY <1>9 DEF ImpsTyped
  <2> QED BY <1>9, <2>1, <2>2 DEF ImpsTyped
<1>15. \A g \in Holder : Top(g)' = Top(g) /\ chain'[g] = chain[g] /\ (Pending(g)' <=> Pending(g))
  BY <1>1 DEF Top, Pending
<1>16. ChainsTyped'
  <2>1. ASSUME NEW f \in Holder
        PROVE  (/\ chain[f] \in Seq(Imp) /\ Top(f) <= Depth
                /\ expected[f] \in [1 .. Depth -> Nat]
                /\ \A j \in 1 .. Top(f) : imps[chain[f][j]].layer = j)'
    <3>1. chain[f] \in Seq(Imp) /\ Top(f) <= Depth /\ expected[f] \in [1 .. Depth -> Nat]
          /\ Top(f) = Len(chain[f])
      BY DEF ChainsTyped, Top
    <3>2. chain[f] \in Seq(Imp')
      <4>1. Top(f) \in Nat /\ chain[f] = [j \in 1 .. Top(f) |-> chain[f][j]] BY <3>1
      <4> QED BY <1>13, <4>1, SequenceOf
    <3>3. ASSUME NEW j \in 1 .. Top(f) PROVE imps'[chain[f][j]].layer = j
      <4>1. imps[chain[f][j]].layer = j BY ChainFacts
      <4> QED BY <1>9, <1>13, <4>1
    <3> QED BY <1>1, <1>15, <3>1, <3>2, <3>3
  <2> QED BY <1>1, <1>5, <2>1 DEF ChainsTyped
<1>17. ChainsLinked'
  <2> SUFFICES ASSUME NEW f \in Holder, NEW j \in 2 .. Top(f)', ~(Pending(f)' /\ j = task'[f].above)
               PROVE  imps'[chain'[f][j]].lower = chain'[f][j - 1]
    BY DEF ChainsLinked
  <2>1. j \in 2 .. Top(f) /\ j \in 1 .. Top(f) /\ ~(Pending(f) /\ j = task[f].above)
    <3>1. Top(f) \in Nat BY ChainFacts
    <3> QED BY <1>1, <1>15, <3>1
  <2>2. imps[chain[f][j]].lower = chain[f][j - 1] BY <2>1 DEF ChainsLinked
  <2> QED BY <1>9, <1>13, <1>15, <2>1, <2>2
<1>18. UppersLinked'
  <2> SUFFICES ASSUME NEW j \in Imp', imps'[j].upper # 0
               PROVE  /\ imps'[j].upper \in Imp'
                      /\ imps'[imps'[j].upper].lower = j
                      /\ imps'[imps'[j].upper].layer = imps'[j].layer + 1
    BY DEF UppersLinked
  <2>1. imps'[j].upper = imps[j].upper /\ imps[j].upper # 0 /\ j \in Imp BY <1>9
  <2>2. /\ imps[j].upper \in Imp /\ imps[imps[j].upper].lower = j
        /\ imps[imps[j].upper].layer = imps[j].layer + 1
    BY <2>1 DEF UppersLinked
  <2>3. imps[j].upper \in Imp' BY <1>9, <2>1, <2>2
  <2> QED BY <1>9, <2>1, <2>2, <2>3
<1>19. SharedBelow' BY <1>1 DEF SharedBelow
<1>20. FramesSay'
  <2> SUFFICES ASSUME NEW f \in Holder, chain'[f] # <<>>
               PROVE  /\ imps'[chain'[f][1]].bytes = expected'[f]
                      /\ \A j \in 1 .. Top(f)' : imps'[chain'[f][j]].field = expected'[f][j]
    BY DEF FramesSay
  <2>1. imps[chain[f][1]].bytes = expected[f]
        /\ \A j \in 1 .. Top(f) : imps[chain[f][j]].field = expected[f][j]
    BY <1>15 DEF FramesSay
  <2>2. 1 \in 1 .. Top(f) BY <1>15, ChainFacts
  <2> QED BY <1>1, <1>9, <1>13, <1>15, <2>1, <2>2
<1>21. CountsExact'
  <2> SUFFICES ASSUME NEW j \in Imp' PROVE Counted(j, imps'[j].refs, chain', unrefs')
    BY DEF CountsExact, Counted, Having
  <2>1. Counted(j, imps[j].refs, chain', unrefs) /\ j \in Imp BY <1>1, <1>9, CountsAre
  <2>2. \A g \in Holder \ {h} : Contains(unrefs'[g], j) <=> Contains(unrefs[g], j) BY <1>5
  <2>3. CASE j = i
    <3>1. Cardinality(Having(j, unrefs)) = Cardinality(Having(j, unrefs')) + 1
      BY <1>7, <1>8, <2>2, <2>3, HavingMore
    <3>2. imps'[j].refs = imps[j].refs - 1 BY <1>9, <2>3
    <3>3. /\ Cardinality(Having(j, chain')) \in Nat /\ Cardinality(Having(j, unrefs)) \in Nat
          /\ Cardinality(Having(j, unrefs')) \in Nat
      BY HavingFinite
    <3> QED BY <2>1, <3>1, <3>2, <3>3 DEF Counted
  <2>4. CASE j # i
    <3>1. Cardinality(Having(j, unrefs')) = Cardinality(Having(j, unrefs))
      BY <1>7, <2>2, <2>4, HavingSame
    <3>2. imps'[j].refs = imps[j].refs BY <1>9, <2>4
    <3> QED BY <2>1, <3>1, <3>2 DEF Counted
  <2> QED BY <2>3, <2>4
<1>22. ASSUME task[h] # Idle PROVE Detaching(h)'
  <2>1. Detaching(h) BY <1>22 DEF OneBusy
  <2>2. ~(task[h].at > 0) /\ task[h].at # -1 /\ unrefs[h] # <<>> BY <1>1, <2>1 DEF Detaching, s
  <2>3. \A g \in Holder : chain'[g] = chain[g] BY <1>1
  <2>4. ASSUME Pending(h), NEW j \in Imp' PROVE imps'[j].upper # chain[h][task[h].above]
    <3>1. chain[h][task[h].above] # 0
      <4>1. task[h].above \in 2 .. Top(h) /\ Top(h) \in Nat BY <2>1, <2>4, ChainFacts DEF Detaching
      <4>2. task[h].above \in 1 .. Top(h) BY <4>1
      <4> QED BY <4>2, ChainFacts
    <3>2. imps[j].upper # chain[h][task[h].above] BY <1>9, <2>1, <2>4 DEF Detaching
    <3> QED BY <1>9, <3>1, <3>2
  <2> QED BY <1>1, <1>15, <2>1, <2>2, <2>3, <2>4 DEF Detaching
<1>23. ASSUME NEW g \in Holder PROVE LettingGo(g)'
  <2>1. CASE g = h
    <3>1. ASSUME NEW m \in 1 .. Len(s) - 1
          PROVE  u[m] \in Imp' /\ imps'[u[m]].layer = (Len(s) - 1) - m + 1
      <4>1. u[m] = s[m + 1] /\ m + 1 \in 1 .. Len(s) BY <1>4
      <4>2. u[m] \in Imp /\ imps[u[m]].layer = Len(s) - (m + 1) + 1 BY <1>3, <4>1
      <4>3. Len(s) - (m + 1) + 1 = (Len(s) - 1) - m + 1 BY <1>3
      <4>4. u[m] \in Imp' BY <1>6, <1>9, <4>2
      <4> QED BY <1>9, <4>2, <4>3, <4>4
    <3>2. u \in Seq(Imp') BY <1>4, <3>1, SequenceOf
    <3> QED BY <1>4, <1>5, <2>1, <3>1, <3>2 DEF LettingGo
  <2>2. CASE g # h
    <3>1. unrefs'[g] = <<>> BY <1>2, <1>5, <2>2
    <3> QED BY <3>1 DEF LettingGo
  <2> QED BY <2>1, <2>2
<1>24. OneBusy'
  <2>1. \A g \in Holder : task'[g] # Idle => Detaching(g)' BY <1>1, <1>2, <1>22
  <2>2. \A g \in Holder \ {h} : ~Busy(g)' BY <1>1, <1>2, <1>5 DEF Busy
  <2> QED BY <1>23, <2>1, <2>2 DEF OneBusy
<1> QED BY <1>14, <1>16, <1>17, <1>18, <1>19, <1>20, <1>21, <1>24

\* The layers above the copies are put on them.
LEMMA RelinkKeeps ==
  ASSUME FrameInv, OneThread, NEW h \in Holder, Relink(h)
  PROVE  FrameInv'
<1> USE DEF FrameInv
<1> DEFINE a == task[h].above
           n == Top(h)
           i == chain[h][a]
           below == chain[h][a - 1]
<1>1. /\ Turn(h) /\ unrefs[h] = <<>> /\ task[h] # Idle /\ task[h].at = 0
      /\ imps' = Relinked(h) /\ task' = [task EXCEPT ![h].at = -1] /\ DOMAIN task = Holder
      /\ chain' = chain /\ unrefs' = unrefs /\ expected' = expected /\ writes' = writes
  BY DEF Relink, ChainsTyped
<1>2. \A g \in Holder \ {h} : task[g] = Idle /\ unrefs[g] = <<>> /\ ~Pending(g)
  BY <1>1, OthersIdle
<1>3. Detaching(h) BY <1>1 DEF OneBusy
<1>4. /\ task'[h].at = -1 /\ task'[h].above = a /\ task'[h].layer = task[h].layer
      /\ task'[h].value = task[h].value /\ DOMAIN task'[h] = {"layer", "value", "at", "above"}
  <2> DEFINE r == task[h]
             q == task'[h]
  <2>1. q = [r EXCEPT !.at = -1] BY <1>1
  <2>2. DOMAIN r = {"layer", "value", "at", "above"} BY <1>3 DEF Detaching
  <2> HIDE DEF q, r
  <2>3. /\ q.at = -1 /\ q.above = r.above /\ q.layer = r.layer /\ q.value = r.value
        /\ DOMAIN q = {"layer", "value", "at", "above"}
    BY <2>1, <2>2
  <2> QED BY <2>3 DEF q, r
<1>5. DOMAIN task' = Holder /\ \A g \in Holder \ {h} : task'[g] = task[g] BY <1>1
<1>6. \A g \in Holder : ~Pending(g)' BY <1>2, <1>4, <1>5 DEF Pending
<1>7. ASSUME a # 0
      PROVE  /\ a \in 2 .. n /\ a \in 1 .. n /\ a - 1 \in 1 .. n /\ n \in Nat
             /\ i \in Imp /\ below \in Imp /\ imps[i].layer = a /\ imps[below].layer = a - 1
             /\ \A j \in Imp : imps[j].upper # i
             /\ Pending(h)
  <2>1. Pending(h) BY <1>1, <1>7 DEF Pending
  <2>2. a \in 2 .. n /\ \A j \in Imp : imps[j].upper # i BY <1>3, <2>1 DEF Detaching
  <2>3. n \in Nat BY ChainFacts
  <2>4. a \in 1 .. n /\ a - 1 \in 1 .. n BY <2>2, <2>3
  <2> QED BY <2>1, <2>2, <2>3, <2>4, ChainFacts
<1> HIDE DEF i, below
<1>8. /\ Imp' = Imp
      /\ \A j \in Imp :
           /\ DOMAIN imps'[j] = {"layer", "refs", "lower", "upper", "field", "bytes"}
           /\ imps'[j].layer = imps[j].layer /\ imps'[j].refs = imps[j].refs
           /\ imps'[j].field = imps[j].field /\ imps'[j].bytes = imps[j].bytes
           /\ imps'[j].lower = IF a # 0 /\ j = i THEN below ELSE imps[j].lower
           /\ imps'[j].upper = IF a # 0 /\ j = below THEN i ELSE imps[j].upper
  <2>1. CASE a = 0
    <3>1. imps' = imps BY <1>1, <2>1 DEF Relinked
    <3> QED BY <2>1, <3>1 DEF Imp, ImpsTyped
  <2>2. CASE a # 0
    <3>1. imps' = [imps EXCEPT ![i].lower = below, ![below].upper = i]
      BY <1>1, <2>2 DEF Relinked, i, below
    <3>2. Imp' = Imp BY <3>1 DEF Imp
    <3>3. i # below
      <4>1. a # a - 1 BY <1>7, <2>2
      <4> QED BY <1>7, <2>2, <4>1
    <3>4. ASSUME NEW j \in Imp
          PROVE  imps'[j] = IF j = i THEN [imps[j] EXCEPT !.lower = below]
                            ELSE IF j = below THEN [imps[j] EXCEPT !.upper = i] ELSE imps[j]
      BY <3>1, <3>3 DEF Imp
    <3>5. ASSUME NEW j \in Imp
          PROVE  /\ DOMAIN imps'[j] = {"layer", "refs", "lower", "upper", "field", "bytes"}
                 /\ imps'[j].layer = imps[j].layer /\ imps'[j].refs = imps[j].refs
                 /\ imps'[j].field = imps[j].field /\ imps'[j].bytes = imps[j].bytes
                 /\ imps'[j].lower = IF j = i THEN below ELSE imps[j].lower
                 /\ imps'[j].upper = IF j = below THEN i ELSE imps[j].upper
      <4> DEFINE r == imps[j]
                 q == imps'[j]
      <4>1. DOMAIN r = {"layer", "refs", "lower", "upper", "field", "bytes"} BY DEF ImpsTyped
      <4>2. q = IF j = i THEN [r EXCEPT !.lower = below]
                ELSE IF j = below THEN [r EXCEPT !.upper = i] ELSE r
        BY <3>4
      <4> HIDE DEF q, r
      <4>3. /\ DOMAIN q = {"layer", "refs", "lower", "upper", "field", "bytes"}
            /\ q.layer = r.layer /\ q.refs = r.refs
            /\ q.field = r.field /\ q.bytes = r.bytes
            /\ q.lower = IF j = i THEN below ELSE r.lower
            /\ q.upper = IF j = below THEN i ELSE r.upper
        BY <3>3, <4>1, <4>2
      <4> QED BY <4>3 DEF q, r
    <3> QED BY <2>2, <3>2, <3>5
  <2> QED BY <2>1, <2>2
<1>9. ImpsTyped' BY <1>8 DEF ImpsTyped
<1>10. \A g \in Holder : Top(g)' = Top(g) /\ chain'[g] = chain[g] BY <1>1 DEF Top
<1>11. ChainsTyped'
  <2>1. ASSUME NEW f \in Holder
        PROVE  (/\ chain[f] \in Seq(Imp) /\ Top(f) <= Depth
                /\ expected[f] \in [1 .. Depth -> Nat]
                /\ \A j \in 1 .. Top(f) : imps[chain[f][j]].layer = j)'
    <3>1. chain[f] \in Seq(Imp) /\ Top(f) <= Depth /\ expected[f] \in [1 .. Depth -> Nat]
      BY DEF ChainsTyped
    <3>2. \A j \in 1 .. Top(f) : imps'[chain[f][j]].layer = j BY <1>8, ChainFacts
    <3> QED BY <1>1, <1>8, <1>10, <3>1, <3>2
  <2> QED BY <1>1, <1>5, <2>1 DEF ChainsTyped
<1>12. ChainsLinked'
  <2> SUFFICES ASSUME NEW f \in Holder, NEW j \in 2 .. Top(f)
               PROVE  imps'[chain[f][j]].lower = chain[f][j - 1]
    BY <1>10 DEF ChainsLinked
  <2>1. j \in 1 .. Top(f) /\ Top(f) \in Nat /\ Len(chain[f]) = Top(f)
    <3>1. Top(f) \in Nat /\ Len(chain[f]) = Top(f) BY ChainFacts
    <3> QED BY <3>1
  <2>2. chain[f][j] \in Imp /\ imps[chain[f][j]].layer = j BY <2>1, ChainFacts
  <2>3. CASE a # 0 /\ chain[f][j] = i
    <3>1. j = a BY <1>7, <2>2, <2>3
    <3>2. f = h
      <4> SUFFICES ASSUME f # h PROVE FALSE OBVIOUS
      <4>1. a > task[h].at BY <1>1, <1>7, <2>3
      <4>2. ~Contains(chain[f], i) BY <1>3, <1>7, <2>3, <4>1 DEF Detaching, i
      <4> QED BY <2>1, <2>3, <4>2 DEF Contains
    <3> QED BY <1>8, <2>2, <2>3, <3>1, <3>2 DEF below
  <2>4. CASE ~(a # 0 /\ chain[f][j] = i)
    <3>1. ~(Pending(f) /\ j = task[f].above) BY <1>2, <2>4 DEF i, Pending
    <3>2. imps[chain[f][j]].lower = chain[f][j - 1] BY <3>1 DEF ChainsLinked
    <3> QED BY <1>8, <2>2, <2>4, <3>2
  <2> QED BY <2>3, <2>4
<1>13. UppersLinked'
  <2> SUFFICES ASSUME NEW j \in Imp, imps'[j].upper # 0
               PROVE  /\ imps'[j].upper \in Imp
                      /\ imps'[imps'[j].upper].lower = j
                      /\ imps'[imps'[j].upper].layer = imps'[j].layer + 1
    BY <1>8 DEF UppersLinked
  <2>1. CASE a # 0 /\ j = below
    <3>1. imps'[j].upper = i /\ i \in Imp BY <1>7, <1>8, <2>1
    <3>2. imps'[i].lower = below /\ imps'[i].layer = a /\ imps'[j].layer = a - 1
      BY <1>7, <1>8, <2>1
    <3>3. a = (a - 1) + 1 BY <1>7, <2>1
    <3> QED BY <2>1, <3>1, <3>2, <3>3
  <2>2. CASE ~(a # 0 /\ j = below)
    <3>1. imps'[j].upper = imps[j].upper /\ imps[j].upper # 0 BY <1>8, <2>2
    <3>2. /\ imps[j].upper \in Imp /\ imps[imps[j].upper].lower = j
          /\ imps[imps[j].upper].layer = imps[j].layer + 1
      BY <3>1 DEF UppersLinked
    <3>3. ~(a # 0 /\ imps[j].upper = i) BY <1>7
    <3> QED BY <1>8, <3>1, <3>2, <3>3
  <2> QED BY <2>1, <2>2
<1>14. SharedBelow' BY <1>1 DEF SharedBelow
<1>15. FramesSay'
  <2> SUFFICES ASSUME NEW f \in Holder, chain[f] # <<>>
               PROVE  /\ imps'[chain[f][1]].bytes = expected[f]
                      /\ \A j \in 1 .. Top(f) : imps'[chain[f][j]].field = expected[f][j]
    BY <1>1, <1>10 DEF FramesSay
  <2>1. imps[chain[f][1]].bytes = expected[f]
        /\ \A j \in 1 .. Top(f) : imps[chain[f][j]].field = expected[f][j]
    BY DEF FramesSay
  <2>2. 1 \in 1 .. Top(f) BY ChainFacts
  <2>3. \A j \in 1 .. Top(f) : chain[f][j] \in Imp BY ChainFacts
  <2> QED BY <1>8, <2>1, <2>2, <2>3
<1>16. CountsExact' BY <1>1, <1>8 DEF CountsExact
<1>17. Detaching(h)'
  <2>1. ASSUME NEW j \in 1 .. n, NEW g \in Holder \ {h} PROVE ~Contains(chain[g], chain[h][j])
    <3>1. j > task[h].at BY <1>1
    <3> QED BY <1>3, <3>1 DEF Detaching
  <2>2. n \in Nat BY ChainFacts
  <2>3. task[h].layer \in 1 .. n /\ task[h].value \in Nat BY <1>3 DEF Detaching
  <2>4. -1 \in -1 .. n /\ ~(-1 > 0) BY <2>2
  <2>5. \A j \in 1 .. Top(h)' : \A g \in Holder \ {h} : ~Contains(chain'[g], chain'[h][j])
    BY <1>1, <1>10, <2>1
  <2> QED BY <1>1, <1>4, <1>6, <1>10, <2>3, <2>4, <2>5 DEF Detaching
<1>18. ASSUME NEW g \in Holder PROVE LettingGo(g)'
  <2>1. unrefs'[g] = <<>> BY <1>1, <1>2
  <2> QED BY <2>1 DEF LettingGo
<1>19. OneBusy'
  <2>1. \A g \in Holder : task'[g] # Idle => Detaching(g)' BY <1>2, <1>5, <1>17
  <2>2. \A g \in Holder \ {h} : ~Busy(g)' BY <1>1, <1>2, <1>5 DEF Busy
  <2> QED BY <1>18, <2>1, <2>2 DEF OneBusy
<1> QED BY <1>9, <1>11, <1>12, <1>13, <1>14, <1>15, <1>16, <1>19

\* When the field is set, nobody is left above.
LEMMA NobodyBefore ==
  ASSUME NEW h \in Holder, SetField(h)
  PROVE  task[h] # Idle /\ ~Pending(h)
<1>1. task[h].at = -1 BY DEF SetField
<1>2. task[h].at # 0 BY <1>1
<1>3. Idle.at = 0 BY DEF Idle
<1> QED BY <1>2, <1>3 DEF Pending

\* The field is set, and populated to the bytes.
LEMMA SetFieldKeeps ==
  ASSUME FrameInv, OneThread, NEW h \in Holder, SetField(h)
  PROVE  FrameInv'
<1> USE DEF FrameInv
<1> DEFINE k == task[h].layer
           v == task[h].value
           n == Top(h)
           i == chain[h][k]
           b == Under(i)[1]
           says == [imps[b].bytes EXCEPT ![k] = v]
<1>1. /\ Turn(h) /\ task[h].at = -1
      /\ imps' = [imps EXCEPT ![i].field = v, ![b].bytes = [@ EXCEPT ![k] = v]]
      /\ expected' = [expected EXCEPT ![h][k] = v] /\ task' = [task EXCEPT ![h] = Idle]
      /\ DOMAIN task = Holder /\ DOMAIN expected = Holder
      /\ chain' = chain /\ unrefs' = unrefs /\ writes' = writes
  BY DEF SetField, ChainsTyped
<1>2. \A g \in Holder \ {h} : task[g] = Idle /\ unrefs[g] = <<>> /\ ~Pending(g)
  BY <1>1, OthersIdle
<1>3. Detaching(h)
  <2>1. task[h] # Idle BY NobodyBefore
  <2> QED BY <2>1 DEF OneBusy
<1>4. \A g \in Holder : unrefs[g] = <<>> /\ ~Pending(g)
  <2>1. unrefs[h] = <<>> BY <1>1, <1>3 DEF Detaching
  <2>2. ~Pending(h) BY NobodyBefore
  <2> QED BY <1>2, <2>1, <2>2, Zenon
<1>5. /\ k \in 1 .. n /\ n \in Nat /\ v \in Nat /\ 1 \in 1 .. n /\ 1 \in 1 .. k /\ i \in Imp
      /\ chain[h] # <<>> /\ chain[h][1] \in Imp
      /\ \A j \in 1 .. n : \A g \in Holder \ {h} : ~Contains(chain[g], chain[h][j])
  <2>1. n \in Nat BY ChainFacts
  <2>2. k \in 1 .. n /\ v \in Nat BY <1>3 DEF Detaching
  <2>3. 1 \in 1 .. n /\ 1 \in 1 .. k BY <2>1, <2>2
  <2>4. \A j \in 1 .. n : \A g \in Holder \ {h} : ~Contains(chain[g], chain[h][j])
    <3>1. \A j \in 1 .. n : j > -1 BY <2>1
    <3> QED BY <1>1, <1>3, <3>1 DEF Detaching
  <2> QED BY <2>1, <2>2, <2>3, <2>4, ChainFacts
<1>6. b = chain[h][1]
  <2>1. Under(i) = [j \in 1 .. k |-> chain[h][j]] BY <1>4, <1>5, UnderChain
  <2> QED BY <1>5, <2>1
<1>7. expected[h] \in [1 .. Depth -> Nat] /\ imps[b].bytes = expected[h] /\ k \in 1 .. Depth
      /\ \A j \in 1 .. n : imps[chain[h][j]].field = expected[h][j]
  <2>1. n <= Depth /\ Depth \in Nat BY FrameAssumption DEF ChainsTyped
  <2>2. k \in 1 .. Depth BY <1>5, <2>1
  <2> QED BY <1>5, <1>6, <2>2 DEF ChainsTyped, FramesSay
<1> HIDE DEF b, i
<1>8. /\ Imp' = Imp
      /\ \A j \in Imp :
           /\ DOMAIN imps'[j] = {"layer", "refs", "lower", "upper", "field", "bytes"}
           /\ imps'[j].layer = imps[j].layer /\ imps'[j].refs = imps[j].refs
           /\ imps'[j].lower = imps[j].lower /\ imps'[j].upper = imps[j].upper
           /\ imps'[j].field = IF j = i THEN v ELSE imps[j].field
           /\ imps'[j].bytes = IF j = b THEN says ELSE imps[j].bytes
  <2>1. Imp' = Imp BY <1>1 DEF Imp
  <2>2. ASSUME NEW j \in Imp
        PROVE  /\ DOMAIN imps'[j] = {"layer", "refs", "lower", "upper", "field", "bytes"}
               /\ imps'[j].layer = imps[j].layer /\ imps'[j].refs = imps[j].refs
               /\ imps'[j].lower = imps[j].lower /\ imps'[j].upper = imps[j].upper
               /\ imps'[j].field = IF j = i THEN v ELSE imps[j].field
               /\ imps'[j].bytes = IF j = b THEN says ELSE imps[j].bytes
    <3> DEFINE r == imps[j]
               q == imps'[j]
               m == [imps EXCEPT ![i].field = v]
    <3>1. DOMAIN r = {"layer", "refs", "lower", "upper", "field", "bytes"} BY DEF ImpsTyped
    <3>2. m[j] = IF j = i THEN [r EXCEPT !.field = v] ELSE r BY DEF Imp
    <3>3. q = IF j = b THEN [m[j] EXCEPT !.bytes = [m[b].bytes EXCEPT ![k] = v]] ELSE m[j]
      BY <1>1 DEF Imp
    <3>4. m[b].bytes = imps[b].bytes
      <4>1. b \in Imp BY <1>5, <1>6
      <4>2. m[b] = IF b = i THEN [imps[b] EXCEPT !.field = v] ELSE imps[b] BY <4>1 DEF Imp
      <4>3. DOMAIN imps[b] = {"layer", "refs", "lower", "upper", "field", "bytes"}
        BY <4>1 DEF ImpsTyped
      <4> QED BY <4>2, <4>3
    <3> DEFINE p == m[j]
    <3>5. q = IF j = b THEN [p EXCEPT !.bytes = says] ELSE p BY <3>3, <3>4
    <3>6. p = IF j = i THEN [r EXCEPT !.field = v] ELSE r BY <3>2
    <3> HIDE DEF p, q, r, says, m
    <3>7. /\ DOMAIN p = {"layer", "refs", "lower", "upper", "field", "bytes"}
          /\ p.layer = r.layer /\ p.refs = r.refs /\ p.lower = r.lower /\ p.upper = r.upper
          /\ p.field = (IF j = i THEN v ELSE r.field) /\ p.bytes = r.bytes
      BY <3>1, <3>6
    <3>8. /\ DOMAIN q = {"layer", "refs", "lower", "upper", "field", "bytes"}
          /\ q.layer = p.layer /\ q.refs = p.refs /\ q.lower = p.lower /\ q.upper = p.upper
          /\ q.field = p.field /\ q.bytes = IF j = b THEN says ELSE p.bytes
      BY <3>5, <3>7
    <3> QED BY <3>7, <3>8 DEF q, r
  <2> QED BY <2>1, <2>2
<1>9. DOMAIN task' = Holder /\ \A g \in Holder : task'[g] = Idle BY <1>1, <1>2
<1>10. /\ DOMAIN expected' = Holder /\ expected'[h] = [expected[h] EXCEPT ![k] = v]
       /\ \A g \in Holder \ {h} : expected'[g] = expected[g]
  BY <1>1
<1>11. \A g \in Holder : Top(g)' = Top(g) /\ chain'[g] = chain[g] /\ ~Pending(g)'
  BY <1>1, <1>9 DEF Top, Pending, Idle
<1>12. ImpsTyped' BY <1>8 DEF ImpsTyped
<1>13. ChainsTyped'
  <2>1. ASSUME NEW f \in Holder
        PROVE  (/\ chain[f] \in Seq(Imp) /\ Top(f) <= Depth
                /\ expected[f] \in [1 .. Depth -> Nat]
                /\ \A j \in 1 .. Top(f) : imps[chain[f][j]].layer = j)'
    <3>1. chain[f] \in Seq(Imp) /\ Top(f) <= Depth /\ expected[f] \in [1 .. Depth -> Nat]
      BY DEF ChainsTyped
    <3>2. expected'[f] \in [1 .. Depth -> Nat]
      <4>1. [expected[h] EXCEPT ![k] = v] \in [1 .. Depth -> Nat] BY <1>5, <1>7
      <4> QED BY <1>10, <3>1, <4>1
    <3>3. \A j \in 1 .. Top(f) : imps'[chain[f][j]].layer = j BY <1>8, ChainFacts
    <3> QED BY <1>8, <1>11, <3>1, <3>2, <3>3
  <2> QED BY <1>1, <1>9, <1>10, <2>1 DEF ChainsTyped
<1>14. ChainsLinked'
  <2> SUFFICES ASSUME NEW f \in Holder, NEW j \in 2 .. Top(f)
               PROVE  imps'[chain[f][j]].lower = chain[f][j - 1]
    BY <1>11 DEF ChainsLinked
  <2>1. j \in 1 .. Top(f)
    <3>1. Top(f) \in Nat BY ChainFacts
    <3> QED BY <3>1
  <2>2. chain[f][j] \in Imp BY <2>1, ChainFacts
  <2>3. imps[chain[f][j]].lower = chain[f][j - 1] BY <1>4 DEF ChainsLinked
  <2> QED BY <1>8, <2>2, <2>3
<1>15. UppersLinked' BY <1>8 DEF UppersLinked
<1>16. SharedBelow' BY <1>1 DEF SharedBelow
<1>17. FramesSay'
  <2> SUFFICES ASSUME NEW f \in Holder, chain[f] # <<>>
               PROVE  /\ imps'[chain[f][1]].bytes = expected'[f]
                      /\ \A j \in 1 .. Top(f) : imps'[chain[f][j]].field = expected'[f][j]
    BY <1>11 DEF FramesSay
  <2>1. CASE f = h
    <3>1. imps'[chain[h][1]].bytes = expected'[h] BY <1>5, <1>6, <1>7, <1>8, <1>10
    <3>2. ASSUME NEW j \in 1 .. n PROVE imps'[chain[h][j]].field = expected'[h][j]
      <4>1. chain[h][j] \in Imp /\ (chain[h][j] = i => j = k) /\ (j = k => chain[h][j] = i)
        BY <1>5, ChainFacts DEF i
      <4>2. DOMAIN expected[h] = 1 .. Depth BY <1>7
      <4>3. j \in 1 .. Depth
        <5>1. n <= Depth /\ Depth \in Nat BY FrameAssumption DEF ChainsTyped
        <5> QED BY <1>5, <5>1
      <4>4. expected'[h][j] = IF j = k THEN v ELSE expected[h][j] BY <1>10, <4>2, <4>3
      <4> QED BY <1>7, <1>8, <4>1, <4>4
    <3> QED BY <2>1, <3>1, <3>2
  <2>2. CASE f # h
    <3>1. imps[chain[f][1]].bytes = expected[f]
          /\ \A j \in 1 .. Top(f) : imps[chain[f][j]].field = expected[f][j]
      BY DEF FramesSay
    <3>2. 1 \in 1 .. Top(f) /\ Len(chain[f]) = Top(f) BY ChainFacts
    <3>3. \A j \in 1 .. Top(f) : chain[f][j] \in Imp BY ChainFacts
    <3>4. ~Contains(chain[f], i) /\ ~Contains(chain[f], b) BY <1>5, <1>6, <2>2 DEF i
    <3>5. \A j \in 1 .. Top(f) : chain[f][j] # i /\ chain[f][j] # b BY <3>2, <3>4 DEF Contains
    <3> QED BY <1>8, <1>10, <2>2, <3>1, <3>2, <3>3, <3>5
  <2> QED BY <2>1, <2>2
<1>18. CountsExact'
  <2>1. Imp' = Imp /\ \A j \in Imp : imps'[j].refs = imps[j].refs BY <1>8
  <2> QED BY <1>1, <2>1 DEF CountsExact
<1>19. ASSUME NEW g \in Holder PROVE LettingGo(g)'
  <2>1. unrefs'[g] = <<>> BY <1>1, <1>4
  <2> QED BY <2>1 DEF LettingGo
<1>20. OneBusy'
  <2>1. \A g \in Holder : ~Busy(g)' BY <1>1, <1>4, <1>9 DEF Busy
  <2> QED BY <1>9, <1>19, <2>1 DEF OneBusy
<1> QED BY <1>12, <1>13, <1>14, <1>15, <1>16, <1>17, <1>18, <1>20

\* The holders of shared frames, if their maps run in one thread, keep the invariant.
THEOREM FramesStayRight == ASSUME OneThread PROVE FramesSpec => []FrameInv
<1>1. FramesInit => FrameInv
  <2> SUFFICES ASSUME FramesInit PROVE FrameInv OBVIOUS
  <2> USE DEF FramesInit
  <2>1. Imp = {} /\ Imp \subseteq Nat \ {0} BY DEF Imp
  <2>2. \A h \in Holder : chain[h] = <<>> /\ unrefs[h] = <<>> /\ task[h] = Idle /\ expected[h] = Sent
                          /\ Top(h) = 0
    BY DEF Top
  <2>3. Sent \in [1 .. Depth -> Nat] BY DEF Sent
  <2>4. ImpsTyped BY <2>1, FS_EmptySet DEF ImpsTyped
  <2>5. Depth \in Nat /\ 0 <= Depth BY FrameAssumption
  <2>6. ChainsTyped BY <2>2, <2>3, <2>5 DEF ChainsTyped
  <2>7. ChainsLinked BY <2>2 DEF ChainsLinked
  <2>8. UppersLinked BY <2>1 DEF UppersLinked
  <2>9. SharedBelow BY <2>2 DEF SharedBelow
  <2>10. FramesSay BY <2>2 DEF FramesSay
  <2>11. OneBusy BY <2>2 DEF OneBusy, LettingGo, Busy
  <2>12. CountsExact BY <2>1 DEF CountsExact
  <2> QED BY <2>4, <2>6, <2>7, <2>8, <2>9, <2>10, <2>11, <2>12 DEF FrameInv
<1>2. FrameInv /\ [FramesNext]_frameVars => FrameInv'
  <2> SUFFICES ASSUME FrameInv, [FramesNext]_frameVars PROVE FrameInv' OBVIOUS
  <2>1. CASE UNCHANGED frameVars
    <3> USE <2>1 DEF frameVars
    <3>1. Imp' = Imp /\ \A h \in Holder : Top(h)' = Top(h) /\ (Busy(h)' <=> Busy(h))
                                          /\ (Pending(h)' <=> Pending(h))
      BY DEF Imp, Top, Busy, Pending
    <3>2. \A h \in Holder : (Detaching(h) => Detaching(h)') /\ (LettingGo(h) => LettingGo(h)')
      BY <3>1 DEF Detaching, LettingGo
    <3>3. ImpsTyped' /\ UppersLinked' /\ SharedBelow' /\ CountsExact'
      BY <3>1 DEF FrameInv, ImpsTyped, UppersLinked, SharedBelow, CountsExact
    <3>4. ChainsTyped' BY <3>1 DEF FrameInv, ChainsTyped
    <3>5. ChainsLinked' /\ FramesSay' BY <3>1 DEF FrameInv, ChainsLinked, FramesSay
    <3>6. OneBusy' BY <3>1, <3>2 DEF FrameInv, OneBusy
    <3> QED BY <3>3, <3>4, <3>5, <3>6 DEF FrameInv
  <2>2. CASE FramesNext
    <3>1. PICK h \in Holder : FrameStep(h) BY <2>2 DEF FramesNext
    <3>2. CASE FrameFromWire(h)
      <4>1. 2 \in 2 .. Depth BY FrameAssumption
      <4> QED BY <3>2, <4>1, NewFrameKeeps DEF FrameFromWire
    <3>3. CASE FrameMadeHere(h)
      <4>1. Depth \in 2 .. Depth BY FrameAssumption
      <4> QED BY <3>3, <4>1, NewFrameKeeps DEF FrameMadeHere
    <3>4. CASE Analyze(h)
      <4> DEFINE i == chain[h][Top(h)]
      <4>1. /\ Free(h) /\ Top(h) \in 1 .. Depth - 1 /\ (ShareUpper(h, i) \/ ReadUpper(h, i))
            /\ UNCHANGED <<task, unrefs, expected, writes>>
        BY <3>4 DEF Analyze
      <4>2. CASE ShareUpper(h, i) BY <4>1, <4>2, ShareUpperKeeps
      <4>3. CASE ReadUpper(h, i) BY <4>1, <4>3, ReadUpperKeeps
      <4> QED BY <4>1, <4>2, <4>3
    <3>5. CASE Finalize(h) BY <3>5, FinalizeKeeps
    <3>6. CASE \E g \in Holder \ {h} : CloneFrame(h, g) BY <3>6, CloneFrameKeeps
    <3>7. CASE WriteBytes(h) \/ WriteLinkHeader(h) \/ WritePacket(h)
      BY <3>7, WriteKeeps DEF WriteBytes, WriteLinkHeader, WritePacket
    <3>8. CASE DetachLayer(h)
      <4> DEFINE k == task[h].at
                 i == chain[h][k]
      <4>1. /\ Turn(h) /\ unrefs[h] = <<>> /\ k > 0 /\ (CopyShared(h, k, i) \/ NotShared(h, k, i))
            /\ UNCHANGED <<expected, writes>>
        BY <3>8 DEF DetachLayer
      <4>2. CASE CopyShared(h, k, i) BY <4>1, <4>2, CopySharedKeeps
      <4>3. CASE NotShared(h, k, i) BY <4>1, <4>3, NotSharedKeeps
      <4> QED BY <4>1, <4>2, <4>3
    <3>9. CASE LetGo(h) BY <3>9, LetGoKeeps
    <3>10. CASE Relink(h) BY <3>10, RelinkKeeps
    <3>11. CASE SetField(h) BY <3>11, SetFieldKeeps
    <3> QED BY <3>1, <3>2, <3>3, <3>4, <3>5, <3>6, <3>7, <3>8, <3>9, <3>10, <3>11 DEF FrameStep
  <2> QED BY <2>1, <2>2
<1> QED BY <1>1, <1>2, PTL DEF FramesSpec

\* Copy on write for any holders in one thread and any depth: a frame says, in its bytes and in
\* the fields of its layers, what its holder got and wrote itself, and an implementation is
\* counted once for each who has it or is about to let it go.
THEOREM FramesStayShared == ASSUME OneThread PROVE FramesSpec => []FramesShared
<1>1. FrameInv => FramesShared BY DEF FrameInv, FramesShared, FramesSay, FramesIsolated
<1> QED BY <1>1, FramesStayRight, PTL
=============================================================================
