------------------------------ MODULE Wire_proofs ------------------------------
(***************************************************************************)
(* Proofs about Wire, for every transaction that fits the buffer, and that *)
(* the transactions of TwoPhaseCommit are of that kind.                    *)
(***************************************************************************)
EXTENDS Wire, TwoPhaseCommit_proofs, SequenceTheorems

-----------------------------------------------------------------------------
(* An int and its bytes. *)

LEMMA Int32Facts ==
  ASSUME NEW v \in Int32
  PROVE  v \in Int /\ v >= -2147483648 /\ v <= 2147483647
  <1>1. INT_MAX = 2147483647
    BY SMT DEF INT_MAX
  <1>2. INT_MAX \in Int
    BY <1>1, SMT
  <1>3. v \in Int /\ v >= -INT_MAX - 1 /\ v <= INT_MAX
    BY <1>2, SMT DEF Int32
  <1> QED
    BY <1>1, <1>3, SMT

LEMMA InInt32 ==
  ASSUME NEW v \in Int, v >= -200000, v <= 200000
  PROVE  v \in Int32
  <1>1. INT_MAX = 2147483647
    BY SMT DEF INT_MAX
  <1>2. INT_MAX \in Int /\ v >= -INT_MAX - 1 /\ v <= INT_MAX
    BY <1>1, SMT
  <1> QED
    BY <1>2, SMT DEF Int32

(* The low byte and the rest of an int. *)
LEMMA LowByte ==
  ASSUME NEW v \in Int
  PROVE  /\ v \div 256 \in Int /\ v % 256 \in Int
         /\ v = 256 * (v \div 256) + (v % 256)
  BY SMT

LEMMA DivDiv ==
  ASSUME NEW v \in Int
  PROVE  /\ v \div 65536 = (v \div 256) \div 256
         /\ v \div 16777216 = (v \div 65536) \div 256
  BY SMT

LEMMA HighByte ==
  ASSUME NEW v \in Int32
  PROVE  v \div 16777216 >= -128 /\ v \div 16777216 <= 127
  BY Int32Facts, SMT

(* Two's complement of a byte. *)
LEMMA Signed ==
  ASSUME NEW q \in Int, q >= -128, q <= 127
  PROVE  (IF q % 256 >= 128 THEN (q % 256) - 256 ELSE q % 256) = q
  BY SMT

LEMMA IntRoundTrip ==
  ASSUME NEW v \in Int32
  PROVE  ntohl(htonl(v)[1], htonl(v)[2], htonl(v)[3], htonl(v)[4]) = v
  <1> DEFINE q1 == v \div 256
             q2 == v \div 65536
             q3 == v \div 16777216
             a  == q3 % 256
             b  == q2 % 256
             c  == q1 % 256
             d  == v % 256
  <1>1. v \in Int
    BY Int32Facts
  <1>2. /\ q1 \in Int /\ q2 \in Int /\ q3 \in Int
        /\ a \in Int /\ b \in Int /\ c \in Int /\ d \in Int
    BY <1>1, SMT
  <1>3. v = 256 * q1 + d /\ q1 = 256 * q2 + c /\ q2 = 256 * q3 + b
    BY <1>1, <1>2, LowByte, DivDiv, SMT
  <1>4. (IF a >= 128 THEN a - 256 ELSE a) = q3
    BY <1>2, HighByte, Signed, SMT
  <1>5. htonl(v) = <<a, b, c, d>>
    BY SMT DEF htonl
  <1> HIDE DEF q1, q2, q3, a, b, c, d
  <1>6. ntohl(a, b, c, d) = q3 * 16777216 + b * 65536 + c * 256 + d
    BY <1>4, SMT DEF ntohl
  <1>7. v = q3 * 16777216 + b * 65536 + c * 256 + d
    BY <1>1, <1>2, <1>3, SMT
  <1> QED
    BY <1>5, <1>6, <1>7, SMT

-----------------------------------------------------------------------------
(* The ints of a transaction. *)

LEMMA TransactionFacts ==
  ASSUME NEW m \in Transaction
  PROVE  /\ m.id \in Int32
         /\ m.reads \in Seq(ReadItem) /\ m.writes \in Seq(WriteItem)
         /\ Len(m.reads) \in Nat /\ Len(m.writes) \in Nat
         /\ Size(m) = 12 + 8 * Len(m.reads) + 12 * Len(m.writes) /\ Size(m) \in Nat
         /\ Len(m.reads) \in Int32 /\ Len(m.writes) \in Int32
  <1>1. /\ m.id \in Int32 /\ m.reads \in Seq(ReadItem) /\ m.writes \in Seq(WriteItem)
        /\ Size(m) <= BufferSize
    BY DEF Transaction
  <1> DEFINE r == Len(m.reads)
             w == Len(m.writes)
  <1>2. r \in Nat /\ w \in Nat
    BY <1>1, LenProperties
  <1>3. Size(m) = 12 + 8 * r + 12 * w
    BY DEF Size
  <1> HIDE DEF r, w
  <1>6. Size(m) \in Nat
    BY <1>2, <1>3
  <1>4. r >= -200000 /\ r <= 200000 /\ w >= -200000 /\ w <= 200000
    <2>1. BufferSize = 200000
      BY SMT DEF BufferSize
    <2>2. 12 + 8 * r + 12 * w <= 200000
      BY <1>1, <1>3, <2>1, SMT
    <2> QED
      BY <1>2, <2>2, SMT
  <1>5. r \in Int32 /\ w \in Int32
    BY <1>2, <1>4, InInt32, SMT
  <1> QED
    BY <1>1, <1>2, <1>3, <1>5, <1>6 DEF r, w

(* The three lengths. *)
LEMMA LengthInts ==
  ASSUME NEW m \in Transaction
  PROVE  IntOf(m, 0) = m.id /\ IntOf(m, 1) = Len(m.reads) /\ IntOf(m, 2) = Len(m.writes)
  BY DEF IntOf

LEMMA ReadInts ==
  ASSUME NEW m \in Transaction, NEW i \in 1 .. Len(m.reads)
  PROVE  /\ IntOf(m, 2 * i + 1) = m.reads[i].cust /\ IntOf(m, 2 * i + 2) = m.reads[i].last
         /\ m.reads[i] \in ReadItem
  <1> DEFINE r == Len(m.reads)
             v == 2 * i + 1
             w == 2 * i + 2
  <1>1. m.reads[i] \in ReadItem
    BY TransactionFacts, ElementOfSeq
  <1>2. r \in Nat /\ i \in Nat /\ i >= 1 /\ i <= r
    BY TransactionFacts
  <1> HIDE DEF r
  <1>3. /\ ~(v <= 2) /\ v <= 2 + 2 * r /\ ((v - 3) % 2) + 1 = 1 /\ ((v - 3) \div 2) + 1 = i
        /\ ~(w <= 2) /\ w <= 2 + 2 * r /\ ((w - 3) % 2) + 1 = 2 /\ ((w - 3) \div 2) + 1 = i
    BY <1>2, SMT
  <1> HIDE DEF v, w
  <1>4. IntOf(m, v) = <<m.reads[i].cust, m.reads[i].last>>[1]
    BY <1>3 DEF IntOf, r
  <1>5. IntOf(m, w) = <<m.reads[i].cust, m.reads[i].last>>[2]
    BY <1>3 DEF IntOf, r
  <1> QED
    BY <1>1, <1>4, <1>5 DEF v, w

LEMMA WriteInts ==
  ASSUME NEW m \in Transaction, NEW j \in 1 .. Len(m.writes)
  PROVE  LET w == 2 * Len(m.reads) + 3 * j IN
         /\ IntOf(m, w) = m.writes[j].cust /\ IntOf(m, w + 1) = m.writes[j].num
         /\ IntOf(m, w + 2) = m.writes[j].type
         /\ m.writes[j] \in WriteItem
  <1> DEFINE r == Len(m.reads)
             w == 2 * r + 3 * j
             ints == <<m.writes[j].cust, m.writes[j].num, m.writes[j].type>>
  <1>1. m.writes[j] \in WriteItem
    BY TransactionFacts, ElementOfSeq
  <1>2. r \in Nat /\ j \in Nat /\ j >= 1
    BY TransactionFacts
  <1> HIDE DEF r
  <1>3. w \in Nat /\ w - 3 - 2 * r = 3 * (j - 1) /\ w > 2 + 2 * r
    BY <1>2, SMT
  <1> HIDE DEF w
  <1>4. ASSUME NEW k \in {0, 1, 2}
        PROVE  IntOf(m, w + k) = ints[k + 1]
    <2> DEFINE v == w + k
    <2>1. k \in Nat /\ k <= 2
      OBVIOUS
    <2>2. v - 3 - 2 * r = 3 * (j - 1) + k /\ v > 2 + 2 * r /\ v \in Nat
      BY <1>2, <1>3, <2>1, SMT
    <2>3. (3 * (j - 1) + k) % 3 = k /\ (3 * (j - 1) + k) \div 3 = j - 1
      BY <1>2, <2>1, SMT
    <2> HIDE DEF v
    <2>4. /\ ~(v <= 2) /\ ~(v <= 2 + 2 * r)
          /\ ((v - 3 - 2 * r) % 3) + 1 = k + 1 /\ ((v - 3 - 2 * r) \div 3) + 1 = j
      BY <1>2, <2>1, <2>2, <2>3, SMT
    <2>5. IntOf(m, v) = ints[k + 1]
      BY <2>4 DEF IntOf, r
    <2> QED
      BY <2>5 DEF v
  <1>6. w + 0 = w
    BY <1>3
  <1> QED
    BY <1>1, <1>4, <1>6 DEF w, r

-----------------------------------------------------------------------------
(* What the receiver finds in its buffer. *)

(* The ints of a transaction lie one after the other, w from 0. *)
LEMMA BytesOfInt ==
  ASSUME NEW m \in Transaction, NEW n \in Nat, NEW w \in Nat, 4 * w + 4 <= Size(m)
  PROVE  LET buffer == Recv(Marshal(m), n) IN
         \A i \in 1 .. 4 :
             buffer[4 * w + i] = IF 4 * w + i <= n THEN htonl(IntOf(m, w))[i] ELSE 0
  <1> DEFINE s == Size(m)
  <1>1. s \in Nat
    BY TransactionFacts
  <1> SUFFICES ASSUME NEW i \in 1 .. 4
               PROVE  Recv(Marshal(m), n)[4 * w + i]
                        = IF 4 * w + i <= n THEN htonl(IntOf(m, w))[i] ELSE 0
    OBVIOUS
  <1> DEFINE k == 4 * w + i
  <1> HIDE DEF s
  <1>2. k \in 1 .. s /\ (k - 1) \div 4 = w /\ ((k - 1) % 4) + 1 = i
    BY <1>1, SMT DEF s
  <1> HIDE DEF k
  <1>3. Marshal(m)[k] = htonl(IntOf(m, w))[i] /\ Len(Marshal(m)) = s
    BY <1>1, <1>2 DEF Marshal, s
  <1>4. Recv(Marshal(m), n)[k] = IF k <= n THEN Marshal(m)[k] ELSE 0
    BY <1>2, <1>3 DEF Recv
  <1> QED
    BY <1>3, <1>4 DEF k

(* An int that arrived is the sender's; one of which nothing arrived is 0. *)
LEMMA IntReceived ==
  ASSUME NEW m \in Transaction, NEW n \in Nat, NEW w \in Nat, 4 * w + 4 <= Size(m),
         IntOf(m, w) \in Int32
  PROVE  /\ 4 * w + 4 <= n => IntAt(Recv(Marshal(m), n), w) = IntOf(m, w)
         /\ n <= 4 * w => IntAt(Recv(Marshal(m), n), w) = 0
  <1> DEFINE buffer == Recv(Marshal(m), n)
             v == IntOf(m, w)
  <1>1. IntAt(buffer, w)
          = ntohl(buffer[4 * w + 1], buffer[4 * w + 2], buffer[4 * w + 3], buffer[4 * w + 4])
    BY DEF IntAt
  <1>2. \A i \in 1 .. 4 : buffer[4 * w + i] = IF 4 * w + i <= n THEN htonl(v)[i] ELSE 0
    BY BytesOfInt
  <1> HIDE DEF buffer, v
  <1>3. CASE 4 * w + 4 <= n
    <2>1. 4 * w + 1 <= n /\ 4 * w + 2 <= n /\ 4 * w + 3 <= n
      BY <1>3
    <2>2. /\ buffer[4 * w + 1] = htonl(v)[1] /\ buffer[4 * w + 2] = htonl(v)[2]
          /\ buffer[4 * w + 3] = htonl(v)[3] /\ buffer[4 * w + 4] = htonl(v)[4]
      BY <1>2, <1>3, <2>1
    <2>3. IntAt(buffer, w) = v
      BY <1>1, <2>2, IntRoundTrip, SMT DEF v
    <2> QED
      BY <1>3, <2>3 DEF buffer, v
  <1>4. CASE n <= 4 * w
    <2>1. ~(4 * w + 1 <= n) /\ ~(4 * w + 2 <= n) /\ ~(4 * w + 3 <= n) /\ ~(4 * w + 4 <= n)
      BY <1>4
    <2>2. /\ buffer[4 * w + 1] = 0 /\ buffer[4 * w + 2] = 0
          /\ buffer[4 * w + 3] = 0 /\ buffer[4 * w + 4] = 0
      BY <1>2, <2>1
    <2>3. IntAt(buffer, w) = 0
      BY <1>1, <2>2, SMT DEF ntohl
    <2> QED
      BY <1>4, <2>1, <2>3 DEF buffer
  <1> QED
    BY <1>3, <1>4 DEF buffer, v

-----------------------------------------------------------------------------
(* What the receiver decodes. *)

LEMMA Decoded ==
  ASSUME NEW m \in Transaction, NEW n \in Nat, n >= 12
  PROVE  LET buffer == Recv(Marshal(m), n) IN
         Unmarshal(buffer) =
           [id     |-> m.id,
            reads  |-> [i \in 1 .. Len(m.reads) |->
                          [cust |-> IntAt(buffer, 2 * i + 1),
                           last |-> IntAt(buffer, 2 * i + 2)]],
            writes |-> [j \in 1 .. Len(m.writes) |->
                          LET w == 2 * Len(m.reads) + 3 * j IN
                          [cust |-> IntAt(buffer, w), num |-> IntAt(buffer, w + 1),
                           type |-> IntAt(buffer, w + 2)]]]
  <1> DEFINE buffer == Recv(Marshal(m), n)
  <1>1. 12 <= Size(m)
    <2> DEFINE r == Len(m.reads)
               w == Len(m.writes)
    <2>1. r \in Nat /\ w \in Nat /\ Size(m) = 12 + 8 * r + 12 * w
      BY TransactionFacts
    <2> HIDE DEF r, w
    <2> QED
      BY <2>1
  <1>2. ASSUME NEW w \in {0, 1, 2}
        PROVE  w \in Nat /\ 4 * w + 4 <= Size(m) /\ 4 * w + 4 <= n /\ IntOf(m, w) \in Int32
    <2>1. w \in Nat /\ 4 * w + 4 <= 12
      OBVIOUS
    <2>2. IntOf(m, w) \in Int32
      BY TransactionFacts, LengthInts
    <2>3. Size(m) \in Nat
      BY TransactionFacts
    <2> QED
      BY <1>1, <2>1, <2>2, <2>3
  <1>3. \A w \in {0, 1, 2} : IntAt(buffer, w) = IntOf(m, w)
    BY <1>2, IntReceived
  <1>4. IntAt(buffer, 0) = m.id /\ IntAt(buffer, 1) = Len(m.reads)
        /\ IntAt(buffer, 2) = Len(m.writes)
    BY <1>3, LengthInts
  <1> HIDE DEF buffer
  <1> QED
    BY <1>4 DEF Unmarshal, buffer

LEMMA ReadReceived ==
  ASSUME NEW m \in Transaction, NEW n \in Nat, NEW i \in 1 .. Len(m.reads)
  PROVE  LET buffer == Recv(Marshal(m), n)
             got == [cust |-> IntAt(buffer, 2 * i + 1), last |-> IntAt(buffer, 2 * i + 2)] IN
         /\ n >= 12 + 8 * i => got = m.reads[i]
         /\ n <= 4 + 8 * i => got = [cust |-> 0, last |-> 0]
  <1> DEFINE buffer == Recv(Marshal(m), n)
             v == 2 * i + 1
             w == 2 * i + 2
  <1>1. m.reads[i] \in [cust : Int32, last : Int32]
    BY ReadInts DEF ReadItem
  <1>2. /\ v \in Nat /\ 4 * v + 4 <= Size(m) /\ 4 * v = 4 + 8 * i /\ 4 * v + 4 <= 12 + 8 * i
        /\ w \in Nat /\ 4 * w + 4 <= Size(m) /\ 4 * w >= 4 + 8 * i /\ 4 * w + 4 = 12 + 8 * i
    <2> DEFINE r == Len(m.reads)
               s == Len(m.writes)
    <2>1. r \in Nat /\ s \in Nat /\ Size(m) = 12 + 8 * r + 12 * s
      BY TransactionFacts
    <2>2. i \in 1 .. r
      OBVIOUS
    <2> HIDE DEF r, s
    <2> QED
      BY <2>1, <2>2
  <1>3. IntOf(m, v) = m.reads[i].cust /\ IntOf(m, w) = m.reads[i].last
    BY ReadInts
  <1>4. IntOf(m, v) \in Int32 /\ IntOf(m, w) \in Int32 /\ i \in Nat
    BY <1>1, <1>3, TransactionFacts
  <1> HIDE DEF v, w
  <1>5. /\ 4 * v + 4 <= n => IntAt(buffer, v) = IntOf(m, v)
        /\ n <= 4 * v => IntAt(buffer, v) = 0
        /\ 4 * w + 4 <= n => IntAt(buffer, w) = IntOf(m, w)
        /\ n <= 4 * w => IntAt(buffer, w) = 0
    BY <1>2, <1>4, IntReceived
  <1> HIDE DEF buffer
  <1>6. n >= 12 + 8 * i => IntAt(buffer, v) = IntOf(m, v) /\ IntAt(buffer, w) = IntOf(m, w)
    BY <1>2, <1>4, <1>5
  <1>7. n <= 4 + 8 * i => IntAt(buffer, v) = 0 /\ IntAt(buffer, w) = 0
    BY <1>2, <1>4, <1>5
  <1> QED
    BY <1>1, <1>3, <1>6, <1>7 DEF v, w, buffer

LEMMA WriteReceived ==
  ASSUME NEW m \in Transaction, NEW n \in Nat, NEW j \in 1 .. Len(m.writes)
  PROVE  LET buffer == Recv(Marshal(m), n)
             w      == 2 * Len(m.reads) + 3 * j
             before == 12 + 8 * Len(m.reads)
             got    == [cust |-> IntAt(buffer, w), num |-> IntAt(buffer, w + 1),
                        type |-> IntAt(buffer, w + 2)] IN
         /\ n >= before + 12 * j => got = m.writes[j]
         /\ n <= before + 12 * (j - 1) => got = [cust |-> 0, num |-> 0, type |-> 0]
  <1> DEFINE buffer == Recv(Marshal(m), n)
             r == Len(m.reads)
             u == 2 * r + 3 * j
             v == u + 1
             w == u + 2
             before == 12 + 8 * r
  <1>1. m.writes[j] \in [cust : Int32, num : Int32, type : Int32]
    BY WriteInts DEF WriteItem
  <1>2. r \in Nat /\ j \in Nat
    BY TransactionFacts
  <1>3. /\ u \in Nat /\ 4 * u = before + 12 * (j - 1)
        /\ v = u + 1 /\ w = u + 2 /\ 4 * w + 4 = before + 12 * j
        /\ 4 * w + 4 <= Size(m) /\ before \in Nat
    <2> DEFINE s == Len(m.writes)
    <2>1. r \in Nat /\ s \in Nat /\ Size(m) = 12 + 8 * r + 12 * s
      BY TransactionFacts
    <2>2. j \in 1 .. s
      OBVIOUS
    <2> HIDE DEF r, s
    <2> QED
      BY <2>1, <2>2
  <1>4. /\ IntOf(m, u) = m.writes[j].cust /\ IntOf(m, v) = m.writes[j].num
        /\ IntOf(m, w) = m.writes[j].type
    BY WriteInts
  <1>5. Size(m) \in Nat /\ \A k \in {u, v, w} : IntOf(m, k) \in Int32
    BY <1>1, <1>4, TransactionFacts
  <1> HIDE DEF u, v, w, before
  <1>6. \A k \in {u, v, w} : k \in Nat /\ u <= k /\ k <= w /\ 4 * k + 4 <= Size(m)
    BY <1>3, <1>5
  <1>7. \A k \in {u, v, w} : /\ 4 * k + 4 <= n => IntAt(buffer, k) = IntOf(m, k)
                             /\ n <= 4 * k => IntAt(buffer, k) = 0
    BY <1>5, <1>6, IntReceived
  <1> HIDE DEF buffer
  <1>8. ASSUME n >= before + 12 * j, NEW k \in {u, v, w}
        PROVE  IntAt(buffer, k) = IntOf(m, k)
    <2>1. 4 * k + 4 <= n
      BY <1>2, <1>3, <1>6, <1>8
    <2> QED
      BY <1>7, <2>1
  <1>9. ASSUME n <= before + 12 * (j - 1), NEW k \in {u, v, w}
        PROVE  IntAt(buffer, k) = 0
    <2>1. n <= 4 * k
      BY <1>2, <1>3, <1>6, <1>9
    <2> QED
      BY <1>7, <2>1
  <1> QED
    BY <1>1, <1>4, <1>8, <1>9 DEF u, v, w, before, r, buffer

(* Whatever the sizes, and wherever the piece ends after the lengths.      *)
THEOREM PieceOfTransaction ==
  ASSUME NEW m \in Transaction, NEW n \in 12 .. Size(m)
  PROVE  PieceDecodes(m, n)
  <1> DEFINE buffer == Recv(Marshal(m), n)
             got == Unmarshal(buffer)
             rds == [i \in 1 .. Len(m.reads) |->
                          [cust |-> IntAt(buffer, 2 * i + 1), last |-> IntAt(buffer, 2 * i + 2)]]
             wrs == [j \in 1 .. Len(m.writes) |->
                          LET w == 2 * Len(m.reads) + 3 * j IN
                          [cust |-> IntAt(buffer, w), num |-> IntAt(buffer, w + 1),
                           type |-> IntAt(buffer, w + 2)]]
  <1>1. n \in Nat /\ n >= 12
    BY TransactionFacts
  <1>2. got = [id |-> m.id, reads |-> rds, writes |-> wrs]
    BY <1>1, Decoded
  <1>3. Len(m.reads) \in Nat /\ Len(m.writes) \in Nat
    BY TransactionFacts
  <1>4. /\ got.id = m.id
        /\ Len(got.reads) = Len(m.reads) /\ Len(got.writes) = Len(m.writes)
    <2>1. Len(rds) = Len(m.reads) /\ Len(wrs) = Len(m.writes)
      BY <1>3
    <2> HIDE DEF rds, wrs, got
    <2> QED
      BY <1>2, <2>1
  <1>5. ASSUME NEW i \in 1 .. Len(m.reads)
        PROVE  /\ n >= 12 + 8 * i => got.reads[i] = m.reads[i]
               /\ n <= 4 + 8 * i => got.reads[i] = [cust |-> 0, last |-> 0]
    <2>1. got.reads[i] = [cust |-> IntAt(buffer, 2 * i + 1), last |-> IntAt(buffer, 2 * i + 2)]
      <3> HIDE DEF got, buffer
      <3> QED
        BY <1>2
    <2> QED
      BY <1>1, <2>1, ReadReceived
  <1>6. ASSUME NEW j \in 1 .. Len(m.writes)
        PROVE  LET before == 12 + 8 * Len(m.reads) IN
               /\ n >= before + 12 * j => got.writes[j] = m.writes[j]
               /\ n <= before + 12 * (j - 1) =>
                      got.writes[j] = [cust |-> 0, num |-> 0, type |-> 0]
    <2> DEFINE w == 2 * Len(m.reads) + 3 * j
    <2>1. got.writes[j] = [cust |-> IntAt(buffer, w), num |-> IntAt(buffer, w + 1),
                           type |-> IntAt(buffer, w + 2)]
      <3> HIDE DEF got, buffer
      <3> QED
        BY <1>2
    <2> QED
      BY <1>1, <2>1, WriteReceived
  <1> QED
    BY <1>4, <1>5, <1>6 DEF PieceDecodes

(* A transaction that arrives in one piece is decoded as it was sent.      *)
THEOREM WholeTransaction ==
  ASSUME NEW m \in Transaction
  PROVE  Unmarshal(Recv(Marshal(m), Size(m))) = m
  <1> DEFINE r == Len(m.reads)
             w == Len(m.writes)
             n == Size(m)
  <1>1. /\ m.id \in Int32 /\ m.reads \in Seq(ReadItem) /\ m.writes \in Seq(WriteItem)
        /\ r \in Nat /\ w \in Nat /\ n = 12 + 8 * r + 12 * w
    BY TransactionFacts
  <1>2. n \in Nat /\ n >= 12
    <2> HIDE DEF r, w, n
    <2> QED
      BY <1>1
  <1>3. \A i \in 1 .. r : n >= 12 + 8 * i
    <2> HIDE DEF r, w, n
    <2> QED
      BY <1>1
  <1>4. \A j \in 1 .. w : n >= 12 + 8 * r + 12 * j
    <2> HIDE DEF r, w, n
    <2> QED
      BY <1>1
  <1> DEFINE buffer == Recv(Marshal(m), n)
             read(i) == [cust |-> IntAt(buffer, 2 * i + 1), last |-> IntAt(buffer, 2 * i + 2)]
             written(j) == LET k == 2 * r + 3 * j IN
                           [cust |-> IntAt(buffer, k), num |-> IntAt(buffer, k + 1),
                            type |-> IntAt(buffer, k + 2)]
             gotReads == [i \in 1 .. r |-> read(i)]
             gotWrites == [j \in 1 .. w |-> written(j)]
  <1>5. m.reads = gotReads
    <2>1. m.reads = [i \in 1 .. r |-> m.reads[i]]
      BY <1>1
    <2>2. \A i \in 1 .. r : m.reads[i] = read(i)
      BY <1>2, <1>3, ReadReceived
    <2> HIDE DEF read, r
    <2> QED
      BY <2>1, <2>2
  <1>6. m.writes = gotWrites
    <2>1. m.writes = [j \in 1 .. w |-> m.writes[j]]
      BY <1>1
    <2>2. \A j \in 1 .. w : m.writes[j] = written(j)
      BY <1>2, <1>4, WriteReceived
    <2> HIDE DEF written, w
    <2> QED
      BY <2>1, <2>2
  <1>7. Unmarshal(buffer) = [id |-> m.id, reads |-> gotReads, writes |-> gotWrites]
    BY <1>2, Decoded
  <1>8. m = [id |-> m.id, reads |-> m.reads, writes |-> m.writes]
    BY DEF Transaction
  <1> HIDE DEF gotReads, gotWrites
  <1> QED
    BY <1>5, <1>6, <1>7, <1>8

-----------------------------------------------------------------------------
(* What TwoPhaseCommit sends. *)

(* A client that has submitted its transaction never changes it again; only *)
(* such a client is known to the TM or has a session at an RM.  Its orders  *)
(* are those that Submit built.                                             *)
Submitted(t) == cpc[t] \in {"wait", "done"}
BuiltFrom(t) == IF Experiment(t)
                THEN {WriteSetOf(reads[t], Chosen[t], WriteShape[t][2])}
                ELSE WriteSets(reads[t], WriteShape[t][1], WriteShape[t][2])

ReadsBounded   == \A t \in Txn : Len(reads[t]) <= ReadCount
BuiltOnce      == \A t \in Txn : Submitted(t) => writes[t] \in BuiltFrom(t)
SessionsKnown  == \A t \in Txn, r \in RM : conn[t][r] # "none" => Submitted(t)
BacklogKnown   == \A i \in DOMAIN backlog : Submitted(backlog[i])
ServedKnown    == tmTxn \in Txn => Submitted(tmTxn)

SentInv == ReadsBounded /\ BuiltOnce /\ SessionsKnown /\ BacklogKnown /\ ServedKnown

LEMMA InitSent == Init => SentInv
  <1> SUFFICES ASSUME Init PROVE SentInv
    OBVIOUS
  <1>1. ReadsBounded /\ BuiltOnce /\ SessionsKnown /\ BacklogKnown
    BY ConfigAssumption DEF Init, ReadsBounded, BuiltOnce, SessionsKnown, BacklogKnown, Submitted
  <1>2. ServedKnown
    BY ConfigAssumption DEF Init, ServedKnown
  <1> QED
    BY <1>1, <1>2 DEF SentInv

(* Steps that touch no client's transaction. *)
LEMMA KeepsSent ==
    ASSUME TypeInv, SentInv, UNCHANGED <<reads, writes>>,
           \A t \in Txn : Submitted(t) <=> Submitted(t)',
           \A t \in Txn, r \in RM : conn'[t][r] # "none" => Submitted(t),
           \A i \in DOMAIN backlog' : Submitted(backlog'[i]) /\ backlog'[i] \in Txn,
           tmTxn' \in Txn => Submitted(tmTxn')
    PROVE  SentInv'
  <1>1. ReadsBounded' /\ BuiltOnce'
    BY DEF SentInv, ReadsBounded, BuiltOnce, BuiltFrom
  <1>2. SessionsKnown'
    BY DEF SessionsKnown
  <1>3. BacklogKnown'
    BY DEF BacklogKnown, Submitted
  <1>4. ServedKnown'
    BY DEF ServedKnown, Submitted
  <1> QED
    BY <1>1, <1>2, <1>3, <1>4 DEF SentInv

LEMMA ClientSent ==
    ASSUME TypeInv, SentInv, NEW t \in Txn, ClientStep(t)
    PROVE  SentInv'
  <1>0. /\ reads \in [Txn -> Seq(CustomerRecord)] /\ writes \in [Txn -> Seq(CustomerOrder)]
        /\ cpc \in [Txn -> {"read", "lost", "write", "wait", "done"}] /\ backlog \in Seq(Txn)
        /\ cpc[t] \in {"read", "lost"} => Len(reads[t]) < ReadCount
        /\ ReadCount \in Nat
    <2>1. ReadCount \in Nat
      BY ConfigAssumption, DataAssumption
    <2> QED
      BY <2>1 DEF TypeInv, TypeOK, Bookkeeping, ReadsLeft
  <1>1. /\ ~Submitted(t) /\ UNCHANGED <<conn, tmTxn>>
        /\ \A u \in Txn : u # t => /\ cpc'[u] = cpc[u] /\ reads'[u] = reads[u]
                                   /\ writes'[u] = writes[u]
    BY <1>0 DEF ClientStep, ReadRecord, ReadRefused, ReadLost, Submit, GotRecord, Submitted, tmVars
  <1>2. \A u \in Txn : Submitted(u) => Submitted(u)'
    BY <1>1 DEF Submitted
  <1>3. SessionsKnown' /\ ServedKnown'
    BY <1>1, <1>2 DEF SentInv, SessionsKnown, ServedKnown, Submitted
  <1>4. \A u \in Txn \ {t} : /\ Submitted(u)' => Submitted(u)
                            /\ BuiltFrom(u)' = BuiltFrom(u)
    BY <1>1 DEF Submitted, BuiltFrom
  <1>5. CASE Submit(t)
    <2>1. reads' = reads /\ \E ws \in BuiltFrom(t) : writes' = [writes EXCEPT ![t] = ws]
      BY <1>5 DEF Submit, BuiltFrom
    <2>2. writes'[t] \in BuiltFrom(t)'
      BY <1>0, <2>1 DEF BuiltFrom
    <2>3. ReadsBounded' /\ BuiltOnce'
      BY <1>1, <1>4, <2>1, <2>2 DEF SentInv, ReadsBounded, BuiltOnce
    <2>4. CASE backlog' = backlog
      BY <1>0, <1>2, <1>3, <2>3, <2>4 DEF SentInv, BacklogKnown, Submitted
    <2>5. CASE backlog' = Append(backlog, t) /\ cpc' = [cpc EXCEPT ![t] = "wait"]
      <3>1. \A i \in DOMAIN backlog' : backlog'[i] = t \/ (i \in DOMAIN backlog /\ backlog'[i] = backlog[i])
        BY <1>0, <2>5
      <3>2. Submitted(t)'
        BY <1>0, <2>5 DEF Submitted
      <3>3. \A i \in DOMAIN backlog : backlog[i] \in Txn /\ Submitted(backlog[i])
        BY <1>0 DEF SentInv, BacklogKnown
      <3>4. BacklogKnown'
        BY <1>2, <3>1, <3>2, <3>3 DEF BacklogKnown, Submitted
      <3> QED
        BY <1>3, <2>3, <3>4 DEF SentInv
    <2> QED
      BY <1>5, <2>4, <2>5 DEF Submit
  <1>6. CASE ReadRecord(t) \/ ReadRefused(t) \/ ReadLost(t)
    <2>1. backlog' = backlog /\ ~Submitted(t)'
      BY <1>0, <1>6 DEF ReadRecord, ReadRefused, ReadLost, GotRecord, Submitted
    <2>2. Len(reads'[t]) <= ReadCount
      <3>1. CASE ReadRefused(t)
        BY <1>0, <3>1 DEF SentInv, ReadsBounded, ReadRefused
      <3>2. CASE ReadRecord(t) \/ ReadLost(t)
        <4>1. cpc[t] \in {"read", "lost"} /\ \E rec : reads'[t] = Append(reads[t], rec)
          BY <1>0, <3>2 DEF ReadRecord, ReadLost, GotRecord
        <4>2. PICK rec : reads'[t] = Append(reads[t], rec)
          BY <4>1
        <4>3. Len(reads'[t]) = Len(reads[t]) + 1 /\ Len(reads[t]) \in Nat
          BY <1>0, <4>2
        <4> QED
          BY <1>0, <4>1, <4>3
      <3> QED
        BY <1>6, <3>1, <3>2
    <2>3. ReadsBounded' /\ BuiltOnce'
      <3>1. ReadsBounded'
        BY <1>1, <2>2 DEF SentInv, ReadsBounded
      <3>2. BuiltOnce'
        BY <1>1, <1>4, <2>1 DEF SentInv, BuiltOnce
      <3> QED
        BY <3>1, <3>2
    <2>4. BacklogKnown'
      BY <1>0, <1>2, <2>1 DEF SentInv, BacklogKnown, Submitted
    <2> QED
      BY <1>3, <2>3, <2>4 DEF SentInv
  <1> QED
    BY <1>5, <1>6 DEF ClientStep

LEMMA TMSent ==
    ASSUME TypeInv, SentInv, TMStep
    PROVE  SentInv'
  <1>0. /\ cpc \in [Txn -> {"read", "lost", "write", "wait", "done"}] /\ backlog \in Seq(Txn)
        /\ conn \in [Txn -> [RM -> ConnState]]
        /\ tmPc # "accept" => tmTxn \in Txn /\ Submitted(tmTxn)
        /\ NoTxn \notin Txn
    BY ConfigAssumption DEF TypeInv, TypeOK, Bookkeeping, TMBusy, SentInv, ServedKnown
  <1>1. \A i \in DOMAIN backlog : backlog[i] \in Txn /\ Submitted(backlog[i])
    BY <1>0 DEF SentInv, BacklogKnown
  <1>2. \A t \in Txn, r \in RM : conn[t][r] # "none" => Submitted(t)
    BY DEF SentInv, SessionsKnown
  <1>3. reads' = reads /\ writes' = writes
    BY DEF TMStep, Accept, Connect, ConnectFailed, SendPrepare, RecvVote, SendDecision, RecvDone,
           Reply, cliVars
  <1>4. CASE Accept
    <2>1. /\ cpc' = cpc /\ conn' = conn /\ backlog # <<>> /\ tmTxn' = Head(backlog)
          /\ backlog' = Tail(backlog)
      BY <1>4 DEF Accept
    <2>2. /\ Head(backlog) = backlog[1] /\ 1 \in DOMAIN backlog
          /\ \A i \in DOMAIN Tail(backlog) : Tail(backlog)[i] = backlog[i + 1] /\ i + 1 \in DOMAIN backlog
      BY <1>0, <2>1
    <2> QED
      BY <1>1, <1>2, <1>3, <2>1, <2>2, KeepsSent DEF Submitted
  <1>5. CASE ConnectFailed \/ Reply
    <2>1. /\ tmPc # "accept" /\ tmTxn' = NoTxn /\ backlog' = backlog
          /\ cpc' = [cpc EXCEPT ![tmTxn] = "done"]
          /\ conn' = [conn EXCEPT ![tmTxn] = [r \in RM |-> "none"]]
      BY <1>5 DEF ConnectFailed, Reply, Finish
    <2>2. \A t \in Txn : Submitted(t) <=> Submitted(t)'
      BY <1>0, <2>1 DEF Submitted
    <2>3. \A t \in Txn, r \in RM : conn'[t][r] # "none" => Submitted(t)
      BY <1>0, <1>2, <2>1
    <2> QED
      BY <1>0, <1>1, <1>3, <2>1, <2>2, <2>3, KeepsSent
  <1>6. CASE Connect \/ SendPrepare \/ RecvVote \/ SendDecision \/ RecvDone
    <2>1. /\ tmPc # "accept" /\ tmTxn' = tmTxn /\ backlog' = backlog /\ cpc' = cpc
          /\ \E s : SetSession(s)
      BY <1>6 DEF Connect, SendPrepare, RecvVote, SendDecision, RecvDone, cliVars
    <2>2. \A t \in Txn, r \in RM : conn'[t][r] # "none" => Submitted(t)
      BY <1>0, <1>2, <2>1 DEF SetSession
    <2> QED
      BY <1>0, <1>1, <1>3, <2>1, <2>2, KeepsSent DEF Submitted
  <1> QED
    BY <1>4, <1>5, <1>6 DEF TMStep

LEMMA RMSent ==
    ASSUME TypeInv, SentInv, NEW t \in Txn, NEW r \in RM, RMStep(t, r)
    PROVE  SentInv'
  <1>0. conn \in [Txn -> [RM -> ConnState]] /\ backlog \in Seq(Txn)
    BY DEF TypeInv, TypeOK
  <1>1. UNCHANGED <<tmTxn, backlog, cpc, reads, writes>>
    BY DEF RMStep, TMPrepare, LogPrepare, TMCommit, CreateRegularLaptop, LogCommit, TruncateCust,
           StoreCust, TMAbort, TornRequest, tmVars, cliVars
  <1>2. conn[t][r] # "none"
    BY DEF RMStep, TMPrepare, LogPrepare, TMCommit, CreateRegularLaptop, LogCommit, TruncateCust,
           StoreCust, TMAbort, TornRequest, AtHandler
  <1>3. \A u \in Txn, q \in RM : conn'[u][q] # "none" => Submitted(u)
    BY <1>2, OtherSessions DEF SentInv, SessionsKnown
  <1>4. \A i \in DOMAIN backlog : backlog[i] \in Txn /\ Submitted(backlog[i])
    BY <1>0 DEF SentInv, BacklogKnown
  <1> QED
    BY <1>1, <1>3, <1>4, KeepsSent DEF Submitted, SentInv, ServedKnown

LEMMA FaultSent ==
    ASSUME TypeInv, SentInv, Fault
    PROVE  SentInv'
  <1>0. /\ cpc \in [Txn -> {"read", "lost", "write", "wait", "done"}] /\ backlog \in Seq(Txn)
        /\ conn \in [Txn -> [RM -> ConnState]] /\ NoTxn \notin Txn
        /\ tmTxn \in Txn => Submitted(tmTxn)
    BY ConfigAssumption DEF TypeInv, TypeOK, SentInv, ServedKnown
  <1>1. \A i \in DOMAIN backlog : backlog[i] \in Txn /\ Submitted(backlog[i])
    BY <1>0 DEF SentInv, BacklogKnown
  <1>2. \A t \in Txn, r \in RM : conn[t][r] # "none" => Submitted(t)
    BY DEF SentInv, SessionsKnown
  <1>3. reads' = reads /\ writes' = writes
    BY DEF Fault, TMCrash, TMSigPipe, TMDies, TMRestart, RMCrash, RMDies, RMRestart,
           FreedMemory, cliVars
  <1>4. CASE TMCrash \/ TMSigPipe
    <2>1. /\ backlog' = <<>> /\ tmTxn' = NoTxn
          /\ cpc' = [t \in Txn |-> IF cpc[t] = "wait" THEN "done" ELSE cpc[t]]
          /\ conn' = [t \in Txn |-> [r \in RM |->
                        IF conn[t][r] \in Handling THEN conn[t][r] ELSE "none"]]
      BY <1>4 DEF TMCrash, TMSigPipe, TMDies, DisconnectClients
    <2>2. \A t \in Txn : Submitted(t) <=> Submitted(t)'
      BY <1>0, <2>1 DEF Submitted
    <2>3. \A t \in Txn, r \in RM : conn'[t][r] # "none" => Submitted(t)
      BY <1>2, <2>1
    <2> QED
      BY <1>0, <1>3, <2>1, <2>2, <2>3, KeepsSent
  <1>5. CASE TMRestart \/ \E r \in RM : RMRestart(r)
    <2>1. UNCHANGED <<conn, tmTxn, backlog, cpc>>
      BY <1>5 DEF TMRestart, RMRestart, tmVars, cliVars
    <2> QED
      BY <1>0, <1>1, <1>2, <1>3, <2>1, KeepsSent DEF Submitted
  <1>6. ASSUME NEW r \in RM, RMDies(r)
        PROVE  SentInv'
    <2>1. /\ UNCHANGED <<tmTxn, backlog>>
          /\ conn' = [t \in Txn |-> [conn[t] EXCEPT ![r] =
                        IF tmTxn = t /\ @ # "none" THEN "broken" ELSE "none"]]
          /\ cpc' = [t \in Txn |->
                       IF cpc[t] = "read" /\ ReadFrom[t] = r /\ reads[t] # <<>> THEN "lost"
                       ELSE cpc[t]]
      BY <1>6 DEF RMDies, tmVars
    <2>2. \A t \in Txn : Submitted(t) <=> Submitted(t)'
      BY <1>0, <2>1 DEF Submitted
    <2>3. \A t \in Txn, q \in RM : conn'[t][q] # "none" => Submitted(t)
      BY <1>0, <1>2, <2>1
    <2> QED
      BY <1>0, <1>1, <1>3, <2>1, <2>2, <2>3, KeepsSent
  <1>7. ASSUME UNCHANGED <<conn, tmTxn, backlog, cpc>>
        PROVE  SentInv'
    BY <1>0, <1>1, <1>2, <1>3, <1>7, KeepsSent DEF Submitted
  <1>8. ASSUME NEW t \in Txn, NEW r \in RM, FreedMemory(t, r)
        PROVE  SentInv'
    BY <1>6, <1>7, <1>8 DEF FreedMemory, tmVars, cliVars
  <1> QED
    BY <1>4, <1>5, <1>6, <1>8 DEF Fault, RMCrash

LEMMA NextSent == TypeInv /\ SentInv /\ [Next]_vars => SentInv'
  <1> SUFFICES ASSUME TypeInv, SentInv, [Next]_vars
               PROVE  SentInv'
    OBVIOUS
  <1>1. CASE UNCHANGED vars
    BY <1>1 DEF vars, tmVars, cliVars, SentInv, ReadsBounded, BuiltOnce, BuiltFrom, SessionsKnown,
                BacklogKnown, ServedKnown, Submitted
  <1> QED
    BY <1>1, ClientSent, TMSent, RMSent, FaultSent DEF Next, Terminating

(* The instance of Wire in TwoPhaseCommit is the module of this file. *)
LEMMA SameWire ==
    ASSUME NEW m, NEW n, NEW b
    PROVE  /\ W!Marshal(m) = Marshal(m) /\ W!Size(m) = Size(m)
           /\ W!Recv(b, n) = Recv(b, n) /\ W!Unmarshal(b) = Unmarshal(b)
  <1>1. W!Marshal(m) = Marshal(m) /\ W!Size(m) = Size(m)
    BY DEF W!Marshal, Marshal, W!Size, Size, W!IntOf, IntOf, W!htonl, htonl
  <1>2. W!Recv(b, n) = Recv(b, n) /\ W!Unmarshal(b) = Unmarshal(b)
    BY DEF W!Unmarshal, Unmarshal, W!Recv, Recv, W!IntAt, IntAt, W!ntohl, ntohl
  <1> QED
    BY <1>1, <1>2

LEMMA SamePieces ==
    ASSUME NEW m, NEW n
    PROVE  W!PieceDecodes(m, n) <=> PieceDecodes(m, n)
  <1>1. W!Recv(W!Marshal(m), n) = Recv(Marshal(m), n)
    BY SameWire
  <1>2. W!Unmarshal(W!Recv(W!Marshal(m), n)) = Unmarshal(Recv(Marshal(m), n))
    BY <1>1, SameWire
  <1> QED
    BY <1>2 DEF W!PieceDecodes, PieceDecodes

(* How many orders a transaction has, and that their numbers follow what    *)
(* the client read.                                                         *)
LEMMA BuiltOrders ==
    ASSUME NEW t \in Txn, NEW ws \in BuiltFrom(t)
    PROVE  /\ Len(ws) \in 1 .. WriteShape[t][1] * WriteShape[t][2]
           /\ \A j \in 1 .. Len(ws) : \E c \in Customer, n \in 0 .. Len(ws) :
                  ws[j].cust = c /\ ws[j].num = Base(reads[t], c) + n
  <1> DEFINE m == WriteShape[t][1]
             k == WriteShape[t][2]
  <1>1. m \in 1 .. NumCustomers /\ k \in Nat \ {0} /\ NumCustomers \in Nat \ {0}
    BY ConfigAssumption, DataAssumption
  <1>2. m \in Nat /\ m >= 1 /\ k \in Nat /\ k >= 1
    BY <1>1
  <1> HIDE DEF m, k
  <1>3. m * k \in Nat /\ k <= m * k /\ 1 <= m * k
    BY <1>2, SMT
  <1>4. CASE Experiment(t)
    <2>1. ws = WriteSetOf(reads[t], Chosen[t], k) /\ Chosen[t] \in Customer
      BY <1>4, ConfigAssumption DEF BuiltFrom, Experiment, k
    <2>2. Len(ws) = k
      BY <1>2, <2>1 DEF WriteSetOf
    <2>3. ASSUME NEW j \in 1 .. Len(ws)
          PROVE  /\ ws[j].cust = Chosen[t] /\ j \in 0 .. Len(ws)
                 /\ ws[j].num = Base(reads[t], Chosen[t]) + j
      BY <1>2, <2>1, <2>2 DEF WriteSetOf
    <2>4. Len(ws) \in 1 .. m * k
      BY <1>2, <1>3, <2>2
    <2> QED
      BY <2>1, <2>3, <2>4 DEF m, k
  <1>5. CASE ~Experiment(t)
    <2>1. ws \in WriteSets(reads[t], m, k)
      BY <1>5 DEF BuiltFrom, m, k
    <2>2. Len(ws) = m * k
      BY <1>1, <2>1, WriteSetsLength
    <2>3. ASSUME NEW j \in 1 .. Len(ws)
          PROVE  \E c \in Customer, n \in 0 .. Len(ws) :
                     ws[j].cust = c /\ ws[j].num = Base(reads[t], c) + n
      <3> DEFINE c == ws[j].cust
                 n == CountOf(ws, c, j)
      <3>1. c \in 0 .. m - 1 /\ ws[j].num = Base(reads[t], c) + n
        BY <1>1, <2>1, WriteSetsNumbered
      <3>2. j \in Nat /\ j <= Len(ws) /\ Len(ws) \in Nat
        BY <1>3, <2>2
      <3>3. n \in 0 .. j
        BY <3>2, CountOfBound
      <3> HIDE DEF n
      <3>4. n \in 0 .. Len(ws)
        BY <3>2, <3>3
      <3>5. c \in Customer
        BY <1>1, <3>1 DEF Customer
      <3> QED
        BY <3>1, <3>4, <3>5
    <2>4. Len(ws) \in 1 .. m * k
      BY <1>3, <2>2
    <2> QED
      BY <2>3, <2>4 DEF m, k
  <1> QED
    BY <1>4, <1>5

(* Submitted transactions fit the buffer that the receiver allocates, and   *)
(* the numbers of customers and transactions fit an int.                    *)
ShapesFit ==
    /\ \A t \in Txn :
         12 + 8 * ReadCount + 12 * (WriteShape[t][1] * WriteShape[t][2]) <= BufferSize
    /\ NumCustomers <= INT_MAX /\ MaxTxnId <= INT_MAX

(* Above every number that was read there is room for the transaction's    *)
(* orders: the client's addition does not overflow.                        *)
NumbersFit == \A t \in Txn : \A i \in 1 .. Len(reads[t]) :
                  /\ reads[t][i].last \in Int32
                  /\ reads[t][i].last + WriteShape[t][1] * WriteShape[t][2] <= INT_MAX

LEMMA Limits == INT_MAX = 2147483647 /\ INT_MAX \in Int /\ BufferSize = 200000
  BY SMT DEF INT_MAX, BufferSize

LEMMA IsInt32 ==
    ASSUME NEW v \in Int, v >= -1, v <= INT_MAX
    PROVE  v \in Int32
  <1>1. INT_MAX \in Int /\ INT_MAX >= 0
    BY Limits, SMT
  <1>2. v >= -INT_MAX - 1
    BY <1>1, SMT
  <1> QED
    BY <1>1, <1>2, SMT DEF Int32

LEMMA MessageFits ==
    ASSUME TypeInv, SentInv, ShapesFit, NumbersFit, NEW t \in Txn, Submitted(t)
    PROVE  Message(t) \in Transaction
  <1> DEFINE max == WriteShape[t][1] * WriteShape[t][2]
             ws  == writes[t]
             sent == [i \in 1 .. Len(ws) |-> [cust |-> ws[i].cust, num |-> ws[i].num, type |-> 1]]
  <1>1. /\ reads[t] \in Seq(CustomerRecord) /\ ws \in Seq(CustomerOrder) /\ txnId[t] \in TxnId
        /\ Len(reads[t]) <= ReadCount /\ ws \in BuiltFrom(t)
    BY DEF TypeInv, TypeOK, SentInv, ReadsBounded, BuiltOnce
  <1>2. NumCustomers \in Nat /\ ReadCount \in Nat /\ MaxTxnId \in Nat
    <2>1. NumCustomers \in Nat /\ MaxTxnId \in Nat
      BY DataAssumption
    <2> QED
      BY <2>1, ConfigAssumption
  <1>3. max \in Nat
    <2>1. WriteShape[t][1] \in Nat /\ WriteShape[t][2] \in Nat
      BY ConfigAssumption, <1>2
    <2> QED
      BY <2>1, SMT
  <1>4. Len(ws) \in 1 .. max /\ Len(reads[t]) \in Nat
    BY <1>1, BuiltOrders
  <1>5. 12 + 8 * ReadCount + 12 * max <= 200000
    BY Limits DEF ShapesFit
  <1>6. \A i \in 1 .. Len(reads[t]) : reads[t][i].last \in Int32 /\ reads[t][i].last + max <= INT_MAX
    BY DEF NumbersFit
  <1> HIDE DEF max
  <1>7. Key \subseteq Int32 /\ TxnId \subseteq Int32 /\ 1 \in Int32
    <2>1. NumCustomers <= INT_MAX /\ MaxTxnId <= INT_MAX
      BY DEF ShapesFit
    <2>2. \A c \in Key : c \in Int /\ c >= -1 /\ c <= INT_MAX
      BY <1>2, <2>1, Limits DEF Key, Customer
    <2>3. \A id \in TxnId : id \in Int /\ id >= -1 /\ id <= INT_MAX
      BY <1>2, <2>1, Limits DEF TxnId
    <2>4. 1 <= INT_MAX
      BY Limits
    <2> QED
      BY <2>2, <2>3, <2>4, IsInt32
  <1>8. ASSUME NEW c \in Customer, NEW n \in 0 .. max
        PROVE  Base(reads[t], c) + n \in Int32
    <2>1. c \in Nat
      BY <1>2 DEF Customer
    <2>2. CASE c < Len(reads[t]) /\ reads[t][c + 1].last > 0
      <3> DEFINE last == reads[t][c + 1].last
      <3>1. Base(reads[t], c) = last
        BY <2>2 DEF Base
      <3>2. c + 1 \in 1 .. Len(reads[t])
        BY <1>4, <2>1, <2>2
      <3>3. last \in Int /\ last > 0 /\ last + max <= INT_MAX
        <4>1. reads[t][c + 1] \in CustomerRecord
          BY <1>1, <3>2
        <4> QED
          BY <1>6, <2>2, <3>2, <4>1 DEF CustomerRecord
      <3> HIDE DEF last
      <3>4. last + n \in Int32
        <4>1. last + n \in Int /\ last + n >= -1 /\ last + n <= INT_MAX
          BY <1>3, <3>3, Limits
        <4> QED
          BY <4>1, IsInt32
      <3> QED
        BY <3>1, <3>4
    <2>3. CASE ~(c < Len(reads[t]) /\ reads[t][c + 1].last > 0)
      <3>1. Base(reads[t], c) = 0
        BY <2>3 DEF Base
      <3>2. 0 + n \in Int32
        <4>1. n \in Int /\ n >= -1 /\ n <= 200000
          BY <1>2, <1>3, <1>5
        <4>2. 0 + n \in Int /\ 0 + n >= -1 /\ 0 + n <= INT_MAX
          BY <4>1, Limits
        <4> QED
          BY <4>2, IsInt32
      <3> QED
        BY <3>1, <3>2
    <2> QED
      BY <2>2, <2>3
  <1>9. reads[t] \in Seq(ReadItem)
    <2>1. ASSUME NEW i \in 1 .. Len(reads[t])
          PROVE  reads[t][i] \in ReadItem
      <3>1. reads[t][i] \in CustomerRecord
        BY <1>1
      <3>2. PICK rec \in CustomerRecord : rec = reads[t][i]
        BY <3>1
      <3>3. rec.cust \in Int32 /\ rec.last \in Int32
        BY <1>6, <1>7, <3>2 DEF CustomerRecord
      <3>4. rec = [cust |-> rec.cust, last |-> rec.last]
        BY DEF CustomerRecord
      <3> QED
        BY <3>2, <3>3, <3>4 DEF ReadItem
    <2>2. Len(reads[t]) \in Nat /\ reads[t] = [i \in 1 .. Len(reads[t]) |-> reads[t][i]]
      BY <1>1
    <2>3. reads[t] \in [1 .. Len(reads[t]) -> ReadItem]
      BY <2>1, <2>2
    <2> QED
      BY <2>2, <2>3
  <1>10. \A i \in 1 .. Len(ws) : ws[i].cust \in Int32 /\ ws[i].num \in Int32
    <2> SUFFICES ASSUME NEW i \in 1 .. Len(ws)
                 PROVE  ws[i].cust \in Int32 /\ ws[i].num \in Int32
      OBVIOUS
    <2>1. PICK c \in Customer, n \in 0 .. Len(ws) : ws[i].cust = c /\ ws[i].num = Base(reads[t], c) + n
      BY <1>1, BuiltOrders
    <2>2. n \in 0 .. max
      BY <1>3, <1>4
    <2>3. ws[i].num \in Int32
      BY <1>8, <2>1, <2>2
    <2> QED
      BY <1>7, <2>1, <2>3 DEF Key
  <1>11. sent \in Seq(WriteItem) /\ Len(sent) = Len(ws)
    <2>1. \A i \in 1 .. Len(ws) : sent[i] \in WriteItem
      BY <1>7, <1>10 DEF WriteItem
    <2>2. sent \in [1 .. Len(ws) -> WriteItem] /\ Len(ws) \in Nat
      <3>1. Len(ws) \in Nat
        BY <1>1
      <3> HIDE DEF ws
      <3> QED
        BY <2>1, <3>1
    <2> QED
      BY <2>2
  <1> HIDE DEF sent
  <1>12. Message(t) = [id |-> txnId[t], reads |-> reads[t], writes |-> sent]
    BY DEF Message, sent
  <1>13. Size(Message(t)) <= BufferSize
    <2> DEFINE a == Len(Message(t).reads)
               b == Len(Message(t).writes)
    <2>1. a = Len(reads[t]) /\ b = Len(ws)
      BY <1>11, <1>12
    <2>2. a \in Nat /\ a <= ReadCount /\ b \in Nat /\ b <= max
      BY <1>1, <1>3, <1>4, <2>1
    <2>3. Size(Message(t)) = 12 + 8 * a + 12 * b
      BY DEF Size
    <2> HIDE DEF a, b
    <2>4. 12 + 8 * a + 12 * b <= 200000
      BY <1>2, <1>3, <1>5, <2>2, SMT
    <2> QED
      BY <2>2, <2>3, <2>4, Limits, SMT
  <1>14. Message(t) \in [id : Int32, reads : Seq(ReadItem), writes : Seq(WriteItem)]
    BY <1>1, <1>7, <1>9, <1>11, <1>12
  <1> QED
    BY <1>13, <1>14 DEF Transaction

(* Every prepare that an RM gets is decoded as it was sent; of one that     *)
(* arrives in pieces, the first piece is decoded right and the rest is      *)
(* zero.  With any crashes and restarts, as long as the transactions fit    *)
(* the buffer and the order numbers an int.                                 *)
THEOREM PreparesDecode ==
    ASSUME ShapesFit
    PROVE  Spec => [](NumbersFit => DecodesAsSent)
  <1>1. TypeInv /\ SentInv => (NumbersFit => DecodesAsSent)
    <2> SUFFICES ASSUME TypeInv, SentInv, NumbersFit, NEW t \in Txn, NEW r \in RM,
                        conn[t][r] = "prepare"
                 PROVE  /\ W!Unmarshal(W!Recv(W!Marshal(Message(t)), W!Size(Message(t)))) = Message(t)
                        /\ \A n \in 12 .. W!Size(Message(t)) : W!PieceDecodes(Message(t), n)
      BY DEF DecodesAsSent
    <2> DEFINE m == Message(t)
    <2>1. Submitted(t)
      BY DEF SentInv, SessionsKnown
    <2>2. m \in Transaction
      BY <2>1, MessageFits
    <2> HIDE DEF m
    <2>3. Unmarshal(Recv(Marshal(m), Size(m))) = m
      BY <2>2, WholeTransaction
    <2>4. W!Unmarshal(W!Recv(W!Marshal(m), W!Size(m))) = m
      BY <2>3, SameWire
    <2>5. \A n \in 12 .. W!Size(m) : W!PieceDecodes(m, n)
      BY <2>2, PieceOfTransaction, SameWire, SamePieces
    <2> QED
      BY <2>4, <2>5 DEF m
  <1> QED
    BY <1>1, InitSent, NextSent, TypeInvariant, PTL DEF Spec
=============================================================================
