--------------------------------- MODULE Wire ----------------------------------
(***************************************************************************)
(* The bytes of a transaction on a TCP session, from a client to the TM    *)
(* and from the TM to the RMs: three lengths, the read records, the write  *)
(* records, every int 32 bits wide and in network order.                   *)
(*                                                                         *)
(* The receiver makes one recv, and decodes what that call returned, all   *)
(* of the transaction or the first bytes of it.                            *)
(***************************************************************************)
EXTENDS Integers, Sequences

INT_MAX == 2147483647
Int32   == (-INT_MAX - 1) .. INT_MAX

(* What the receiver allocates, with every byte zero. *)
BufferSize == 200000

ReadItem  == [cust : Int32, last : Int32]
WriteItem == [cust : Int32, num : Int32, type : Int32]

(* Transaction::Size *)
Size(m) == 12 + 8 * Len(m.reads) + 12 * Len(m.writes)

Transaction ==
    {m \in [id : Int32, reads : Seq(ReadItem), writes : Seq(WriteItem)] :
        Size(m) <= BufferSize}

(* The bytes of an int, and the int of four bytes: two's complement. *)
htonl(v) == <<(v \div 16777216) % 256, (v \div 65536) % 256, (v \div 256) % 256, v % 256>>
ntohl(a, b, c, d) ==
    (IF a >= 128 THEN a - 256 ELSE a) * 16777216 + b * 65536 + c * 256 + d

(* The w-th int of a transaction, from 0: the lengths, the reads, the writes. *)
IntOf(m, w) ==
    LET reads == Len(m.reads)
        read  == m.reads[((w - 3) \div 2) + 1]
        write == m.writes[((w - 3 - 2 * reads) \div 3) + 1] IN
    IF w <= 2 THEN <<m.id, reads, Len(m.writes)>>[w + 1]
    ELSE IF w <= 2 + 2 * reads THEN <<read.cust, read.last>>[((w - 3) % 2) + 1]
    ELSE <<write.cust, write.num, write.type>>[((w - 3 - 2 * reads) % 3) + 1]

Marshal(m) == [k \in 1 .. Size(m) |-> htonl(IntOf(m, (k - 1) \div 4))[((k - 1) % 4) + 1]]

(* Mutant: the buffer holds what was left in it. *)
RecvStale(bytes, n) == [k \in 1 .. Len(bytes) |-> IF k <= n THEN bytes[k] ELSE 255]

(* The buffer when recv returned the first n bytes. *)
Recv(bytes, n) == [k \in 1 .. Len(bytes) |-> IF k <= n THEN bytes[k] ELSE 0]

IntAt(buffer, w) ==
    ntohl(buffer[4 * w + 1], buffer[4 * w + 2], buffer[4 * w + 3], buffer[4 * w + 4])

Unmarshal(buffer) ==
    LET lenReads  == IntAt(buffer, 1)
        lenWrites == IntAt(buffer, 2) IN
    [id     |-> IntAt(buffer, 0),
     reads  |-> [i \in 1 .. lenReads |->
                   [cust |-> IntAt(buffer, 2 * i + 1), last |-> IntAt(buffer, 2 * i + 2)]],
     writes |-> [j \in 1 .. lenWrites |->
                   LET w == 2 * lenReads + 3 * j IN
                   [cust |-> IntAt(buffer, w), num |-> IntAt(buffer, w + 1),
                    type |-> IntAt(buffer, w + 2)]]]

-----------------------------------------------------------------------------
(* A piece that holds the lengths decodes to a transaction with the sender's *)
(* id and as many records; the records that arrived are right, and of those  *)
(* that did not, every int is zero.                                          *)
PieceDecodes(m, n) ==
    LET got == Unmarshal(Recv(Marshal(m), n)) IN
    /\ got.id = m.id
    /\ Len(got.reads) = Len(m.reads) /\ Len(got.writes) = Len(m.writes)
    /\ \A i \in 1 .. Len(m.reads) :
         /\ n >= 12 + 8 * i => got.reads[i] = m.reads[i]
         /\ n <= 4 + 8 * i => got.reads[i] = [cust |-> 0, last |-> 0]
    /\ \A j \in 1 .. Len(m.writes) :
         LET before == 12 + 8 * Len(m.reads) IN
         /\ n >= before + 12 * j => got.writes[j] = m.writes[j]
         /\ n <= before + 12 * (j - 1) => got.writes[j] = [cust |-> 0, num |-> 0, type |-> 0]
=============================================================================
