------------------------- MODULE LegacyConnection_proofs -------------------------
(* Proofs about Reassembly and the LegacyConnection on top of it, for every size  *)
(* of the buffers, all lengths of messages and replies, and any number of         *)
(* messages. They use only the possible steps, not the fairness of ConnSpec.      *)
EXTENDS LegacyConnection, SequenceTheorems, TLAPS

Byte == Nat \X Nat

(* The bytes that are not handled yet, s, when messages of the lengths ls have    *)
(* been sent and h of them handled: no byte without the rest of its message, each *)
(* message right after the one before, from number h + 1 to the last one.         *)
InStream(s, ls, h) ==
  /\ \A i \in 1..Len(s) : s[i][1] \in 1..Len(ls) /\ s[i][2] \in 1..ls[s[i][1]]
  /\ \A i \in 1..Len(s) : \A k \in 1..ls[s[i][1]] :
       i + k - s[i][2] \in 1..Len(s) /\ s[i + k - s[i][2]] = <<s[i][1], k>>
  /\ \A i \in 1..Len(s) - 1 : s[i][2] = ls[s[i][1]] => s[i + 1] = <<s[i][1] + 1, 1>>
  /\ Len(s) = 0 => h = Len(ls)
  /\ Len(s) > 0 => s[1] = <<h + 1, 1>> /\ s[Len(s)] = <<Len(ls), ls[Len(ls)]>>

RInv ==
  /\ lengths \in Seq(Length) /\ wire \in Seq(Byte) /\ buf \in Seq(Byte)
  /\ handled \in Seq(Seq(Byte)) /\ pc \in {"idle", "loop"}
  /\ InStream(buf \o wire, lengths, Len(handled))
  /\ Len(buf) <= Size
  /\ pc = "idle" => ~HasMsg

LEMMA Joined ==
  ASSUME NEW a \in Seq(Byte), NEW b \in Seq(Byte), NEW c \in Seq(Byte)
  PROVE  a \o b \in Seq(Byte) /\ (a \o b) \o c = a \o (b \o c)
BY ConcatProperties, ConcatAssociative

LEMMA BytesSeq ==
  ASSUME NEW m \in Nat, NEW n \in Nat
  PROVE  /\ Bytes(m, n) \in Seq(Byte) /\ Len(Bytes(m, n)) = n
         /\ \A k \in 1..n : Bytes(m, n)[k] = <<m, k>>
<1>1. Bytes(m, n) \in [1..n -> Byte]
  BY DEF Bytes, Byte
<1>2. Bytes(m, n) \in Seq(Byte)
  BY <1>1, SeqDef
<1> QED
  BY <1>1, <1>2, LenProperties DEF Bytes

LEMMA StreamSend ==
  ASSUME NEW s \in Seq(Byte), NEW ls \in Seq(Length), NEW h \in Nat, NEW n \in Length,
         InStream(s, ls, h)
  PROVE  InStream(s \o Bytes(Len(ls) + 1, n), Append(ls, n), h)
<1> DEFINE m == Len(ls) + 1
           b == Bytes(m, n)
           r == s \o b
           rs == Append(ls, n)
<1>1. /\ n \in Nat \ {0} /\ Len(ls) \in Nat /\ Len(s) \in Nat
      /\ \A j \in 1..Len(ls) : ls[j] \in Nat \ {0}
  <2>1. Length \subseteq Nat \ {0}
    BY SizeAssumption, LengthAssumption
  <2>2. \A j \in 1..Len(ls) : ls[j] \in Length
    BY ElementOfSeq
  <2> QED
    BY <2>1, <2>2, LenProperties
<1>2. b \in Seq(Byte) /\ Len(b) = n /\ \A k \in 1..n : b[k] = <<m, k>>
  <2>1. m \in Nat /\ n \in Nat
    BY <1>1
  <2> QED
    BY <2>1, BytesSeq
<1>3. Len(rs) = m /\ rs[m] = n /\ \A j \in 1..Len(ls) : rs[j] = ls[j]
  BY AppendProperties
<1>4. /\ Len(r) = Len(s) + n
      /\ \A i \in 1..Len(s) : r[i] = s[i]
      /\ \A i \in Len(s) + 1..Len(s) + n : r[i] = <<m, i - Len(s)>>
  <2> HIDE DEF b
  <2>1. /\ Len(r) = Len(s) + Len(b)
        /\ \A i \in 1..Len(s) + Len(b) : r[i] = IF i <= Len(s) THEN s[i] ELSE b[i - Len(s)]
    BY <1>2, ConcatProperties
  <2>2. \A i \in Len(s) + 1..Len(s) + n : i - Len(s) \in 1..n /\ ~(i <= Len(s))
    BY <1>1
  <2> QED
    BY <1>1, <1>2, <2>1, <2>2
<1> HIDE DEF b, r, rs
<1>5. ASSUME NEW i \in 1..Len(r) PROVE r[i][1] \in 1..Len(rs) /\ r[i][2] \in 1..rs[r[i][1]]
  <2>1. CASE i \in 1..Len(s)
    <3>1. r[i] = s[i] /\ s[i][1] \in 1..Len(ls) /\ s[i][2] \in 1..ls[s[i][1]]
      BY <1>4, <2>1 DEF InStream
    <3> QED
      BY <1>1, <1>3, <3>1
  <2>2. CASE i \in Len(s) + 1..Len(s) + n
    <3>1. r[i] = <<m, i - Len(s)>> /\ i - Len(s) \in 1..n
      BY <1>1, <1>4, <2>2
    <3> QED
      BY <1>1, <1>3, <3>1
  <2> QED
    BY <1>1, <1>4, <2>1, <2>2
<1>6. ASSUME NEW i \in 1..Len(r), NEW k \in 1..rs[r[i][1]]
      PROVE  i + k - r[i][2] \in 1..Len(r) /\ r[i + k - r[i][2]] = <<r[i][1], k>>
  <2>1. CASE i \in 1..Len(s)
    <3>1. r[i] = s[i] /\ s[i][1] \in 1..Len(ls) /\ k \in 1..ls[s[i][1]] /\ s[i][2] \in Nat
      BY <1>1, <1>3, <1>4, <2>1 DEF InStream
    <3>2. i + k - s[i][2] \in 1..Len(s) /\ s[i + k - s[i][2]] = <<s[i][1], k>>
      BY <2>1, <3>1 DEF InStream
    <3>3. i + k - s[i][2] \in 1..Len(r) /\ r[i + k - s[i][2]] = s[i + k - s[i][2]]
      BY <1>1, <1>4, <3>2
    <3> QED
      BY <3>1, <3>2, <3>3
  <2>2. CASE i \in Len(s) + 1..Len(s) + n
    <3>1. r[i] = <<m, i - Len(s)>> /\ k \in 1..n
      BY <1>3, <1>4, <2>2
    <3>2. i + k - r[i][2] = Len(s) + k
      BY <1>1, <2>2, <3>1
    <3>3. Len(s) + k \in Len(s) + 1..Len(s) + n /\ Len(s) + k - Len(s) = k
      BY <1>1, <3>1
    <3>4. Len(s) + k \in 1..Len(r) /\ r[Len(s) + k] = <<m, k>>
      <4>1. r[Len(s) + k] = <<m, Len(s) + k - Len(s)>>
        BY <1>4, <3>3
      <4> QED
        BY <1>1, <1>4, <3>3, <4>1
    <3> QED
      BY <3>1, <3>2, <3>4
  <2> QED
    BY <1>1, <1>4, <2>1, <2>2
<1>7. ASSUME NEW i \in 1..Len(r) - 1, r[i][2] = rs[r[i][1]]
      PROVE  r[i + 1] = <<r[i][1] + 1, 1>>
  <2>1. CASE i < Len(s)
    <3>1. i \in 1..Len(s) - 1 /\ r[i] = s[i] /\ r[i + 1] = s[i + 1] /\ s[i][1] \in 1..Len(ls)
      BY <1>1, <1>4, <2>1 DEF InStream
    <3> QED
      BY <1>3, <1>7, <3>1 DEF InStream
  <2>2. CASE i = Len(s)
    <3>1. Len(s) > 0 /\ r[i] = s[Len(s)] /\ r[i + 1] = <<m, 1>>
      BY <1>1, <1>4, <2>2
    <3>2. s[Len(s)] = <<Len(ls), ls[Len(ls)]>>
      BY <3>1 DEF InStream
    <3> QED
      BY <3>1, <3>2
  <2>3. CASE i > Len(s)
    <3>1. r[i] = <<m, i - Len(s)>> /\ i - Len(s) < n
      BY <1>1, <1>4, <2>3
    <3> QED
      BY <1>1, <1>3, <1>7, <3>1
  <2> QED
    BY <1>1, <2>1, <2>2, <2>3
<1>8. Len(r) > 0 /\ r[Len(r)] = <<Len(rs), rs[Len(rs)]>>
  BY <1>1, <1>3, <1>4
<1>9. r[1] = <<h + 1, 1>>
  BY <1>1, <1>4 DEF InStream
<1>10. InStream(r, rs, h)
  <2>1. \A i \in 1..Len(r) : r[i][1] \in 1..Len(rs) /\ r[i][2] \in 1..rs[r[i][1]]
    BY ONLY <1>5
  <2>2. \A i \in 1..Len(r) : \A k \in 1..rs[r[i][1]] :
          i + k - r[i][2] \in 1..Len(r) /\ r[i + k - r[i][2]] = <<r[i][1], k>>
    BY ONLY <1>6
  <2>3. \A i \in 1..Len(r) - 1 : r[i][2] = rs[r[i][1]] => r[i + 1] = <<r[i][1] + 1, 1>>
    BY ONLY <1>7
  <2>4. (Len(r) = 0 => h = Len(rs))
        /\ (Len(r) > 0 => r[1] = <<h + 1, 1>> /\ r[Len(r)] = <<Len(rs), rs[Len(rs)]>>)
    BY ONLY <1>1, <1>4, <1>8, <1>9
  <2> QED
    BY ONLY <2>1, <2>2, <2>3, <2>4, Zenon DEF InStream
<1> QED
  BY <1>10 DEF b, r, rs

LEMMA StreamHandle ==
  ASSUME NEW s \in Seq(Byte), NEW ls \in Seq(Length), NEW h \in Nat,
         InStream(s, ls, h), Len(s) > 0
  PROVE  /\ h + 1 \in 1..Len(ls) /\ ls[h + 1] \in 1..Len(s) /\ s[1] = <<h + 1, 1>>
         /\ SubSeq(s, 1, ls[h + 1]) = Bytes(h + 1, ls[h + 1])
         /\ InStream(SubSeq(s, ls[h + 1] + 1, Len(s)), ls, h + 1)
<1> DEFINE n == ls[h + 1]
           r == SubSeq(s, n + 1, Len(s))
<1>1. /\ Len(ls) \in Nat /\ Len(s) \in Nat /\ 1 \in 1..Len(s) /\ s[1] = <<h + 1, 1>>
      /\ \A j \in 1..Len(ls) : ls[j] \in Nat \ {0}
  <2>1. Length \subseteq Nat \ {0}
    BY SizeAssumption, LengthAssumption
  <2>2. \A j \in 1..Len(ls) : ls[j] \in Length
    BY ElementOfSeq
  <2>3. s[1] = <<h + 1, 1>>
    BY DEF InStream
  <2>4. 1 \in 1..Len(s) /\ Len(ls) \in Nat /\ Len(s) \in Nat
    BY LenProperties
  <2> QED
    BY <2>1, <2>2, <2>3, <2>4
<1>2. h + 1 \in 1..Len(ls) /\ n \in Nat \ {0}
  BY <1>1 DEF InStream
<1>3. \A k \in 1..n : k \in 1..Len(s) /\ s[k] = <<h + 1, k>>
  <2> SUFFICES ASSUME NEW k \in 1..n PROVE k \in 1..Len(s) /\ s[k] = <<h + 1, k>>
    OBVIOUS
  <2>1. k \in 1..ls[s[1][1]]
    BY <1>1
  <2>2. 1 + k - s[1][2] \in 1..Len(s) /\ s[1 + k - s[1][2]] = <<s[1][1], k>>
    BY <1>1, <2>1 DEF InStream
  <2>3. 1 + k - s[1][2] = k /\ s[1][1] = h + 1
    BY <1>1, <1>2
  <2> QED
    BY <2>2, <2>3
<1>4. n \in 1..Len(s)
  BY <1>2, <1>3
<1>5. SubSeq(s, 1, n) = Bytes(h + 1, n)
  <2>1. /\ SubSeq(s, 1, n) \in Seq(Byte) /\ Len(SubSeq(s, 1, n)) = n
        /\ \A k \in 1..n : SubSeq(s, 1, n)[k] = s[k]
    <3>1. \A k \in 1..n : s[k] \in Byte
      BY <1>3, ElementOfSeq
    <3>2. /\ SubSeq(s, 1, n) \in Seq(Byte)
          /\ Len(SubSeq(s, 1, n)) = IF 1 <= n THEN n - 1 + 1 ELSE 0
          /\ \A k \in 1..n - 1 + 1 : SubSeq(s, 1, n)[k] = s[1 + k - 1]
      BY <1>2, <3>1, SubSeqProperties
    <3> QED
      BY <1>2, <3>2
  <2>2. /\ Bytes(h + 1, n) \in Seq(Byte) /\ Len(Bytes(h + 1, n)) = n
        /\ \A k \in 1..n : Bytes(h + 1, n)[k] = <<h + 1, k>>
    <3>1. h + 1 \in Nat /\ n \in Nat
      BY <1>2
    <3> HIDE DEF n
    <3> QED
      BY <3>1, BytesSeq
  <2> QED
    BY <1>3, <2>1, <2>2, SeqEqual
<1>6. Len(r) = Len(s) - n /\ \A i \in 1..Len(s) - n : r[i] = s[n + i]
  <2>1. \A k \in n + 1..Len(s) : s[k] \in Byte
    BY <1>2, ElementOfSeq
  <2>2. /\ Len(r) = IF n + 1 <= Len(s) THEN Len(s) - (n + 1) + 1 ELSE 0
        /\ \A i \in 1..Len(s) - (n + 1) + 1 : r[i] = s[(n + 1) + i - 1]
    <3>1. n + 1 \in Int /\ Len(s) \in Int
      BY <1>1, <1>2
    <3> HIDE DEF n
    <3> QED
      BY <2>1, <3>1, SubSeqProperties
  <2> HIDE DEF r
  <2> HIDE DEF n
  <2>3. n \in Nat /\ Len(s) \in Nat /\ n <= Len(s)
    BY <1>1, <1>4
  <2>4. Len(r) = Len(s) - n
    BY ONLY <2>2, <2>3
  <2>5. \A i \in 1..Len(s) - n : i \in 1..Len(s) - (n + 1) + 1 /\ (n + 1) + i - 1 = n + i
    BY ONLY <2>3
  <2> QED
    BY ONLY <2>2, <2>4, <2>5
<1>7. InStream(r, ls, h + 1)
  <2> HIDE DEF r
  <2> HIDE DEF n
  <2>0. n \in Nat \ {0} /\ Len(s) - n \in Nat /\ ls[h + 1] = n
    BY <1>1, <1>4 DEF n
  <2>1. ASSUME NEW i \in 1..Len(r)
        PROVE /\ n + i \in 1..Len(s) /\ r[i] = s[n + i]
              /\ s[n + i][1] \in 1..Len(ls) /\ s[n + i][2] \in 1..ls[s[n + i][1]]
    <3>1. n + i \in 1..Len(s)
      BY <1>6, <2>0
    <3> QED
      BY <1>6, <2>1, <3>1 DEF InStream
  <2>2. ASSUME NEW i \in 1..Len(r), NEW k \in 1..ls[r[i][1]]
        PROVE  i + k - r[i][2] \in 1..Len(r) /\ r[i + k - r[i][2]] = <<r[i][1], k>>
    <3> DEFINE p == s[n + i][2]
               j == n + i + k - p
    <3>1. /\ r[i] = s[n + i] /\ n + i \in 1..Len(s) /\ k \in 1..ls[s[n + i][1]]
          /\ p \in 1..ls[s[n + i][1]] /\ s[n + i][1] \in 1..Len(ls)
      BY <2>1, <2>2
    <3>2. p \in Nat /\ k \in Nat /\ i \in 1..Len(s) - n
      BY <1>1, <1>6, <2>0, <3>1
    <3>3. j \in 1..Len(s) /\ s[j] = <<s[n + i][1], k>>
      BY <3>1 DEF InStream
    <3>4. j > n
      <4> SUFFICES ASSUME j \in 1..n PROVE FALSE
        BY <2>0, <3>3
      <4>1. s[j] = <<h + 1, j>>
        BY <1>3
      <4>2. k = j /\ s[n + i][1] = h + 1
        BY <3>3, <4>1
      <4>3. p \in 1..n
        BY <2>0, <3>1, <4>2
      <4>4. p = n + i
        <5> HIDE DEF p
        <5> QED
          BY <2>0, <3>2, <4>2
      <4> QED
        BY <2>0, <3>2, <4>3, <4>4
    <3>5. j - n \in 1..Len(s) - n /\ n + (j - n) = j /\ i + k - p = j - n
      <4> HIDE DEF p
      <4> QED
        BY <1>1, <2>0, <3>2, <3>3, <3>4
    <3>6. r[j - n] = s[j]
      BY <1>6, <3>5
    <3> QED
      BY <1>6, <3>1, <3>3, <3>5, <3>6
  <2>3. ASSUME NEW i \in 1..Len(r) - 1, r[i][2] = ls[r[i][1]]
        PROVE  r[i + 1] = <<r[i][1] + 1, 1>>
    <3>1. i \in 1..Len(r) /\ i + 1 \in 1..Len(r) /\ n + i \in 1..Len(s) - 1 /\ n + (i + 1) = n + i + 1
      BY <1>6, <2>0
    <3>2. r[i] = s[n + i] /\ r[i + 1] = s[n + i + 1]
      BY <2>1, <3>1
    <3> QED
      BY <2>3, <3>1, <3>2 DEF InStream
  <2>4. ASSUME Len(r) = 0 PROVE h + 1 = Len(ls)
    <3>1. Len(s) = n /\ n \in 1..n
      BY <1>1, <1>6, <2>0, <2>4
    <3>2. s[n] = <<h + 1, n>> /\ s[n] = <<Len(ls), ls[Len(ls)]>>
      BY <1>3, <3>1 DEF InStream
    <3> QED
      BY <3>2
  <2>5. ASSUME Len(r) > 0 PROVE r[1] = <<h + 1 + 1, 1>> /\ r[Len(r)] = <<Len(ls), ls[Len(ls)]>>
    <3>1. n \in 1..Len(s) - 1 /\ n \in 1..n /\ 1 \in 1..Len(r) /\ Len(r) \in 1..Len(r) /\ n + Len(r) = Len(s)
      BY <1>1, <1>6, <2>0, <2>5
    <3>2. s[n] = <<h + 1, n>>
      BY <1>3, <3>1
    <3>3. s[n + 1] = <<h + 1 + 1, 1>>
      <4>1. s[n][2] = ls[s[n][1]] /\ s[n][1] = h + 1
        BY <2>0, <3>2
      <4>2. s[n + 1] = <<s[n][1] + 1, 1>>
        BY <3>1, <4>1 DEF InStream
      <4> QED
        BY <4>1, <4>2
    <3>4. r[1] = s[n + 1] /\ r[Len(r)] = s[Len(s)]
      BY <2>1, <3>1
    <3>5. s[Len(s)] = <<Len(ls), ls[Len(ls)]>>
      BY DEF InStream
    <3> QED
      BY <3>3, <3>4, <3>5
  <2> QED
    BY <2>1, <2>2, <2>3, <2>4, <2>5 DEF InStream
<1> QED
  BY <1>1, <1>2, <1>4, <1>5, <1>7

-------------------------------------------------------------------------------
(* Cutting two adjacent sequences. *)
LEMMA CutFront ==
  ASSUME NEW S, NEW s \in Seq(S), NEW t \in Seq(S), NEW n \in 0..Len(s)
  PROVE  /\ SubSeq(s, n + 1, Len(s)) \in Seq(S) /\ Len(SubSeq(s, n + 1, Len(s))) = Len(s) - n
         /\ SubSeq(s, n + 1, Len(s)) \o t = SubSeq(s \o t, n + 1, Len(s \o t))
<1> DEFINE r == SubSeq(s, n + 1, Len(s))
           u == s \o t
           v == SubSeq(u, n + 1, Len(u))
<1>1. Len(s) \in Nat /\ Len(t) \in Nat /\ n \in Nat
  BY LenProperties
<1>2. r \in Seq(S) /\ Len(r) = Len(s) - n /\ \A k \in 1..Len(s) - n : r[k] = s[n + k]
  <2>1. \A k \in n + 1..Len(s) : s[k] \in S
    BY <1>1, ElementOfSeq
  <2>2. /\ r \in Seq(S)
        /\ Len(r) = IF n + 1 <= Len(s) THEN Len(s) - (n + 1) + 1 ELSE 0
        /\ \A k \in 1..Len(s) - (n + 1) + 1 : r[k] = s[(n + 1) + k - 1]
    BY <1>1, <2>1, SubSeqProperties
  <2> HIDE DEF r
  <2> QED
    BY <1>1, <2>2
<1>3. /\ u \in Seq(S) /\ Len(u) = Len(s) + Len(t)
      /\ \A k \in 1..Len(s) + Len(t) : u[k] = IF k <= Len(s) THEN s[k] ELSE t[k - Len(s)]
  BY ConcatProperties
<1> HIDE DEF r, u
<1>4. v \in Seq(S) /\ Len(v) = Len(u) - n /\ \A k \in 1..Len(u) - n : v[k] = u[n + k]
  <2>1. \A k \in n + 1..Len(u) : u[k] \in S
    BY <1>1, <1>3, ElementOfSeq
  <2>2. /\ v \in Seq(S)
        /\ Len(v) = IF n + 1 <= Len(u) THEN Len(u) - (n + 1) + 1 ELSE 0
        /\ \A k \in 1..Len(u) - (n + 1) + 1 : v[k] = u[(n + 1) + k - 1]
    BY <1>1, <1>3, <2>1, SubSeqProperties
  <2> HIDE DEF v
  <2> QED
    BY <1>1, <1>3, <2>2
<1>5. /\ r \o t \in Seq(S) /\ Len(r \o t) = Len(u) - n
      /\ \A k \in 1..Len(u) - n : (r \o t)[k] = IF k <= Len(s) - n THEN r[k] ELSE t[k - (Len(s) - n)]
  <2>1. /\ r \o t \in Seq(S) /\ Len(r \o t) = Len(r) + Len(t)
        /\ \A k \in 1..Len(r) + Len(t) : (r \o t)[k] = IF k <= Len(r) THEN r[k] ELSE t[k - Len(r)]
    BY <1>2, ConcatProperties
  <2>2. Len(r) + Len(t) = Len(u) - n
    BY <1>1, <1>2, <1>3
  <2> QED
    BY <1>2, <2>1, <2>2
<1>6. ASSUME NEW k \in 1..Len(u) - n PROVE (r \o t)[k] = v[k]
  <2>1. n + k \in 1..Len(u) /\ v[k] = u[n + k]
    BY <1>1, <1>3, <1>4
  <2>2. CASE k <= Len(s) - n
    <3>1. k \in 1..Len(s) - n /\ n + k <= Len(s)
      BY <1>1, <1>3, <2>2
    <3>2. (r \o t)[k] = s[n + k] /\ u[n + k] = s[n + k]
      BY <1>2, <1>3, <1>5, <2>1, <3>1
    <3> QED
      BY <2>1, <3>2
  <2>3. CASE ~(k <= Len(s) - n)
    <3>1. ~(n + k <= Len(s)) /\ n + k - Len(s) = k - (Len(s) - n)
      BY <1>1, <1>3, <2>3
    <3>2. (r \o t)[k] = t[k - (Len(s) - n)]
      BY <1>5, <2>3
    <3>3. u[n + k] = t[n + k - Len(s)]
      BY <1>3, <2>1, <3>1
    <3> QED
      BY <2>1, <3>1, <3>2, <3>3
  <2> QED
    BY <2>2, <2>3
<1> HIDE DEF v
<1>7. r \o t = v
  <2>1. Len(r \o t) = Len(v)
    BY <1>4, <1>5
  <2>2. \A k \in 1..Len(r \o t) : (r \o t)[k] = v[k]
    BY <1>5, <1>6
  <2> QED
    BY <1>4, <1>5, <2>1, <2>2, SeqEqual
<1> QED
  BY <1>2, <1>7 DEF r, u, v

(* What the buffer holds is where the messages are: it begins with one. *)
LEMMA FirstByte ==
  ASSUME RInv, Len(buf) > 0
  PROVE  /\ Len(buf \o wire) = Len(buf) + Len(wire) /\ Len(buf \o wire) > 0
         /\ buf[1] = <<Len(handled) + 1, 1>> /\ DataLength = lengths[Len(handled) + 1]
         /\ Len(handled) + 1 \in 1..Len(lengths)
         /\ DataLength \in Header..Size /\ DataLength \in Nat \ {0}
<1>1. /\ buf \in Seq(Byte) /\ wire \in Seq(Byte) /\ Len(buf) \in Nat /\ Len(wire) \in Nat
      /\ lengths \in Seq(Length) /\ Len(handled) \in Nat /\ InStream(buf \o wire, lengths, Len(handled))
  BY LenProperties DEF RInv
<1>2. /\ buf \o wire \in Seq(Byte) /\ Len(buf \o wire) = Len(buf) + Len(wire)
      /\ \A i \in 1..Len(buf) + Len(wire) :
           (buf \o wire)[i] = IF i <= Len(buf) THEN buf[i] ELSE wire[i - Len(buf)]
  BY <1>1, ConcatProperties
<1>3. Len(buf \o wire) > 0 /\ (buf \o wire)[1] = buf[1]
  BY <1>1, <1>2
<1>4. Len(handled) + 1 \in 1..Len(lengths) /\ buf[1] = <<Len(handled) + 1, 1>>
  BY <1>1, <1>2, <1>3, StreamHandle
<1>5. DataLength \in Length
  BY <1>1, <1>4, ElementOfSeq DEF DataLength
<1>6. DataLength \in Header..Size /\ DataLength \in Nat \ {0}
  BY <1>5, SizeAssumption, LengthAssumption
<1>7. DataLength = lengths[Len(handled) + 1]
  BY <1>4 DEF DataLength
<1> QED
  BY <1>2, <1>3, <1>4, <1>6, <1>7

(* So the buffer has room whenever recv() is called. *)
LEMMA HasRoom == RInv => RoomToRead
<1> SUFFICES ASSUME RInv, pc = "idle" PROVE Len(buf) < Size
  BY DEF RoomToRead
<1>1. Len(buf) \in Nat
  BY LenProperties DEF RInv
<1>2. CASE Len(buf) = 0
  BY <1>2, SizeAssumption
<1>3. CASE Len(buf) > 0
  <2>1. DataLength \in Header..Size /\ DataLength \in Nat /\ ~HasMsg
    BY <1>3, FirstByte DEF RInv
  <2> QED
    BY <1>1, <2>1, SizeAssumption DEF HasMsg
<1> QED
  BY <1>1, <1>2, <1>3


LEMMA InitRInv == Init => RInv
<1> SUFFICES ASSUME Init PROVE RInv
  OBVIOUS
<1>1. /\ lengths = <<>> /\ wire = <<>> /\ buf = <<>> /\ handled = <<>> /\ pc = "idle"
  BY DEF Init
<1>2. lengths \in Seq(Length) /\ wire \in Seq(Byte) /\ buf \in Seq(Byte) /\ handled \in Seq(Seq(Byte))
  BY <1>1, EmptySeq
<1>3. buf \o wire = <<>>
  BY <1>1, EmptySeq, ConcatEmptySeq
<1>4. InStream(<<>>, <<>>, 0)
  BY EmptySeq DEF InStream
<1>5. Len(buf) = 0 /\ ~(0 >= Header)
  BY <1>1, EmptySeq, SizeAssumption
<1> QED
  BY <1>1, <1>2, <1>3, <1>4, <1>5, EmptySeq, SizeAssumption DEF RInv, HasMsg

LEMMA SendKeeps == ASSUME RInv, Send PROVE RInv'
<1>1. PICK n \in Length : /\ lengths' = Append(lengths, n)
                          /\ wire' = wire \o Bytes(Len(lengths'), n)
                          /\ UNCHANGED <<buf, handled, pc>>
  BY DEF Send
<1>2. /\ lengths \in Seq(Length) /\ wire \in Seq(Byte) /\ buf \in Seq(Byte)
      /\ Len(handled) \in Nat /\ Len(lengths) \in Nat /\ n \in Nat
  BY LenProperties, LengthAssumption, SizeAssumption DEF RInv
<1>3. /\ lengths' \in Seq(Length) /\ Len(lengths') = Len(lengths) + 1
      /\ \A i \in 1..Len(lengths) : lengths'[i] = lengths[i]
  BY <1>1, <1>2, AppendProperties
<1>4. Bytes(Len(lengths) + 1, n) \in Seq(Byte)
  BY <1>2, BytesSeq
<1>5. wire' \in Seq(Byte) /\ buf \o wire' = (buf \o wire) \o Bytes(Len(lengths) + 1, n)
  <2>1. wire' = wire \o Bytes(Len(lengths) + 1, n)
    BY <1>1, <1>3
  <2>2. ASSUME NEW b \in Seq(Byte) PROVE wire \o b \in Seq(Byte) /\ buf \o (wire \o b) = (buf \o wire) \o b
    BY <1>2, Joined
  <2> QED
    BY <1>4, <2>1, <2>2
<1>6. InStream((buf \o wire) \o Bytes(Len(lengths) + 1, n), Append(lengths, n), Len(handled))
  <2>1. buf \o wire \in Seq(Byte)
    BY <1>2, ConcatProperties
  <2> QED
    BY <1>2, <2>1, StreamSend DEF RInv
<1>7. Len(buf) > 0 => DataLength' = DataLength
  BY <1>1, <1>3, FirstByte DEF DataLength
<1>8. HasMsg' => HasMsg
  <2>1. Len(buf) \in Nat /\ (Len(buf) = 0 => ~HasMsg')
    BY <1>1, <1>2, LenProperties, SizeAssumption DEF HasMsg
  <2> QED
    BY <1>1, <1>7, <2>1 DEF HasMsg
<1> QED
  BY <1>1, <1>3, <1>5, <1>6, <1>8 DEF RInv

LEMMA RecvKeeps == ASSUME RInv, Recv PROVE RInv'
<1>1. PICK n \in 1..Len(wire) :
        /\ n <= Size - Len(buf)
        /\ buf' = buf \o SubSeq(wire, 1, n)
        /\ wire' = SubSeq(wire, n + 1, Len(wire))
        /\ pc' = "loop" /\ UNCHANGED <<lengths, handled>>
  BY DEF Recv
<1>2. buf \in Seq(Byte) /\ wire \in Seq(Byte) /\ Len(buf) \in Nat /\ Len(wire) \in Nat /\ n \in Nat
  BY LenProperties DEF RInv
<1>3. SubSeq(wire, 1, n) \in Seq(Byte) /\ Len(SubSeq(wire, 1, n)) = n
  <2>1. \A i \in 1..n : wire[i] \in Byte
    BY <1>2, ElementOfSeq
  <2> QED
    BY <1>2, <2>1, SubSeqProperties
<1>4. wire' \in Seq(Byte)
  BY <1>1, <1>2, CutFront
<1>5. SubSeq(wire, 1, n) \o wire' = wire
  <2>1. SubSeq(wire, 1, n) \o SubSeq(wire, n + 1, Len(wire)) = SubSeq(wire, 1, Len(wire))
    BY <1>2, ConcatAdjacentSubSeq
  <2> QED
    BY <1>1, <1>2, <2>1, SubSeqFull
<1>6. buf' \o wire' = buf \o wire
  <2>0. buf \in Seq(Byte)
    BY <1>2
  <2>1. ASSUME NEW b \in Seq(Byte), NEW w \in Seq(Byte) PROVE (buf \o b) \o w = buf \o (b \o w)
    BY <2>0, Joined
  <2>2. (buf \o SubSeq(wire, 1, n)) \o wire' = buf \o (SubSeq(wire, 1, n) \o wire')
    BY <1>3, <1>4, <2>1
  <2> QED
    BY <1>1, <1>5, <2>2
<1>7. buf' \in Seq(Byte) /\ Len(buf') = Len(buf) + n
  BY <1>1, <1>2, <1>3, ConcatProperties
<1>8. Len(buf') <= Size
  BY <1>1, <1>2, <1>7, SizeAssumption
<1> QED
  BY <1>1, <1>4, <1>6, <1>7, <1>8 DEF RInv

(* Handling a message removes exactly its bytes, and hands them on. *)
LEMMA HandleKeeps ==
  ASSUME RInv, Handle
  PROVE  /\ RInv' /\ Len(handled) + 1 \in 1..Len(lengths)
         /\ handled' = Append(handled, Whole(Len(handled) + 1))
         /\ Len(handled') = Len(handled) + 1
<1> DEFINE h == Len(handled)
           n == DataLength
<1>1. /\ handled' = Append(handled, SubSeq(buf, 1, n))
      /\ buf' = SubSeq(buf, n + 1, Len(buf))
      /\ UNCHANGED <<lengths, wire, pc>> /\ pc = "loop" /\ HasMsg
  BY DEF Handle
<1>2. /\ buf \in Seq(Byte) /\ wire \in Seq(Byte) /\ Len(buf) \in Nat /\ Len(wire) \in Nat
      /\ lengths \in Seq(Length) /\ h \in Nat /\ handled \in Seq(Seq(Byte)) /\ Len(buf) <= Size
  BY LenProperties DEF RInv
<1>3. Len(buf) > 0 /\ Len(buf) >= n
  BY <1>1, <1>2, SizeAssumption DEF HasMsg
<1>4. /\ Len(buf \o wire) = Len(buf) + Len(wire) /\ Len(buf \o wire) > 0
      /\ n = lengths[h + 1] /\ h + 1 \in 1..Len(lengths) /\ n \in Nat \ {0}
  BY <1>3, FirstByte
<1> HIDE DEF n
<1>5. buf \o wire \in Seq(Byte)
  BY <1>2, ConcatProperties
<1>6. /\ SubSeq(buf \o wire, 1, n) = Bytes(h + 1, n)
      /\ InStream(SubSeq(buf \o wire, n + 1, Len(buf \o wire)), lengths, h + 1)
  BY <1>2, <1>4, <1>5, StreamHandle DEF RInv
<1>7. SubSeq(buf, 1, n) = Bytes(h + 1, n)
  <2>1. 1 \in 1..Len(buf) /\ n \in 1..Len(buf)
    BY <1>2, <1>3, <1>4
  <2> QED
    BY <1>2, <1>6, <2>1, SubSeqOfConcat1
<1>8. /\ buf' \in Seq(Byte) /\ Len(buf') = Len(buf) - n
      /\ buf' \o wire = SubSeq(buf \o wire, n + 1, Len(buf \o wire))
  <2>1. n \in 0..Len(buf)
    BY <1>2, <1>3, <1>4
  <2>2. /\ SubSeq(buf, n + 1, Len(buf)) \in Seq(Byte) /\ Len(SubSeq(buf, n + 1, Len(buf))) = Len(buf) - n
        /\ SubSeq(buf, n + 1, Len(buf)) \o wire = SubSeq(buf \o wire, n + 1, Len(buf \o wire))
    BY <1>2, <2>1, CutFront
  <2> QED
    BY <1>1, <2>2
<1>9. Bytes(h + 1, n) \in Seq(Byte) /\ Bytes(h + 1, n) = Whole(h + 1)
  <2>0. h + 1 \in Nat /\ n \in Nat
    BY <1>2, <1>4
  <2>1. Bytes(h + 1, n) \in Seq(Byte)
    BY <2>0, BytesSeq
  <2> QED
    BY <1>4, <2>1 DEF Whole
<1>10. handled' \in Seq(Seq(Byte)) /\ Len(handled') = h + 1
  <2>1. handled' = Append(handled, Bytes(h + 1, n))
    BY <1>1, <1>7
  <2>2. ASSUME NEW b \in Seq(Byte)
        PROVE  Append(handled, b) \in Seq(Seq(Byte)) /\ Len(Append(handled, b)) = h + 1
    BY <1>2, AppendProperties
  <2> QED
    BY <1>9, <2>1, <2>2
<1>11. Len(buf') <= Size
  <2> HIDE DEF n
  <2>1. Len(buf) \in Nat /\ Len(buf) <= Size /\ n \in Nat /\ Size \in Nat
    BY <1>2, <1>4, SizeAssumption
  <2>2. Len(buf') = Len(buf) - n
    BY <1>8
  <2> QED
    BY ONLY <2>1, <2>2
<1>12. RInv'
  BY <1>1, <1>2, <1>6, <1>8, <1>10, <1>11 DEF RInv
<1> QED
  BY <1>1, <1>4, <1>7, <1>9, <1>10, <1>12

LEMMA NextRInv == RInv /\ [Next]_vars => RInv'
<1> SUFFICES ASSUME RInv, [Next]_vars PROVE RInv'
  OBVIOUS
<1>1. CASE EndLoop
  BY <1>1 DEF RInv, EndLoop, HasMsg, DataLength
<1>2. CASE UNCHANGED vars
  BY <1>2 DEF RInv, vars, HasMsg, DataLength
<1>3. CASE Send
  BY <1>3, SendKeeps
<1>4. CASE Recv
  BY <1>4, RecvKeeps
<1>5. CASE Handle
  BY <1>5, HandleKeeps
<1>6. Send \/ Recv \/ Handle \/ EndLoop \/ UNCHANGED vars
  BY ONLY [Next]_vars DEF Next
<1> QED
  BY <1>1, <1>2, <1>3, <1>4, <1>5, <1>6


(* Every step of the connection is one of Reassembly, or leaves its state alone.  *)
LEMMA StepOfReassembly == [ConnNext]_connAll => [Next]_vars
BY DEF ConnNext, connAll, PeerSend, PeerClose, Worker, RecvSome, RecvEnd, Answer, UnknownCommand,
       LoopEnds, DoTask, Next

(* Whenever the program is about to call recv() there is room in the buffer, for  *)
(* every size of it and of the messages that fit.                                *)
THEOREM BufferHasRoom == ConnSpec => []RoomToRead
<1>1. ConnInit => RInv
  BY InitRInv DEF ConnInit
<1> QED
  BY <1>1, NextRInv, StepOfReassembly, HasRoom, PTL DEF ConnSpec

(* The messages sent and not handled yet, as MessageChannel sees them: of those   *)
(* of the lengths ls, all but the first h.                                       *)
Rest(ls, h) == [i \in 1..Len(ls) - h |-> Bytes(h + i, ls[h + i])]

LEMMA RestSeq ==
  ASSUME NEW ls \in Seq(Length), NEW h \in Nat, h <= Len(ls)
  PROVE  /\ Len(ls) - h \in Nat /\ Rest(ls, h) \in Seq(Seq(Byte)) /\ Len(Rest(ls, h)) = Len(ls) - h
         /\ \A i \in 1..Len(ls) - h : /\ Rest(ls, h)[i] = Bytes(h + i, ls[h + i])
                                      /\ Bytes(h + i, ls[h + i]) \in Seq(Byte)
<1>1. Len(ls) \in Nat /\ Len(ls) - h \in Nat
  BY LenProperties
<1>2. Length \subseteq Nat
  BY LengthAssumption, SizeAssumption
<1>3. ASSUME NEW i \in 1..Len(ls) - h PROVE Bytes(h + i, ls[h + i]) \in Seq(Byte)
  <2>1. h + i \in 1..Len(ls) /\ h + i \in Nat
    BY <1>1
  <2>2. ls[h + i] \in Nat
    BY <1>2, <2>1, ElementOfSeq
  <2> QED
    BY <2>1, <2>2, BytesSeq
<1>4. Rest(ls, h) \in [1..Len(ls) - h -> Seq(Byte)]
  BY <1>3 DEF Rest
<1>5. Rest(ls, h) \in Seq(Seq(Byte))
  BY <1>1, <1>4, SeqDef
<1>6. Len(Rest(ls, h)) = Len(ls) - h
  BY <1>1, <1>4, <1>5, LenProperties
<1>7. \A i \in 1..Len(ls) - h : Rest(ls, h)[i] = Bytes(h + i, ls[h + i])
  BY DEF Rest
<1> QED
  BY <1>1, <1>3, <1>5, <1>6, <1>7

LEMMA RestAfterSend ==
  ASSUME NEW ls \in Seq(Length), NEW h \in Nat, h <= Len(ls), NEW n \in Length
  PROVE  Rest(Append(ls, n), h) = Append(Rest(ls, h), Bytes(Len(ls) + 1, n))
<1> DEFINE ms == Append(ls, n)
           b == Bytes(Len(ls) + 1, n)
           r == Rest(ls, h)
           q == Rest(ms, h)
<1>1. /\ ms \in Seq(Length) /\ Len(ms) = Len(ls) + 1 /\ ms[Len(ls) + 1] = n /\ Len(ls) \in Nat
      /\ \A i \in 1..Len(ls) : ms[i] = ls[i]
  BY AppendProperties, LenProperties
<1>2. b \in Seq(Byte)
  <2>1. n \in Nat /\ Len(ls) + 1 \in Nat
    BY <1>1, LengthAssumption, SizeAssumption
  <2> QED
    BY <2>1, BytesSeq
<1>3. /\ r \in Seq(Seq(Byte)) /\ Len(r) = Len(ls) - h
      /\ \A i \in 1..Len(ls) - h : r[i] = Bytes(h + i, ls[h + i])
  BY RestSeq
<1> HIDE DEF ms
<1>4. h <= Len(ms)
  BY <1>1
<1>5. /\ q \in Seq(Seq(Byte)) /\ Len(q) = Len(ls) + 1 - h
      /\ \A i \in 1..Len(ls) + 1 - h : q[i] = Bytes(h + i, ms[h + i])
  <2>1. /\ q \in Seq(Seq(Byte)) /\ Len(q) = Len(ms) - h
        /\ \A i \in 1..Len(ms) - h : q[i] = Bytes(h + i, ms[h + i])
    BY <1>1, <1>4, RestSeq
  <2>2. Len(ms) - h = Len(ls) + 1 - h
    BY <1>1
  <2> QED
    BY <2>1, <2>2
<1> HIDE DEF r, q
<1>6. /\ Append(r, b) \in Seq(Seq(Byte)) /\ Len(Append(r, b)) = Len(r) + 1
      /\ \A i \in 1..Len(r) : Append(r, b)[i] = r[i]
      /\ Append(r, b)[Len(r) + 1] = b
  BY <1>2, <1>3, AppendProperties
<1>7. ASSUME NEW i \in 1..Len(q) PROVE q[i] = Append(r, b)[i]
  <2>1. CASE i \in 1..Len(ls) - h
    <3>1. i \in 1..Len(ls) + 1 - h /\ h + i \in 1..Len(ls)
      BY <1>1, <2>1
    <3> QED
      BY <1>1, <1>3, <1>5, <1>6, <2>1, <3>1
  <2>2. CASE i = Len(ls) + 1 - h
    <3>1. i \in 1..Len(ls) + 1 - h /\ h + i = Len(ls) + 1 /\ Len(r) + 1 = i
      BY <1>1, <1>3, <2>2
    <3>2. q[i] = Bytes(Len(ls) + 1, n)
      BY <1>1, <1>5, <3>1
    <3> QED
      BY <1>6, <3>1, <3>2
  <2>3. i \in 1..Len(ls) + 1 - h /\ Len(ls) \in Nat
    BY <1>1, <1>5
  <2>4. i \in 1..Len(ls) - h \/ i = Len(ls) + 1 - h
    BY <2>3
  <2> QED
    BY <2>1, <2>2, <2>4
<1>8. Len(q) = Len(Append(r, b))
  BY <1>1, <1>3, <1>5, <1>6
<1>9. q = Append(r, b)
  BY <1>5, <1>6, <1>7, <1>8, SeqEqual
<1> QED
  BY <1>9 DEF q, r, ms

LEMMA RestAfterHandle ==
  ASSUME NEW ls \in Seq(Length), NEW h \in Nat, h < Len(ls)
  PROVE  /\ Rest(ls, h) # <<>> /\ Head(Rest(ls, h)) = Bytes(h + 1, ls[h + 1])
         /\ Tail(Rest(ls, h)) = Rest(ls, h + 1)
<1> DEFINE r == Rest(ls, h)
           q == Rest(ls, h + 1)
<1>1. Len(ls) \in Nat /\ h + 1 \in Nat /\ h + 1 <= Len(ls) /\ h <= Len(ls)
  BY LenProperties
<1>2. /\ r \in Seq(Seq(Byte)) /\ Len(r) = Len(ls) - h
      /\ \A i \in 1..Len(ls) - h : r[i] = Bytes(h + i, ls[h + i])
  BY <1>1, RestSeq
<1>3. /\ q \in Seq(Seq(Byte)) /\ Len(q) = Len(ls) - (h + 1)
      /\ \A i \in 1..Len(ls) - (h + 1) : q[i] = Bytes(h + 1 + i, ls[h + 1 + i])
  BY <1>1, RestSeq
<1> HIDE DEF r, q
<1>4. r # <<>> /\ 1 \in 1..Len(ls) - h
  BY <1>1, <1>2, EmptySeq
<1>5. /\ Head(r) = r[1] /\ Tail(r) \in Seq(Seq(Byte)) /\ Len(Tail(r)) = Len(r) - 1
      /\ \A i \in 1..Len(Tail(r)) : Tail(r)[i] = r[i + 1]
  BY <1>2, <1>4, HeadTailProperties
<1>6. ASSUME NEW i \in 1..Len(Tail(r)) PROVE Tail(r)[i] = q[i]
  <2>0. i \in 1..Len(ls) - h - 1 /\ Len(ls) \in Nat
    BY <1>1, <1>2, <1>5
  <2>1. i + 1 \in 1..Len(ls) - h /\ i \in 1..Len(ls) - (h + 1) /\ h + (i + 1) = h + 1 + i
    BY <2>0
  <2>2. r[i + 1] = Bytes(h + (i + 1), ls[h + (i + 1)]) /\ q[i] = Bytes(h + 1 + i, ls[h + 1 + i])
    BY <1>2, <1>3, <2>1
  <2> QED
    BY <1>5, <2>1, <2>2
<1>7. Len(Tail(r)) = Len(q)
  BY <1>1, <1>2, <1>3, <1>5
<1>8. Tail(r) = q
  BY <1>3, <1>5, <1>6, <1>7, SeqEqual
<1>9. Head(r) = Bytes(h + 1, ls[h + 1])
  BY <1>2, <1>4, <1>5
<1> QED
  BY <1>4, <1>8, <1>9 DEF r, q

LEMMA HandledAtMost == RInv => Len(handled) \in Nat /\ Len(handled) <= Len(lengths)
<1> SUFFICES ASSUME RInv PROVE Len(handled) \in Nat /\ Len(handled) <= Len(lengths)
  OBVIOUS
<1>1. /\ Len(handled) \in Nat /\ Len(lengths) \in Nat /\ lengths \in Seq(Length)
      /\ buf \o wire \in Seq(Byte) /\ Len(buf \o wire) \in Nat
      /\ InStream(buf \o wire, lengths, Len(handled))
  <2>1. buf \o wire \in Seq(Byte)
    BY Joined DEF RInv
  <2> QED
    BY <2>1, LenProperties DEF RInv
<1>2. CASE Len(buf \o wire) = 0
  BY <1>1, <1>2 DEF InStream
<1>3. CASE Len(buf \o wire) > 0
  <2>1. Len(handled) + 1 \in 1..Len(lengths)
    BY <1>1, <1>3, StreamHandle
  <2> QED
    BY <1>1, <2>1
<1> QED
  BY <1>1, <1>2, <1>3

(* The steps of Reassembly are steps of the channel: Send is its Send, Handle its *)
(* Handle, and the others change nothing it knows.                               *)
LEMMA ChannelStep ==
  RInv /\ [Next]_vars => [Channel!Next]_<<Pending, handled>>
<1> SUFFICES ASSUME RInv, Next PROVE Channel!Next \/ UNCHANGED <<Pending, handled>>
  BY DEF vars, Pending, Whole
<1>1. /\ lengths \in Seq(Length) /\ Len(handled) \in Nat /\ Len(lengths) \in Nat
      /\ Len(handled) <= Len(lengths)
  BY HandledAtMost, LenProperties DEF RInv
<1>2. Pending = Rest(lengths, Len(handled)) /\ Pending' = Rest(lengths', Len(handled'))
  BY DEF Pending, Rest, Whole
<1>3. CASE Send
  <2>1. PICK n \in Length : lengths' = Append(lengths, n) /\ handled' = handled
    BY <1>3 DEF Send
  <2>2. Pending' = Append(Pending, Bytes(Len(lengths) + 1, n))
    BY <1>1, <1>2, <2>1, RestAfterSend
  <2>3. Len(lengths) + 1 \in 1..MaxMessages
    BY <1>1, <1>3, MaxMessagesAssumption DEF Send
  <2>4. Bytes(Len(lengths) + 1, n) \in Messages
    BY <2>3 DEF Messages
  <2>5. Channel!Send
    BY <2>1, <2>2, <2>4 DEF Channel!Send
  <2> QED
    BY <2>5 DEF Channel!Next
<1>4. CASE Handle
  <2>1. /\ Len(handled) + 1 \in 1..Len(lengths) /\ handled' = Append(handled, Whole(Len(handled) + 1))
        /\ Len(handled') = Len(handled) + 1 /\ lengths' = lengths
    BY <1>4, HandleKeeps DEF Handle
  <2>2. /\ Pending # <<>> /\ Head(Pending) = Whole(Len(handled) + 1)
        /\ Pending' = Tail(Pending)
    <3>1. Len(handled) < Len(lengths)
      BY <1>1, <2>1
    <3> QED
      BY <1>1, <1>2, <2>1, <3>1, RestAfterHandle DEF Whole
  <2> QED
    BY <2>1, <2>2 DEF Channel!Next, Channel!Handle
<1>5. CASE Recv \/ EndLoop
  BY <1>2, <1>5 DEF Recv, EndLoop
<1> QED
  BY <1>3, <1>4, <1>5 DEF Next

(* The receive path hands on whole messages, each once and in the order in which  *)
(* they were sent, however TCP cuts them: every step is one of MessageChannel or  *)
(* changes nothing there (ChannelSpec without its fairness).                     *)
THEOREM MessagesInOrder ==
  ConnSpec => Channel!Init /\ [][Channel!Next]_<<Pending, handled>>
<1>1. ConnInit => RInv
  BY InitRInv DEF ConnInit
<1>2. ConnInit => Channel!Init
  <2> SUFFICES ASSUME ConnInit PROVE Channel!Init
    OBVIOUS
  <2>1. lengths = <<>> /\ handled = <<>> /\ Len(<<>>) - Len(<<>>) = 0
    BY EmptySeq DEF ConnInit, Init
  <2>2. [i \in 1..Len(lengths) - Len(handled) |-> Whole(Len(handled) + i)] = <<>>
    BY <2>1
  <2> QED
    BY <2>1, <2>2 DEF Channel!Init, Pending
<1> QED
  BY <1>1, <1>2, NextRInv, StepOfReassembly, ChannelStep, PTL DEF ConnSpec

-------------------------------------------------------------------------------
(* Replies. A prefix of what has been gathered keeps its order. *)
Before(x, y) == \/ x[1] < y[1]
                \/ x[1] = y[1] /\ x[2] < y[2]
Sorted(s) == \A i, j \in 1..Len(s) : i < j => Before(s[i], s[j])
Starts(p, s) == Len(p) <= Len(s) /\ \A i \in 1..Len(p) : p[i] = s[i]

LEMMA StartsSubSeq ==
  ASSUME NEW s \in Seq(Byte), NEW k \in 0..Len(s)
  PROVE  /\ SubSeq(s, 1, k) \in Seq(Byte) /\ Len(SubSeq(s, 1, k)) = k
         /\ Starts(SubSeq(s, 1, k), s)
<1>1. Len(s) \in Nat /\ k \in Nat /\ k <= Len(s)
  BY LenProperties
<1>2. \A i \in 1..k : s[i] \in Byte
  BY <1>1, ElementOfSeq
<1>3. /\ SubSeq(s, 1, k) \in Seq(Byte)
      /\ Len(SubSeq(s, 1, k)) = IF 1 <= k THEN k - 1 + 1 ELSE 0
      /\ \A i \in 1..k - 1 + 1 : SubSeq(s, 1, k)[i] = s[1 + i - 1]
  BY <1>1, <1>2, SubSeqProperties
<1>4. Len(SubSeq(s, 1, k)) = k /\ \A i \in 1..k : SubSeq(s, 1, k)[i] = s[i]
  BY <1>1, <1>3
<1> QED
  BY <1>1, <1>3, <1>4 DEF Starts

LEMMA StartsJoined ==
  ASSUME NEW a \in Seq(Byte), NEW p \in Seq(Byte), NEW s \in Seq(Byte), Starts(p, s)
  PROVE  Starts(a \o p, a \o s)
<1>1. Len(a) \in Nat /\ Len(p) \in Nat /\ Len(s) \in Nat /\ Len(p) <= Len(s)
  BY LenProperties DEF Starts
<1>2. /\ Len(a \o p) = Len(a) + Len(p)
      /\ \A i \in 1..Len(a) + Len(p) : (a \o p)[i] = IF i <= Len(a) THEN a[i] ELSE p[i - Len(a)]
  BY ConcatProperties
<1>3. /\ Len(a \o s) = Len(a) + Len(s)
      /\ \A i \in 1..Len(a) + Len(s) : (a \o s)[i] = IF i <= Len(a) THEN a[i] ELSE s[i - Len(a)]
  BY ConcatProperties
<1>4. ASSUME NEW i \in 1..Len(a) + Len(p) PROVE (a \o p)[i] = (a \o s)[i]
  <2>1. i \in 1..Len(a) + Len(s)
    BY <1>1
  <2>2. CASE i <= Len(a)
    BY <1>2, <1>3, <2>1, <2>2
  <2>3. CASE ~(i <= Len(a))
    <3>1. i - Len(a) \in 1..Len(p)
      BY <1>1, <2>3
    <3>2. p[i - Len(a)] = s[i - Len(a)]
      BY <3>1 DEF Starts
    <3> QED
      BY <1>2, <1>3, <2>1, <2>3, <3>2
  <2> QED
    BY <2>2, <2>3
<1> QED
  BY <1>1, <1>2, <1>3, <1>4 DEF Starts

LEMMA StartsSorted ==
  ASSUME NEW p \in Seq(Byte), NEW s \in Seq(Byte), Starts(p, s), Sorted(s)
  PROVE  Sorted(p)
<1>1. Len(p) \in Nat /\ Len(s) \in Nat /\ Len(p) <= Len(s)
  BY LenProperties DEF Starts
<1>2. \A i \in 1..Len(p) : i \in 1..Len(s) /\ p[i] = s[i]
  BY <1>1 DEF Starts
<1> QED
  BY <1>2 DEF Sorted

(* A reply after everything that is older. *)
LEMMA SortedReply ==
  ASSUME NEW s \in Seq(Byte), Sorted(s), NEW m \in Nat, NEW n \in Nat,
         \A i \in 1..Len(s) : s[i][1] < m
  PROVE  /\ s \o Bytes(m, n) \in Seq(Byte) /\ Sorted(s \o Bytes(m, n))
         /\ Len(s \o Bytes(m, n)) = Len(s) + n
         /\ \A i \in 1..Len(s) + n : (s \o Bytes(m, n))[i][1] <= m
<1> DEFINE b == Bytes(m, n)
           r == s \o b
<1>1. b \in Seq(Byte) /\ Len(b) = n /\ \A k \in 1..n : b[k] = <<m, k>>
  BY BytesSeq
<1> HIDE DEF b
<1>2. /\ r \in Seq(Byte) /\ Len(r) = Len(s) + n /\ Len(s) \in Nat
      /\ \A i \in 1..Len(s) + n : r[i] = IF i <= Len(s) THEN s[i] ELSE b[i - Len(s)]
  BY <1>1, ConcatProperties, LenProperties
<1> HIDE DEF r
<1>3. \A i \in 1..Len(s) : r[i] = s[i] /\ s[i] \in Byte
  BY <1>2, ElementOfSeq
<1>4. ASSUME NEW i \in Len(s) + 1..Len(s) + n PROVE r[i] = <<m, i - Len(s)>>
  <2>1. i \in 1..Len(s) + n /\ ~(i <= Len(s)) /\ i - Len(s) \in 1..n
    BY <1>2
  <2> QED
    BY <1>1, <1>2, <2>1
<1>5. ASSUME NEW i \in 1..Len(r), NEW j \in 1..Len(r), i < j PROVE Before(r[i], r[j])
  <2>1. CASE j <= Len(s)
    <3>1. i \in 1..Len(s) /\ j \in 1..Len(s)
      BY <1>2, <1>5, <2>1
    <3> QED
      BY <1>3, <1>5, <3>1 DEF Sorted
  <2>2. CASE ~(j <= Len(s)) /\ i <= Len(s)
    <3>1. i \in 1..Len(s) /\ j \in Len(s) + 1..Len(s) + n
      BY <1>2, <2>2
    <3>2. r[i][1] < r[j][1]
      BY <1>3, <1>4, <3>1
    <3> QED
      BY <3>2 DEF Before
  <2>3. CASE ~(i <= Len(s))
    <3>1. /\ i \in Len(s) + 1..Len(s) + n /\ j \in Len(s) + 1..Len(s) + n
          /\ i - Len(s) < j - Len(s)
      BY <1>2, <1>5, <2>3
    <3> QED
      BY <1>4, <3>1 DEF Before
  <2> QED
    BY <2>1, <2>2, <2>3
<1>6. ASSUME NEW i \in 1..Len(s) + n PROVE r[i][1] <= m
  <2>1. CASE i <= Len(s)
    <3>1. i \in 1..Len(s) /\ s[i][1] < m /\ s[i] \in Byte
      BY <1>2, <1>3, <2>1
    <3>2. s[i][1] \in Nat
      BY <3>1 DEF Byte
    <3> QED
      BY <1>3, <3>1, <3>2
  <2>2. CASE ~(i <= Len(s))
    <3>1. i \in Len(s) + 1..Len(s) + n
      BY <1>2, <2>2
    <3> QED
      BY <1>4, <3>1
  <2> QED
    BY <2>1, <2>2
<1>7. Sorted(r)
  BY <1>5 DEF Sorted
<1> QED
  BY <1>2, <1>6, <1>7 DEF r, b


(* The task thread takes the oldest of the tasks, which are in the order of their *)
(* messages and later than everything outgoing.                                  *)
SInv ==
  /\ queue \in Seq(Nat \X ReplyLength)
  /\ given \in Seq(Byte) /\ sendBuf \in Seq(Byte) /\ sent \in Seq(Byte)
  /\ cut \in BOOLEAN /\ short \in BOOLEAN
  /\ Len(sendBuf) < SendSize
  /\ Sorted(Outgoing)
  /\ \A i \in 1..Len(Outgoing) : Outgoing[i][1] <= Len(handled)
  /\ \A i \in 1..Len(Outgoing) : \A j \in 1..Len(queue) : Outgoing[i][1] < queue[j][1]
  /\ \A i, j \in 1..Len(queue) : i < j => queue[i][1] < queue[j][1]
  /\ \A j \in 1..Len(queue) : queue[j][1] <= Len(handled)
  /\ LossNeedsCut

LEMMA InitSInv == ConnInit => SInv
<1> SUFFICES ASSUME ConnInit PROVE SInv
  OBVIOUS
<1>1. /\ queue = <<>> /\ given = <<>> /\ sendBuf = <<>> /\ sent = <<>> /\ cut = FALSE /\ short = FALSE
  BY DEF ConnInit
<1>2. Outgoing = <<>> /\ Len(<<>>) = 0 /\ \A S : <<>> \in Seq(S)
  <2>1. \A S : <<>> \in Seq(S)
    BY EmptySeq
  <2>2. <<>> \o <<>> = <<>>
    BY <2>1, ConcatEmptySeq
  <2> QED
    BY <1>1, <2>1, <2>2, EmptySeq DEF Outgoing
<1>3. Len(sendBuf) < SendSize /\ 1..Len(queue) = {} /\ 1..Len(Outgoing) = {}
  BY <1>1, <1>2, SendSizeAssumption
<1>4. Sorted(Outgoing) /\ LossNeedsCut
  BY <1>1, <1>2, <1>3 DEF Sorted, LossNeedsCut
<1>5. /\ queue \in Seq(Nat \X ReplyLength) /\ given \in Seq(Byte) /\ sendBuf \in Seq(Byte)
      /\ sent \in Seq(Byte)
  BY <1>1, <1>2
<1> QED
  BY <1>1, <1>3, <1>4, <1>5 DEF SInv

(* sendData(): what it adds to the outgoing bytes is the reply or the first part  *)
(* of it, and less than all of it only if that is recorded.                      *)
LEMMA SendData ==
  ASSUME SInv, NEW b \in Seq(Byte), Gather(b) \/ SendFull(b)
  PROVE  /\ sendBuf' \in Seq(Byte) /\ sent' \in Seq(Byte) /\ Len(sendBuf') < SendSize
         /\ cut' \in BOOLEAN /\ short' \in BOOLEAN
         /\ Outgoing \in Seq(Byte) /\ Outgoing' \in Seq(Byte)
         /\ Starts(Outgoing', Outgoing \o b)
         /\ ~cut' /\ ~short' => ~cut /\ ~short /\ Outgoing' = Outgoing \o b
<1>1. /\ sendBuf \in Seq(Byte) /\ sent \in Seq(Byte) /\ cut \in BOOLEAN /\ short \in BOOLEAN
      /\ Len(sendBuf) \in Nat /\ Len(b) \in Nat /\ Len(sendBuf) < SendSize /\ SendSize \in Nat \ {0}
  BY SendSizeAssumption, LenProperties DEF SInv
<1>2. /\ Outgoing \in Seq(Byte) /\ Outgoing \o b = sent \o (sendBuf \o b) /\ sendBuf \o b \in Seq(Byte)
      /\ Outgoing \o b \in Seq(Byte)
  BY <1>1, Joined DEF Outgoing
<1>3. Len(sendBuf \o b) = Len(sendBuf) + Len(b)
  BY <1>1, ConcatProperties
<1>4. CASE Gather(b)
  <2>1. /\ sendBuf' = sendBuf \o b /\ UNCHANGED <<sent, cut, short>>
        /\ Len(sendBuf) + Len(b) < SendSize
    BY <1>4 DEF Gather
  <2>2. Outgoing' = Outgoing \o b
    BY <1>2, <2>1 DEF Outgoing
  <2>3. Starts(Outgoing \o b, Outgoing \o b)
    BY <1>2, LenProperties DEF Starts
  <2> QED
    BY <1>1, <1>2, <1>3, <2>1, <2>2, <2>3
<1>5. CASE SendFull(b)
  <2> DEFINE room == SendSize - Len(sendBuf)
             c == SubSeq(b, 1, room)
             full == sendBuf \o c
  <2>1. /\ Len(sendBuf) + Len(b) >= SendSize /\ sendBuf' = <<>>
        /\ cut' = (cut \/ Len(sendBuf) + Len(b) > SendSize)
        /\ room \in 0..Len(b) /\ room \in Nat
    BY <1>1, <1>5 DEF SendFull
  <2>2. PICK k \in 0..SendSize : sent' = sent \o SubSeq(full, 1, k) /\ short' = (short \/ k < SendSize)
    <3>1. PICK k \in IF PartialSend THEN 0..SendSize ELSE {SendSize} :
            sent' = sent \o SubSeq(full, 1, k) /\ short' = (short \/ k < SendSize)
      BY <1>5 DEF SendFull
    <3>2. k \in 0..SendSize
      BY <1>1
    <3> QED
      BY <3>1, <3>2
  <2>3. c \in Seq(Byte) /\ Len(c) = room /\ Starts(c, b)
    BY <2>1, StartsSubSeq
  <2> HIDE DEF c
  <2>4. full \in Seq(Byte) /\ Len(full) = SendSize /\ Starts(full, sendBuf \o b)
    <3>1. full \in Seq(Byte) /\ Len(full) = Len(sendBuf) + Len(c)
      BY <1>1, <2>3, ConcatProperties
    <3>2. Starts(full, sendBuf \o b)
      BY <1>1, <2>3, StartsJoined
    <3> QED
      BY <1>1, <2>3, <3>1, <3>2
  <2> DEFINE e == SubSeq(full, 1, k)
  <2> HIDE DEF full
  <2>5. e \in Seq(Byte) /\ Len(e) = k /\ Starts(e, full)
    <3>1. k \in 0..Len(full)
      BY <2>4
    <3> QED
      BY <2>4, <3>1, StartsSubSeq
  <2> HIDE DEF e
  <2>6. Starts(e, sendBuf \o b)
    BY <2>4, <2>5, LenProperties DEF Starts
  <2>7. sent' = sent \o e /\ sent \o e \in Seq(Byte)
    BY <1>1, <2>2, <2>5, Joined DEF e
  <2>8. Outgoing' = sent \o e
    BY <2>1, <2>7, ConcatEmptySeq DEF Outgoing
  <2>9. Starts(sent \o e, sent \o (sendBuf \o b))
    BY <1>1, <1>2, <2>5, <2>6, StartsJoined
  <2>10. ASSUME ~cut', ~short' PROVE e = sendBuf \o b
    <3>1. k = SendSize /\ Len(sendBuf) + Len(b) = SendSize
      <4>1. ~(Len(sendBuf) + Len(b) > SendSize) /\ ~(k < SendSize)
        BY <2>1, <2>2, <2>10, Zenon
      <4> QED
        BY <1>1, <2>1, <2>2, <4>1
    <3>2. Len(e) = Len(sendBuf \o b)
      BY <1>3, <2>5, <3>1
    <3> QED
      BY <1>2, <2>5, <2>6, <3>2, SeqEqual DEF Starts
  <2>11. Len(sendBuf') < SendSize /\ sendBuf' \in Seq(Byte)
    BY <1>1, <2>1, EmptySeq
  <2>12. cut' \in BOOLEAN /\ short' \in BOOLEAN /\ (~cut' /\ ~short' => ~cut /\ ~short)
    BY <1>1, <2>1, <2>2
  <2> QED
    BY <1>2, <2>7, <2>8, <2>9, <2>10, <2>11, <2>12
<1> QED
  BY <1>4, <1>5


(* The head of the queue is the reply that is next in order. *)
LEMMA DoTaskKeeps == ASSUME RInv, SInv, DoTask PROVE SInv'
<1> DEFINE m == queue[1][1]
           n == queue[1][2]
           b == Bytes(m, n)
           full == Outgoing \o b
<1>1. /\ queue # <<>> /\ queue \in Seq(Nat \X ReplyLength)
      /\ given' = given \o b /\ (Gather(b) \/ SendFull(b))
      /\ queue' = Tail(queue) /\ handled' = handled
  BY DEF DoTask, SInv, vars
<1>2. /\ Len(queue) \in Nat /\ 1 \in 1..Len(queue) /\ queue' \in Seq(Nat \X ReplyLength)
      /\ Len(queue') = Len(queue) - 1
      /\ \A j \in 1..Len(queue') : j + 1 \in 1..Len(queue) /\ queue'[j] = queue[j + 1]
  <2>1. Len(queue) \in Nat /\ Len(queue) # 0
    BY <1>1, EmptySeq, LenProperties
  <2>2. /\ Tail(queue) \in Seq(Nat \X ReplyLength) /\ Len(Tail(queue)) = Len(queue) - 1
        /\ \A j \in 1..Len(Tail(queue)) : Tail(queue)[j] = queue[j + 1]
    BY <1>1, HeadTailProperties
  <2> QED
    BY <1>1, <2>1, <2>2
<1>3. m \in Nat /\ n \in Nat
  <2>1. queue[1] \in Nat \X ReplyLength
    BY <1>1, <1>2, ElementOfSeq
  <2>2. ReplyLength \subseteq Nat
    BY ReplyLengthAssumption, SendSizeAssumption
  <2> QED
    BY <2>1, <2>2
<1>4. /\ \A i \in 1..Len(Outgoing) : Outgoing[i][1] < m
      /\ m <= Len(handled)
      /\ \A j \in 1..Len(queue') : m < queue'[j][1] /\ queue'[j][1] <= Len(handled)
      /\ \A i, j \in 1..Len(queue') : i < j => queue'[i][1] < queue'[j][1]
  <2>1. \A i \in 1..Len(Outgoing) : Outgoing[i][1] < m
    BY <1>2 DEF SInv
  <2>2. m <= Len(handled)
    BY <1>2 DEF SInv
  <2>3. ASSUME NEW j \in 1..Len(queue') PROVE m < queue'[j][1] /\ queue'[j][1] <= Len(handled)
    <3>1. j + 1 \in 1..Len(queue) /\ 1 < j + 1 /\ queue'[j] = queue[j + 1]
      BY <1>2
    <3> QED
      BY <1>2, <3>1 DEF SInv
  <2>4. ASSUME NEW i \in 1..Len(queue'), NEW j \in 1..Len(queue'), i < j
        PROVE  queue'[i][1] < queue'[j][1]
    <3>1. i + 1 < j + 1
      BY <2>4
    <3> QED
      BY <1>2, <3>1 DEF SInv
  <2> QED
    BY <2>1, <2>2, <2>3, <2>4
<1> HIDE DEF m, n
<1>5. b \in Seq(Byte)
  BY <1>3, BytesSeq
<1>6. Outgoing \in Seq(Byte) /\ Sorted(Outgoing)
  BY Joined DEF SInv, Outgoing
<1>7. /\ full \in Seq(Byte) /\ Sorted(full) /\ Len(full) = Len(Outgoing) + n
      /\ \A i \in 1..Len(Outgoing) + n : full[i][1] <= m
  BY <1>3, <1>4, <1>6, SortedReply
<1> HIDE DEF b
<1>8. /\ sendBuf' \in Seq(Byte) /\ sent' \in Seq(Byte) /\ Len(sendBuf') < SendSize
      /\ cut' \in BOOLEAN /\ short' \in BOOLEAN /\ Outgoing' \in Seq(Byte)
      /\ Starts(Outgoing', full)
      /\ ~cut' /\ ~short' => ~cut /\ ~short /\ Outgoing' = full
  BY <1>1, <1>5, SendData
<1> HIDE DEF full
<1>9. Sorted(Outgoing')
  BY <1>7, <1>8, StartsSorted
<1>10. ASSUME NEW i \in 1..Len(Outgoing') PROVE Outgoing'[i][1] <= m /\ Outgoing'[i][1] \in Nat
  <2>1. /\ Len(Outgoing') \in Nat /\ Len(full) \in Nat /\ Len(Outgoing') <= Len(full)
        /\ Outgoing'[i] = full[i]
    BY <1>7, <1>8, LenProperties DEF Starts
  <2>2. i \in 1..Len(full)
    BY <2>1
  <2>3. full[i] \in Byte
    BY <1>7, <2>2, ElementOfSeq
  <2> QED
    BY <1>7, <2>1, <2>2, <2>3 DEF Byte
<1>11. given' \in Seq(Byte) /\ LossNeedsCut'
  <2>0. given \in Seq(Byte) /\ given' = given \o b
    BY <1>1 DEF SInv
  <2>1. given' \in Seq(Byte)
    BY <1>5, <2>0, Joined
  <2>2. ASSUME ~cut', ~short' PROVE Outgoing' = given'
    <3>1. Outgoing' = full /\ ~cut /\ ~short
      BY <1>8, <2>2
    <3>2. Outgoing = given
      BY <3>1 DEF SInv, LossNeedsCut
    <3> QED
      BY <2>0, <3>1, <3>2 DEF full
  <2> QED
    BY <2>1, <2>2 DEF LossNeedsCut
<1>12. Len(handled) \in Nat
  BY LenProperties DEF RInv
<1>13. \A j \in 1..Len(queue') : queue'[j][1] \in Nat
  <2>1. \A j \in 1..Len(queue') : queue'[j] \in Nat \X ReplyLength
    BY <1>2, ElementOfSeq
  <2> QED
    BY <2>1
<1>14. \A i \in 1..Len(Outgoing') : Outgoing'[i][1] <= Len(handled')
  BY <1>1, <1>3, <1>4, <1>10, <1>12
<1>15. \A i \in 1..Len(Outgoing') : \A j \in 1..Len(queue') : Outgoing'[i][1] < queue'[j][1]
  BY <1>3, <1>4, <1>10, <1>13
<1> QED
  BY <1>1, <1>2, <1>4, <1>8, <1>9, <1>11, <1>14, <1>15 DEF SInv

(* A message that is answered is later than everything queued or outgoing. *)
LEMMA AnswerKeeps == ASSUME RInv, SInv, Answer PROVE SInv'
<1>1. /\ Len(handled') = Len(handled) + 1 /\ Len(handled) \in Nat
  BY HandleKeeps, LenProperties DEF Answer, RInv
<1>2. PICK n \in ReplyLength : queue' = Append(queue, <<Len(handled'), n>>)
  BY DEF Answer
<1>3. UNCHANGED <<given, sendBuf, sent, cut, short>>
  BY DEF Answer
<1>4. Outgoing' = Outgoing /\ LossNeedsCut'
  BY <1>3 DEF SInv, LossNeedsCut, Outgoing
<1>5. /\ queue \in Seq(Nat \X ReplyLength) /\ Len(queue) \in Nat
      /\ <<Len(handled'), n>> \in Nat \X ReplyLength
  BY <1>1, LenProperties DEF SInv
<1>6. /\ queue' \in Seq(Nat \X ReplyLength) /\ Len(queue') = Len(queue) + 1
      /\ \A j \in 1..Len(queue) : queue'[j] = queue[j]
      /\ queue'[Len(queue) + 1] = <<Len(handled) + 1, n>>
  BY <1>1, <1>2, <1>5, AppendProperties
<1>7. \A j \in 1..Len(queue') : j \in 1..Len(queue) \/ j = Len(queue) + 1
  BY <1>5, <1>6
<1>8. \A j \in 1..Len(queue) : queue[j][1] \in Nat
  <2>1. \A j \in 1..Len(queue) : queue[j] \in Nat \X ReplyLength
    BY <1>5, ElementOfSeq
  <2> QED
    BY <2>1
<1>9. \A i \in 1..Len(Outgoing) : Outgoing[i][1] \in Nat
  <2>1. Outgoing \in Seq(Byte)
    BY Joined DEF SInv, Outgoing
  <2> QED
    BY <2>1, ElementOfSeq DEF Byte
<1>10. \A j \in 1..Len(queue') : queue'[j][1] <= Len(handled')
  <2> SUFFICES ASSUME NEW j \in 1..Len(queue') PROVE queue'[j][1] <= Len(handled')
    OBVIOUS
  <2>1. CASE j \in 1..Len(queue)
    <3>1. queue[j][1] <= Len(handled) /\ queue[j][1] \in Nat /\ queue'[j] = queue[j]
      BY <1>6, <1>8, <2>1 DEF SInv
    <3> QED
      BY <1>1, <3>1
  <2>2. CASE j = Len(queue) + 1
    BY <1>1, <1>6, <2>2
  <2> QED
    BY <1>7, <2>1, <2>2
<1>11. \A i, j \in 1..Len(queue') : i < j => queue'[i][1] < queue'[j][1]
  <2> SUFFICES ASSUME NEW i \in 1..Len(queue'), NEW j \in 1..Len(queue'), i < j
               PROVE  queue'[i][1] < queue'[j][1]
    OBVIOUS
  <2>1. i \in 1..Len(queue)
    BY <1>5, <1>6
  <2>2. CASE j \in 1..Len(queue)
    BY <1>6, <2>1, <2>2 DEF SInv
  <2>3. CASE j = Len(queue) + 1
    <3>1. queue[i][1] <= Len(handled) /\ queue[i][1] \in Nat
      BY <1>8, <2>1 DEF SInv
    <3> QED
      BY <1>1, <1>6, <2>1, <2>3, <3>1
  <2> QED
    BY <1>7, <2>2, <2>3
<1>12. \A i \in 1..Len(Outgoing) : \A j \in 1..Len(queue') : Outgoing[i][1] < queue'[j][1]
  <2> SUFFICES ASSUME NEW i \in 1..Len(Outgoing), NEW j \in 1..Len(queue')
               PROVE  Outgoing[i][1] < queue'[j][1]
    OBVIOUS
  <2>1. CASE j \in 1..Len(queue)
    BY <1>6, <2>1 DEF SInv
  <2>2. CASE j = Len(queue) + 1
    <3>1. Outgoing[i][1] <= Len(handled) /\ Outgoing[i][1] \in Nat
      BY <1>9 DEF SInv
    <3> QED
      BY <1>1, <1>6, <2>2, <3>1
  <2> QED
    BY <1>7, <2>1, <2>2
<1>13. \A i \in 1..Len(Outgoing) : Outgoing[i][1] <= Len(handled')
  <2> SUFFICES ASSUME NEW i \in 1..Len(Outgoing) PROVE Outgoing[i][1] <= Len(handled')
    OBVIOUS
  <2>1. Outgoing[i][1] <= Len(handled) /\ Outgoing[i][1] \in Nat
    BY <1>9 DEF SInv
  <2> QED
    BY <1>1, <2>1
<1> QED
  BY <1>3, <1>4, <1>6, <1>10, <1>11, <1>12, <1>13 DEF SInv

LEMMA NextSInv == RInv /\ SInv /\ [ConnNext]_connAll => SInv'
<1> SUFFICES ASSUME RInv, SInv, [ConnNext]_connAll PROVE SInv'
  OBVIOUS
<1>1. ASSUME UNCHANGED replyVars, Len(handled') = Len(handled) \/ Len(handled') = Len(handled) + 1
      PROVE  SInv'
  <2>1. Outgoing' = Outgoing /\ LossNeedsCut'
    BY <1>1 DEF replyVars, SInv, Outgoing, LossNeedsCut
  <2>2. Outgoing \in Seq(Byte) /\ Len(handled) \in Nat /\ queue \in Seq(Nat \X ReplyLength)
    BY Joined, LenProperties DEF RInv, SInv, Outgoing
  <2>3. \A i \in 1..Len(Outgoing) : Outgoing[i][1] \in Nat /\ Outgoing[i][1] <= Len(handled)
    BY <2>2, ElementOfSeq DEF Byte, SInv
  <2>4. \A j \in 1..Len(queue) : queue[j][1] \in Nat /\ queue[j][1] <= Len(handled)
    <3>1. \A j \in 1..Len(queue) : queue[j] \in Nat \X ReplyLength
      BY <2>2, ElementOfSeq
    <3> QED
      BY <3>1 DEF SInv
  <2>5. /\ \A i \in 1..Len(Outgoing) : Outgoing[i][1] <= Len(handled')
        /\ \A j \in 1..Len(queue) : queue[j][1] <= Len(handled')
    BY <1>1, <2>2, <2>3, <2>4
  <2> QED
    BY <1>1, <2>1, <2>5 DEF SInv, replyVars
<1>2. CASE UnknownCommand
  BY <1>1, <1>2, HandleKeeps DEF UnknownCommand
<1>3. CASE PeerSend \/ PeerClose \/ RecvSome \/ RecvEnd \/ LoopEnds \/ UNCHANGED connAll
  BY <1>1, <1>3 DEF PeerSend, PeerClose, RecvSome, RecvEnd, LoopEnds, connAll, connVars, replyVars,
                   vars, Send, Recv, EndLoop
<1> QED
  BY <1>2, <1>3, AnswerKeeps, DoTaskKeeps DEF ConnNext, Worker

(* Reply bytes leave in the order of the requests, and none twice, whatever the   *)
(* end of the buffer cuts and send() leaves, for every size and length.           *)
THEOREM RepliesKeepOrder == ConnSpec => []RepliesInOrder
<1>1. SInv => RepliesInOrder
  BY DEF SInv, Sorted, Before, RepliesInOrder
<1>2. ConnInit => RInv
  BY InitRInv DEF ConnInit
<1> QED
  BY <1>1, <1>2, NextRInv, StepOfReassembly, InitSInv, NextSInv, PTL DEF ConnSpec

(* No byte of a reply is lost unless the end of the buffer cuts one or send()     *)
(* takes less than it was given, for every size and length.                      *)
THEOREM LossHasTwoCauses == ConnSpec => []LossNeedsCut
<1>1. SInv => LossNeedsCut
  BY DEF SInv
<1>2. ConnInit => RInv
  BY InitRInv DEF ConnInit
<1> QED
  BY <1>1, <1>2, NextRInv, StepOfReassembly, InitSInv, NextSInv, PTL DEF ConnSpec

=================================================================================
