------------------------- MODULE FrameStreamProofs -------------------------
(***************************************************************************)
(* Proofs about FrameStream, for any number and size of frames, any buffer *)
(* and any way in which the stream is cut: what recv_frame returns are the *)
(* frames that were sent, in order and unchanged, and a clean close is     *)
(* reported only between two frames or behind a header.                    *)
(***************************************************************************)
EXTENDS FrameStream, Integers, TLAPS

-----------------------------------------------------------------------------
(* A frame as a sequence of cells.                                         *)

\* What the checksum of a message covers.
Covered(m) == write_header(m) \o m.payload

\* The bytes of a frame.
Size(m) == kFrameOverheadBytes + Len(m.payload)

\* w is s and then t.
Joins(w, s, t) ==
  /\ Len(w) = Len(s) + Len(t)
  /\ \A k \in 1..Len(s) : w[k] = s[k]
  /\ \A k \in 1..Len(t) : w[Len(s) + k] = t[k]

\* The cells of two sequences that are joined.
LEMMA Joined ==
  ASSUME NEW S, NEW s \in Seq(S), NEW t \in Seq(S)
  PROVE  s \o t \in Seq(S) /\ Joins(s \o t, s, t)
BY DEF Joins

\* w is the n cells of s behind the first a.
Parts(w, s, a, n) == Len(w) = n /\ \A k \in 1..n : w[k] = s[a + k]

\* The cells of a part of a sequence.
LEMMA Part ==
  ASSUME NEW S, NEW s \in Seq(S), NEW a \in Nat, NEW b \in Nat, NEW n \in Nat,
         b = a + n, b <= Len(s)
  PROVE  SubSeq(s, a + 1, b) \in Seq(S) /\ Parts(SubSeq(s, a + 1, b), s, a, n)
BY DEF Parts

\* A message is a type and a payload of equal cells.
LEMMA MessageShape ==
  ASSUME NEW m \in Messages
  PROVE  /\ m = [type |-> m.type, payload |-> m.payload]
         /\ m.type \in Types
         /\ Len(m.payload) \in 0..MaxSentPayload \cup {0}
         /\ m.payload \in Seq({<<"payload", "a">>})
         /\ \A k \in 1..Len(m.payload) : m.payload[k] = <<"payload", "a">>
<1>1. CASE m = [type |-> "Bye", payload |-> <<>>]
  BY <1>1, StreamAssumption
<1>2. ASSUME NEW t \in Types \ {"Bye"}, NEW n \in 0..MaxSentPayload,
             m = [type |-> t, payload |-> [i \in 1..n |-> <<"payload", "a">>]]
      PROVE  /\ m = [type |-> m.type, payload |-> m.payload]
             /\ m.type \in Types
             /\ Len(m.payload) \in 0..MaxSentPayload
             /\ m.payload \in Seq({<<"payload", "a">>})
             /\ \A k \in 1..Len(m.payload) : m.payload[k] = <<"payload", "a">>
  <2> DEFINE y == <<"payload", "a">>
             z == [i \in 1..n |-> y]
  <2>1. n \in Nat
    BY StreamAssumption
  <2>2. m.payload = z /\ m.type = t
    BY <1>2
  <2> HIDE DEF y
  <2>3. z \in Seq({y}) /\ Len(z) = n /\ \A k \in 1..n : z[k] = y
    BY <2>1
  <2> HIDE DEF z
  <2> QED BY <1>2, <2>2, <2>3 DEF y
<1> QED BY <1>1, <1>2 DEF Messages

\* encode_frame, cell by cell.
LEMMA EncodeShape ==
  ASSUME NEW m \in Messages
  PROVE  /\ Len(m.payload) \in Nat
         /\ Len(encode_frame(m)) = Size(m)
         /\ Len(Covered(m)) = kFrameHeaderBytes + Len(m.payload)
         /\ \A k \in 1..kFrameHeaderBytes + Len(m.payload) : encode_frame(m)[k] = Covered(m)[k]
         /\ Covered(m)[1] = <<"magic", "CFR1">> /\ Covered(m)[2] = <<"version", "current">>
         /\ Covered(m)[3] = <<"type", m.type>> /\ Covered(m)[4] = <<"flags", 0>>
         /\ Covered(m)[5] = <<"length", Len(m.payload)>>
         /\ \A k \in kFrameHeaderBytes + 1..kFrameHeaderBytes + Len(m.payload) :
              Covered(m)[k] = <<"payload", "a">>
         /\ encode_frame(m)[kFrameHeaderBytes + Len(m.payload) + 1] = <<"crc", 1, Covered(m)>>
         /\ encode_frame(m)[kFrameHeaderBytes + Len(m.payload) + 2] = <<"crc", 2, Covered(m)>>
<1> DEFINE n == Len(m.payload)
           y == <<"payload", "a">>
           h == write_header(m)
           X == {h[i] : i \in 1..5} \cup {y}
           u == <<"crc", 1, Covered(m)>>
           v == <<"crc", 2, Covered(m)>>
           Z == X \cup {u, v}
<1>1. n \in Nat /\ m.payload \in Seq({y}) /\ \A k \in 1..n : m.payload[k] = y
  BY MessageShape, StreamAssumption
<1>2. /\ Len(h) = 5 /\ h[1] = <<"magic", "CFR1">> /\ h[2] = <<"version", "current">>
      /\ h[3] = <<"type", m.type>> /\ h[4] = <<"flags", 0>> /\ h[5] = <<"length", n>>
  BY DEF write_header
<1>3. h \in Seq(X)
  BY DEF write_header
<1> HIDE DEF h, y
<1>4. m.payload \in Seq(X)
  BY <1>1
<1>c. Covered(m) = h \o m.payload
  BY DEF Covered, h
<1> HIDE DEF X
<1>5. /\ Len(Covered(m)) = 5 + n /\ Covered(m) \in Seq(X)
      /\ \A k \in 1..5 : Covered(m)[k] = h[k]
      /\ \A k \in 1..n : Covered(m)[5 + k] = m.payload[k]
  <2>1. Covered(m) \in Seq(X) /\ Joins(Covered(m), h, m.payload)
    BY <1>3, <1>4, <1>c, Joined, Zenon
  <2>2. Len(h) = 5
    BY <1>2
  <2> QED BY <2>1, <2>2, Zenon DEF Joins
<1> HIDE DEF n
<1>6. encode_frame(m) = Covered(m) \o <<u, v>>
  BY DEF encode_frame, crc32c, Covered
<1>7. Covered(m) \in Seq(Z) /\ <<u, v>> \in Seq(Z)
  BY <1>5
<1> HIDE DEF u, v, Z
<1>8. /\ Len(encode_frame(m)) = 7 + n
      /\ \A k \in 1..5 + n : encode_frame(m)[k] = Covered(m)[k]
      /\ encode_frame(m)[5 + n + 1] = u /\ encode_frame(m)[5 + n + 2] = v
  BY <1>1, <1>5, <1>6, <1>7
<1>9. \A k \in 5 + 1..5 + n : Covered(m)[k] = y
  <2> SUFFICES ASSUME NEW k \in 5 + 1..5 + n PROVE Covered(m)[k] = y
    OBVIOUS
  <2>1. k - 5 \in 1..n /\ 5 + (k - 5) = k
    BY <1>1
  <2>2. Covered(m)[5 + (k - 5)] = y
    BY <1>1, <1>5, <2>1, Zenon
  <2> QED BY <2>1, <2>2
<1>10. /\ Covered(m)[1] = h[1] /\ Covered(m)[2] = h[2] /\ Covered(m)[3] = h[3]
       /\ Covered(m)[4] = h[4] /\ Covered(m)[5] = h[5]
  BY <1>5
<1>11. Len(encode_frame(m)) = Size(m)
  BY <1>8 DEF n, Size, kFrameOverheadBytes, kFrameHeaderBytes, kFrameTrailerBytes
<1> QED BY <1>1, <1>2, <1>5, <1>8, <1>9, <1>10, <1>11, Zenon DEF n, y, u, v, kFrameHeaderBytes

\* The cells that are sent, and all that a receiver may meet.
GenuineCells ==
  {<<"magic", "CFR1">>, <<"version", "current">>, <<"flags", 0>>, <<"payload", "a">>}
  \cup {<<"type", t>> : t \in Types} \cup {<<"length", n>> : n \in Nat}
  \cup {<<"crc", i, Covered(m)>> : i \in {1, 2}, m \in Messages}

Cells == GenuineCells \cup UNION {OtherValues(cell) : cell \in GenuineCells}

\* The genuine cells, one kind after the other.
LEMMA GenuineKinds ==
  /\ \A cell \in GenuineCells :
       \/ cell \in {<<"magic", "CFR1">>, <<"version", "current">>, <<"payload", "a">>}
       \/ cell = <<"flags", 0>>
       \/ \E t \in Types : cell = <<"type", t>>
       \/ \E n \in Nat : cell = <<"length", n>>
       \/ \E i \in {1, 2}, m \in Messages : cell = <<"crc", i, Covered(m)>>
  /\ <<"magic", "CFR1">> \in GenuineCells /\ <<"version", "current">> \in GenuineCells
  /\ <<"payload", "a">> \in GenuineCells /\ <<"flags", 0>> \in GenuineCells
  /\ \A t \in Types : <<"type", t>> \in GenuineCells
  /\ \A n \in Nat : <<"length", n>> \in GenuineCells
  /\ \A m \in Messages : <<"crc", 1, Covered(m)>> \in GenuineCells /\ <<"crc", 2, Covered(m)>> \in GenuineCells
BY DEF GenuineCells

\* A frame is made of genuine cells.
LEMMA FrameCells ==
  ASSUME NEW m \in Messages, NEW k \in 1..Size(m)
  PROVE  encode_frame(m)[k] \in GenuineCells
<1> DEFINE n == Len(m.payload)
<1>1. n \in Nat /\ m.type \in Types /\ k \in 1..7 + n
  BY MessageShape, EncodeShape DEF Size, kFrameOverheadBytes, kFrameHeaderBytes, kFrameTrailerBytes
<1>2. k \in 1..5 \/ k \in 5 + 1..5 + n \/ k = 5 + n + 1 \/ k = 5 + n + 2
  BY <1>1
<1>3. CASE k \in 1..5
  <2>1. encode_frame(m)[k] = Covered(m)[k]
    <3>1. k \in 1..5 + n
      BY <1>1, <1>3
    <3> QED BY <3>1, EncodeShape, Zenon DEF kFrameHeaderBytes
  <2>2. k = 1 \/ k = 2 \/ k = 3 \/ k = 4 \/ k = 5
    BY <1>3
  <2>3. /\ Covered(m)[1] = <<"magic", "CFR1">> /\ Covered(m)[2] = <<"version", "current">>
        /\ Covered(m)[3] = <<"type", m.type>> /\ Covered(m)[4] = <<"flags", 0>>
        /\ Covered(m)[5] = <<"length", n>>
    BY EncodeShape, Zenon
  <2> QED BY <1>1, <2>1, <2>2, <2>3, GenuineKinds, Zenon
<1>4. CASE k \in 5 + 1..5 + n
  <2>1. k \in 1..5 + n
    BY <1>1, <1>4
  <2>2. encode_frame(m)[k] = Covered(m)[k]
    BY <2>1, EncodeShape, Zenon DEF kFrameHeaderBytes
  <2>3. Covered(m)[k] = <<"payload", "a">>
    BY <1>4, EncodeShape, Zenon DEF kFrameHeaderBytes
  <2> QED BY <2>2, <2>3, GenuineKinds, Zenon
<1>5. CASE k = 5 + n + 1 \/ k = 5 + n + 2
  <2>1. /\ encode_frame(m)[5 + n + 1] = <<"crc", 1, Covered(m)>>
        /\ encode_frame(m)[5 + n + 2] = <<"crc", 2, Covered(m)>>
    BY EncodeShape, Zenon DEF kFrameHeaderBytes
  <2> QED BY <1>5, <2>1, GenuineKinds, Zenon
<1> QED BY <1>2, <1>3, <1>4, <1>5

\* A damaged cell is another one in the same place of a frame.
Tampered(v, cell) ==
  /\ v # cell /\ v[1] = cell[1]
  /\ cell[1] = "length" => v[2] \in Nat
  /\ cell[1] = "crc" => v[3] = <<>>

\* The sequence that a checksum is made of.
LEMMA CoveredLength ==
  ASSUME NEW m \in Messages
  PROVE  Len(Covered(m)) > 0 /\ Covered(m) # <<>>
<1>1. Len(m.payload) \in Nat /\ Len(Covered(m)) = kFrameHeaderBytes + Len(m.payload)
  BY EncodeShape, Zenon
<1> QED BY <1>1 DEF kFrameHeaderBytes

\* Damage changes a cell and leaves its kind.
LEMMA DamageTampers ==
  ASSUME NEW cell \in GenuineCells, NEW v \in OtherValues(cell)
  PROVE  Tampered(v, cell)
<1>1. CASE cell \in {<<"magic", "CFR1">>, <<"version", "current">>, <<"payload", "a">>}
  BY <1>1 DEF OtherValues, Tampered
<1>2. CASE cell = <<"flags", 0>>
  BY <1>2 DEF OtherValues, Tampered
<1>3. ASSUME NEW t \in Types, cell = <<"type", t>> PROVE Tampered(v, cell)
  BY <1>3 DEF OtherValues, Tampered
<1>4. ASSUME NEW n \in Nat, cell = <<"length", n>> PROVE Tampered(v, cell)
  <2>1. v \in {<<"length", l>> : l \in 0..MaxSentPayload} /\ v # cell
    BY <1>4 DEF OtherValues
  <2> QED BY <1>4, <2>1, StreamAssumption DEF Tampered
<1>5. ASSUME NEW i \in {1, 2}, NEW m \in Messages, cell = <<"crc", i, Covered(m)>>
      PROVE  Tampered(v, cell)
  <2>1. v = <<"crc", i, <<>> >>
    BY <1>5 DEF OtherValues
  <2> QED BY <1>5, <2>1, CoveredLength DEF Tampered
<1> QED BY <1>1, <1>2, <1>3, <1>4, <1>5, GenuineKinds, Zenon

\* A cell as it was sent or, where it was hit, as damage may leave it.
Alike(v, cell, hit) == IF hit THEN v \in OtherValues(cell) ELSE v = cell

\* A cell keeps its kind.
LEMMA AlikeKind ==
  ASSUME NEW cell \in GenuineCells, NEW v, NEW hit \in BOOLEAN, Alike(v, cell, hit)
  PROVE  v[1] = cell[1] /\ v \in Cells /\ (~hit => v = cell)
<1>1. CASE hit
  BY <1>1, DamageTampers, Zenon DEF Alike, Tampered, Cells
<1>2. CASE ~hit
  BY <1>2, Zenon DEF Alike, Cells
<1> QED BY <1>1, <1>2

\* A checksum among the cells is that of a message, or is damaged.
LEMMA ChecksumCells ==
  ASSUME NEW i, NEW x, <<"crc", i, x>> \in Cells, x # <<>>
  PROVE  \E m \in Messages : x = Covered(m)
<1> DEFINE v == <<"crc", i, x>>
<1>1. v[1] = "crc" /\ v[3] = x
  OBVIOUS
<1>2. v \in GenuineCells \/ \E cell \in GenuineCells : v \in OtherValues(cell)
  BY DEF Cells
<1> HIDE DEF v
<1>3. ASSUME NEW cell \in GenuineCells, cell[1] = "crc"
      PROVE  \E m \in Messages : cell[3] = Covered(m)
  BY <1>3, GenuineKinds
<1>4. CASE v \in GenuineCells
  BY <1>1, <1>3, <1>4, Zenon
<1>5. ASSUME NEW cell \in GenuineCells, v \in OtherValues(cell) PROVE FALSE
  BY <1>1, <1>5, DamageTampers, Zenon DEF Tampered
<1> QED BY <1>2, <1>4, <1>5, Zenon

\* What the comparison of a checksum says.
LEMMA ChecksumRead ==
  ASSUME NEW S, NEW bytes \in Seq(S), NEW n \in Nat, payload_length(bytes) = n,
         Len(bytes) = 7 + n, checksum_holds(bytes)
  PROVE  LET x == SubSeq(bytes, 1, 5 + n)
         IN  /\ Len(x) = 5 + n /\ x # <<>>
             /\ \A k \in 1..5 + n : x[k] = bytes[k]
             /\ bytes[5 + n + 1] = <<"crc", 1, x>>
             /\ bytes[5 + n + 2] = <<"crc", 2, x>>
<1> DEFINE x == SubSeq(bytes, 1, 5 + n)
           y == SubSeq(bytes, 5 + n + 1, 7 + n)
           u == <<"crc", 1, x>>
           v == <<"crc", 2, x>>
<1>1. Len(x) = 5 + n /\ x # <<>> /\ \A k \in 1..5 + n : x[k] = bytes[k]
  OBVIOUS
<1>2. y = <<u, v>>
  BY <1>1 DEF checksum_holds, crc32c, total, kFrameOverheadBytes, kFrameHeaderBytes, kFrameTrailerBytes
<1>3. y[1] = bytes[5 + n + 1] /\ y[2] = bytes[5 + n + 2]
  <2>1. 5 + n \in Nat /\ 7 + n \in Nat /\ 7 + n = 5 + n + 2 /\ 7 + n <= Len(bytes) /\ 2 \in Nat
    OBVIOUS
  <2>2. Parts(y, bytes, 5 + n, 2)
    BY <2>1, Part, Zenon
  <2> HIDE DEF y
  <2> QED BY <2>2 DEF Parts
<1> HIDE DEF x, y, u, v
<1>4. y[1] = u /\ y[2] = v
  BY <1>2
<1> QED BY <1>1, <1>3, <1>4, Zenon DEF x, u, v

(***************************************************************************)
(* What decode_frame accepts is the frame that was sent: a damaged type or *)
(* payload is not what the checksum was made of, a damaged length makes    *)
(* decode_frame look for a checksum where there is a payload, or take one  *)
(* for a payload.                                                          *)
(***************************************************************************)
LEMMA DecodedIsSent ==
  ASSUME NEW m \in Messages, NEW bytes \in Seq(Cells), NEW p \in Int,
         payload_length(bytes) \in Nat, Len(bytes) = total(bytes), decode_frame(bytes) = "Ok",
         \A k \in 1..Size(m) : k <= Len(bytes) => Alike(bytes[k], encode_frame(m)[k], k = p)
  PROVE  Len(bytes) = Size(m) /\ message_of(bytes) = m
<1> DEFINE n == Len(m.payload)
           l == payload_length(bytes)
           x == SubSeq(bytes, 1, 5 + l)
           e == encode_frame(m)
           z == Covered(m)
<1>1. n \in Nat /\ l \in Nat /\ Size(m) = 7 + n /\ Len(bytes) = 7 + l
  BY EncodeShape DEF Size, total, kFrameOverheadBytes, kFrameHeaderBytes, kFrameTrailerBytes
<1>2. checksum_holds(bytes)
  BY Zenon DEF decode_frame
<1>3. /\ Len(x) = 5 + l /\ x # <<>> /\ \A k \in 1..5 + l : x[k] = bytes[k]
      /\ bytes[5 + l + 1] = <<"crc", 1, x>> /\ bytes[5 + l + 2] = <<"crc", 2, x>>
  BY <1>1, <1>2, ChecksumRead, Zenon
<1>4. /\ Len(z) = 5 + n /\ \A k \in 1..5 + n : e[k] = z[k]
      /\ \A k \in 5 + 1..5 + n : z[k] = <<"payload", "a">>
      /\ e[5 + n + 1] = <<"crc", 1, z>> /\ e[5 + n + 2] = <<"crc", 2, z>>
      /\ z[3] = <<"type", m.type>>
  BY EncodeShape, Zenon DEF kFrameHeaderBytes
<1> HIDE DEF x, e, z, l
<1>5. ASSUME NEW k \in 1..7 + n, k <= 7 + l
      PROVE  bytes[k][1] = e[k][1] /\ (k # p => bytes[k] = e[k])
  <2>1. Alike(bytes[k], e[k], k = p)
    BY <1>1, <1>5, Zenon DEF e
  <2>2. e[k] \in GenuineCells
    BY <1>1, <1>5, FrameCells, Zenon DEF e
  <2>3. (k = p) \in BOOLEAN
    OBVIOUS
  <2> QED BY <2>1, <2>2, <2>3, AlikeKind, Zenon
<1>6. ~ (l < n)
  <2> SUFFICES ASSUME l < n PROVE FALSE
    OBVIOUS
  <2>1. 5 + l + 1 \in 1..7 + n /\ 5 + l + 1 <= 7 + l /\ 5 + l + 1 \in 1..5 + n /\ 5 + l + 1 \in 5 + 1..5 + n
    BY <1>1
  <2>2. bytes[5 + l + 1][1] = e[5 + l + 1][1]
    BY <1>5, <2>1, Zenon
  <2>3. e[5 + l + 1] = <<"payload", "a">>
    BY <1>4, <2>1, Zenon
  <2> QED BY <1>3, <2>2, <2>3
<1>7. ~ (n < l)
  <2> SUFFICES ASSUME n < l PROVE FALSE
    OBVIOUS
  <2>1. 5 + n + 1 \in 1..7 + n /\ 5 + n + 1 <= 7 + l /\ 5 + n + 1 \in 1..5 + l /\ 5 + l + 1 \in 1..Len(bytes)
    BY <1>1
  <2>2. x[5 + n + 1][1] = e[5 + n + 1][1]
    <3>1. x[5 + n + 1] = bytes[5 + n + 1]
      BY <1>3, <2>1, Zenon
    <3>2. bytes[5 + n + 1][1] = e[5 + n + 1][1]
      BY <1>5, <2>1, Zenon
    <3> QED BY <3>1, <3>2, Zenon
  <2>3. bytes[5 + l + 1] \in Cells
    BY <2>1
  <2>9. <<"crc", 1, x>> \in Cells /\ x # <<>>
    BY <1>3, <2>3, Zenon
  <2>4. PICK b \in Messages : x = Covered(b)
    BY <2>9, ChecksumCells
  <2>5. /\ Len(x) = 5 + Len(b.payload)
        /\ \A k \in 5 + 1..5 + Len(b.payload) : x[k] = <<"payload", "a">>
    BY <2>4, EncodeShape, Zenon DEF kFrameHeaderBytes
  <2>6. 5 + n + 1 \in 5 + 1..5 + Len(b.payload)
    <3>1. Len(x) = 5 + l
      BY <1>3
    <3>2. Len(b.payload) \in Nat
      BY EncodeShape, Zenon
    <3> QED BY <1>1, <2>1, <2>5, <3>1, <3>2
  <2>7. x[5 + n + 1] = <<"payload", "a">>
    BY <2>5, <2>6, Zenon
  <2> QED BY <1>4, <2>2, <2>7
<1>8. l = n
  BY <1>1, <1>6, <1>7
<1>9. x = z
  <2>1. 5 + n + 1 \in 1..7 + n /\ 5 + n + 2 \in 1..7 + n /\ 5 + n + 1 <= 7 + l /\ 5 + n + 2 <= 7 + l
    BY <1>1, <1>8
  <2>2. 5 + n + 1 # p \/ 5 + n + 2 # p
    BY <1>1
  <2>3. <<"crc", 1, x>> = <<"crc", 1, z>> \/ <<"crc", 2, x>> = <<"crc", 2, z>>
    BY <1>3, <1>4, <1>5, <1>8, <2>1, <2>2, Zenon
  <2> QED BY <2>3
<1>10. \A k \in 1..5 + n : bytes[k] = e[k]
  BY <1>3, <1>4, <1>8, <1>9, Zenon
<1>11. bytes[3][2] = m.type
  <2>1. 3 \in 1..5 + n
    BY <1>1
  <2>2. bytes[3] = <<"type", m.type>>
    BY <1>4, <1>10, <2>1, Zenon
  <2> QED BY <2>2
<1>12. SubSeq(bytes, 5 + 1, 5 + n) = m.payload
  <2> DEFINE y == <<"payload", "a">>
             w == SubSeq(bytes, 5 + 1, 5 + n)
  <2>1. m.payload \in Seq({y}) /\ \A k \in 1..n : m.payload[k] = y
    BY MessageShape, Zenon
  <2>2. 5 \in Nat /\ 5 + n \in Nat /\ 5 + n <= Len(bytes)
    BY <1>1, <1>8
  <2>3. w \in Seq(Cells) /\ Len(w) = n /\ \A k \in 1..n : w[k] = bytes[5 + k]
    <3>1. w \in Seq(Cells) /\ Parts(w, bytes, 5, n)
      BY <1>1, <2>2, Part, Zenon
    <3> QED BY <3>1, Zenon DEF Parts
  <2>4. ASSUME NEW k \in 1..n PROVE bytes[5 + k] = y
    <3>1. 5 + k \in 1..5 + n /\ 5 + k \in 5 + 1..5 + n
      BY <1>1
    <3> QED BY <1>4, <1>10, <3>1, Zenon
  <2> HIDE DEF w, y
  <2>5. \A k \in 1..n : w[k] = m.payload[k]
    BY <2>1, <2>3, <2>4, Zenon
  <2>6. w = m.payload
    BY <2>1, <2>3, <2>5
  <2> QED BY <2>6 DEF w
<1>13. m = [type |-> m.type, payload |-> m.payload]
  BY MessageShape, Zenon
<1>14. message_of(bytes) = [type |-> m.type, payload |-> m.payload]
  <2>1. total(bytes) - kFrameTrailerBytes = 5 + n /\ kFrameHeaderBytes = 5
    BY <1>1, <1>8 DEF total, kFrameOverheadBytes, kFrameHeaderBytes, kFrameTrailerBytes, l
  <2> QED BY <1>11, <1>12, <2>1, Zenon DEF message_of
<1>15. Len(bytes) = Size(m)
  BY <1>1, <1>8
<1> QED BY <1>13, <1>14, <1>15, Zenon

-----------------------------------------------------------------------------
(* The cells on their way: f is what recv_frame has read of a frame, g what *)
(* is in the pipe and r what write_all still has to write.                  *)

Sum(f, g, r) == Len(f) + Len(g) + Len(r)

At(f, g, r, q) ==
  IF q <= Len(f) THEN f[q]
  ELSE IF q <= Len(f) + Len(g) THEN g[q - Len(f)]
  ELSE r[q - (Len(f) + Len(g))]

\* The same cells, wherever they are.
SameCells(f, g, r, f2, g2, r2) ==
  /\ Sum(f2, g2, r2) = Sum(f, g, r)
  /\ \A q \in 1..Sum(f, g, r) : At(f2, g2, r2, q) = At(f, g, r, q)

\* c[j] is where the j-th frame ends, counted from the start of the stream.
Cuts(c, S) ==
  /\ c[0] = 0 /\ \A j \in 0..Len(S) : c[j] \in Nat
  /\ \A j \in 1..Len(S) : c[j] = c[j - 1] + Size(S[j])
  /\ \A i, j \in 0..Len(S) : i < j => c[i] < c[j]

\* Behind the first d frames come the others, but for damage at p.
Expected(c, p, S, d, f, g, r) ==
  \A j \in d + 1..Len(S) : \A k \in 1..Size(S[j]) :
    Alike(At(f, g, r, c[j - 1] + k - c[d]), encode_frame(S[j])[k], c[j - 1] + k = p)

Flows(c, p, S, d, f, g, r) ==
  /\ Cuts(c, S) /\ p \in 0..c[Len(S)]
  /\ c[d] + Sum(f, g, r) = c[Len(S)]
  /\ Expected(c, p, S, d, f, g, r)

\* Where a cell of a frame is among those on their way.
LEMMA Position ==
  ASSUME NEW S \in Seq(Messages), NEW c, Cuts(c, S), NEW d \in 0..Len(S),
         NEW j \in d + 1..Len(S), NEW k \in 1..Size(S[j])
  PROVE  /\ c[j - 1] + k - c[d] \in 1..c[Len(S)] - c[d]
         /\ c[j - 1] \in Nat /\ c[d] \in Nat /\ k \in Nat /\ c[d] <= c[j - 1]
         /\ c[j - 1] + k <= c[Len(S)]
<1>1. Len(S) \in Nat /\ d \in Nat /\ j \in 1..Len(S) /\ S[j] \in Messages /\ j - 1 \in 0..Len(S)
      /\ j \in 0..Len(S) /\ Len(S) \in 0..Len(S)
  OBVIOUS
<1>2. Size(S[j]) \in Nat
  BY <1>1, EncodeShape DEF Size, kFrameOverheadBytes, kFrameHeaderBytes, kFrameTrailerBytes
<1>3. /\ c[j] \in Nat /\ c[d] \in Nat /\ c[j - 1] \in Nat /\ c[Len(S)] \in Nat
      /\ c[j] = c[j - 1] + Size(S[j])
  BY <1>1, Zenon DEF Cuts
<1>4. (d < j - 1 => c[d] < c[j - 1]) /\ (j < Len(S) => c[j] < c[Len(S)])
  BY <1>1, Zenon DEF Cuts
<1>5. c[d] <= c[j - 1]
  BY <1>1, <1>3, <1>4
<1>6. c[j] <= c[Len(S)]
  BY <1>1, <1>3, <1>4
<1>7. k \in Nat /\ 1 <= k /\ k <= Size(S[j])
  BY <1>2
<1> DEFINE x == c[j - 1]
           y == c[d]
           z == c[Len(S)]
           n == Size(S[j])
<1>8. x \in Nat /\ y \in Nat /\ z \in Nat /\ n \in Nat /\ y <= x /\ k <= n /\ x + n <= z
  BY <1>2, <1>3, <1>5, <1>6, <1>7
<1> HIDE DEF x, y, z, n
<1>9. x + k - y \in 1..z - y /\ x + k <= z
  BY <1>7, <1>8
<1> QED BY <1>3, <1>5, <1>7, <1>9 DEF x, y, z

\* To move cells along changes nothing.
LEMMA FlowStays ==
  ASSUME NEW S \in Seq(Messages), NEW c, NEW p, NEW d \in 0..Len(S),
         NEW f \in Seq(Cells), NEW g \in Seq(Cells), NEW r \in Seq(Cells),
         NEW f2, NEW g2, NEW r2,
         Flows(c, p, S, d, f, g, r), SameCells(f, g, r, f2, g2, r2)
  PROVE  Flows(c, p, S, d, f2, g2, r2)
<1>1. Sum(f, g, r) \in Nat
  BY DEF Sum
<1>2. c[d] \in Nat /\ c[Len(S)] \in Nat /\ c[d] + Sum(f, g, r) = c[Len(S)]
  <2>1. Len(S) \in 0..Len(S)
    OBVIOUS
  <2> QED BY <2>1, Zenon DEF Flows, Cuts
<1>3. ASSUME NEW j \in d + 1..Len(S), NEW k \in 1..Size(S[j])
      PROVE  At(f2, g2, r2, c[j - 1] + k - c[d]) = At(f, g, r, c[j - 1] + k - c[d])
  <2>1. Cuts(c, S)
    BY Zenon DEF Flows
  <2>2. c[j - 1] + k - c[d] \in 1..c[Len(S)] - c[d]
    BY <2>1, Position, Zenon
  <2>3. c[Len(S)] - c[d] = Sum(f, g, r)
    BY <1>1, <1>2
  <2> QED BY <2>2, <2>3, Zenon DEF SameCells
<1>4. Expected(c, p, S, d, f2, g2, r2)
  BY <1>3, Zenon DEF Flows, Expected
<1> QED BY <1>4, Zenon DEF Flows, SameCells

\* A read takes k cells from the front of the pipe.
LEMMA ReadMoves ==
  ASSUME NEW C, NEW f \in Seq(C), NEW g \in Seq(C), NEW r \in Seq(C), NEW k \in 0..Len(g)
  PROVE  /\ f \o SubSeq(g, 1, k) \in Seq(C) /\ SubSeq(g, k + 1, Len(g)) \in Seq(C)
         /\ Len(f \o SubSeq(g, 1, k)) = Len(f) + k /\ Len(SubSeq(g, k + 1, Len(g))) = Len(g) - k
         /\ \A q \in 1..Len(f) : (f \o SubSeq(g, 1, k))[q] = f[q]
         /\ SameCells(f, g, r, f \o SubSeq(g, 1, k), SubSeq(g, k + 1, Len(g)), r)
<1> DEFINE n == Len(g)
           u == SubSeq(g, 1, k)
           h == SubSeq(g, k + 1, n)
           w == f \o u
<1>1. k \in Nat /\ n \in Nat /\ k <= n /\ Len(f) \in Nat /\ Len(r) \in Nat
  OBVIOUS
<1>2. u \in Seq(C) /\ Len(u) = k /\ \A q \in 1..k : u[q] = g[q]
  BY <1>1
<1>3. h \in Seq(C) /\ Len(h) = n - k /\ \A q \in 1..n - k : h[q] = g[k + q]
  BY <1>1
<1> HIDE DEF u, h, n
<1>4. w \in Seq(C) /\ Len(w) = Len(f) + k
      /\ (\A q \in 1..Len(f) : w[q] = f[q]) /\ (\A q \in 1..k : w[Len(f) + q] = u[q])
  <2>1. w \in Seq(C) /\ Joins(w, f, u)
    BY <1>2, Joined, Zenon
  <2>2. Len(u) = k
    BY <1>2
  <2> HIDE DEF w
  <2> QED BY <2>1, <2>2, Zenon DEF Joins
<1> HIDE DEF w
<1>5. Sum(w, h, r) = Sum(f, g, r) /\ Sum(f, g, r) \in Nat
  BY <1>1, <1>3, <1>4 DEF Sum, n
<1>6. ASSUME NEW q \in 1..Sum(f, g, r) PROVE At(w, h, r, q) = At(f, g, r, q)
  <2>1. q \in Nat /\ 1 <= q
    BY <1>5
  <2>2. CASE q <= Len(f)
    <3>1. q <= Len(w) /\ q \in 1..Len(f)
      BY <1>1, <1>4, <2>1, <2>2
    <3> QED BY <1>4, <2>2, <3>1, Zenon DEF At
  <2>3. CASE ~ (q <= Len(f)) /\ q <= Len(f) + k
    <3>1. q <= Len(w) /\ q <= Len(f) + n /\ q - Len(f) \in 1..k /\ Len(f) + (q - Len(f)) = q
      BY <1>1, <1>4, <2>1, <2>3
    <3>2. w[Len(f) + (q - Len(f))] = g[q - Len(f)]
      BY <1>2, <1>4, <3>1, Zenon
    <3>3. w[q] = g[q - Len(f)]
      BY <3>1, <3>2
    <3> QED BY <2>3, <3>1, <3>3, Zenon DEF At, n
  <2>4. CASE ~ (q <= Len(f) + k) /\ q <= Len(f) + n
    <3>1. /\ ~ (q <= Len(w)) /\ q <= Len(w) + Len(h) /\ ~ (q <= Len(f))
          /\ q - Len(w) \in 1..n - k /\ k + (q - Len(w)) = q - Len(f)
      BY <1>1, <1>3, <1>4, <2>1, <2>4
    <3>2. h[q - Len(w)] = g[q - Len(f)]
      BY <1>3, <3>1, Zenon
    <3> QED BY <2>4, <3>1, <3>2, Zenon DEF At, n
  <2>5. CASE ~ (q <= Len(f) + n)
    <3>1. /\ ~ (q <= Len(w)) /\ ~ (q <= Len(w) + Len(h)) /\ ~ (q <= Len(f))
          /\ Len(w) + Len(h) = Len(f) + n
      BY <1>1, <1>3, <1>4, <2>1, <2>5
    <3> QED BY <2>5, <3>1, Zenon DEF At, n
  <2>6. q <= Len(f) \/ (~ (q <= Len(f)) /\ q <= Len(f) + k)
        \/ (~ (q <= Len(f) + k) /\ q <= Len(f) + n) \/ ~ (q <= Len(f) + n)
    BY <1>1, <2>1
  <2> QED BY <2>2, <2>3, <2>4, <2>5, <2>6
<1>7. SameCells(f, g, r, w, h, r)
  BY <1>5, <1>6, Zenon DEF SameCells
<1> QED BY <1>3, <1>4, <1>7, Zenon DEF w, h, u, n

\* A write moves k cells to the end of the pipe.
LEMMA WriteMoves ==
  ASSUME NEW C, NEW f \in Seq(C), NEW g \in Seq(C), NEW r \in Seq(C), NEW k \in 0..Len(r)
  PROVE  /\ g \o SubSeq(r, 1, k) \in Seq(C) /\ SubSeq(r, k + 1, Len(r)) \in Seq(C)
         /\ Len(g \o SubSeq(r, 1, k)) = Len(g) + k /\ Len(SubSeq(r, k + 1, Len(r))) = Len(r) - k
         /\ SameCells(f, g, r, f, g \o SubSeq(r, 1, k), SubSeq(r, k + 1, Len(r)))
<1> DEFINE n == Len(r)
           u == SubSeq(r, 1, k)
           h == SubSeq(r, k + 1, n)
           w == g \o u
<1>1. k \in Nat /\ n \in Nat /\ k <= n /\ Len(f) \in Nat /\ Len(g) \in Nat
  OBVIOUS
<1>2. u \in Seq(C) /\ Len(u) = k /\ \A q \in 1..k : u[q] = r[q]
  BY <1>1
<1>3. h \in Seq(C) /\ Len(h) = n - k /\ \A q \in 1..n - k : h[q] = r[k + q]
  BY <1>1
<1> HIDE DEF u, h, n
<1>4. w \in Seq(C) /\ Len(w) = Len(g) + k
      /\ (\A q \in 1..Len(g) : w[q] = g[q]) /\ (\A q \in 1..k : w[Len(g) + q] = u[q])
  <2>1. w \in Seq(C) /\ Joins(w, g, u)
    BY <1>2, Joined, Zenon
  <2>2. Len(u) = k
    BY <1>2
  <2> HIDE DEF w
  <2> QED BY <2>1, <2>2, Zenon DEF Joins
<1> HIDE DEF w
<1>5. Sum(f, w, h) = Sum(f, g, r) /\ Sum(f, g, r) = Len(f) + Len(g) + n
  BY <1>1, <1>3, <1>4 DEF Sum, n
<1>6. ASSUME NEW q \in 1..Sum(f, g, r) PROVE At(f, w, h, q) = At(f, g, r, q)
  <2> DEFINE x == Len(f) + Len(g)
  <2>1. q \in Nat /\ 1 <= q /\ q <= x + n /\ x \in Nat /\ Len(f) <= x
    BY <1>1, <1>5
  <2>2. CASE q <= Len(f)
    BY <2>2, Zenon DEF At
  <2>3. CASE ~ (q <= Len(f)) /\ q <= x
    <3>1. q <= Len(f) + Len(w) /\ q - Len(f) \in 1..Len(g)
      BY <1>1, <1>4, <2>1, <2>3
    <3>2. w[q - Len(f)] = g[q - Len(f)]
      BY <1>4, <3>1, Zenon
    <3> QED BY <2>3, <3>1, <3>2, Zenon DEF At
  <2>4. CASE ~ (q <= x) /\ q <= x + k
    <3>1. /\ q <= Len(f) + Len(w) /\ ~ (q <= Len(f)) /\ q - x \in 1..k
          /\ Len(g) + (q - x) = q - Len(f)
      BY <1>1, <1>4, <2>1, <2>4
    <3>2. w[Len(g) + (q - x)] = r[q - x]
      BY <1>2, <1>4, <3>1, Zenon
    <3>3. w[q - Len(f)] = r[q - x]
      BY <3>1, <3>2, Zenon
    <3> QED BY <2>4, <3>1, <3>3, Zenon DEF At
  <2>5. CASE ~ (q <= x + k)
    <3>1. /\ ~ (q <= Len(f) + Len(w)) /\ ~ (q <= Len(f)) /\ ~ (q <= x)
          /\ q - (Len(f) + Len(w)) \in 1..n - k /\ k + (q - (Len(f) + Len(w))) = q - x
      BY <1>1, <1>4, <2>1, <2>5
    <3>2. h[q - (Len(f) + Len(w))] = r[q - x]
      BY <1>3, <3>1, Zenon
    <3> QED BY <3>1, <3>2, Zenon DEF At
  <2>6. q <= Len(f) \/ (~ (q <= Len(f)) /\ q <= x) \/ (~ (q <= x) /\ q <= x + k) \/ ~ (q <= x + k)
    BY <2>1
  <2> QED BY <2>2, <2>3, <2>4, <2>5, <2>6
<1>7. SameCells(f, g, r, f, w, h)
  BY <1>5, <1>6, Zenon DEF SameCells
<1> QED BY <1>3, <1>4, <1>7, Zenon DEF w, h, u, n

\* What has been read belongs to the next frame.
LEMMA FlowHead ==
  ASSUME NEW S \in Seq(Messages), NEW c, NEW p, NEW d \in 0..Len(S),
         NEW f \in Seq(Cells), NEW g \in Seq(Cells), NEW r \in Seq(Cells),
         Flows(c, p, S, d, f, g, r), Len(f) > 0
  PROVE  /\ d < Len(S) /\ p - c[d] \in Int
         /\ \A k \in 1..Size(S[d + 1]) :
              k <= Len(f) => Alike(f[k], encode_frame(S[d + 1])[k], k = p - c[d])
<1>1. Len(S) \in Nat /\ Len(S) \in 0..Len(S) /\ Sum(f, g, r) > 0 /\ Sum(f, g, r) \in Nat
  BY DEF Sum
<1>2. c[d] \in Nat /\ c[Len(S)] \in Nat /\ c[d] + Sum(f, g, r) = c[Len(S)] /\ p \in 0..c[Len(S)]
  BY <1>1, Zenon DEF Flows, Cuts
<1>3. d < Len(S)
  <2>1. d # Len(S)
    BY <1>1, <1>2
  <2> QED BY <1>1, <2>1
<1>4. p \in Int /\ p - c[d] \in Int
  BY <1>2
<1>5. ASSUME NEW k \in 1..Size(S[d + 1]), k <= Len(f)
      PROVE  Alike(f[k], encode_frame(S[d + 1])[k], k = p - c[d])
  <2>1. d + 1 \in d + 1..Len(S) /\ (d + 1) - 1 = d
    BY <1>1, <1>3
  <2>2. k \in Nat
    <3>1. S[d + 1] \in Messages
      BY <1>1, <1>3
    <3>2. Size(S[d + 1]) \in Nat
      BY <3>1, EncodeShape DEF Size, kFrameOverheadBytes, kFrameHeaderBytes, kFrameTrailerBytes
    <3> QED BY <3>2
  <2>3. c[d] + k - c[d] = k /\ (c[d] + k = p) = (k = p - c[d])
    BY <1>2, <1>4, <2>2, SMTT(30)
  <2>4. Alike(At(f, g, r, c[(d + 1) - 1] + k - c[d]), encode_frame(S[d + 1])[k], c[(d + 1) - 1] + k = p)
    BY <2>1, Zenon DEF Flows, Expected
  <2>5. Alike(At(f, g, r, k), encode_frame(S[d + 1])[k], k = p - c[d])
    BY <2>1, <2>3, <2>4, Zenon
  <2> QED BY <1>5, <2>5, Zenon DEF At
<1> QED BY <1>3, <1>4, <1>5, Zenon

\* The place x of a cell, counted from l cells later on.
Behind(q, x, l) == q \in Nat /\ 1 <= q /\ x = q + l

\* The place of a cell behind one frame more.
LEMMA Shifted ==
  ASSUME NEW a \in Nat, NEW b \in Nat, NEW e \in Nat, NEW z \in Nat, NEW k \in Nat,
         NEW l \in Nat, e = b + l, a + k - e \in 1..z - e
  PROVE  Behind(a + k - e, a + k - b, l)
BY DEF Behind

\* Behind a whole frame comes the next.
LEMMA FlowDelivers ==
  ASSUME NEW S \in Seq(Messages), NEW c, NEW p, NEW d \in 0..Len(S), d < Len(S),
         NEW f \in Seq(Cells), NEW g \in Seq(Cells), NEW r \in Seq(Cells),
         Flows(c, p, S, d, f, g, r), Len(f) = Size(S[d + 1])
  PROVE  Flows(c, p, S, d + 1, <<>>, g, r)
<1>1. /\ Len(S) \in Nat /\ Len(S) \in 0..Len(S) /\ d + 1 \in 1..Len(S) /\ d + 1 \in 0..Len(S)
      /\ (d + 1) - 1 = d /\ Len(f) \in Nat /\ Len(g) \in Nat /\ Len(r) \in Nat /\ Len(<<>>) = 0
  OBVIOUS
<1>2. /\ Cuts(c, S) /\ c[d] \in Nat /\ c[d + 1] \in Nat /\ c[Len(S)] \in Nat
      /\ c[d] + Sum(f, g, r) = c[Len(S)]
  BY <1>1, Zenon DEF Flows, Cuts
<1>3. c[d + 1] = c[d] + Len(f)
  BY <1>1, <1>2, Zenon DEF Cuts
<1>4. c[d + 1] + Sum(<<>>, g, r) = c[Len(S)]
  BY <1>1, <1>2, <1>3 DEF Sum
<1>5. ASSUME NEW j \in (d + 1) + 1..Len(S), NEW k \in 1..Size(S[j])
      PROVE  Alike(At(<<>>, g, r, c[j - 1] + k - c[d + 1]), encode_frame(S[j])[k], c[j - 1] + k = p)
  <2> DEFINE q == c[j - 1] + k - c[d + 1]
             x == c[j - 1] + k - c[d]
  <2>1. j \in d + 1..Len(S)
    BY <1>1
  <2>2. /\ c[j - 1] \in Nat /\ k \in Nat
        /\ q \in 1..c[Len(S)] - c[d + 1]
    BY <1>1, <1>2, Position, Zenon
  <2>3. q \in Nat /\ 1 <= q /\ x = q + Len(f)
    <3>1. Behind(q, x, Len(f))
      BY <1>1, <1>2, <1>3, <2>2, Shifted, Zenon
    <3> QED BY <3>1, Zenon DEF Behind
  <2>4. Alike(At(f, g, r, x), encode_frame(S[j])[k], c[j - 1] + k = p)
    BY <2>1, Zenon DEF Flows, Expected
  <2> HIDE DEF q, x
  <2>5. At(<<>>, g, r, q) = At(f, g, r, x)
    <3> DEFINE o == <<>>
    <3>4. Len(o) = 0
      OBVIOUS
    <3> HIDE DEF o
    <3> SUFFICES At(o, g, r, q) = At(f, g, r, x)
      BY DEF o
    <3>1. ~ (x <= Len(f)) /\ ~ (q <= 0) /\ x - Len(f) = q /\ q - 0 = q
      BY <1>1, <2>3
    <3>2. CASE q <= Len(g)
      <4>1. x <= Len(f) + Len(g) /\ q <= 0 + Len(g)
        BY <1>1, <2>3, <3>2
      <4> QED BY <3>1, <3>4, <4>1, Zenon DEF At
    <3>3. CASE ~ (q <= Len(g))
      <4>1. ~ (x <= Len(f) + Len(g)) /\ ~ (q <= 0 + Len(g)) /\ x - (Len(f) + Len(g)) = q - (0 + Len(g))
        BY <1>1, <2>3, <3>3
      <4> QED BY <3>1, <3>4, <4>1, Zenon DEF At
    <3> QED BY <3>2, <3>3
  <2> QED BY <2>4, <2>5, Zenon DEF q
<1>6. Expected(c, p, S, d + 1, <<>>, g, r)
  BY <1>5, Zenon DEF Expected
<1> QED BY <1>4, <1>6, Zenon DEF Flows

\* The place q is the k-th behind a and b cells.
Beyond(q, a, b, k) == ~ (q <= a) /\ ~ (q <= a + b) /\ q - (a + b) = k

\* The place of a cell behind all that are on their way.
LEMMA Follows ==
  ASSUME NEW x \in Nat, NEW y \in Nat, NEW a \in Nat, NEW b \in Nat, NEW k \in Nat, 1 <= k,
         y + (a + b) = x, NEW p \in 0..x
  PROVE  Beyond(x + k - y, a, b, k) /\ x + k # p
BY DEF Beyond

\* A frame that is handed to write_all comes behind all others.
LEMMA FlowSends ==
  ASSUME NEW S \in Seq(Messages), NEW c, NEW p, NEW d \in 0..Len(S),
         NEW f \in Seq(Cells), NEW g \in Seq(Cells), NEW r, Len(r) = 0,
         NEW m \in Messages, Flows(c, p, S, d, f, g, r)
  PROVE  \E z : Flows(z, p, Append(S, m), d, f, g, encode_frame(m))
<1> DEFINE n == Len(S)
           T == Append(S, m)
           z == [j \in 0..n + 1 |-> IF j = n + 1 THEN c[n] + Size(m) ELSE c[j]]
           e == encode_frame(m)
<1>1. /\ n \in Nat /\ n \in 0..n /\ d \in Nat /\ d <= n /\ Len(T) = n + 1 /\ T[n + 1] = m
      /\ \A j \in 1..n : T[j] = S[j]
  OBVIOUS
<1>2. Size(m) \in Nat /\ Size(m) > 0 /\ Len(e) = Size(m)
  BY EncodeShape DEF Size, kFrameOverheadBytes, kFrameHeaderBytes, kFrameTrailerBytes
<1>3. /\ c[0] = 0 /\ \A j \in 0..n : c[j] \in Nat
      /\ \A j \in 1..n : c[j] = c[j - 1] + Size(S[j])
      /\ \A i, j \in 0..n : i < j => c[i] < c[j]
  BY Zenon DEF Flows, Cuts
<1>4. c[n] \in Nat /\ c[d] \in Nat /\ p \in 0..c[n] /\ c[d] + Sum(f, g, r) = c[n]
  BY <1>1, <1>3, Zenon DEF Flows
<1>5. Len(f) \in Nat /\ Len(g) \in Nat /\ Sum(f, g, r) = Len(f) + Len(g)
      /\ Sum(f, g, e) = Len(f) + Len(g) + Size(m)
  BY <1>2 DEF Sum
<1>6. (\A j \in 0..n : z[j] = c[j]) /\ z[n + 1] = c[n] + Size(m)
  BY <1>1
<1> HIDE DEF z, T, e, n
<1>7. Cuts(z, T)
  <2>1. z[0] = 0 /\ \A j \in 0..n + 1 : z[j] \in Nat
    <3>1. 0 \in 0..n /\ \A j \in 0..n + 1 : j \in 0..n \/ j = n + 1
      BY <1>1
    <3>2. z[n + 1] \in Nat
      BY <1>2, <1>4, <1>6
    <3> QED BY <1>3, <1>6, <3>1, <3>2, Zenon
  <2>2. ASSUME NEW j \in 1..n + 1 PROVE z[j] = z[j - 1] + Size(T[j])
    <3>1. CASE j \in 1..n
      <4>1. j \in 0..n /\ j - 1 \in 0..n
        BY <1>1, <3>1
      <4> QED BY <1>1, <1>3, <1>6, <3>1, <4>1, Zenon
    <3>2. CASE j = n + 1
      <4>1. j - 1 = n
        BY <1>1, <3>2
      <4> QED BY <1>1, <1>6, <3>2, <4>1, Zenon
    <3> QED BY <1>1, <3>1, <3>2
  <2>3. ASSUME NEW i \in 0..n + 1, NEW j \in 0..n + 1, i < j PROVE z[i] < z[j]
    <3>1. CASE j \in 0..n
      <4>1. i \in 0..n
        BY <1>1, <2>3, <3>1
      <4> QED BY <1>3, <1>6, <2>3, <3>1, <4>1, Zenon
    <3>2. CASE j = n + 1
      <4>1. i \in 0..n /\ (i < n \/ i = n)
        BY <1>1, <2>3, <3>2
      <4>2. c[i] \in Nat /\ (c[i] < c[n] \/ c[i] = c[n])
        BY <1>1, <1>3, <4>1, Zenon
      <4>3. z[i] = c[i] /\ z[j] = c[n] + Size(m)
        BY <1>6, <3>2, <4>1, Zenon
      <4> QED BY <1>2, <1>4, <4>2, <4>3
    <3> QED BY <1>1, <3>1, <3>2
  <2> QED BY <1>1, <2>1, <2>2, <2>3, Zenon DEF Cuts
<1>8. z[d] = c[d] /\ z[n] = c[n]
  BY <1>1, <1>6
<1>9. p \in 0..z[n + 1] /\ z[d] + Sum(f, g, e) = z[n + 1]
  <2>1. p \in 0..c[n] + Size(m)
    BY <1>2, <1>4
  <2>2. c[d] + Sum(f, g, e) = c[n] + Size(m)
    BY <1>2, <1>4, <1>5
  <2> QED BY <1>6, <1>8, <2>1, <2>2, Zenon
<1>10. ASSUME NEW j \in d + 1..n + 1, NEW k \in 1..Size(T[j])
       PROVE  Alike(At(f, g, e, z[j - 1] + k - z[d]), encode_frame(T[j])[k], z[j - 1] + k = p)
  <2>1. CASE j \in d + 1..n
    <3>1. j \in 1..n /\ j - 1 \in 0..n
      BY <1>1, <2>1
    <3>2. T[j] = S[j] /\ z[j - 1] = c[j - 1]
      BY <1>1, <1>6, <3>1, Zenon
    <3> DEFINE q == c[j - 1] + k - c[d]
    <3>3. Alike(At(f, g, r, q), encode_frame(S[j])[k], c[j - 1] + k = p)
      BY <2>1, <3>2, Zenon DEF Flows, Expected, n
    <3>4. q \in 1..c[n] - c[d]
      BY <2>1, <3>2, Position, Zenon DEF Flows, n
    <3> HIDE DEF q
    <3>5. q <= Len(f) + Len(g)
      BY <1>4, <1>5, <3>4
    <3>6. At(f, g, e, q) = At(f, g, r, q)
      BY <3>5, Zenon DEF At
    <3> QED BY <1>8, <3>2, <3>3, <3>6, Zenon DEF q
  <2>2. CASE j = n + 1
    <3>1. j - 1 = n /\ T[j] = m
      BY <1>1, <2>2
    <3> DEFINE q == c[n] + k - c[d]
    <3>2. k \in Nat /\ 1 <= k
      BY <1>2, <3>1
    <3>5. c[d] + (Len(f) + Len(g)) = c[n]
      BY <1>4, <1>5, Zenon
    <3>3. Beyond(q, Len(f), Len(g), k) /\ c[n] + k # p
      BY <1>4, <1>5, <3>2, <3>5, Follows, Zenon
    <3> HIDE DEF q
    <3>4. At(f, g, e, q) = e[k]
      BY <3>3, Zenon DEF At, Beyond
    <3> QED BY <1>8, <3>1, <3>3, <3>4, Zenon DEF Alike, q, e
  <2> QED BY <1>1, <2>1, <2>2
<1>11. Expected(z, p, T, d, f, g, e)
  BY <1>1, <1>10, Zenon DEF Expected
<1>12. Flows(z, p, T, d, f, g, e)
  BY <1>1, <1>7, <1>9, <1>11, Zenon DEF Flows
<1> QED BY <1>12, Zenon DEF T, e

\* Genuine cells are cells.
LEMMA GenuineSeq ==
  ASSUME NEW s \in Seq(GenuineCells)
  PROVE  s \in Seq(Cells)
<1>1. GenuineCells \subseteq Cells
  BY Zenon DEF Cells
<1> QED BY <1>1

\* h is s but for the i-th cell.
Changes(h, s, i, v) ==
  Len(h) = Len(s) /\ \A q \in 1..Len(s) : h[q] = IF q = i THEN v ELSE s[q]

\* A changed cell changes nothing else.
LEMMA Changed ==
  ASSUME NEW S, NEW s \in Seq(S), NEW i \in 1..Len(s), NEW v \in S
  PROVE  [s EXCEPT ![i] = v] \in Seq(S) /\ Changes([s EXCEPT ![i] = v], s, i, v)
BY DEF Changes

\* q is a place, and is x exactly if w is p.
Hits(q, w, p, x) == q \in Nat /\ 1 <= q /\ (w = p <=> q = x)

\* The place that is hit, counted from the start and from what is on its way.
LEMMA Hit ==
  ASSUME NEW x \in Nat, NEW y \in Nat, NEW z \in Nat, NEW k \in Nat, NEW a \in Nat,
         NEW i \in Nat, x + k - y \in 1..z - y
  PROVE  Hits(x + k - y, x + k, y + a + i, a + i)
BY DEF Hits

\* Damage hits one cell.
LEMMA FlowDamaged ==
  ASSUME NEW S \in Seq(Messages), NEW c, NEW d \in 0..Len(S),
         NEW f \in Seq(GenuineCells), NEW g \in Seq(GenuineCells), NEW r \in Seq(GenuineCells),
         Flows(c, 0, S, d, f, g, r), NEW i \in 1..Len(g), NEW v \in OtherValues(g[i])
  PROVE  /\ [g EXCEPT ![i] = v] \in Seq(Cells) /\ Len([g EXCEPT ![i] = v]) = Len(g)
         /\ \E p : Flows(c, p, S, d, f, [g EXCEPT ![i] = v], r)
<1> DEFINE h == [g EXCEPT ![i] = v]
           p == c[d] + Len(f) + i
<1>1. f \in Seq(Cells) /\ g \in Seq(Cells) /\ r \in Seq(Cells)
  BY GenuineSeq, Zenon
<1>2. g[i] \in GenuineCells
  OBVIOUS
<1>3. v \in Cells
  BY <1>2, Zenon DEF Cells
<1>4. /\ h \in Seq(Cells) /\ Len(h) = Len(g)
      /\ \A q \in 1..Len(g) : h[q] = IF q = i THEN v ELSE g[q]
  <2>1. h \in Seq(Cells) /\ Changes(h, g, i, v)
    BY <1>1, <1>3, Changed, Zenon
  <2> HIDE DEF h
  <2> QED BY <2>1, Zenon DEF Changes
<1> HIDE DEF h
<1>5. /\ Len(S) \in 0..Len(S) /\ Len(f) \in Nat /\ Len(g) \in Nat /\ Len(r) \in Nat
      /\ i \in Nat /\ 1 <= i /\ i <= Len(g)
  BY <1>1
<1>6. Cuts(c, S) /\ c[d] \in Nat /\ c[Len(S)] \in Nat /\ c[d] + Sum(f, g, r) = c[Len(S)]
  BY <1>5, Zenon DEF Flows, Cuts
<1>7. p \in 0..c[Len(S)] /\ c[d] + Sum(f, h, r) = c[Len(S)]
  BY <1>4, <1>5, <1>6 DEF Sum
<1>8. ASSUME NEW j \in d + 1..Len(S), NEW k \in 1..Size(S[j])
      PROVE  Alike(At(f, h, r, c[j - 1] + k - c[d]), encode_frame(S[j])[k], c[j - 1] + k = p)
  <2> DEFINE q == c[j - 1] + k - c[d]
             e == encode_frame(S[j])[k]
  <2>1. /\ q \in 1..c[Len(S)] - c[d] /\ c[j - 1] \in Nat /\ k \in Nat
    BY <1>6, Position, Zenon
  <2>2. c[j - 1] + k # 0
    BY <2>1
  <2>3. At(f, g, r, q) = e
    BY <2>2, Zenon DEF Flows, Expected, Alike
  <2>4. q \in Nat /\ 1 <= q /\ (c[j - 1] + k = p <=> q = Len(f) + i)
    <3>1. Hits(q, c[j - 1] + k, p, Len(f) + i)
      BY <1>5, <1>6, <2>1, Hit, Zenon
    <3> QED BY <3>1, Zenon DEF Hits
  <2> HIDE DEF q, e, p
  <2>5. CASE q = Len(f) + i
    <3>1. ~ (q <= Len(f)) /\ q <= Len(f) + Len(g) /\ q - Len(f) = i
      BY <1>5, <2>5
    <3>2. e = g[i] /\ At(f, h, r, q) = h[i]
      BY <1>4, <2>3, <3>1, Zenon DEF At
    <3>3. h[i] = v
      BY <1>4, Zenon
    <3> QED BY <2>4, <2>5, <3>2, <3>3, Zenon DEF Alike, q, e
  <2>6. CASE q # Len(f) + i
    <3>1. At(f, h, r, q) = At(f, g, r, q)
      <4>1. CASE q <= Len(f) \/ ~ (q <= Len(f) + Len(g))
        BY <1>4, <4>1, Zenon DEF At
      <4>2. CASE ~ (q <= Len(f)) /\ q <= Len(f) + Len(g)
        <5>1. q - Len(f) \in 1..Len(g) /\ q - Len(f) # i
          BY <1>5, <2>4, <2>6, <4>2
        <5>2. h[q - Len(f)] = g[q - Len(f)]
          BY <1>4, <5>1, Zenon
        <5> QED BY <1>4, <4>2, <5>2, Zenon DEF At
      <4> QED BY <4>1, <4>2
    <3> QED BY <2>3, <2>4, <2>6, <3>1, Zenon DEF Alike, q, e
  <2> QED BY <2>5, <2>6
<1>9. Flows(c, p, S, d, f, h, r)
  BY <1>6, <1>7, <1>8, Zenon DEF Flows, Expected
<1> QED BY <1>4, <1>9, Zenon DEF h

-----------------------------------------------------------------------------
(* The frames, from the sender's hands to the receiver's.                  *)

\* Frames are returned in order, and the rest of them is on its way.
Sound(S, dl, f, g, r, dmg) ==
  /\ S \in Seq(Messages) /\ dl \in Seq(Messages)
  /\ Len(dl) <= Len(S) /\ \A i \in 1..Len(dl) : dl[i] = S[i]
  /\ f \in Seq(Cells) /\ g \in Seq(Cells) /\ r \in Seq(Cells)
  /\ ~dmg => f \in Seq(GenuineCells) /\ g \in Seq(GenuineCells) /\ r \in Seq(GenuineCells)
  /\ \E c, p : Flows(c, p, S, Len(dl), f, g, r) /\ (~dmg => p = 0)

\* The number of frames returned is one of those sent.
LEMMA SoundCount ==
  ASSUME NEW S, NEW dl, NEW f, NEW g, NEW r, NEW dmg, Sound(S, dl, f, g, r, dmg)
  PROVE  Len(dl) \in 0..Len(S) /\ Len(S) \in Nat /\ Len(dl) \in Nat
BY DEF Sound

\* What moves cells keeps the frames sound.
LEMMA SoundMoves ==
  ASSUME NEW S, NEW dl, NEW f, NEW g, NEW r, NEW dmg \in BOOLEAN, Sound(S, dl, f, g, r, dmg),
         NEW f2 \in Seq(Cells), NEW g2 \in Seq(Cells), NEW r2 \in Seq(Cells),
         ~dmg => f2 \in Seq(GenuineCells) /\ g2 \in Seq(GenuineCells) /\ r2 \in Seq(GenuineCells),
         SameCells(f, g, r, f2, g2, r2)
  PROVE  Sound(S, dl, f2, g2, r2, dmg)
<1>1. PICK c, p : Flows(c, p, S, Len(dl), f, g, r) /\ (~dmg => p = 0)
  BY Zenon DEF Sound
<1>2. S \in Seq(Messages) /\ f \in Seq(Cells) /\ g \in Seq(Cells) /\ r \in Seq(Cells)
  BY Zenon DEF Sound
<1>3. Len(dl) \in 0..Len(S)
  BY SoundCount, Zenon
<1>4. Flows(c, p, S, Len(dl), f2, g2, r2)
  BY <1>1, <1>2, <1>3, FlowStays, Zenon
<1> QED BY <1>1, <1>4, Zenon DEF Sound

\* A read.
LEMMA SoundReads ==
  ASSUME NEW S, NEW dl, NEW f, NEW g, NEW r, NEW dmg \in BOOLEAN, Sound(S, dl, f, g, r, dmg),
         NEW k \in 0..Len(g)
  PROVE  Sound(S, dl, f \o SubSeq(g, 1, k), SubSeq(g, k + 1, Len(g)), r, dmg)
<1> DEFINE f2 == f \o SubSeq(g, 1, k)
           g2 == SubSeq(g, k + 1, Len(g))
<1>1. f \in Seq(Cells) /\ g \in Seq(Cells) /\ r \in Seq(Cells)
  BY Zenon DEF Sound
<1>2. f2 \in Seq(Cells) /\ g2 \in Seq(Cells) /\ SameCells(f, g, r, f2, g2, r)
  BY <1>1, ReadMoves, Zenon
<1>3. ASSUME ~dmg PROVE f2 \in Seq(GenuineCells) /\ g2 \in Seq(GenuineCells) /\ r \in Seq(GenuineCells)
  <2>1. f \in Seq(GenuineCells) /\ g \in Seq(GenuineCells) /\ r \in Seq(GenuineCells)
    BY <1>3, Zenon DEF Sound
  <2> QED BY <2>1, ReadMoves, Zenon
<1> HIDE DEF f2, g2
<1>4. Sound(S, dl, f2, g2, r, dmg)
  BY <1>1, <1>2, <1>3, SoundMoves, Zenon
<1> QED BY <1>4 DEF f2, g2

\* A write.
LEMMA SoundWrites ==
  ASSUME NEW S, NEW dl, NEW f, NEW g, NEW r, NEW dmg \in BOOLEAN, Sound(S, dl, f, g, r, dmg),
         NEW k \in 0..Len(r)
  PROVE  Sound(S, dl, f, g \o SubSeq(r, 1, k), SubSeq(r, k + 1, Len(r)), dmg)
<1> DEFINE g2 == g \o SubSeq(r, 1, k)
           r2 == SubSeq(r, k + 1, Len(r))
<1>1. f \in Seq(Cells) /\ g \in Seq(Cells) /\ r \in Seq(Cells)
  BY Zenon DEF Sound
<1>2. g2 \in Seq(Cells) /\ r2 \in Seq(Cells) /\ SameCells(f, g, r, f, g2, r2)
  BY <1>1, WriteMoves, Zenon
<1>3. ASSUME ~dmg PROVE f \in Seq(GenuineCells) /\ g2 \in Seq(GenuineCells) /\ r2 \in Seq(GenuineCells)
  <2>1. f \in Seq(GenuineCells) /\ g \in Seq(GenuineCells) /\ r \in Seq(GenuineCells)
    BY <1>3, Zenon DEF Sound
  <2> QED BY <2>1, WriteMoves, Zenon
<1> HIDE DEF g2, r2
<1>4. Sound(S, dl, f, g2, r2, dmg)
  BY <1>1, <1>2, <1>3, SoundMoves, Zenon
<1> QED BY <1>4 DEF g2, r2

\* A frame is made of genuine cells.
LEMMA EncodedSeq ==
  ASSUME NEW m \in Messages
  PROVE  encode_frame(m) \in Seq(GenuineCells) /\ Len(encode_frame(m)) = Size(m)
<1> DEFINE e == encode_frame(m)
           G == GenuineCells
<1>1. Len(e) = Size(m) /\ Size(m) \in Nat
  BY EncodeShape DEF Size, kFrameOverheadBytes, kFrameHeaderBytes, kFrameTrailerBytes
<1>2. \A k \in 1..Len(e) : e[k] \in G
  BY <1>1, FrameCells, Zenon
<1>3. e = [k \in 1..Len(e) |-> e[k]]
  <2> DEFINE y == <<"payload", "a">>
             X == {y} \cup {write_header(m)[i] : i \in 1..5}
             u == crc32c(Covered(m))
             Z == X \cup {u[1], u[2]}
  <2>1. e = (write_header(m) \o m.payload) \o u
    BY DEF encode_frame, Covered
  <2>2. write_header(m) \in Seq(Z)
    BY DEF write_header
  <2>3. m.payload \in Seq(Z)
    <3>1. m.payload \in Seq({y}) /\ y \in Z
      BY MessageShape, Zenon
    <3> HIDE DEF y, Z
    <3> QED BY <3>1
  <2>4. u \in Seq(Z)
    BY DEF crc32c
  <2> HIDE DEF Z, u, e
  <2>5. write_header(m) \o m.payload \in Seq(Z)
    BY <2>2, <2>3, Joined, Zenon
  <2>6. e \in Seq(Z)
    BY <2>1, <2>4, <2>5, Joined, Zenon
  <2> QED BY <2>6
<1> HIDE DEF e, G
<1>4. e \in Seq(G)
  BY <1>1, <1>2, <1>3
<1> QED BY <1>1, <1>4 DEF e, G

\* A frame is sent.
LEMMA SoundSends ==
  ASSUME NEW S, NEW dl, NEW f, NEW g, NEW r, NEW dmg \in BOOLEAN, Sound(S, dl, f, g, r, dmg),
         Len(r) = 0, NEW m \in Messages
  PROVE  Sound(Append(S, m), dl, f, g, encode_frame(m), dmg)
<1> DEFINE T == Append(S, m)
           e == encode_frame(m)
<1>1. PICK c, p : Flows(c, p, S, Len(dl), f, g, r) /\ (~dmg => p = 0)
  BY Zenon DEF Sound
<1>2. S \in Seq(Messages) /\ f \in Seq(Cells) /\ g \in Seq(Cells)
  BY Zenon DEF Sound
<1>3. Len(dl) \in 0..Len(S) /\ Len(S) \in Nat /\ Len(dl) \in Nat
  BY SoundCount, Zenon
<1>4. PICK z : Flows(z, p, T, Len(dl), f, g, e)
  BY <1>1, <1>2, <1>3, FlowSends, SMTT(30)
<1>5. /\ T \in Seq(Messages) /\ Len(T) = Len(S) + 1
      /\ \A i \in 1..Len(S) : T[i] = S[i]
  BY <1>2
<1>6. e \in Seq(GenuineCells) /\ e \in Seq(Cells)
  BY EncodedSeq, GenuineSeq, Zenon
<1> HIDE DEF T, e
<1>7. Len(dl) <= Len(T) /\ \A i \in 1..Len(dl) : dl[i] = T[i]
  <2>1. Len(dl) <= Len(T) /\ \A i \in 1..Len(dl) : i \in 1..Len(S)
    BY <1>3, <1>5
  <2> QED BY <1>5, <2>1, Zenon DEF Sound
<1> QED BY <1>1, <1>4, <1>5, <1>6, <1>7, Zenon DEF Sound, T, e

\* A payload length that was read is a number.
LEMMA LengthRead ==
  ASSUME NEW S, NEW dl, NEW f, NEW g, NEW r, NEW dmg, Sound(S, dl, f, g, r, dmg), Len(f) >= 5
  PROVE  payload_length(f) \in Nat
<1>1. PICK c, p : Flows(c, p, S, Len(dl), f, g, r)
  BY Zenon DEF Sound
<1>2. S \in Seq(Messages) /\ f \in Seq(Cells) /\ g \in Seq(Cells) /\ r \in Seq(Cells)
  BY Zenon DEF Sound
<1>3. Len(dl) \in 0..Len(S) /\ Len(S) \in Nat /\ Len(dl) \in Nat
  BY SoundCount, Zenon
<1>4. Len(f) > 0
  BY <1>2
<1> DEFINE d == Len(dl)
           m == S[d + 1]
<1>5. /\ d < Len(S)
      /\ \A k \in 1..Size(m) : k <= Len(f) => Alike(f[k], encode_frame(m)[k], k = p - c[d])
  BY <1>1, <1>2, <1>3, <1>4, FlowHead, Zenon
<1>6. m \in Messages
  BY <1>2, <1>3, <1>5
<1> HIDE DEF m, d
<1>7. 5 \in 1..Size(m) /\ 5 <= Len(f) /\ 5 \in 1..kFrameHeaderBytes + Len(m.payload)
      /\ Len(m.payload) \in Nat
  BY <1>2, <1>6, EncodeShape DEF Size, kFrameOverheadBytes, kFrameHeaderBytes, kFrameTrailerBytes
<1>8. Alike(f[5], encode_frame(m)[5], 5 = p - c[d])
  BY <1>5, <1>7, Zenon
<1>9. encode_frame(m)[5] = <<"length", Len(m.payload)>> /\ encode_frame(m)[5] \in GenuineCells
  <2>1. encode_frame(m)[5] = Covered(m)[5]
    BY <1>6, <1>7, EncodeShape, Zenon
  <2>2. Covered(m)[5] = <<"length", Len(m.payload)>>
    BY <1>6, EncodeShape, Zenon
  <2> QED BY <1>6, <1>7, <2>1, <2>2, FrameCells, Zenon
<1> DEFINE e == encode_frame(m)[5]
<1>10. e[1] = "length" /\ e[2] \in Nat
  BY <1>7, <1>9
<1> HIDE DEF e
<1>11. CASE 5 = p - c[d]
  <2>1. f[5] \in OtherValues(e)
    BY <1>8, <1>11, Zenon DEF Alike, e
  <2>2. Tampered(f[5], e)
    BY <1>9, <2>1, DamageTampers, Zenon DEF e
  <2> QED BY <1>10, <2>2, Zenon DEF Tampered, payload_length
<1>12. CASE 5 # p - c[d]
  BY <1>8, <1>10, <1>12, Zenon DEF Alike, payload_length, e
<1> QED BY <1>11, <1>12

\* A frame is returned.
LEMMA SoundDelivers ==
  ASSUME NEW S, NEW dl, NEW f, NEW g, NEW r, NEW dmg \in BOOLEAN, Sound(S, dl, f, g, r, dmg),
         payload_length(f) \in Nat, Len(f) = total(f), decode_frame(f) = "Ok"
  PROVE  Sound(S, Append(dl, message_of(f)), <<>>, g, r, dmg)
<1>1. PICK c, p : Flows(c, p, S, Len(dl), f, g, r) /\ (~dmg => p = 0)
  BY Zenon DEF Sound
<1>2. /\ S \in Seq(Messages) /\ f \in Seq(Cells) /\ g \in Seq(Cells) /\ r \in Seq(Cells)
      /\ dl \in Seq(Messages)
  BY Zenon DEF Sound
<1>3. Len(dl) \in 0..Len(S) /\ Len(S) \in Nat /\ Len(dl) \in Nat
  BY SoundCount, Zenon
<1>4. Len(f) > 0
  BY DEF total, kFrameOverheadBytes, kFrameHeaderBytes, kFrameTrailerBytes
<1> DEFINE d == Len(dl)
           m == S[d + 1]
<1>5. /\ d < Len(S) /\ p - c[d] \in Int
      /\ \A k \in 1..Size(m) : k <= Len(f) => Alike(f[k], encode_frame(m)[k], k = p - c[d])
  BY <1>1, <1>2, <1>3, <1>4, FlowHead, Zenon
<1>6. m \in Messages
  BY <1>2, <1>3, <1>5
<1>7. Len(f) = Size(m) /\ message_of(f) = m
  <2> HIDE DEF m
  <2> QED BY <1>2, <1>5, <1>6, DecodedIsSent, Zenon
<1>8. Flows(c, p, S, d + 1, <<>>, g, r)
  BY <1>1, <1>2, <1>3, <1>5, <1>7, FlowDelivers, Zenon
<1> DEFINE al == Append(dl, m)
<1>9. al \in Seq(Messages) /\ Len(al) = d + 1 /\ (\A i \in 1..d : al[i] = dl[i]) /\ al[d + 1] = m
  <2> HIDE DEF m
  <2> QED BY <1>2, <1>6
<1> HIDE DEF al
<1>10. Len(al) <= Len(S) /\ \A i \in 1..Len(al) : al[i] = S[i]
  <2>1. Len(al) <= Len(S) /\ \A i \in 1..Len(al) : i \in 1..d \/ i = d + 1
    BY <1>3, <1>5, <1>9
  <2>2. \A i \in 1..d : dl[i] = S[i]
    BY Zenon DEF Sound
  <2> QED BY <1>9, <2>1, <2>2, Zenon
<1>11. <<>> \in Seq(Cells) /\ <<>> \in Seq(GenuineCells)
  OBVIOUS
<1>12. Flows(c, p, S, Len(al), <<>>, g, r)
  BY <1>8, <1>9, Zenon
<1>13. Sound(S, al, <<>>, g, r, dmg)
  BY <1>1, <1>9, <1>10, <1>11, <1>12, Zenon DEF Sound
<1> QED BY <1>7, <1>13, Zenon DEF al

\* One byte of g has another value in h.
Struck(g, h) == \E i \in DOMAIN g : \E v \in OtherValues(g[i]) : h = [g EXCEPT ![i] = v]

\* A cell is damaged.
LEMMA SoundDamages ==
  ASSUME NEW S, NEW dl, NEW f, NEW g, NEW r, Sound(S, dl, f, g, r, FALSE),
         NEW h, Struck(g, h)
  PROVE  Sound(S, dl, f, h, r, TRUE) /\ Len(h) = Len(g)
<1>0. PICK i \in DOMAIN g : \E v \in OtherValues(g[i]) : h = [g EXCEPT ![i] = v]
  BY Zenon DEF Struck
<1>a. PICK v \in OtherValues(g[i]) : h = [g EXCEPT ![i] = v]
  BY <1>0, Zenon
<1>1. PICK c, p : Flows(c, p, S, Len(dl), f, g, r) /\ p = 0
  BY Zenon DEF Sound
<1>2. S \in Seq(Messages) /\ f \in Seq(GenuineCells) /\ g \in Seq(GenuineCells) /\ r \in Seq(GenuineCells)
  BY Zenon DEF Sound
<1>3. Len(dl) \in 0..Len(S)
  BY SoundCount, Zenon
<1>4. i \in 1..Len(g)
  BY <1>2
<1>5. h \in Seq(Cells) /\ Len(h) = Len(g) /\ \E q : Flows(c, q, S, Len(dl), f, h, r)
  <2>1. /\ [g EXCEPT ![i] = v] \in Seq(Cells) /\ Len([g EXCEPT ![i] = v]) = Len(g)
        /\ \E q : Flows(c, q, S, Len(dl), f, [g EXCEPT ![i] = v], r)
    BY <1>1, <1>2, <1>3, <1>4, FlowDamaged, Zenon
  <2> QED BY <1>a, <2>1, Zenon
<1>6. Sound(S, dl, f, h, r, TRUE)
  BY <1>5, Zenon DEF Sound
<1> QED BY <1>5, <1>6, Zenon

-----------------------------------------------------------------------------
(* The invariant.                                                          *)

\* write_all has something left only of the last frame, and only in a call.
Sends(state, held, S, r) ==
  /\ state \notin {"header", "body"}
  /\ state = "idle" => Len(r) = 0
  /\ state \in InCall => held
  /\ Len(r) > 0 => Len(S) > 0 /\ Len(r) <= Size(S[Len(S)])

\* What recv_frame has read, by the read_exact that it is in.
Receives(state, f) ==
  /\ state # "write"
  /\ state = "idle" => f = <<>>
  /\ state = "header" => Len(f) < kFrameHeaderBytes
  /\ state = "body" =>
       /\ payload_length(f) \in Nat /\ payload_length(f) <= MaxPayload
       /\ kFrameHeaderBytes <= Len(f) /\ Len(f) < total(f)

\* Who reports a clean close has met the end of what a closed sender wrote.
ClosedLast == call["receiver"] = "closed" => ~open["sender"] /\ CleanClose

Kinds ==
  /\ server \in Ends /\ stopping \in BOOLEAN /\ broken \in BOOLEAN /\ damaged \in BOOLEAN
  /\ call \in [Ends -> {"idle"} \cup InCall \cup Statuses]
  /\ open \in [Ends -> BOOLEAN]
  /\ Len(pipe) <= PipeSize

IInv ==
  /\ Kinds
  /\ Sound(sent, delivered, frame, pipe, rest, damaged)
  /\ Sends(call["sender"], open["sender"], sent, rest)
  /\ Receives(call["receiver"], frame)
  /\ ClosedLast

\* Nothing is on its way at first.
LEMMA SoundInit == Sound(<<>>, <<>>, <<>>, <<>>, <<>>, FALSE)
<1> DEFINE o == <<>>
           c == [j \in 0..0 |-> 0]
<1>1. o \in Seq(Messages) /\ o \in Seq(Cells) /\ o \in Seq(GenuineCells) /\ Len(o) = 0
  OBVIOUS
<1> HIDE DEF o
<1>2. Cuts(c, o)
  <2>1. c[0] = 0 /\ 0..0 = {0} /\ 1..0 = {}
    OBVIOUS
  <2> HIDE DEF c
  <2> QED BY <1>1, <2>1 DEF Cuts
<1>3. c[Len(o)] = 0 /\ 0 \in 0..c[Len(o)] /\ c[Len(o)] + Sum(o, o, o) = c[Len(o)]
  BY <1>1 DEF Sum
<1>4. Expected(c, 0, o, Len(o), o, o, o)
  BY <1>1 DEF Expected
<1> HIDE DEF c
<1>5. Flows(c, 0, o, Len(o), o, o, o)
  BY <1>2, <1>3, <1>4, Zenon DEF Flows
<1>6. Len(o) <= Len(o) /\ \A i \in 1..Len(o) : o[i] = o[i]
  BY <1>1
<1>7. Sound(o, o, o, o, o, FALSE)
  BY <1>1, <1>5, <1>6, Zenon DEF Sound
<1> QED BY <1>7, Zenon DEF o

\* A connection starts in the invariant.
LEMMA IInvInit == Init => IInv
<1> SUFFICES ASSUME Init PROVE IInv
  OBVIOUS
<1> USE DEF Init
<1>1. Kinds
  <2>1. Len(pipe) <= PipeSize
    BY StreamAssumption
  <2>2. call \in [Ends -> {"idle"} \cup InCall \cup Statuses] /\ open \in [Ends -> BOOLEAN]
    OBVIOUS
  <2> QED BY <2>1, <2>2, Zenon DEF Kinds
<1>2. Sound(sent, delivered, frame, pipe, rest, damaged)
  BY SoundInit, Zenon
<1>3. call["sender"] = "idle" /\ call["receiver"] = "idle" /\ Len(rest) = 0
  BY DEF Ends
<1>4. Sends(call["sender"], open["sender"], sent, rest)
  BY <1>3 DEF Sends, InCall
<1>5. Receives(call["receiver"], frame)
  BY <1>3 DEF Receives
<1>6. ClosedLast
  BY <1>3 DEF ClosedLast
<1> QED BY <1>1, <1>2, <1>4, <1>5, <1>6, Zenon DEF IInv

\* A step that concerns neither the frames nor the calls.
LEMMA Elsewhere ==
  ASSUME IInv, Kinds', UNCHANGED <<sent, rest, pipe, frame, delivered, damaged, call>>,
         open'["sender"] => open["sender"],
         call["sender"] \in InCall => open'["sender"] = open["sender"]
  PROVE  IInv'
<1>1. Sound(sent, delivered, frame, pipe, rest, damaged)'
  BY Zenon DEF IInv
<1>2. Receives(call["receiver"], frame)'
  BY Zenon DEF IInv
<1>3. Sends(call["sender"], open["sender"], sent, rest)'
  BY Zenon DEF IInv, Sends
<1>4. ClosedLast'
  BY Zenon DEF IInv, ClosedLast, CleanClose, Whole, Torn
<1> QED BY <1>1, <1>2, <1>3, <1>4 DEF IInv

\* The calls after one end has moved on.
LEMMA CallMoves ==
  ASSUME Kinds, NEW e \in Ends, NEW state \in {"idle"} \cup InCall \cup Statuses, Become(e, state)
  PROVE  /\ call' \in [Ends -> {"idle"} \cup InCall \cup Statuses]
         /\ call'[e] = state /\ \A x \in Ends : x # e => call'[x] = call[x]
BY DEF Kinds, Become

\* A call that ends or is given up leaves the frames where they are.
LEMMA SenderEnds ==
  ASSUME IInv, UNCHANGED <<sent, rest, pipe, frame, delivered, damaged>>, Kinds',
         call'["sender"] \notin {"idle"} \cup InCall, call'["receiver"] = call["receiver"],
         open'["sender"] => open["sender"]
  PROVE  IInv'
<1>1. Sound(sent, delivered, frame, pipe, rest, damaged)'
  BY Zenon DEF IInv
<1>2. Receives(call["receiver"], frame)'
  BY Zenon DEF IInv
<1>3. Sends(call["sender"], open["sender"], sent, rest)'
  BY Zenon DEF IInv, Sends, InCall
<1>4. ClosedLast'
  BY Zenon DEF IInv, ClosedLast, CleanClose, Whole, Torn
<1> QED BY <1>1, <1>2, <1>3, <1>4, Zenon DEF IInv

\* The same for the receiver, unless it reports a clean close.
LEMMA ReceiverEnds ==
  ASSUME IInv, UNCHANGED <<sent, rest, pipe, frame, delivered, damaged>>, Kinds',
         call'["receiver"] \notin {"idle", "closed"} \cup InCall, call'["sender"] = call["sender"],
         open'["sender"] = open["sender"]
  PROVE  IInv'
<1>1. Sound(sent, delivered, frame, pipe, rest, damaged)'
  BY Zenon DEF IInv
<1>2. Receives(call["receiver"], frame)'
  BY Zenon DEF Receives, InCall
<1>3. Sends(call["sender"], open["sender"], sent, rest)'
  BY Zenon DEF IInv
<1>4. ClosedLast'
  BY Zenon DEF ClosedLast
<1> QED BY <1>1, <1>2, <1>3, <1>4, Zenon DEF IInv

\* The kinds after a step that changes a call and nothing else but open.
LEMMA KindsStay ==
  ASSUME Kinds, NEW e \in Ends, NEW state \in {"idle"} \cup InCall \cup Statuses, Become(e, state),
         UNCHANGED <<server, stopping, broken, damaged>>, open' \in [Ends -> BOOLEAN],
         Len(pipe') <= PipeSize
  PROVE  Kinds'
BY CallMoves, Zenon DEF Kinds

\* The ends are two.
LEMMA TwoEnds == "sender" \in Ends /\ "receiver" \in Ends /\ "sender" # "receiver"
BY DEF Ends

\* send_frame hands a frame to write_all.
LEMMA SendOK ==
  ASSUME IInv, NEW message \in Messages, send_frame(message)
  PROVE  IInv'
<1>1. /\ call["sender"] = "idle" /\ open["sender"] /\ Become("sender", "write")
      /\ sent' = Append(sent, message) /\ rest' = encode_frame(message)
      /\ UNCHANGED <<server, pipe, frame, delivered, open, stopping, broken, damaged>>
  BY Zenon DEF send_frame
<1>2. /\ Kinds /\ Sound(sent, delivered, frame, pipe, rest, damaged) /\ ClosedLast
      /\ Sends(call["sender"], open["sender"], sent, rest) /\ Receives(call["receiver"], frame)
  BY Zenon DEF IInv
<1>3. "write" \in {"idle"} \cup InCall \cup Statuses
  BY DEF InCall
<1>4. Kinds'
  <2>1. open' \in [Ends -> BOOLEAN] /\ Len(pipe') <= PipeSize
    BY <1>1, <1>2, Zenon DEF Kinds
  <2> QED BY <1>1, <1>2, <1>3, <2>1, KindsStay, TwoEnds, Zenon
<1>5. call'["sender"] = "write" /\ call'["receiver"] = call["receiver"]
  BY <1>1, <1>2, <1>3, CallMoves, TwoEnds, Zenon
<1>6. Sound(sent, delivered, frame, pipe, rest, damaged)'
  <2>1. Len(rest) = 0 /\ damaged \in BOOLEAN
    BY <1>1, <1>2, Zenon DEF Sends, Kinds
  <2>2. Sound(Append(sent, message), delivered, frame, pipe, encode_frame(message), damaged)
    BY <1>2, <2>1, SoundSends, Zenon
  <2> QED BY <1>1, <2>2, Zenon
<1>7. Sends(call["sender"], open["sender"], sent, rest)'
  <2>1. sent \in Seq(Messages)
    BY <1>2, Zenon DEF Sound
  <2>2. Len(sent') > 0 /\ sent'[Len(sent')] = message
    BY <1>1, <2>1
  <2>3. Len(rest') = Size(message) /\ Size(message) <= Size(message)
    <3>1. Len(rest') = Size(message)
      BY <1>1, EncodedSeq, Zenon
    <3>2. Size(message) \in Nat
      BY EncodeShape DEF Size, kFrameOverheadBytes, kFrameHeaderBytes, kFrameTrailerBytes
    <3> QED BY <3>1, <3>2
  <2>4. call'["sender"] \notin {"header", "body", "idle"} /\ open'["sender"]
    BY <1>1, <1>5
  <2> QED BY <2>2, <2>3, <2>4, Zenon DEF Sends
<1>8. Receives(call["receiver"], frame)'
  BY <1>1, <1>2, <1>5, Zenon
<1>9. ClosedLast'
  BY <1>1, <1>2, <1>5, Zenon DEF ClosedLast
<1> QED BY <1>4, <1>6, <1>7, <1>8, <1>9, Zenon DEF IInv

\* write_all writes k cells.
LEMMA WriteOK ==
  ASSUME IInv, NEW k \in 1..PipeSize, Write(k)
  PROVE  IInv'
<1> DEFINE state == IF k = Len(rest) THEN "idle" ELSE "write"
<1>1. /\ call["sender"] = "write" /\ k <= Len(rest) /\ Len(pipe) + k <= PipeSize
      /\ pipe' = pipe \o SubSeq(rest, 1, k) /\ rest' = SubSeq(rest, k + 1, Len(rest))
      /\ Become("sender", state)
      /\ UNCHANGED <<server, sent, frame, delivered, open, stopping, broken, damaged>>
  BY Zenon DEF Write
<1>2. /\ Kinds /\ Sound(sent, delivered, frame, pipe, rest, damaged) /\ ClosedLast
      /\ Sends(call["sender"], open["sender"], sent, rest) /\ Receives(call["receiver"], frame)
  BY Zenon DEF IInv
<1>3. frame \in Seq(Cells) /\ pipe \in Seq(Cells) /\ rest \in Seq(Cells)
  BY <1>2, Zenon DEF Sound
<1>4. k \in 0..Len(rest) /\ k \in Nat /\ k > 0 /\ Len(rest) \in Nat
  BY <1>1, <1>3, StreamAssumption
<1>5. /\ Len(pipe \o SubSeq(rest, 1, k)) = Len(pipe) + k
      /\ Len(SubSeq(rest, k + 1, Len(rest))) = Len(rest) - k
  BY <1>3, <1>4
<1>6. Len(pipe') <= PipeSize /\ Len(rest') = Len(rest) - k
  BY <1>1, <1>5, Zenon
<1>7. state \in {"idle"} \cup InCall \cup Statuses /\ state \in {"idle", "write"} /\ "write" \in InCall
  BY DEF InCall
<1> HIDE DEF state
<1>8. Kinds'
  <2>1. open' \in [Ends -> BOOLEAN]
    BY <1>1, <1>2, Zenon DEF Kinds
  <2> QED BY <1>1, <1>2, <1>6, <1>7, <2>1, KindsStay, TwoEnds, Zenon
<1>9. call'["sender"] = state /\ call'["receiver"] = call["receiver"]
  BY <1>1, <1>2, <1>7, CallMoves, TwoEnds, Zenon
<1>10. Sound(sent, delivered, frame, pipe, rest, damaged)'
  <2>1. damaged \in BOOLEAN
    BY <1>2, Zenon DEF Kinds
  <2>2. Sound(sent, delivered, frame, pipe \o SubSeq(rest, 1, k), SubSeq(rest, k + 1, Len(rest)), damaged)
    BY <1>2, <1>4, <2>1, SoundWrites, Zenon
  <2> QED BY <1>1, <2>2, Zenon
<1>11. open["sender"]
  BY <1>1, <1>2, <1>7, Zenon DEF Sends
<1>12. Sends(call["sender"], open["sender"], sent, rest)'
  <2>1. state = "idle" => Len(rest') = 0
    BY <1>4, <1>6 DEF state
  <2>2. Len(rest) > 0 /\ sent' = sent /\ open'["sender"]
    BY <1>1, <1>4, <1>11
  <2>3. Len(sent) > 0 /\ Len(rest) <= Size(sent[Len(sent)])
    BY <1>2, <2>2, Zenon DEF Sends
  <2>4. Len(rest') <= Size(sent[Len(sent)])
    <3>1. sent[Len(sent)] \in Messages
      <4>1. sent \in Seq(Messages)
        BY <1>2, Zenon DEF Sound
      <4> QED BY <2>3, <4>1
    <3>2. Size(sent[Len(sent)]) \in Nat
      BY <3>1, EncodeShape DEF Size, kFrameOverheadBytes, kFrameHeaderBytes, kFrameTrailerBytes
    <3> QED BY <1>4, <1>6, <2>3, <3>2
  <2>5. state \notin {"header", "body"}
    BY <1>7
  <2> QED BY <1>9, <2>1, <2>2, <2>3, <2>4, <2>5, Zenon DEF Sends
<1>13. Receives(call["receiver"], frame)'
  BY <1>1, <1>2, <1>9, Zenon
<1>14. ClosedLast'
  BY <1>2, <1>9, <1>11, Zenon DEF ClosedLast
<1> QED BY <1>8, <1>10, <1>12, <1>13, <1>14, Zenon DEF IInv

\* recv_frame starts a frame.
LEMMA RecvOK ==
  ASSUME IInv, recv_frame
  PROVE  IInv'
<1>1. /\ call["receiver"] = "idle" /\ frame' = <<>> /\ Become("receiver", "header")
      /\ UNCHANGED <<server, sent, rest, pipe, delivered, open, stopping, broken, damaged>>
  BY Zenon DEF recv_frame
<1>2. /\ Kinds /\ Sound(sent, delivered, frame, pipe, rest, damaged)
      /\ Sends(call["sender"], open["sender"], sent, rest) /\ Receives(call["receiver"], frame)
  BY Zenon DEF IInv
<1>3. frame' = frame /\ Len(frame') = 0
  BY <1>1, <1>2 DEF Receives
<1>4. "header" \in {"idle"} \cup InCall \cup Statuses
  BY DEF InCall
<1>5. Kinds'
  <2>1. open' \in [Ends -> BOOLEAN] /\ Len(pipe') <= PipeSize
    BY <1>1, <1>2, Zenon DEF Kinds
  <2> QED BY <1>1, <1>2, <1>4, <2>1, KindsStay, TwoEnds, Zenon
<1>6. call'["receiver"] = "header" /\ call'["sender"] = call["sender"]
  BY <1>1, <1>2, <1>4, CallMoves, TwoEnds, Zenon
<1>7. Sound(sent, delivered, frame, pipe, rest, damaged)'
  BY <1>1, <1>2, <1>3, Zenon
<1>8. Sends(call["sender"], open["sender"], sent, rest)'
  BY <1>1, <1>2, <1>6, Zenon
<1>9. Receives(call["receiver"], frame)'
  BY <1>3, <1>6 DEF Receives, kFrameHeaderBytes
<1>10. ClosedLast'
  BY <1>6 DEF ClosedLast
<1> QED BY <1>5, <1>7, <1>8, <1>9, <1>10, Zenon DEF IInv

\* What read_exact asks for, in the two calls of recv_frame.
LEMMA Asked ==
  ASSUME Receives(call["receiver"], frame), frame \in Seq(Cells),
         call["receiver"] \in {"header", "body"}
  PROVE  LET n == Len(frame) + (count - offset)
         IN  /\ count - offset \in Nat /\ count - offset > 0
             /\ call["receiver"] = "header" => n = kFrameHeaderBytes
             /\ call["receiver"] = "body" => n = total(frame)
<1>1. CASE call["receiver"] = "header"
  BY <1>1 DEF Receives, count, offset, kFrameHeaderBytes
<1>2. CASE call["receiver"] = "body"
  <2>1. payload_length(frame) \in Nat /\ Len(frame) < total(frame) /\ 5 <= Len(frame)
    BY <1>2 DEF Receives, kFrameHeaderBytes
  <2>2. /\ total(frame) = 7 + payload_length(frame) /\ count = payload_length(frame) + 2
        /\ offset = Len(frame) - 5
    BY <1>2, <2>1 DEF total, count, offset, kFrameOverheadBytes, kFrameHeaderBytes, kFrameTrailerBytes
  <2> QED BY <1>2, <2>1, <2>2
<1> QED BY <1>1, <1>2

\* A longer part of a frame has the same length field.
LEMMA SameLength ==
  ASSUME NEW f, NEW w, \A q \in 1..Len(f) : w[q] = f[q], Len(f) \in Nat, Len(f) >= 5
  PROVE  payload_length(w) = payload_length(f) /\ total(w) = total(f)
<1>1. w[5] = f[5]
  OBVIOUS
<1> QED BY <1>1, Zenon DEF payload_length, total

\* The refusals of a header and of a frame are statuses.
LEMMA Verdicts ==
  ASSUME NEW f
  PROVE  /\ header_verdict(f) \in Statuses \ {"closed"}
         /\ decode_frame(f) \in Statuses \ {"closed"}
<1>1. header_verdict(f) \in {"Ok", "MalformedMessage", "UnsupportedVersion", "OversizedFrame"}
  BY Zenon DEF header_verdict
<1>2. decode_frame(f) \in {"Ok", "TruncatedInput", "MalformedMessage", "ChecksumMismatch", header_verdict(f)}
  BY Zenon DEF decode_frame
<1> QED BY <1>1, <1>2 DEF Statuses

\* read_exact reads k cells; with the last of them recv_frame goes on.
LEMMA ReadOK ==
  ASSUME IInv, NEW k \in 1..PipeSize, Read(k)
  PROVE  IInv'
<1> DEFINE bytes == frame \o SubSeq(pipe, 1, k)
           left == SubSeq(pipe, k + 1, Len(pipe))
<1>1. /\ call["receiver"] \in {"header", "body"} /\ k <= count - offset /\ k <= Len(pipe)
      /\ pipe' = left
      /\ IF k = count - offset THEN Complete(bytes) ELSE frame' = bytes /\ UNCHANGED <<call, delivered>>
      /\ UNCHANGED <<server, sent, rest, open, stopping, broken, damaged>>
  BY Zenon DEF Read, Reading
<1>2. /\ Kinds /\ Sound(sent, delivered, frame, pipe, rest, damaged)
      /\ Sends(call["sender"], open["sender"], sent, rest) /\ Receives(call["receiver"], frame)
  BY Zenon DEF IInv
<1>3. frame \in Seq(Cells) /\ pipe \in Seq(Cells) /\ rest \in Seq(Cells) /\ damaged \in BOOLEAN
  BY <1>2, Zenon DEF Sound, Kinds
<1>4. k \in 0..Len(pipe) /\ k \in Nat /\ k > 0 /\ Len(frame) \in Nat /\ Len(pipe) \in Nat
  BY <1>1, <1>3, StreamAssumption
<1>5. Sound(sent, delivered, bytes, left, rest, damaged)
  BY <1>2, <1>3, <1>4, SoundReads, Zenon
<1>6. Len(bytes) = Len(frame) + k /\ Len(left) = Len(pipe) - k
  BY <1>3, <1>4
<1>7. bytes \in Seq(Cells) /\ \A q \in 1..Len(frame) : bytes[q] = frame[q]
  <2>1. SubSeq(pipe, 1, k) \in Seq(Cells)
    BY <1>3, <1>4
  <2>2. bytes \in Seq(Cells) /\ Joins(bytes, frame, SubSeq(pipe, 1, k))
    BY <1>3, <2>1, Joined, Zenon
  <2> HIDE DEF bytes
  <2> QED BY <2>2, Zenon DEF Joins
<1> HIDE DEF bytes, left
<1>8. Len(pipe') <= PipeSize /\ open' \in [Ends -> BOOLEAN]
  <2>1. Len(pipe) <= PipeSize /\ open \in [Ends -> BOOLEAN]
    BY <1>2, Zenon DEF Kinds
  <2> QED BY <1>1, <1>4, <1>6, <2>1, StreamAssumption
<1>9. /\ count - offset \in Nat
      /\ call["receiver"] = "header" => Len(frame) + (count - offset) = kFrameHeaderBytes
      /\ call["receiver"] = "body" => Len(frame) + (count - offset) = total(frame)
  BY <1>1, <1>2, <1>3, Asked, Zenon
<1>10. call["receiver"] = "body" =>
         /\ payload_length(frame) \in Nat /\ payload_length(frame) <= MaxPayload /\ 5 <= Len(frame)
         /\ payload_length(bytes) = payload_length(frame) /\ total(bytes) = total(frame)
  <2> SUFFICES ASSUME call["receiver"] = "body"
               PROVE  /\ payload_length(frame) \in Nat /\ payload_length(frame) <= MaxPayload
                      /\ 5 <= Len(frame) /\ payload_length(bytes) = payload_length(frame)
                      /\ total(bytes) = total(frame)
    OBVIOUS
  <2>1. payload_length(frame) \in Nat /\ payload_length(frame) <= MaxPayload /\ 5 <= Len(frame)
    BY <1>2 DEF Receives, kFrameHeaderBytes
  <2>2. Len(frame) >= 5
    BY <1>4, <2>1
  <2> QED BY <1>4, <1>7, <2>1, <2>2, SameLength, Zenon
<1>11. ASSUME NEW state \in {"idle"} \cup InCall \cup Statuses, Become("receiver", state),
              state # "closed", Receives(state, frame'),
              Sound(sent, delivered, frame, pipe, rest, damaged)'
       PROVE  IInv'
  <2>1. Kinds'
    BY <1>1, <1>2, <1>8, <1>11, KindsStay, TwoEnds, Zenon
  <2>2. call'["receiver"] = state /\ call'["sender"] = call["sender"]
    BY <1>2, <1>11, CallMoves, TwoEnds, Zenon
  <2>3. Sends(call["sender"], open["sender"], sent, rest)'
    BY <1>1, <1>2, <2>2, Zenon
  <2>4. ClosedLast' /\ Receives(call["receiver"], frame)'
    BY <1>11, <2>2, Zenon DEF ClosedLast
  <2> QED BY <1>11, <2>1, <2>3, <2>4, Zenon DEF IInv
<1>12. CASE k # count - offset
  <2>1. frame' = bytes /\ UNCHANGED <<call, delivered>>
    BY <1>1, <1>12, Zenon
  <2>2. k < count - offset
    BY <1>1, <1>4, <1>9, <1>12
  <2>3. Receives(call["receiver"], bytes)
    <3>1. CASE call["receiver"] = "header"
      <4>1. Len(bytes) < kFrameHeaderBytes
        BY <1>4, <1>6, <1>9, <2>2, <3>1 DEF kFrameHeaderBytes
      <4> QED BY <3>1, <4>1 DEF Receives
    <3>2. CASE call["receiver"] = "body"
      <4>1. total(frame) = 7 + payload_length(frame)
        BY <1>10, <3>2 DEF total, kFrameOverheadBytes, kFrameHeaderBytes, kFrameTrailerBytes
      <4>2. Len(bytes) < total(bytes) /\ kFrameHeaderBytes <= Len(bytes)
        BY <1>4, <1>6, <1>9, <1>10, <2>2, <3>2, <4>1 DEF kFrameHeaderBytes
      <4>3. payload_length(bytes) \in Nat /\ payload_length(bytes) <= MaxPayload
        BY <1>10, <3>2, Zenon
      <4> QED BY <3>2, <4>2, <4>3 DEF Receives
    <3> QED BY <1>1, <3>1, <3>2
  <2>4. Sound(sent, delivered, frame, pipe, rest, damaged)'
    BY <1>1, <1>5, <2>1, Zenon
  <2>5. Kinds'
    BY <1>1, <1>2, <1>8, <2>1, Zenon DEF Kinds
  <2>6. Sends(call["sender"], open["sender"], sent, rest)'
    BY <1>1, <1>2, <2>1, Zenon
  <2>7. Receives(call["receiver"], frame)'
    BY <2>1, <2>3, Zenon
  <2>8. ClosedLast'
    BY <1>1, <2>1 DEF ClosedLast
  <2> QED BY <2>4, <2>5, <2>6, <2>7, <2>8, Zenon DEF IInv
<1>13. CASE k = count - offset /\ call["receiver"] = "header"
  <2> DEFINE verdict == header_verdict(bytes)
             state == IF verdict = "Ok" THEN "body" ELSE verdict
  <2>1. Become("receiver", state) /\ frame' = bytes /\ delivered' = delivered
    BY <1>1, <1>13, Zenon DEF Complete
  <2>2. Len(bytes) = 5 /\ Len(bytes) >= 5
    BY <1>4, <1>6, <1>9, <1>13 DEF kFrameHeaderBytes
  <2>3. payload_length(bytes) \in Nat
    BY <1>5, <2>2, LengthRead, Zenon
  <2>4. verdict \in Statuses \ {"closed"}
    BY Verdicts, Zenon
  <2>5. state \in {"idle"} \cup InCall \cup Statuses /\ state # "closed"
    BY <2>4, Zenon DEF InCall
  <2>6. verdict = "Ok" => ~ (payload_length(bytes) > MaxPayload)
    BY Zenon DEF header_verdict, oversized
  <2> HIDE DEF verdict
  <2>7. Receives(state, bytes)
    <3>1. CASE verdict = "Ok"
      <4>1. payload_length(bytes) <= MaxPayload
        BY <2>3, <2>6, <3>1, StreamAssumption
      <4>2. kFrameHeaderBytes <= Len(bytes) /\ Len(bytes) < total(bytes)
        BY <2>2, <2>3 DEF total, kFrameOverheadBytes, kFrameHeaderBytes, kFrameTrailerBytes
      <4> QED BY <2>3, <3>1, <4>1, <4>2 DEF Receives
    <3>2. CASE verdict # "Ok"
      BY <2>4, <3>2 DEF Receives, Statuses
    <3> QED BY <3>1, <3>2
  <2>8. Sound(sent, delivered, frame, pipe, rest, damaged)'
    BY <1>1, <1>5, <2>1, Zenon
  <2>9. Receives(state, frame')
    BY <2>1, <2>7, Zenon
  <2> HIDE DEF state
  <2> QED BY <1>11, <2>1, <2>5, <2>8, <2>9, Zenon
<1>14. CASE k = count - offset /\ call["receiver"] = "body"
  <2>1. Len(bytes) = total(bytes) /\ payload_length(bytes) \in Nat
    BY <1>4, <1>6, <1>9, <1>10, <1>14
  <2>2. Complete(bytes) /\ call["receiver"] # "header"
    BY <1>1, <1>14, Zenon
  <2>3. CASE decode_frame(bytes) = "Ok"
    <3>1. Become("receiver", "idle") /\ frame' = <<>> /\ delivered' = Append(delivered, message_of(bytes))
      BY <2>2, <2>3, Zenon DEF Complete
    <3>2. Sound(sent, Append(delivered, message_of(bytes)), <<>>, left, rest, damaged)
      BY <1>3, <1>5, <2>1, <2>3, SoundDelivers, Zenon
    <3>3. Sound(sent, delivered, frame, pipe, rest, damaged)'
      BY <1>1, <3>1, <3>2, Zenon
    <3>4. Receives("idle", frame') /\ "idle" \in {"idle"} \cup InCall \cup Statuses /\ "idle" # "closed"
      BY <3>1 DEF Receives
    <3> QED BY <1>11, <3>1, <3>3, <3>4, Zenon
  <2>4. CASE decode_frame(bytes) # "Ok"
    <3> DEFINE state == decode_frame(bytes)
    <3>1. Become("receiver", state) /\ frame' = bytes /\ delivered' = delivered
      BY <2>2, <2>4, Zenon DEF Complete
    <3>2. state \in Statuses \ {"closed"}
      BY Verdicts, Zenon
    <3> HIDE DEF state
    <3>3. state \in {"idle"} \cup InCall \cup Statuses /\ state # "closed" /\ Receives(state, frame')
      BY <3>2 DEF Receives, Statuses
    <3>4. Sound(sent, delivered, frame, pipe, rest, damaged)'
      BY <1>1, <1>5, <3>1, Zenon
    <3> QED BY <1>11, <3>1, <3>3, <3>4, Zenon
  <2> QED BY <2>3, <2>4
<1> QED BY <1>1, <1>12, <1>13, <1>14, Zenon

\* A frame has its overhead at least.
LEMMA SizeAtLeast ==
  ASSUME NEW m \in Messages
  PROVE  Size(m) \in Nat /\ Size(m) >= 7
BY EncodeShape DEF Size, kFrameOverheadBytes, kFrameHeaderBytes, kFrameTrailerBytes

\* So much lies between the ends of two frames.
LEMMA CutsApart ==
  ASSUME NEW S \in Seq(Messages), NEW c, Cuts(c, S), NEW i \in 0..Len(S), NEW j \in 0..Len(S), i < j
  PROVE  c[i] \in Nat /\ c[j] \in Nat /\ c[i] + 7 <= c[j]
<1>1. i + 1 \in 1..Len(S) /\ i + 1 \in 0..Len(S) /\ (i + 1) - 1 = i /\ S[i + 1] \in Messages
  OBVIOUS
<1>2. c[i] \in Nat /\ c[i + 1] \in Nat /\ c[j] \in Nat /\ c[i + 1] = c[i] + Size(S[i + 1])
  BY <1>1, Zenon DEF Cuts
<1>3. i + 1 < j => c[i + 1] < c[j]
  BY <1>1, Zenon DEF Cuts
<1>4. i + 1 < j \/ i + 1 = j
  OBVIOUS
<1>5. c[i + 1] <= c[j]
  BY <1>2, <1>3, <1>4
<1>6. Size(S[i + 1]) \in Nat /\ Size(S[i + 1]) >= 7
  BY <1>1, SizeAtLeast, Zenon
<1> QED BY <1>2, <1>5, <1>6

\* The end of the stream at the start of a read_exact is the end of a frame or of a header.
LEMMA EndIsClean ==
  ASSUME IInv, call["receiver"] \in {"header", "body"}, pipe = <<>>, offset = 0
  PROVE  Len(delivered) = Whole /\ Torn \in {0, kFrameHeaderBytes}
<1> DEFINE d == Len(delivered)
           n == Len(sent)
           x == Len(frame)
           y == Len(rest)
<1>1. /\ Sound(sent, delivered, frame, pipe, rest, damaged)
      /\ Sends(call["sender"], open["sender"], sent, rest) /\ Receives(call["receiver"], frame)
  BY Zenon DEF IInv
<1>2. PICK c, p : Flows(c, p, sent, d, frame, pipe, rest)
  BY <1>1, Zenon DEF Sound
<1>3. sent \in Seq(Messages) /\ frame \in Seq(Cells) /\ rest \in Seq(Cells)
  BY <1>1, Zenon DEF Sound
<1>4. d \in 0..n /\ n \in Nat /\ d \in Nat
  BY <1>1, SoundCount, Zenon
<1>5. x \in Nat /\ y \in Nat /\ (rest = <<>> <=> y = 0)
  BY <1>3
<1>6. x = 0 \/ x = 5
  <2>1. call["receiver"] = "body" => kFrameHeaderBytes <= Len(frame)
    BY <1>1, Zenon DEF Receives
  <2> QED BY <1>5, <2>1 DEF offset, kFrameHeaderBytes
<1>7. /\ Cuts(c, sent) /\ c[d] + Sum(frame, pipe, rest) = c[n]
      /\ \A j \in 0..n : c[j] \in Nat
      /\ \A j \in 1..n : c[j] = c[j - 1] + Size(sent[j])
  BY <1>2, Zenon DEF Flows, Cuts
<1>8. Sum(frame, pipe, rest) = x + y
  BY <1>5 DEF Sum
<1>9. ASSUME NEW i \in 0..n, NEW j \in 0..n, i < j PROVE c[i] + 7 <= c[j]
  BY <1>3, <1>7, <1>9, CutsApart, Zenon
<1>10. c[d] \in Nat /\ c[n] \in Nat /\ c[d] + (x + y) = c[n] /\ n \in 0..n
  BY <1>4, <1>7, <1>8
<1> HIDE DEF x, y, d, n
<1>11. CASE y = 0
  <2>1. ~ (d < n)
    <3> SUFFICES ASSUME d < n PROVE FALSE
      OBVIOUS
    <3>1. c[d] + 7 <= c[n]
      BY <1>4, <1>9, <1>10, Zenon
    <3> QED BY <1>6, <1>10, <1>11, <3>1
  <2>2. d = n
    BY <1>4, <2>1
  <2>3. Whole = n - 0 /\ Torn = 0
    BY <1>5, <1>11 DEF Whole, Torn, n
  <2> QED BY <1>4, <2>2, <2>3 DEF d
<1>12. CASE y # 0
  <2>1. y > 0
    BY <1>5, <1>12
  <2>2. n > 0 /\ y <= Size(sent[n])
    BY <1>1, <2>1, Zenon DEF Sends, y, n
  <2>3. n \in 1..n /\ n - 1 \in 0..n /\ n - 1 < n /\ sent[n] \in Messages
    BY <1>3, <1>4, <2>2 DEF n
  <2>4. Size(sent[n]) \in Nat /\ Len(encode_frame(sent[n])) = Size(sent[n])
    BY <2>3, SizeAtLeast, EncodedSeq, Zenon
  <2>5. c[n - 1] \in Nat /\ c[n] = c[n - 1] + Size(sent[n])
    BY <1>7, <2>3, Zenon
  <2>6. Whole = n - 1 /\ Torn = Size(sent[n]) - y
    BY <1>5, <1>12, <2>4 DEF Whole, Torn, n, y
  <2> DEFINE s == Size(sent[n])
             a == c[n - 1]
             b == c[d]
  <2>7. a \in Nat /\ b \in Nat /\ s \in Nat /\ b + (x + y) = a + s /\ y <= s
    BY <1>10, <2>2, <2>4, <2>5, Zenon
  <2>8. d # n
    BY <1>5, <1>10, <2>1
  <2>9. ~ (d < n - 1)
    <3> SUFFICES ASSUME d < n - 1 PROVE FALSE
      OBVIOUS
    <3>1. b + 7 <= a
      BY <1>4, <1>9, <2>3, Zenon
    <3> HIDE DEF a, b, s
    <3> QED BY <1>5, <1>6, <2>7, <3>1
  <2>10. d = n - 1
    BY <1>4, <2>8, <2>9
  <2>11. a = b
    BY <2>10
  <2> HIDE DEF a, b
  <2>12. s - y = x
    <3> HIDE DEF s
    <3> QED BY <1>5, <2>7, <2>11
  <2>13. Torn \in {0, kFrameHeaderBytes}
    BY <1>6, <2>6, <2>12 DEF kFrameHeaderBytes
  <2> QED BY <2>6, <2>10, <2>13, Zenon DEF d
<1> QED BY <1>11, <1>12

\* The stream has ended.
LEMMA ReadEndOK ==
  ASSUME IInv, ReadEnd
  PROVE  IInv'
<1>1. /\ call["receiver"] \in {"header", "body"} /\ pipe = <<>> /\ ~open["sender"]
      /\ Become("receiver", end_of_stream)
      /\ UNCHANGED <<server, sent, rest, pipe, frame, delivered, open, stopping, broken, damaged>>
  BY Zenon DEF ReadEnd, Reading
<1>2. /\ Kinds /\ Sound(sent, delivered, frame, pipe, rest, damaged)
      /\ Sends(call["sender"], open["sender"], sent, rest)
  BY Zenon DEF IInv
<1>3. end_of_stream \in {"closed", "TruncatedInput"} /\ (end_of_stream = "closed" => offset = 0)
  BY DEF end_of_stream
<1>4. end_of_stream \in {"idle"} \cup InCall \cup Statuses
  BY <1>3 DEF Statuses
<1>5. Kinds'
  <2>1. open' \in [Ends -> BOOLEAN] /\ Len(pipe') <= PipeSize
    BY <1>1, <1>2, Zenon DEF Kinds
  <2> QED BY <1>1, <1>2, <1>4, <2>1, KindsStay, TwoEnds, Zenon
<1>6. call'["receiver"] = end_of_stream /\ call'["sender"] = call["sender"]
  BY <1>1, <1>2, <1>4, CallMoves, TwoEnds, Zenon
<1>7. CASE end_of_stream = "TruncatedInput"
  <2>1. call'["receiver"] \notin {"idle", "closed"} \cup InCall
    BY <1>6, <1>7 DEF InCall
  <2>2. open'["sender"] = open["sender"]
    BY <1>1, Zenon
  <2> QED BY <1>1, <1>5, <1>6, <2>1, <2>2, ReceiverEnds, Zenon
<1>8. CASE end_of_stream = "closed"
  <2>1. Len(delivered) = Whole /\ Torn \in {0, kFrameHeaderBytes}
    BY <1>1, <1>3, <1>8, EndIsClean, Zenon
  <2>2. ClosedLast'
    BY <1>1, <2>1, Zenon DEF ClosedLast, CleanClose, Whole, Torn
  <2>3. Receives(call["receiver"], frame)'
    BY <1>6, <1>8 DEF Receives
  <2>4. Sound(sent, delivered, frame, pipe, rest, damaged)'
    BY <1>1, <1>2, Zenon
  <2>5. Sends(call["sender"], open["sender"], sent, rest)'
    BY <1>1, <1>2, <1>6, Zenon
  <2> QED BY <1>5, <2>2, <2>3, <2>4, <2>5, Zenon DEF IInv
<1> QED BY <1>3, <1>7, <1>8

\* A call is stopped, fails or dies: statuses that end a call.
LEMMA EndingStatuses ==
  ASSUME NEW state \in {"ShutdownInProgress", "TransportError", "killed"}
  PROVE  state \in {"idle"} \cup InCall \cup Statuses /\ state \notin {"idle", "closed"} \cup InCall
BY DEF InCall, Statuses

\* Either end gives a call up.
LEMMA GivesUp ==
  ASSUME IInv, NEW e \in Ends, NEW state \in {"ShutdownInProgress", "TransportError", "killed"},
         Become(e, state), UNCHANGED <<server, sent, rest, pipe, frame, delivered, stopping, broken, damaged>>,
         open' \in [Ends -> BOOLEAN], open'["sender"] => open["sender"],
         e = "receiver" => open'["sender"] = open["sender"]
  PROVE  IInv'
<1>1. Kinds
  BY Zenon DEF IInv
<1>2. state \in {"idle"} \cup InCall \cup Statuses /\ state \notin {"idle", "closed"} \cup InCall
  BY EndingStatuses, Zenon
<1>3. Kinds'
  <2>1. Len(pipe') <= PipeSize
    BY <1>1, Zenon DEF Kinds
  <2> QED BY <1>1, <1>2, <2>1, KindsStay, Zenon
<1>4. call'[e] = state /\ \A x \in Ends : x # e => call'[x] = call[x]
  BY <1>1, <1>2, CallMoves, Zenon
<1>5. CASE e = "sender"
  <2>1. call'["receiver"] = call["receiver"]
    BY <1>4, <1>5, TwoEnds, Zenon
  <2>2. call'["sender"] \notin {"idle"} \cup InCall
    BY <1>2, <1>4, <1>5, Zenon
  <2> QED BY <1>3, <2>1, <2>2, SenderEnds, Zenon
<1>6. CASE e = "receiver"
  <2>1. call'["sender"] = call["sender"]
    BY <1>4, <1>6, TwoEnds, Zenon
  <2>2. call'["receiver"] \notin {"idle", "closed"} \cup InCall
    BY <1>2, <1>4, <1>6, Zenon
  <2> QED BY <1>3, <1>6, <2>1, <2>2, ReceiverEnds, Zenon
<1> QED BY <1>5, <1>6 DEF Ends

\* An end is closed; the others of an end's flags stay.
LEMMA OpenMoves ==
  ASSUME Kinds, NEW e \in Ends, open' = [open EXCEPT ![e] = FALSE]
  PROVE  /\ open' \in [Ends -> BOOLEAN] /\ (open'["sender"] => open["sender"])
         /\ e # "sender" => open'["sender"] = open["sender"]
BY TwoEnds, Zenon DEF Kinds

\* Every step keeps the invariant.
LEMMA IInvStep == IInv /\ [Next]_vars => IInv'
<1> SUFFICES ASSUME IInv, [Next]_vars PROVE IInv'
  OBVIOUS
<1>1. Kinds
  BY Zenon DEF IInv
<1>2. open \in [Ends -> BOOLEAN]
  BY <1>1, Zenon DEF Kinds
<1>3. ASSUME NEW message \in Messages, send_frame(message) PROVE IInv'
  BY <1>3, SendOK, Zenon
<1>4. ASSUME NEW k \in 1..PipeSize, Write(k) PROVE IInv'
  BY <1>4, WriteOK, Zenon
<1>5. ASSUME NEW k \in 1..PipeSize, Read(k) PROVE IInv'
  BY <1>5, ReadOK, Zenon
<1>6. CASE recv_frame
  BY <1>6, RecvOK, Zenon
<1>7. CASE ReadEnd
  BY <1>7, ReadEndOK, Zenon
<1>8. ASSUME NEW e \in Ends, StopCall(e) PROVE IInv'
  <2>1. /\ Become(e, "ShutdownInProgress")
        /\ UNCHANGED <<server, sent, rest, pipe, frame, delivered, open, stopping, broken, damaged>>
    BY <1>8, Zenon DEF StopCall
  <2> QED BY <1>2, <2>1, GivesUp, Zenon
<1>9. CASE WriteFails
  <2>1. /\ Become("sender", "TransportError")
        /\ UNCHANGED <<server, sent, rest, pipe, frame, delivered, open, stopping, broken, damaged>>
    BY <1>9, Zenon DEF WriteFails
  <2> QED BY <1>2, <2>1, GivesUp, TwoEnds, Zenon
<1>10. CASE ReadFails
  <2>1. /\ Become("receiver", "TransportError")
        /\ UNCHANGED <<server, sent, rest, pipe, frame, delivered, open, stopping, broken, damaged>>
    BY <1>10, Zenon DEF ReadFails
  <2> QED BY <1>2, <2>1, GivesUp, TwoEnds, Zenon
<1>11. ASSUME NEW e \in Ends, Kill(e) PROVE IInv'
  <2>1. /\ Become(e, "killed") /\ open' = [open EXCEPT ![e] = FALSE]
        /\ UNCHANGED <<server, sent, rest, pipe, frame, delivered, stopping, broken, damaged>>
    BY <1>11, Zenon DEF Kill
  <2>2. /\ open' \in [Ends -> BOOLEAN] /\ (open'["sender"] => open["sender"])
        /\ e # "sender" => open'["sender"] = open["sender"]
    BY <1>1, <2>1, OpenMoves, Zenon
  <2> QED BY <2>1, <2>2, GivesUp, TwoEnds, Zenon
<1>12. ASSUME NEW e \in Ends, Close(e) PROVE IInv'
  <2>1. /\ call[e] \notin InCall /\ open' = [open EXCEPT ![e] = FALSE]
        /\ UNCHANGED <<server, sent, rest, pipe, frame, delivered, call, stopping, broken, damaged>>
    BY <1>12, Zenon DEF Close
  <2>2. /\ open' \in [Ends -> BOOLEAN] /\ (open'["sender"] => open["sender"])
        /\ e # "sender" => open'["sender"] = open["sender"]
    BY <1>1, <2>1, OpenMoves, Zenon
  <2>3. Kinds'
    BY <1>1, <2>1, <2>2, Zenon DEF Kinds
  <2>4. call["sender"] \in InCall => open'["sender"] = open["sender"]
    BY <2>1, <2>2, Zenon
  <2> QED BY <2>1, <2>2, <2>3, <2>4, Elsewhere, Zenon
<1>13. CASE Stop \/ Break
  <2>1. /\ UNCHANGED <<server, sent, rest, pipe, frame, delivered, call, open, damaged>>
        /\ stopping' \in BOOLEAN /\ broken' \in BOOLEAN
    BY <1>1, <1>13, Zenon DEF Stop, Break, Kinds
  <2>2. Kinds'
    BY <1>1, <2>1, Zenon DEF Kinds
  <2> QED BY <2>1, <2>2, Elsewhere, Zenon
<1>14. CASE Damage
  <2>1. \E i \in DOMAIN pipe : \E value \in OtherValues(pipe[i]) : pipe' = [pipe EXCEPT ![i] = value]
    BY <1>14, Zenon DEF Damage
  <2>2. Struck(pipe, pipe')
    BY <2>1, Zenon DEF Struck
  <2>3. /\ damaged = FALSE /\ damaged' = TRUE
        /\ UNCHANGED <<server, sent, rest, frame, delivered, call, open, stopping, broken>>
    BY <1>1, <1>14, Zenon DEF Damage, Kinds
  <2>4. Sound(sent, delivered, frame, pipe, rest, FALSE)
    BY <2>3, Zenon DEF IInv
  <2>5. Sound(sent, delivered, frame, pipe', rest, TRUE) /\ Len(pipe') = Len(pipe)
    BY <2>2, <2>4, SoundDamages, Zenon
  <2>6. Sound(sent, delivered, frame, pipe, rest, damaged)' /\ Len(pipe') = Len(pipe)
    BY <2>3, <2>5, Zenon
  <2>7. Kinds'
    BY <1>1, <2>3, <2>6, Zenon DEF Kinds
  <2>8. ClosedLast'
    BY <2>3, Zenon DEF IInv, ClosedLast, CleanClose, Whole, Torn
  <2> QED BY <2>3, <2>6, <2>7, <2>8, Zenon DEF IInv
<1>15. CASE UNCHANGED vars
  <2>1. UNCHANGED <<server, sent, rest, pipe, frame, delivered, call, open, stopping, broken, damaged>>
    BY <1>15 DEF vars
  <2>2. Kinds'
    BY <1>1, <2>1, Zenon DEF Kinds
  <2> QED BY <2>1, <2>2, Elsewhere, Zenon
<1> QED BY <1>3, <1>4, <1>5, <1>6, <1>7, <1>8, <1>9, <1>10, <1>11, <1>12, <1>13, <1>14, <1>15, TwoEnds, Zenon
        DEF Next, SenderStep, ReceiverStep

\* The invariant holds throughout a connection.
LEMMA StreamInvariant == Spec => []IInv
<1>1. Init => IInv
  BY IInvInit
<1>2. IInv /\ [Next]_vars => IInv'
  BY IInvStep
<1> QED BY <1>1, <1>2, PTL DEF Spec

(***************************************************************************)
(* recv_frame returns the frames that send_frame was given, unchanged,     *)
(* each once and in order, for every number and size of frames, every      *)
(* buffer and every cut of the stream, with one byte damaged anywhere and  *)
(* either end stopped, failed or killed at any point.                      *)
(***************************************************************************)
THEOREM StreamDeliversInOrder == Spec => []DeliveredInOrder
<1>1. IInv => DeliveredInOrder
  <2> SUFFICES ASSUME IInv PROVE DeliveredInOrder
    OBVIOUS
  <2>1. /\ sent \in Seq(Messages) /\ delivered \in Seq(Messages) /\ Len(delivered) <= Len(sent)
        /\ \A i \in 1..Len(delivered) : delivered[i] = sent[i]
    BY Zenon DEF IInv, Sound
  <2>2. delivered = SubSeq(sent, 1, Len(delivered))
    BY <2>1
  <2> QED BY <2>1, <2>2, Zenon DEF DeliveredInOrder
<1> QED BY <1>1, StreamInvariant, PTL

(***************************************************************************)
(* When recv_frame reports a clean close it has returned every frame that  *)
(* write_all wrote whole, and the stream ended between two frames or right *)
(* behind a header.                                                        *)
(***************************************************************************)
THEOREM StreamCleanClose == Spec => []CleanClose
<1>1. IInv => CleanClose
  BY Zenon DEF IInv, ClosedLast, CleanClose
<1> QED BY <1>1, StreamInvariant, PTL

(***************************************************************************)
(* The types; and read_exact never reads more than the receiver's limit    *)
(* allows, whatever length a frame announces.                              *)
(***************************************************************************)
THEOREM StreamTypes == Spec => []TypeOK
<1>1. IInv => TypeOK
  <2> SUFFICES ASSUME IInv PROVE TypeOK
    OBVIOUS
  <2>1. Kinds /\ Receives(call["receiver"], frame) /\ frame \in Seq(Cells)
    BY Zenon DEF IInv, Sound
  <2>2. ASSUME call["receiver"] = "body"
        PROVE  kFrameHeaderBytes + count <= kFrameOverheadBytes + MaxPayload /\ offset < count
    <3>1. /\ payload_length(frame) \in Nat /\ payload_length(frame) <= MaxPayload
          /\ 5 <= Len(frame) /\ Len(frame) < total(frame)
      BY <2>1, <2>2 DEF Receives, kFrameHeaderBytes
    <3>2. /\ total(frame) = 7 + payload_length(frame) /\ count = payload_length(frame) + 2
          /\ offset = Len(frame) - 5 /\ kFrameHeaderBytes = 5 /\ kFrameOverheadBytes = 7
      BY <2>2, <3>1 DEF total, count, offset, kFrameOverheadBytes, kFrameHeaderBytes, kFrameTrailerBytes
    <3> QED BY <2>1, <3>1, <3>2, StreamAssumption
  <2>3. call["receiver"] = "header" => Len(frame) < kFrameHeaderBytes
    BY <2>1, Zenon DEF Receives
  <2> QED BY <2>1, <2>2, <2>3, Zenon DEF TypeOK, Kinds
<1> QED BY <1>1, StreamInvariant, PTL
=============================================================================
