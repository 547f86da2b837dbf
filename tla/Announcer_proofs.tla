-------------------------- MODULE Announcer_proofs --------------------------
(***************************************************************************)
(* The type invariant of Announcer, its packets' numbers, the lengths of   *)
(* its copies, and the stream a receiver puts together.                    *)
(***************************************************************************)
EXTENDS Announcer, SequenceTheorems, TLAPS

-----------------------------------------------------------------------------
(* Division *)

LEMMA Division ==
    ASSUME NEW a \in Int, NEW d \in Nat \ {0}
    PROVE  /\ a \div d \in Int /\ a % d \in 0..(d - 1)
           /\ a = d * (a \div d) + (a % d)
  OBVIOUS

LEMMA DivisionUnique ==
    ASSUME NEW d \in Nat \ {0}, NEW q \in Int, NEW r \in 0..(d - 1), NEW a \in Int,
           a = d * q + r
    PROVE  a \div d = q /\ a % d = r
  OBVIOUS

\* Remainders add up.
LEMMA RemainderOfSum ==
    ASSUME NEW d \in Nat \ {0}, NEW a \in Int, NEW b \in Int
    PROVE  ((a % d) + b) % d = (a + b) % d
  <1>. DEFINE c == (a % d) + b
  <1>1. /\ a \div d \in Int /\ a % d \in Int /\ a = d * (a \div d) + (a % d)
    BY Division
  <1>2. /\ c \in Int /\ c \div d \in Int /\ c % d \in 0..(d - 1)
        /\ c = d * (c \div d) + (c % d)
    BY <1>1, Division
  <1>3. a + b = d * ((a \div d) + (c \div d)) + (c % d)
    <2>1. a + b = d * (a \div d) + d * (c \div d) + (c % d)
      BY <1>1, <1>2
    <2>2. d * ((a \div d) + (c \div d)) = d * (a \div d) + d * (c \div d)
      BY <1>1, <1>2
    <2>. QED  BY <1>1, <1>2, <2>1, <2>2
  <1>. DEFINE e == a + b
              q == (a \div d) + (c \div d)
  <1>4. e \in Int /\ q \in Int /\ e = d * q + (c % d)
    BY <1>1, <1>2, <1>3
  <1>. HIDE DEF c, e, q
  <1>5. e % d = c % d
    BY <1>2, <1>4, DivisionUnique
  <1>. QED  BY <1>5 DEF c, e

\* The loop of encode_audio_frame cuts whole chunks, and what is left over is
\* shorter than one.
LEMMA WholeRounds ==
    ASSUME NEW size \in Int, NEW skip \in Nat
    PROVE  /\ Rounds(size, skip) \in Nat
           /\ size - skip >= 0 =>
                /\ Rounds(size, skip) * Chunk <= size - skip
                /\ size - skip = Chunk * Rounds(size, skip) + ((size - skip) % Chunk)
  <1>1. Chunk \in Nat \ {0}
    BY AnnouncerAssumption
  <1>. DEFINE m == size - skip
  <1>2. /\ m \in Int /\ m \div Chunk \in Int /\ m % Chunk \in 0..(Chunk - 1)
        /\ m = Chunk * (m \div Chunk) + (m % Chunk)
    BY <1>1, Division
  <1>3. CASE m < Chunk
    <2>1. Rounds(size, skip) = 0
      BY <1>3 DEF Rounds
    <2>2. ASSUME m >= 0 PROVE m % Chunk = m
      <3>1. m \in 0..(Chunk - 1) /\ m = Chunk * 0 + m
        BY <1>1, <1>2, <1>3, <2>2
      <3>. QED  BY <1>1, <1>2, <3>1, DivisionUnique
    <2>. QED  BY <1>1, <1>2, <2>1, <2>2
  <1>4. CASE m >= Chunk
    <2>1. Rounds(size, skip) = m \div Chunk
      BY <1>1, <1>2, <1>4 DEF Rounds
    <2>2. m \div Chunk >= 0 /\ (m \div Chunk) * Chunk = Chunk * (m \div Chunk)
      BY <1>1, <1>2, <1>4
    <2>. QED  BY <1>1, <1>2, <2>1, <2>2
  <1>. QED  BY <1>1, <1>2, <1>3, <1>4

-----------------------------------------------------------------------------
(* Type correctness *)

LEMMA BytesType ==
    ASSUME encoded \in Nat, NEW size \in Nat, NEW from \in Nat, NEW to \in Nat, from <= to
    PROVE  Bytes(size, from, to) \in Seq(Nat) /\ Len(Bytes(size, from, to)) = to - from
  <1>. DEFINE F == [b \in 1..(to - from) |->
                      IF from + b <= size THEN encoded + from + b ELSE 0]
  <1>1. to - from \in Nat /\ \A b \in 1..(to - from) : F[b] \in Nat
    OBVIOUS
  <1>2. F \in Seq(Nat)
    BY <1>1
  <1>3. DOMAIN F = 1..(to - from)
    OBVIOUS
  <1>. HIDE DEF F
  <1>4. Len(F) = to - from
    BY <1>1, <1>2, <1>3, LenProperties
  <1>. QED  BY <1>2, <1>4 DEF Bytes, F

Chunks == {s \in Seq(Nat) : Len(s) = Chunk}

\* What a call does, seen from outside: it sends some packets of a chunk each,
\* and keeps something for the next call.
Effect(size) ==
    /\ \E payloads \in Seq(Chunks) : Transmit(payloads)
    /\ left_data' \in Seq(Nat)
    /\ crashed' \in BOOLEAN
    /\ encoded' \in Nat
    /\ ragged' \in BOOLEAN

LEMMA Product == \A m, n \in Nat : m * n \in Nat
  OBVIOUS

LEMMA ChunkOfBytes ==
    ASSUME encoded \in Nat, NEW size \in Nat, NEW n \in Nat \ {0}, NEW skip \in Nat
    PROVE  Bytes(size, ((n - 1) * Chunk) + skip, (n * Chunk) + skip) \in Chunks
  <1>1. Chunk \in Nat
    BY AnnouncerAssumption
  <1>. DEFINE u == (n - 1) * Chunk
              v == n * Chunk
  <1>2. u \in Nat /\ v \in Nat /\ v - u = Chunk
    BY <1>1
  <1>. HIDE DEF u, v
  <1>3. u + skip \in Nat /\ v + skip \in Nat /\ (v + skip) - (u + skip) = Chunk
    BY <1>1, <1>2
  <1>4. u + skip <= v + skip
    BY <1>1, <1>2
  <1>5. Bytes(size, u + skip, v + skip) \in Chunks
    BY <1>3, <1>4, BytesType DEF Chunks
  <1>. QED  BY <1>5 DEF u, v

LEMMA CutInChunks ==
    ASSUME encoded \in Nat, NEW size \in Nat, NEW rounds \in Nat, NEW skip \in Nat
    PROVE  [n \in 1..rounds |-> Bytes(size, ((n - 1) * Chunk) + skip, (n * Chunk) + skip)]
             \in Seq(Chunks)
  BY ChunkOfBytes

\* The packets cut from the beginning of what was encoded.
Cut(size, rounds) == [n \in 1..rounds |-> Bytes(size, (n - 1) * Chunk, n * Chunk)]

LEMMA CutType ==
    ASSUME encoded \in Nat, NEW size \in Nat, NEW rounds \in Nat
    PROVE  Cut(size, rounds) \in Seq(Chunks) /\ Len(Cut(size, rounds)) = rounds
  <1>. DEFINE Q == [n \in 1..rounds |-> Bytes(size, ((n - 1) * Chunk) + 0, (n * Chunk) + 0)]
  <1>1. Chunk \in Nat
    BY AnnouncerAssumption
  <1>2. Cut(size, rounds) = Q
    BY <1>1 DEF Cut
  <1>3. Q \in Seq(Chunks)
    BY CutInChunks
  <1>4. DOMAIN Q = 1..rounds
    OBVIOUS
  <1>. HIDE DEF Q
  <1>. QED  BY <1>2, <1>3, <1>4, LenProperties

LEMMA FreshEffect ==
    ASSUME TypeOK, NEW size \in Nat, EncodeFresh(size)
    PROVE  LET rounds == Rounds(size, 0)
           IN  /\ rounds \in Nat /\ rounds * Chunk \in Nat /\ rounds * Chunk <= size
               /\ Transmit(Cut(size, rounds)) /\ Cut(size, rounds) \in Seq(Chunks)
               /\ left_data' = Bytes(size, rounds * Chunk, size)
               /\ left_data' \in Seq(Nat) /\ Len(left_data') = size - rounds * Chunk
  <1>1. encoded \in Nat /\ Chunk \in Nat \ {0}
    BY AnnouncerAssumption DEF TypeOK
  <1>. DEFINE rounds == Rounds(size, 0)
  <1>2. Transmit(Cut(size, rounds)) /\ left_data' = Bytes(size, rounds * Chunk, size)
    BY DEF EncodeFresh, Cut
  <1>3. rounds \in Nat /\ rounds * Chunk <= size
    BY <1>1, WholeRounds
  <1>. HIDE DEF rounds
  <1>4. Cut(size, rounds) \in Seq(Chunks)
    BY <1>1, <1>3, CutType
  <1>5. rounds * Chunk \in Nat
    BY <1>1, <1>3, Product
  <1>6. left_data' \in Seq(Nat) /\ Len(left_data') = size - rounds * Chunk
    BY <1>1, <1>2, <1>3, <1>5, BytesType
  <1>. QED  BY <1>2, <1>3, <1>4, <1>5, <1>6 DEF rounds

LEMMA AfterLeftEffect ==
    ASSUME TypeOK, NEW size \in Nat, EncodeAfterLeft(size)
    PROVE  /\ \E payloads \in Seq(Chunks) : Transmit(payloads)
           /\ left_data' \in Seq(Nat)
           /\ crashed' \in BOOLEAN
  <1>1. /\ encoded \in Nat /\ left_data \in Seq(Nat) /\ Len(left_data) \in Nat
        /\ Chunk \in Nat \ {0} /\ crashed \in BOOLEAN /\ sent \in Seq(Packet) /\ amount \in Int
    BY AnnouncerAssumption DEF TypeOK
  <1>. DEFINE skip == Chunk - Len(left_data)
              rest == size - Len(left_data)
              rounds == Rounds(rest, skip)
              first == left_data \o Bytes(size, 0, skip)
              P == [n \in 1..rounds |->
                      Bytes(size, ((n - 1) * Chunk) + skip, (n * Chunk) + skip)]
  <1>2. \/ /\ skip < 0
           /\ crashed' = TRUE
           /\ UNCHANGED <<left_data, amount, sent>>
        \/ /\ ~(skip < 0)
           /\ Transmit(<<first>> \o P)
           /\ \/ /\ rest - rounds * Chunk >= 0
                 /\ left_data' = Bytes(size, rounds * Chunk, rest)
                 /\ UNCHANGED crashed
              \/ crashed' = TRUE /\ UNCHANGED left_data
    BY DEF EncodeAfterLeft
  <1>3. skip \in Int /\ rest \in Int /\ skip + Len(left_data) = Chunk
    BY <1>1
  <1>. HIDE DEF skip, rest
  <1>4. CASE skip < 0
    <2>1. crashed' = TRUE /\ UNCHANGED <<left_data, amount, sent>>
      BY <1>2, <1>4
    <2>. DEFINE none == [n \in 1..Len(<<>>) |-> Header(n, (<<>>)[n])]
    <2>2. none = <<>> /\ sent \o <<>> = sent /\ <<>> \in Seq(Chunks) /\ Len(<<>>) = 0
      BY <1>1, EmptySeq, ConcatEmptySeq
    <2>3. Transmit(<<>>)
      BY <1>1, <2>1, <2>2 DEF Transmit
    <2>. QED  BY <1>1, <2>1, <2>2, <2>3
  <1>5. CASE skip >= 0
    <2>0. skip \in Nat
      BY <1>3, <1>5
    <2>. HIDE DEF first, P
    <2>1. skip \in Nat /\ rounds \in Nat
      BY <1>3, <2>0, WholeRounds
    <2>. HIDE DEF rounds
    <2>2. rounds * Chunk \in Nat
      BY <1>1, <2>1, Product
    <2>3. first \in Chunks
      <3>1. 0 <= skip /\ skip - 0 = skip /\ 0 \in Nat
        BY <2>1
      <3>2. Bytes(size, 0, skip) \in Seq(Nat) /\ Len(Bytes(size, 0, skip)) = skip
        BY <1>1, <2>1, <3>1, BytesType
      <3>. QED  BY <1>1, <1>3, <2>1, <3>2, ConcatProperties DEF Chunks, first
    <2>4. P \in Seq(Chunks)
      BY <1>1, <2>1, CutInChunks DEF P
    <2>5. <<first>> \o P \in Seq(Chunks)
      BY <2>3, <2>4, ConcatProperties
    <2>6. /\ Transmit(<<first>> \o P)
          /\ \/ /\ rest - rounds * Chunk >= 0
                /\ left_data' = Bytes(size, rounds * Chunk, rest)
                /\ UNCHANGED crashed
             \/ crashed' = TRUE /\ UNCHANGED left_data
      BY <1>2, <1>3, <1>5
    <2>7. left_data' \in Seq(Nat) /\ crashed' \in BOOLEAN
      <3>1. CASE /\ rest - rounds * Chunk >= 0
                 /\ left_data' = Bytes(size, rounds * Chunk, rest)
                 /\ UNCHANGED crashed
        <4>1. rest \in Nat /\ rounds * Chunk <= rest
          BY <1>3, <2>2, <3>1
        <4>. QED  BY <1>1, <2>2, <3>1, <4>1, BytesType
      <3>. QED  BY <1>1, <2>6, <3>1
    <2>. QED  BY <2>5, <2>6, <2>7
  <1>. QED  BY <1>3, <1>4, <1>5

LEMMA EncodeEffect ==
    ASSUME TypeOK, NEW size \in Nat, EncodeAudioFrame(size)
    PROVE  Effect(size)
  <1>1. encoded' \in Nat /\ ragged' \in BOOLEAN /\ crashed \in BOOLEAN
    BY DEF EncodeAudioFrame, TypeOK
  <1>2. CASE EncodeFresh(size)
    BY <1>1, <1>2, FreshEffect DEF Effect, EncodeFresh
  <1>3. CASE EncodeAfterLeft(size)
    BY <1>1, <1>3, AfterLeftEffect DEF Effect
  <1>. QED  BY <1>2, <1>3 DEF EncodeAudioFrame

LEMMA TypeInit == Init => TypeOK
  <1>. SUFFICES ASSUME Init PROVE TypeOK
    OBVIOUS
  <1>1. file \in Seq(Sizes)
    BY AnnouncerAssumption DEF Init, Files
  <1>2. sent \in Seq(Packet) /\ Len(sent) = 0 /\ left_data \in Seq(Nat)
    BY EmptySeq DEF Init
  <1>3. amount \in Int /\ encoded = 0 /\ ragged = FALSE /\ crashed = FALSE
    BY AnnouncerAssumption DEF Init
  <1>4. \A n \in 1..Len(sent) : Len(sent[n].payload) = Chunk
    BY <1>2
  <1>. QED  BY <1>1, <1>2, <1>3, <1>4 DEF TypeOK

\* The packets of a call.
Packets(payloads) == [n \in 1..Len(payloads) |-> Header(n, payloads[n])]

LEMMA HeaderType ==
    ASSUME amount \in Int, NEW n \in Nat, NEW payload \in Seq(Nat)
    PROVE  Header(n, payload) \in Packet
  <1>1. /\ (amount + n) % SeqNos \in 0..(SeqNos - 1)
        /\ SeqNos \in Nat \ {0} /\ Stamps \in Nat \ {0} /\ Chunk \in Nat
    BY AnnouncerAssumption, Division
  <1>2. Chunk * (amount + n) \in Int
    BY <1>1
  <1>3. (Chunk * (amount + n)) % Stamps \in 0..(Stamps - 1)
    BY <1>1, <1>2, Division
  <1>. QED  BY <1>1, <1>3 DEF Header, Packet

\* What a call appends to the packets sent.
LEMMA Appended ==
    ASSUME TypeOK, NEW payloads \in Seq(Chunks), Transmit(payloads)
    PROVE  /\ sent' = sent \o Packets(payloads)
           /\ Packets(payloads) \in Seq(Packet)
           /\ Len(payloads) \in Nat /\ Len(Packets(payloads)) = Len(payloads)
           /\ sent' \in Seq(Packet) /\ Len(sent') = Len(sent) + Len(payloads)
           /\ \A n \in 1..Len(sent') :
                IF n <= Len(sent)
                THEN sent'[n] = sent[n]
                ELSE /\ n - Len(sent) \in 1..Len(payloads)
                     /\ payloads[n - Len(sent)] \in Chunks
                     /\ sent'[n] = Header(n - Len(sent), payloads[n - Len(sent)])
  <1>1. sent' = sent \o Packets(payloads)
    BY DEF Transmit, Packets
  <1>2. Len(payloads) \in Nat /\ \A n \in 1..Len(payloads) : payloads[n] \in Chunks
    BY LenProperties
  <1>3. \A n \in 1..Len(payloads) : Header(n, payloads[n]) \in Packet
    BY <1>2, HeaderType DEF TypeOK, Chunks
  <1>4. /\ Packets(payloads) \in Seq(Packet)
        /\ DOMAIN Packets(payloads) = 1..Len(payloads)
        /\ \A n \in 1..Len(payloads) : Packets(payloads)[n] = Header(n, payloads[n])
    BY <1>2, <1>3 DEF Packets
  <1>5. Len(Packets(payloads)) = Len(payloads)
    BY <1>2, <1>4, LenProperties
  <1>6. sent \in Seq(Packet) /\ Len(sent) \in Nat
    BY LenProperties DEF TypeOK
  <1>. HIDE DEF Packets
  <1>7. sent' \in Seq(Packet) /\ Len(sent') = Len(sent) + Len(payloads)
    <2>1. sent \o Packets(payloads) \in Seq(Packet)
      BY <1>4, <1>6, ConcatProperties
    <2>2. Len(sent \o Packets(payloads)) = Len(sent) + Len(Packets(payloads))
      BY <1>4, <1>6, ConcatProperties
    <2>. QED  BY <1>1, <1>5, <2>1, <2>2
  <1>8. \A n \in 1..Len(sent') :
          sent'[n] = IF n <= Len(sent) THEN sent[n] ELSE Packets(payloads)[n - Len(sent)]
    BY <1>1, <1>4, <1>5, <1>6, ConcatProperties
  <1>9. \A n \in 1..Len(sent') : n > Len(sent) => n - Len(sent) \in 1..Len(payloads)
    BY <1>2, <1>6, <1>7
  <1>. QED  BY <1>1, <1>2, <1>4, <1>5, <1>6, <1>7, <1>8, <1>9

LEMMA TypeStep == TypeOK /\ [Next]_vars => TypeOK'
  <1>. SUFFICES ASSUME TypeOK, [Next]_vars PROVE TypeOK'
    OBVIOUS
  <1>1. ASSUME NEW size \in Nat, EncodeAudioFrame(size), file' \in Seq(Sizes)
        PROVE  TypeOK'
    <2>1. PICK payloads \in Seq(Chunks) : Transmit(payloads)
      BY <1>1, EncodeEffect DEF Effect
    <2>2. /\ sent' \in Seq(Packet) /\ Len(payloads) \in Nat
          /\ \A n \in 1..Len(sent') : Len(sent'[n].payload) = Chunk
      <3>1. ASSUME NEW n \in 1..Len(sent') PROVE Len(sent'[n].payload) = Chunk
        <4>1. CASE n <= Len(sent)
          <5>1. n \in 1..Len(sent) /\ sent'[n] = sent[n]
            BY <2>1, <4>1, Appended, LenProperties DEF TypeOK
          <5>. QED  BY <5>1 DEF TypeOK
        <4>2. CASE ~(n <= Len(sent))
          <5>. DEFINE m == n - Len(sent)
          <5>1. sent'[n] = Header(m, payloads[m]) /\ payloads[m] \in Chunks
            BY <2>1, <4>2, Appended
          <5>2. Header(m, payloads[m]).payload = payloads[m]
            BY DEF Header
          <5>. QED  BY <5>1, <5>2 DEF Chunks
        <4>. QED  BY <4>1, <4>2
      <3>. QED  BY <2>1, <3>1, Appended
    <2>3. amount' \in Int
      BY <2>1, <2>2 DEF Transmit, TypeOK
    <2>. QED  BY <1>1, <2>2, <2>3, EncodeEffect DEF Effect, TypeOK
  <1>2. CASE PlayPacket
    <2>1. Head(file) \in Sizes /\ Tail(file) \in Seq(Sizes)
      BY <1>2, HeadTailProperties DEF PlayPacket, TypeOK
    <2>. QED  BY <1>1, <1>2, <2>1, AnnouncerAssumption DEF PlayPacket
  <1>3. CASE PlayAfterEnd
    BY <1>1, <1>3 DEF PlayAfterEnd, TypeOK
  <1>4. CASE UNCHANGED vars
    BY <1>4 DEF vars, TypeOK
  <1>. QED  BY <1>2, <1>3, <1>4 DEF Next

\* Any file, any chunk: each RTP packet carries exactly one chunk, and the
\* parts of its header stay in their ranges, until a copy of negative length
\* ends the process (Ann.cpp, encode_audio_frame; Structs.h, rtp_modify).
THEOREM TypeCorrect == Spec => []TypeOK
  BY TypeInit, TypeStep, PTL DEF Spec

-----------------------------------------------------------------------------
(* Numbers and timestamps *)

\* The headers count the packets from an unknown first number on.
Numbers(a) ==
    /\ amount = a + Len(sent)
    /\ \A n \in 1..Len(sent) :
         /\ sent[n].seq_no = (a + n) % SeqNos
         /\ sent[n].timestamp = (Chunk * (a + n)) % Stamps

NumberInv == \E a \in Int : Numbers(a)

LEMMA NumberStep == TypeOK /\ NumberInv /\ [Next]_vars => NumberInv'
  <1>. SUFFICES ASSUME TypeOK, NumberInv, [Next]_vars PROVE NumberInv'
    OBVIOUS
  <1>1. PICK a \in Int : Numbers(a)
    BY DEF NumberInv
  <1>2. ASSUME NEW size \in Nat, EncodeAudioFrame(size) PROVE Numbers(a)'
    <2>1. PICK payloads \in Seq(Chunks) : Transmit(payloads)
      BY <1>2, EncodeEffect DEF Effect
    <2>2. /\ Len(sent') = Len(sent) + Len(payloads)
          /\ Len(sent) \in Nat /\ Len(payloads) \in Nat /\ amount \in Int
      BY <2>1, Appended, LenProperties DEF TypeOK
    <2>3. amount' = a + Len(sent')
      BY <1>1, <2>1, <2>2 DEF Transmit, Numbers
    <2>4. ASSUME NEW n \in 1..Len(sent')
          PROVE  /\ sent'[n].seq_no = (a + n) % SeqNos
                 /\ sent'[n].timestamp = (Chunk * (a + n)) % Stamps
      <3>1. CASE n <= Len(sent)
        <4>1. n \in 1..Len(sent) /\ sent'[n] = sent[n]
          BY <2>1, <2>2, <3>1, Appended
        <4>. QED  BY <1>1, <4>1 DEF Numbers
      <3>2. CASE ~(n <= Len(sent))
        <4>. DEFINE m == n - Len(sent)
        <4>1. sent'[n] = Header(m, payloads[m])
          BY <2>1, <3>2, Appended
        <4>2. amount + m = a + n
          BY <1>1, <2>2 DEF Numbers
        <4>. QED  BY <4>1, <4>2 DEF Header
      <3>. QED  BY <3>1, <3>2
    <2>. QED  BY <2>3, <2>4 DEF Numbers
  <1>3. CASE PlayPacket
    <2>1. Head(file) \in Nat
      BY <1>3, HeadTailProperties, AnnouncerAssumption DEF PlayPacket, TypeOK
    <2>. QED  BY <1>2, <1>3, <2>1 DEF PlayPacket, NumberInv
  <1>4. CASE PlayAfterEnd
    BY <1>2, <1>4 DEF PlayAfterEnd, NumberInv
  <1>5. CASE UNCHANGED vars
    BY <1>1, <1>5 DEF vars, Numbers, NumberInv
  <1>. QED  BY <1>3, <1>4, <1>5 DEF Next

LEMMA NumberInit == Init => NumberInv
  <1>. SUFFICES ASSUME Init PROVE NumberInv
    OBVIOUS
  <1>1. amount \in Int /\ Len(sent) = 0
    BY AnnouncerAssumption DEF Init
  <1>2. Numbers(amount)
    BY <1>1 DEF Numbers
  <1>. QED  BY <1>1, <1>2 DEF NumberInv

LEMMA CountsInTurn ==
    ASSUME TypeOK, NumberInv, NEW m \in 1..Len(sent), NEW n \in 1..Len(sent)
    PROVE  /\ sent[n].seq_no = (sent[m].seq_no + n - m) % SeqNos
           /\ sent[n].timestamp = (sent[m].timestamp + (Chunk * (n - m))) % Stamps
  <1>1. PICK a \in Int : Numbers(a)
    BY DEF NumberInv
  <1>2. /\ m \in Int /\ n \in Int /\ Chunk \in Nat
        /\ SeqNos \in Nat \ {0} /\ Stamps \in Nat \ {0}
    BY AnnouncerAssumption, LenProperties DEF TypeOK
  <1>. DEFINE x == a + m
              y == n - m
  <1>3. x \in Int /\ y \in Int /\ x + y = a + n
    BY <1>2
  <1>4. ((x % SeqNos) + y) % SeqNos = (x + y) % SeqNos
    BY <1>2, <1>3, RemainderOfSum
  <1>5. x % SeqNos \in Int /\ sent[m].seq_no = x % SeqNos /\ sent[n].seq_no = (x + y) % SeqNos
    BY <1>1, <1>2, <1>3, Division DEF Numbers
  <1>6. Chunk * x \in Int /\ Chunk * y \in Int /\ Chunk * (x + y) = (Chunk * x) + (Chunk * y)
    BY <1>2, <1>3
  <1>7. (((Chunk * x) % Stamps) + (Chunk * y)) % Stamps = (Chunk * (x + y)) % Stamps
    <2>. DEFINE u == Chunk * x
                v == Chunk * y
    <2>1. u \in Int /\ v \in Int /\ Chunk * (x + y) = u + v
      BY <1>6
    <2>. HIDE DEF u, v
    <2>2. ((u % Stamps) + v) % Stamps = (u + v) % Stamps
      BY <1>2, <2>1, RemainderOfSum
    <2>. QED  BY <2>1, <2>2 DEF u, v
  <1>8. /\ sent[m].timestamp = (Chunk * x) % Stamps
        /\ sent[n].timestamp = (Chunk * (x + y)) % Stamps
    BY <1>1, <1>2, <1>3 DEF Numbers
  <1>9. (sent[m].seq_no + n) - m = (x % SeqNos) + y
    BY <1>2, <1>5
  <1>. QED  BY <1>4, <1>5, <1>7, <1>8, <1>9

\* Whatever the payloads, the uninitialised counter and the width of the
\* number: the packets are numbered one after the other through every wrap,
\* until and after the end of the file (Structs.h, rtp_modify).
THEOREM PacketsNumberedInTurn == Spec => []NumberedInTurn
  <1>1. TypeOK /\ NumberInv => NumberedInTurn
    <2>. SUFFICES ASSUME TypeOK, NumberInv, NEW m \in 1..Len(sent), NEW n \in 1..Len(sent),
                         n = m + 1
                  PROVE  sent[n].seq_no = (sent[m].seq_no + 1) % SeqNos
      BY DEF NumberedInTurn
    <2>1. sent[n].seq_no = (sent[m].seq_no + n - m) % SeqNos
      BY CountsInTurn
    <2>2. sent[m].seq_no \in Int /\ m \in Int
      <3>1. sent[m] \in Packet /\ Len(sent) \in Nat
        BY LenProperties DEF TypeOK
      <3>2. sent[m].seq_no \in 0..(SeqNos - 1) /\ SeqNos \in Nat
        BY <3>1, AnnouncerAssumption DEF Packet
      <3>. QED  BY <3>1, <3>2
    <2>3. (sent[m].seq_no + n) - m = sent[m].seq_no + 1
      BY <2>2
    <2>. QED  BY <2>1, <2>3
  <1>. QED  BY <1>1, NumberInit, NumberStep, TypeCorrect, PTL DEF Spec

-----------------------------------------------------------------------------
(* The stream, as long as packets are whole chunks *)

Stream ==
    ~ragged =>
      /\ left_data = <<>>
      /\ encoded = Chunk * Len(sent)
      /\ \A n \in 1..Len(sent) :
           sent[n].payload = [b \in 1..Chunk |-> (Chunk * (n - 1)) + b]

LEMMA WholeCut ==
    ASSUME NEW l \in Nat, encoded = Chunk * l, NEW size \in Nat, NEW rounds \in Nat,
           size = Chunk * rounds, NEW n \in 1..rounds
    PROVE  Cut(size, rounds)[n] = [b \in 1..Chunk |-> (Chunk * ((l + n) - 1)) + b]
  <1>1. Chunk \in Nat
    BY AnnouncerAssumption
  <1>. DEFINE u == (n - 1) * Chunk
              v == n * Chunk
              w == Chunk * ((l + n) - 1)
  <1>2. /\ u \in Nat /\ v \in Nat /\ v - u = Chunk /\ w \in Nat /\ encoded \in Nat
        /\ w = encoded + u
    BY <1>1
  <1>3. v <= size
    <2>1. rounds - n \in Nat /\ Chunk * rounds = v + Chunk * (rounds - n)
      BY <1>1
    <2>2. Chunk * (rounds - n) \in Nat
      BY <1>1, <2>1, Product
    <2>. QED  BY <1>2, <2>1, <2>2
  <1>4. Cut(size, rounds)[n] = Bytes(size, u, v)
    BY DEF Cut
  <1>. HIDE DEF u, v, w
  <1>5. Bytes(size, u, v) = [b \in 1..Chunk |-> w + b]
    <2>1. \A b \in 1..Chunk : u + b <= size /\ encoded + u + b = w + b
      BY <1>1, <1>2, <1>3
    <2>. QED  BY <1>2, <2>1 DEF Bytes
  <1>. QED  BY <1>4, <1>5 DEF w

LEMMA StreamStep == TypeOK /\ Stream /\ [Next]_vars => Stream'
  <1>. SUFFICES ASSUME TypeOK, Stream, [Next]_vars PROVE Stream'
    OBVIOUS
  <1>1. ASSUME NEW size \in Nat, EncodeAudioFrame(size), ~ragged' PROVE Stream'
    <2>1. /\ ~ragged /\ size % Chunk = 0 /\ encoded' = encoded + size
          /\ left_data = <<>> /\ encoded = Chunk * Len(sent)
      BY <1>1 DEF EncodeAudioFrame, Stream
    <2>2. EncodeFresh(size)
      BY <1>1, <2>1 DEF EncodeAudioFrame, EncodeAfterLeft
    <2>. DEFINE rounds == Rounds(size, 0)
                P == Cut(size, rounds)
    <2>3. /\ rounds \in Nat /\ Transmit(P) /\ P \in Seq(Chunks)
          /\ left_data' \in Seq(Nat) /\ Len(left_data') = size - rounds * Chunk
      BY <2>2, FreshEffect
    <2>4. /\ Chunk \in Nat \ {0} /\ Len(sent) \in Nat /\ encoded \in Nat /\ ragged \in BOOLEAN
          /\ size - 0 = size /\ 0 \in Nat /\ size >= 0
      BY AnnouncerAssumption, LenProperties DEF TypeOK
    <2>5. size = Chunk * rounds + (size % Chunk)
      BY <2>4, WholeRounds
    <2>. HIDE DEF rounds
    <2>6. size = Chunk * rounds /\ rounds * Chunk = size
      BY <2>1, <2>3, <2>4, <2>5
    <2>7. left_data' = <<>>
      BY <2>3, <2>4, <2>6, EmptySeq
    <2>8. Len(P) = rounds
      BY <2>3, <2>4, CutType
    <2>9. encoded' = Chunk * Len(sent')
      <3>1. Len(sent') = Len(sent) + rounds
        BY <2>3, <2>8, Appended
      <3>2. Chunk * (Len(sent) + rounds) = Chunk * Len(sent) + Chunk * rounds
        BY <2>3, <2>4
      <3>. QED  BY <2>1, <2>6, <3>1, <3>2
    <2>10. ASSUME NEW n \in 1..Len(sent')
           PROVE  sent'[n].payload = [b \in 1..Chunk |-> (Chunk * (n - 1)) + b]
      <3>1. CASE n <= Len(sent)
        <4>1. n \in 1..Len(sent) /\ sent'[n] = sent[n]
          BY <2>3, <2>4, <3>1, Appended
        <4>. QED  BY <2>1, <4>1 DEF Stream
      <3>2. CASE ~(n <= Len(sent))
        <4>. DEFINE m == n - Len(sent)
        <4>1. m \in 1..rounds /\ sent'[n] = Header(m, P[m])
          BY <2>3, <2>8, <3>2, Appended
        <4>2. (Len(sent) + m) - 1 = n - 1
          BY <2>4
        <4>. HIDE DEF m
        <4>3. Cut(size, rounds)[m] = [b \in 1..Chunk |-> (Chunk * ((Len(sent) + m) - 1)) + b]
          <5>. HIDE DEF P
          <5>1. m \in 1..rounds /\ Len(sent) \in Nat /\ rounds \in Nat
            BY <2>3, <2>4, <4>1
          <5>2. encoded = Chunk * Len(sent) /\ size = Chunk * rounds
            BY <2>1, <2>6
          <5>. QED  BY <5>1, <5>2, WholeCut
        <4>. QED  BY <4>1, <4>2, <4>3 DEF Header
      <3>. QED  BY <3>1, <3>2
    <2>. QED  BY <2>7, <2>9, <2>10 DEF Stream
  <1>2. CASE ragged'
    BY <1>2 DEF Stream
  <1>3. CASE PlayPacket /\ ~ragged'
    <2>1. Head(file) \in Nat
      BY <1>3, HeadTailProperties, AnnouncerAssumption DEF PlayPacket, TypeOK
    <2>. QED  BY <1>1, <1>3, <2>1 DEF PlayPacket
  <1>4. CASE PlayAfterEnd /\ ~ragged'
    BY <1>1, <1>4 DEF PlayAfterEnd
  <1>5. CASE UNCHANGED vars
    BY <1>5 DEF vars, Stream
  <1>. QED  BY <1>2, <1>3, <1>4, <1>5 DEF Next

LEMMA StreamInit == Init => Stream
  BY AnnouncerAssumption DEF Init, Stream

\* Any chunk, any packets of whole chunks, any first number: a receiver that
\* goes by the headers gets the encoded stream, all of it (Ann.cpp, the part of
\* encode_audio_frame without leftover).
THEOREM WholeChunksArePlayable == Spec => []PlayableByHeader
  <1>1. TypeOK /\ NumberInv /\ Stream => PlayableByHeader
    <2>. SUFFICES ASSUME TypeOK, NumberInv, Stream, ~ragged PROVE PlayableByHeader
      BY DEF PlayableByHeader
    <2>1. Chunk \in Nat /\ Len(sent) \in Nat /\ Len(left_data) = 0
      BY AnnouncerAssumption, LenProperties DEF TypeOK, Stream
    <2>2. (Chunk * Len(sent)) + Len(left_data) = encoded
      <3>1. encoded = Chunk * Len(sent) /\ Chunk * Len(sent) \in Nat
        BY <2>1, Product DEF Stream
      <3>. QED  BY <2>1, <3>1
    <2>3. ASSUME NEW n \in 1..Len(sent)
          PROVE  /\ sent[n].seq_no = (sent[1].seq_no + n - 1) % SeqNos
                 /\ sent[n].timestamp = (sent[1].timestamp + (Chunk * (n - 1))) % Stamps
      <3>1. 1 \in 1..Len(sent)
        BY <2>1
      <3>. QED  BY <3>1, CountsInTurn
    <2>. QED  BY <2>2, <2>3 DEF PlayableByHeader, Stream
  <1>. QED  BY <1>1, NumberInit, NumberStep, StreamInit, StreamStep, TypeCorrect, PTL DEF Spec

-----------------------------------------------------------------------------
(* The lengths of the copies *)

\* r is what a packet is longer than a number of chunks.  The leftover is that
\* much, then a whole chunk, then that much again.
Leftover(r) ==
    /\ Len(left_data) \in {0, r, Chunk}
    /\ r = 0 => Len(left_data) = 0

Lengths(r) ==
    /\ \A k \in 1..Len(file) : file[k] % Chunk = r /\ file[k] >= Chunk
    /\ Leftover(r)
    /\ crashed => file = <<>>

LengthInv == \E r \in 0..(Chunk - 1) : Lengths(r)

\* A leftover in front of a packet of at least a chunk: its copies have
\* lengths of at least 0, and it leaves the other of the two lengths.
LEMMA CompletedLeft ==
    ASSUME TypeOK, NEW r \in 0..(Chunk - 1), Leftover(r), NEW size \in Nat,
           size >= Chunk, size % Chunk = r, EncodeAfterLeft(size)
    PROVE  Leftover(r)' /\ crashed' = crashed
  <1>1. /\ Chunk \in Nat \ {0} /\ encoded \in Nat /\ left_data \in Seq(Nat)
        /\ Len(left_data) \in Nat /\ Len(left_data) # 0
    BY AnnouncerAssumption, EmptySeq, LenProperties DEF TypeOK, EncodeAfterLeft
  <1>2. r # 0 /\ Len(left_data) \in {r, Chunk}
    BY <1>1 DEF Leftover
  <1>. DEFINE skip == Chunk - Len(left_data)
              rest == size - Len(left_data)
              rounds == Rounds(rest, skip)
  <1>3. /\ skip >= 0 => \/ /\ rest - rounds * Chunk >= 0
                           /\ left_data' = Bytes(size, rounds * Chunk, rest)
                           /\ UNCHANGED crashed
                        \/ rest - rounds * Chunk < 0
    <2>1. skip \in Int
      BY <1>1
    <2>. QED  BY <2>1 DEF EncodeAfterLeft
  <1>4. skip \in Nat /\ rest \in Nat /\ rest - skip = size - Chunk /\ rest - skip >= 0
    BY <1>1, <1>2
  <1>5. (size - Chunk) % Chunk = r
    <2>. DEFINE q == size \div Chunk
                m == size - Chunk
    <2>0. q \in Int /\ size = Chunk * q + (size % Chunk)
      BY <1>1, Division
    <2>1. q \in Int /\ size = Chunk * q + r
      BY <2>0
    <2>2. Chunk * (q - 1) = Chunk * q - Chunk
      BY <1>1, <2>1
    <2>3. m \in Int /\ q - 1 \in Int /\ m = Chunk * (q - 1) + r
      BY <1>1, <2>1, <2>2
    <2>. HIDE DEF q, m
    <2>4. m % Chunk = r
      BY <1>1, <2>3, DivisionUnique
    <2>. QED  BY <2>4 DEF m
  <1>6. /\ rounds \in Nat /\ rest - skip = Chunk * rounds + ((rest - skip) % Chunk)
    <2>. HIDE DEF skip, rest, rounds
    <2>1. rest \in Int /\ skip \in Nat /\ rest - skip >= 0
      BY <1>4
    <2>2. /\ Rounds(rest, skip) \in Nat
          /\ rest - skip = Chunk * Rounds(rest, skip) + ((rest - skip) % Chunk)
      BY <2>1, WholeRounds
    <2>. QED  BY <2>2 DEF rounds
  <1>7. Chunk * rounds = rounds * Chunk /\ rounds * Chunk \in Nat
    <2>. HIDE DEF rounds
    <2>. QED  BY <1>1, <1>6, Product
  <1>. HIDE DEF rounds
  <1>8. size - Chunk = rounds * Chunk + r
    BY <1>4, <1>5, <1>6, <1>7
  <1>9. rest - rounds * Chunk = (Chunk + r) - Len(left_data)
    <2>. DEFINE cut == rounds * Chunk
    <2>1. cut \in Nat /\ size - Chunk = cut + r
      BY <1>7, <1>8
    <2>. HIDE DEF cut
    <2>2. rest - cut = (Chunk + r) - Len(left_data)
      BY <1>1, <2>1
    <2>. QED  BY <2>2 DEF cut
  <1>10. /\ left_data' = Bytes(size, rounds * Chunk, rest) /\ crashed' = crashed
         /\ rounds * Chunk <= rest
    BY <1>1, <1>2, <1>3, <1>4, <1>7, <1>9
  <1>11. Len(left_data') = rest - rounds * Chunk
    <2>. HIDE DEF rest
    <2>. QED  BY <1>1, <1>4, <1>7, <1>10, BytesType
  <1>12. Len(left_data') \in {r, Chunk}
    BY <1>1, <1>2, <1>9, <1>11
  <1>. QED  BY <1>2, <1>10, <1>12 DEF Leftover

LEMMA FreshLeft ==
    ASSUME TypeOK, NEW r \in 0..(Chunk - 1), Leftover(r), NEW size \in Nat,
           size % Chunk = r, EncodeFresh(size)
    PROVE  Leftover(r)' /\ crashed' = crashed
  <1>. DEFINE rounds == Rounds(size, 0)
  <1>1. Chunk \in Nat \ {0} /\ size - 0 = size /\ size >= 0 /\ 0 \in Nat
    BY AnnouncerAssumption
  <1>2. /\ rounds \in Nat /\ rounds * Chunk \in Nat
        /\ Len(left_data') = size - rounds * Chunk
    BY FreshEffect
  <1>3. size = Chunk * rounds + r
    <2>1. size = Chunk * rounds + (size % Chunk)
      BY <1>1, WholeRounds
    <2>. QED  BY <2>1
  <1>. HIDE DEF rounds
  <1>4. Chunk * rounds = rounds * Chunk
    BY <1>1, <1>2
  <1>5. Len(left_data') = r
    BY <1>1, <1>2, <1>3, <1>4
  <1>. QED  BY <1>5 DEF Leftover, EncodeFresh

\* After the end of the file a leftover is not touched: the next copy has a
\* negative length.
LEMMA LeftAfterEnd ==
    ASSUME TypeOK, NEW r \in 0..(Chunk - 1), Leftover(r), EncodeAudioFrame(0)
    PROVE  Leftover(r)'
  <1>1. Chunk \in Nat \ {0} /\ left_data \in Seq(Nat) /\ Len(left_data) \in Nat
    BY AnnouncerAssumption, LenProperties DEF TypeOK
  <1>2. CASE EncodeFresh(0)
    <2>1. Rounds(0, 0) = 0
      BY <1>1 DEF Rounds
    <2>2. Len(left_data') = 0
      BY <1>1, <1>2, <2>1, FreshEffect
    <2>. QED  BY <2>2 DEF Leftover
  <1>3. CASE EncodeAfterLeft(0)
    <2>. DEFINE skip == Chunk - Len(left_data)
                rest == 0 - Len(left_data)
    <2>1. Len(left_data) > 0
      BY <1>1, <1>3, EmptySeq DEF EncodeAfterLeft
    <2>2. rest - skip < Chunk
      BY <1>1
    <2>3. Rounds(rest, skip) = 0
      BY <2>2 DEF Rounds
    <2>4. ~(rest - Rounds(rest, skip) * Chunk >= 0)
      BY <1>1, <2>1, <2>3
    <2>5. left_data' = left_data
      BY <1>3, <2>4 DEF EncodeAfterLeft
    <2>. QED  BY <2>5 DEF Leftover
  <1>. QED  BY <1>2, <1>3 DEF EncodeAudioFrame

LEMMA LengthStep == TypeOK /\ LengthInv /\ [Next]_vars => LengthInv'
  <1>. SUFFICES ASSUME TypeOK, LengthInv, [Next]_vars PROVE LengthInv'
    OBVIOUS
  <1>1. PICK r \in 0..(Chunk - 1) : Lengths(r)
    BY DEF LengthInv
  <1>2. file \in Seq(Sizes) /\ Sizes \subseteq Nat
    BY AnnouncerAssumption DEF TypeOK
  <1>3. CASE PlayPacket
    <2>. DEFINE size == Head(file)
    <2>0. file # <<>> /\ file' = Tail(file) /\ Len(file) \in Nat \ {0}
      BY <1>2, <1>3, LenProperties, EmptySeq DEF PlayPacket
    <2>1. /\ size = file[1] /\ 1 \in 1..Len(file) /\ size \in Nat
          /\ Len(file') = Len(file) - 1 /\ Len(file) \in Nat
          /\ \A k \in 1..Len(file') : file'[k] = file[k + 1]
      <3>1. size \in Sizes /\ size = file[1]
        BY <1>2, <2>0, HeadTailProperties
      <3>2. Len(Tail(file)) = Len(file) - 1
        BY <1>2, <2>0, HeadTailProperties
      <3>3. \A k \in 1..Len(Tail(file)) : Tail(file)[k] = file[k + 1]
        BY <1>2, <2>0, HeadTailProperties
      <3>. HIDE DEF size
      <3>4. size \in Nat /\ 1 \in 1..Len(file) /\ Len(file) \in Nat
        <4>. DEFINE len == Len(file)
        <4>1. len \in Nat \ {0}
          BY <2>0
        <4>. HIDE DEF len
        <4>2. 1 \in 1..len
          BY <4>1
        <4>. QED  BY <1>2, <3>1, <4>1, <4>2 DEF len
      <3>5. Len(file') = Len(file) - 1 /\ \A k \in 1..Len(file') : file'[k] = file[k + 1]
        BY <2>0, <3>2, <3>3
      <3>. QED  BY <3>1, <3>4, <3>5
    <2>2. size % Chunk = r /\ size >= Chunk /\ EncodeAudioFrame(size) /\ ~crashed
      BY <1>1, <1>3, <2>1 DEF Lengths, PlayPacket
    <2>. HIDE DEF size
    <2>3. Leftover(r)' /\ crashed' = crashed
      BY <1>1, <2>1, <2>2, CompletedLeft, FreshLeft DEF Lengths, EncodeAudioFrame
    <2>4. \A k \in 1..Len(file') : file'[k] % Chunk = r /\ file'[k] >= Chunk
      <3>1. \A k \in 1..Len(file') : k + 1 \in 1..Len(file)
        BY <2>1
      <3>. QED  BY <1>1, <2>1, <3>1 DEF Lengths
    <2>. QED  BY <2>2, <2>3, <2>4 DEF Lengths, LengthInv
  <1>4. CASE PlayAfterEnd
    <2>1. Leftover(r)'
      BY <1>1, <1>4, LeftAfterEnd DEF PlayAfterEnd, Lengths
    <2>. QED  BY <1>1, <1>4, <2>1 DEF PlayAfterEnd, Lengths, LengthInv
  <1>5. CASE UNCHANGED vars
    BY <1>1, <1>5 DEF vars, Lengths, Leftover, LengthInv
  <1>. QED  BY <1>3, <1>4, <1>5 DEF Next

LEMMA LengthInit ==
    ASSUME \A size \in Sizes : size >= Chunk
    PROVE  Init => LengthInv
  <1>. SUFFICES ASSUME Init PROVE LengthInv
    OBVIOUS
  <1>1. Chunk \in Nat \ {0} /\ Sizes \subseteq Nat /\ MaxPackets \in Nat /\ 0 \in 0..(Chunk - 1)
    BY AnnouncerAssumption
  <1>2. left_data = <<>> /\ Len(left_data) = 0 /\ crashed = FALSE /\ file \in Files
    BY DEF Init
  <1>3. CASE \E n \in 0..MaxPackets, size \in Sizes : file = [k \in 1..n |-> size]
    <2>1. PICK n \in 0..MaxPackets, size \in Sizes : file = [k \in 1..n |-> size]
      BY <1>3
    <2>2. size % Chunk \in 0..(Chunk - 1)
      BY <1>1, Division
    <2>3. Len(file) = n /\ \A k \in 1..n : file[k] = size
      BY <1>1, <2>1
    <2>4. Lengths(size % Chunk)
      BY <1>2, <2>3 DEF Lengths, Leftover
    <2>. QED  BY <2>2, <2>4 DEF LengthInv
  <1>4. CASE \E n \in 0..MaxPackets : file \in [1..n -> {size \in Sizes : size % Chunk = 0}]
    <2>1. PICK n \in 0..MaxPackets : file \in [1..n -> {size \in Sizes : size % Chunk = 0}]
      BY <1>4
    <2>2. file \in Seq(Sizes) /\ Len(file) = n
      BY <1>1, <2>1
    <2>3. \A k \in 1..Len(file) : file[k] % Chunk = 0 /\ file[k] >= Chunk
      BY <2>1, <2>2
    <2>4. Lengths(0)
      BY <1>2, <2>3 DEF Lengths, Leftover
    <2>. QED  BY <1>1, <2>4 DEF LengthInv
  <1>. QED  BY <1>2, <1>3, <1>4 DEF Files

\* Packets of any one length, not shorter than a chunk, or of whole chunks: no
\* copy has a negative length before the file ends, and the leftover fits into
\* a chunk (Ann.cpp, the copies of encode_audio_frame).
THEOREM NoCopyOutOfRange ==
    ASSUME \A size \in Sizes : size >= Chunk
    PROVE  Spec => []CopiesInRange
  <1>1. Init => LengthInv
    BY LengthInit
  <1>2. TypeOK /\ LengthInv => CopiesInRange
    BY AnnouncerAssumption DEF LengthInv, Lengths, Leftover, CopiesInRange
  <1>. QED  BY <1>1, <1>2, LengthStep, TypeCorrect, PTL DEF Spec
=============================================================================
