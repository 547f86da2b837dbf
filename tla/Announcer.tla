------------------------------ MODULE Announcer ------------------------------
(***************************************************************************)
(* Ann (filter_audio/Ann.cpp), which plays a file to a telephone: it       *)
(* decodes and encodes one packet of the file at a time and cuts the       *)
(* result, of any length, into RTP packets of 160 samples, keeping what is *)
(* left over in left_data for the next call.                               *)
(*                                                                         *)
(* Chunk stands for 160.  The encoded stream is the numbers 1, 2, 3, ...;  *)
(* a payload is the sequence of the samples it carries, 0 being a byte     *)
(* that was read past the end of the encoded packet.  The file and the     *)
(* codecs are external: they deliver encoded packets of a length from      *)
(* Sizes, and of length 0 for ever after the end of the file, because      *)
(* decode_audio_frame does not look at the error of av_read_frame.         *)
(***************************************************************************)
EXTENDS Integers, Sequences

CONSTANTS
    Chunk,        (* 160: the samples of an RTP packet                     *)
    Sizes,        (* the lengths of the encoded packets of a file          *)
    MaxPackets,   (* bound: the packets of a file                          *)
    SeqNos,       (* 2^16: how many values seq_no has                    *)
    Stamps,       (* 2^32: how many values timestamp has                 *)
    FirstAmounts  (* what the uninitialised amount may hold                *)

ASSUME AnnouncerAssumption ==
    /\ Chunk \in Nat \ {0} /\ SeqNos \in Nat \ {0} /\ Stamps \in Nat \ {0}
    /\ Sizes \subseteq Nat \ {0}
    /\ MaxPackets \in Nat
    /\ FirstAmounts \subseteq Int

VARIABLES
    file,       (* the lengths of the packets that are still to come       *)
    encoded,    (* history: how many samples were encoded                  *)
    ragged,     (* history: a packet was not a number of whole chunks      *)
    left_data,  (* the samples kept for the next call                      *)
    amount,     (* rtp_hdr.amount, from which the header is made           *)
    sent,       (* the RTP packets sent, in order                          *)
    crashed     (* a memcpy with a negative length ended the process       *)

vars == <<file, encoded, ragged, left_data, amount, sent, crashed>>

Packet == [seq_no : 0..(SeqNos - 1), timestamp : 0..(Stamps - 1),
           payload : Seq(Nat)]

\* Every RTP packet carries one chunk.
TypeOK ==
    /\ file \in Seq(Sizes)
    /\ encoded \in Nat
    /\ ragged \in BOOLEAN
    /\ left_data \in Seq(Nat)
    /\ amount \in Int
    /\ sent \in Seq(Packet)
    /\ \A n \in 1..Len(sent) : Len(sent[n].payload) = Chunk
    /\ crashed \in BOOLEAN

\* A file has packets of one length, or packets of whole chunks.
Files ==
    {[k \in 1..n |-> size] : n \in 0..MaxPackets, size \in Sizes}
    \cup UNION {[1..n -> {size \in Sizes : size % Chunk = 0}] : n \in 0..MaxPackets}

Init ==
    /\ file \in Files
    /\ encoded = 0
    /\ ragged = FALSE
    /\ left_data = <<>>
    /\ amount \in FirstAmounts
    /\ sent = <<>>
    /\ crashed = FALSE
-----------------------------------------------------------------------------
(* Pieces of encode_audio_frame. *)

\* A copy of the length of a packet with its last byte counted twice.
BytesOneMore(size, from, to) ==
    [b \in 1..(to - from + 1) |->
        IF from + b <= size THEN encoded + from + b ELSE 0]

\* Samples from .. to - 1 of an output packet of this size, counted from 0 as
\* in the code; past its end there is something else.
Bytes(size, from, to) ==
    [b \in 1..(to - from) |->
        IF from + b <= size THEN encoded + from + b ELSE 0]

\* rtp_modify: the header of the n-th RTP packet of this call.
Header(n, payload) ==
    [seq_no |-> (amount + n) % SeqNos,
     timestamp |-> (Chunk * (amount + n)) % Stamps,
     payload |-> payload]

\* A loop that stops one packet early: "i + 2" for "i + 1".
RoundsShort(size, skip) ==
    IF size - skip < 2 * Chunk THEN 0 ELSE ((size - skip) \div Chunk) - 1

\* How often the loop "while ((i + 1) * 160 + skip <= size)" runs.
Rounds(size, skip) ==
    IF size - skip < Chunk THEN 0 ELSE (size - skip) \div Chunk

\* rtp_modify is forgotten for the packet that begins with the leftover.
TransmitOneBehind(payloads) ==
    /\ sent' = sent \o [n \in 1..Len(payloads) |-> Header(n, payloads[n])]
    /\ amount' = amount + Len(payloads) - (IF left_data = <<>> THEN 0 ELSE 1)

\* The loop body, for every RTP packet of this call.
Transmit(payloads) ==
    /\ sent' = sent \o [n \in 1..Len(payloads) |-> Header(n, payloads[n])]
    /\ amount' = amount + Len(payloads)

\* if (left_data->size == 0): the packet is cut from its beginning.
EncodeFresh(size) ==
    /\ left_data = <<>>
    /\ LET rounds == Rounds(size, 0)
       IN  /\ Transmit([n \in 1..rounds |->
                          Bytes(size, (n - 1) * Chunk, n * Chunk)])
           /\ left_data' = Bytes(size, rounds * Chunk, size)
    /\ UNCHANGED crashed

\* else: the leftover is completed from the packet, then the packet is cut
\* after the part used for that; its size is reduced by the length of the
\* leftover, and the new leftover is taken from the start of the last chunk
\* counted without the part used.  160 - left_data->size or the length of
\* the new leftover may be negative.
EncodeAfterLeft(size) ==
    /\ left_data # <<>>
    /\ LET skip == Chunk - Len(left_data)
           rest == size - Len(left_data)
           rounds == Rounds(rest, skip)
       IN  IF skip < 0
           THEN /\ crashed' = TRUE
                /\ UNCHANGED <<left_data, amount, sent>>
           ELSE /\ Transmit(
                     <<left_data \o Bytes(size, 0, skip)>> \o
                     [n \in 1..rounds |->
                        Bytes(size, ((n - 1) * Chunk) + skip, (n * Chunk) + skip)])
                /\ \/ /\ rest - rounds * Chunk >= 0
                      /\ left_data' = Bytes(size, rounds * Chunk, rest)
                      /\ UNCHANGED crashed
                   \/ /\ rest - rounds * Chunk < 0
                      /\ crashed' = TRUE
                      /\ UNCHANGED left_data

EncodeAudioFrame(size) ==
    /\ EncodeFresh(size) \/ EncodeAfterLeft(size)
    /\ encoded' = encoded + size
    /\ ragged' = (ragged \/ size % Chunk # 0)
-----------------------------------------------------------------------------
(* Run: while (true) decode, encode. *)

PlayPacket ==
    /\ ~crashed
    /\ file # <<>>
    /\ EncodeAudioFrame(Head(file))
    /\ file' = Tail(file)

\* After the end of the file an empty packet is encoded, again and again.
PlayAfterEnd ==
    /\ ~crashed
    /\ file = <<>>
    /\ EncodeAudioFrame(0)
    /\ UNCHANGED file

Next == PlayPacket \/ PlayAfterEnd
Spec == Init /\ [][Next]_vars
-----------------------------------------------------------------------------
(* Properties *)

\* Comments in the code, Ann.cpp:132 and 161: "we keep the rest for the next
\* run", "we copy the rest".  What is kept for the next call is the end of what
\* was encoded.
KeepsTheRest ==
    crashed \/
    left_data = [b \in 1..Len(left_data) |-> encoded - Len(left_data) + b]

\* A receiver that places every payload by its timestamp, and orders the
\* packets by their 16-bit numbers, gets the stream: the numbers go up by
\* one through the wrap, the timestamps by one chunk, the payload starts
\* where the one before it ended, and what was encoded and not sent is kept.
\* So it is as long as the encoded packets are whole chunks.
PlayableByHeader ==
    ~ragged =>
      /\ \A n \in 1..Len(sent) :
           /\ sent[n].seq_no = (sent[1].seq_no + n - 1) % SeqNos
           /\ sent[n].timestamp = (sent[1].timestamp + (Chunk * (n - 1))) % Stamps
           /\ sent[n].payload = [b \in 1..Chunk |-> (Chunk * (n - 1)) + b]
      /\ (Chunk * Len(sent)) + Len(left_data) = encoded

\* While packets of a file, of one length not shorter than a chunk, come, the
\* leftover never exceeds a chunk and no copy has a negative length.
CopiesInRange ==
    /\ Len(left_data) <= Chunk
    /\ crashed => file = <<>>

\* The header counts the packets, whatever the payloads are.
NumberedInTurn ==
    \A m, n \in 1..Len(sent) :
      n = m + 1 => sent[n].seq_no = (sent[m].seq_no + 1) % SeqNos
=============================================================================
