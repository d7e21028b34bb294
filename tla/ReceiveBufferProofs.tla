------------------------ MODULE ReceiveBufferProofs ------------------------
(***************************************************************************)
(* Theorems about ReceiveBuffer, for any byte values, headers and buffer    *)
(* size: there is always room for the next read, and the packets are those  *)
(* of the stream however it is segmented.                                  *)
(***************************************************************************)
EXTENDS ReceiveBuffer, SequenceTheorems, TLAPS

\* The buffer is a window on the stream.
Window ==
  /\ Len(stream) = dropped + Len(buffer)
  /\ \A i \in 1 .. Len(buffer) : buffer[i] = stream[dropped + i]

\* The loop has been over what is in the buffer.
Parsed == state = "reading" => ~Whole(buffer, 0) /\ ~Bad(buffer, 0)

Inv ==
  /\ TypeOK
  /\ Window
  /\ processed <= Len(buffer)
  /\ state = "reading" => processed = 0
  /\ state # "closed" => ~rejected
  /\ Parsed

\* The size field of a complete header is a natural number.
LEMMA SizeIsNat ==
  ASSUME NEW s \in Seq(Byte), NEW p \in Nat, Remaining(s, p) >= 3
  PROVE  PacketSize(s, p) \in Nat
<1>1. s[p + 2] \in Nat /\ s[p + 3] \in Nat
  <2>1. p + 2 \in 1 .. Len(s) /\ p + 3 \in 1 .. Len(s)
    BY DEF Remaining
  <2>2. s[p + 2] \in Byte /\ s[p + 3] \in Byte
    BY <2>1
  <2>. QED
    BY <2>2, FormatAssumption DEF Byte
<1>2. \A x, y \in Nat : x * y \in Nat
  OBVIOUS
<1>. QED
  BY <1>1, <1>2, FormatAssumption DEF PacketSize

\* What the loop sees of bytes depends on the bytes alone: b is a piece of s,
\* d bytes in.
LEMMA SameBytes ==
  ASSUME NEW b \in Seq(Byte), NEW s \in Seq(Byte), NEW d \in Nat,
         Len(s) = d + Len(b), \A i \in 1 .. Len(b) : b[i] = s[d + i],
         NEW p \in Nat, p <= Len(b)
  PROVE  /\ Whole(b, p) <=> Whole(s, d + p)
         /\ Bad(b, p) <=> Bad(s, d + p)
         /\ Whole(b, p) => PacketSize(b, p) = PacketSize(s, d + p)
<1>1. Remaining(b, p) = Remaining(s, d + p)
  BY DEF Remaining
<1>2. CASE Remaining(b, p) >= 3
  <2>1. /\ b[p + 1] = s[d + p + 1]
        /\ b[p + 2] = s[d + p + 2]
        /\ b[p + 3] = s[d + p + 3]
    <3>1. p + 1 \in 1 .. Len(b) /\ p + 2 \in 1 .. Len(b) /\ p + 3 \in 1 .. Len(b)
      BY <1>2 DEF Remaining
    <3>2. /\ b[p + 1] = s[d + (p + 1)]
          /\ b[p + 2] = s[d + (p + 2)]
          /\ b[p + 3] = s[d + (p + 3)]
      BY <3>1
    <3>3. /\ d + (p + 1) = d + p + 1
          /\ d + (p + 2) = d + p + 2
          /\ d + (p + 3) = d + p + 3
      OBVIOUS
    <3>. QED
      BY <3>2, <3>3
  <2>. QED
    BY <1>1, <1>2, <2>1 DEF Whole, Bad, HeaderKnown, SizeValid, HeaderSize, PacketSize
<1>3. CASE ~(Remaining(b, p) >= 3)
  BY <1>1, <1>3 DEF Whole, Bad
<1>. QED
  BY <1>2, <1>3

\* What the loop sees in the buffer is what it would see in the stream.
LEMMA SameView ==
  ASSUME TypeOK, Window, NEW p \in Nat, p <= Len(buffer)
  PROVE  /\ Whole(buffer, p) <=> Whole(stream, dropped + p)
         /\ Bad(buffer, p) <=> Bad(stream, dropped + p)
         /\ Whole(buffer, p) => PacketSize(buffer, p) = PacketSize(stream, dropped + p)
  BY SameBytes DEF TypeOK, Window

\* Nothing has been received yet.
LEMMA InvInit == Init => Inv
<1>. SUFFICES ASSUME Init PROVE Inv
  OBVIOUS
<1>1. TypeOK
  <2>1. <<>> \in Seq(Byte) /\ <<>> \in Seq(Nat \X Nat)
    BY EmptySeq
  <2>. QED
    BY <2>1 DEF Init, TypeOK
<1>2. Window /\ processed <= Len(buffer)
  BY DEF Init, Window
<1>3. Parsed
  BY DEF Init, Parsed, Whole, Bad, Remaining
<1>. QED
  BY <1>1, <1>2, <1>3 DEF Inv, Init

\* A read appends the same bytes to the buffer and to the stream.
LEMMA InvRead ==
  ASSUME Inv, NEW bytes \in Seq(Byte), HandleRead(bytes)
  PROVE  Inv'
<1>. USE DEF Inv, HandleRead
<1>1. /\ buffer' \in Seq(Byte) /\ stream' \in Seq(Byte)
      /\ Len(buffer') = Len(buffer) + Len(bytes)
      /\ Len(stream') = Len(stream) + Len(bytes)
      /\ \A i \in 1 .. Len(buffer') :
           buffer'[i] = IF i <= Len(buffer) THEN buffer[i] ELSE bytes[i - Len(buffer)]
      /\ \A i \in 1 .. Len(stream') :
           stream'[i] = IF i <= Len(stream) THEN stream[i] ELSE bytes[i - Len(stream)]
  BY ConcatProperties DEF TypeOK
<1>2. TypeOK'
  BY <1>1 DEF TypeOK
<1>3. Window'
  <2>1. Len(stream') = dropped' + Len(buffer')
    BY <1>1 DEF TypeOK, Window
  <2>2. ASSUME NEW i \in 1 .. Len(buffer') PROVE buffer'[i] = stream'[dropped' + i]
    <3>1. dropped + i \in 1 .. Len(stream')
      BY <1>1, <2>1 DEF TypeOK
    <3>2. CASE i <= Len(buffer)
      BY <1>1, <2>2, <3>1, <3>2 DEF TypeOK, Window
    <3>3. CASE ~(i <= Len(buffer))
      BY <1>1, <2>2, <3>1, <3>3 DEF TypeOK, Window
    <3>. QED
      BY <3>2, <3>3
  <2>. QED
    BY <2>1, <2>2 DEF Window
<1>4. processed' <= Len(buffer')
  BY <1>1 DEF TypeOK
<1>. QED
  BY <1>2, <1>3, <1>4 DEF Parsed

\* The loop, and the move of what it leaves.
LEMMA InvParse ==
  ASSUME Inv, ProcessPacket \/ BadPacket \/ NeedMore
  PROVE  Inv'
<1>. USE DEF Inv
<1>1. CASE ProcessPacket
  <2>. USE <1>1 DEF ProcessPacket
  <2>1. PacketSize(buffer, processed) \in Nat
    BY SizeIsNat DEF Whole, TypeOK
  <2>2. processed' \in Nat /\ processed' <= Len(buffer')
    BY <2>1 DEF Whole, Remaining, TypeOK
  <2>3. packets' \in Seq(Nat \X Nat)
    <3>1. <<dropped + processed + 1, PacketSize(buffer, processed)>> \in Nat \X Nat
      BY <2>1 DEF TypeOK
    <3>. QED
      BY <3>1 DEF TypeOK
  <2>4. TypeOK'
    BY <2>2, <2>3 DEF TypeOK
  <2>5. Window' /\ Parsed'
    BY DEF Window, Parsed
  <2>. QED
    BY <2>2, <2>4, <2>5
<1>2. CASE BadPacket
  BY <1>2 DEF BadPacket, TypeOK, Window, Parsed
<1>3. CASE NeedMore
  <2>1. /\ ~Whole(buffer, processed) /\ ~Bad(buffer, processed)
        /\ buffer' = SubSeq(buffer, processed + 1, Len(buffer))
        /\ dropped' = dropped + processed /\ processed' = 0 /\ state' = "reading"
        /\ stream' = stream /\ packets' = packets /\ rejected' = rejected
        /\ state = "parsing"
    BY <1>3 DEF NeedMore
  <2>2. /\ processed \in Nat /\ dropped \in Nat /\ Len(buffer) \in Nat
        /\ processed <= Len(buffer) /\ Len(stream) = dropped + Len(buffer)
    BY DEF TypeOK, Window
  <2>3. /\ buffer' \in Seq(Byte)
        /\ Len(buffer') = Len(buffer) - processed
        /\ \A i \in 1 .. Len(buffer) - processed : buffer'[i] = buffer[processed + i]
    <3>1. \A i \in processed + 1 .. Len(buffer) : buffer[i] \in Byte
      BY DEF TypeOK
    <3>2. /\ SubSeq(buffer, processed + 1, Len(buffer)) \in Seq(Byte)
          /\ Len(SubSeq(buffer, processed + 1, Len(buffer))) =
               IF processed + 1 <= Len(buffer)
               THEN Len(buffer) - (processed + 1) + 1 ELSE 0
          /\ \A i \in 1 .. Len(buffer) - (processed + 1) + 1 :
               SubSeq(buffer, processed + 1, Len(buffer))[i] = buffer[processed + 1 + i - 1]
      BY <2>2, <3>1, SubSeqProperties
    <3>3. \A i \in 1 .. Len(buffer) - processed :
            i \in 1 .. Len(buffer) - (processed + 1) + 1 /\ processed + 1 + i - 1 = processed + i
      BY <2>2
    <3>4. buffer' \in Seq(Byte) /\ Len(buffer') = Len(buffer) - processed
      BY <2>1, <2>2, <3>2
    <3>. QED
      BY <2>1, <3>2, <3>3, <3>4
  <2>4. TypeOK' /\ processed' <= Len(buffer')
    BY <2>1, <2>2, <2>3 DEF TypeOK
  <2>5. Window'
    <3>1. Len(stream') = dropped' + Len(buffer')
      <4>1. Len(stream') = Len(stream)
        BY <2>1
      <4>2. Len(buffer') = Len(buffer) - processed
        BY <2>3
      <4>3. dropped' = dropped + processed
        BY <2>1
      <4>. QED
        BY <4>1, <4>2, <4>3, <2>2
    <3>2. ASSUME NEW i \in 1 .. Len(buffer') PROVE buffer'[i] = stream'[dropped' + i]
      <4>1. processed + i \in 1 .. Len(buffer) /\ i \in 1 .. Len(buffer) - processed
        BY <2>2, <2>3
      <4>2. buffer'[i] = stream[dropped + (processed + i)]
        BY <2>3, <4>1 DEF Window
      <4>3. dropped' + i = dropped + (processed + i)
        BY <2>1, <2>2
      <4>. QED
        BY <2>1, <4>2, <4>3
    <3>. QED
      BY <3>1, <3>2 DEF Window
  <2>6. Parsed'
    <3>1. /\ Whole(buffer, processed) <=> Whole(stream, dropped + processed)
          /\ Bad(buffer, processed) <=> Bad(stream, dropped + processed)
      BY <2>2, SameView
    <3>2. /\ buffer' \in Seq(Byte) /\ stream' \in Seq(Byte) /\ dropped' \in Nat
          /\ 0 <= Len(buffer')
      BY <2>3, <2>4 DEF TypeOK
    <3>3. /\ Whole(buffer', 0) <=> Whole(stream', dropped' + 0)
          /\ Bad(buffer', 0) <=> Bad(stream', dropped' + 0)
      <4>1. /\ Len(stream') = dropped' + Len(buffer')
            /\ \A i \in 1 .. Len(buffer') : buffer'[i] = stream'[dropped' + i]
        BY <2>5 DEF Window
      <4>. QED
        BY <3>2, <4>1, SameBytes
    <3>4. stream' = stream /\ dropped' + 0 = dropped + processed
      BY <2>1, <2>2
    <3>5. ~Whole(buffer', 0) /\ ~Bad(buffer', 0)
      BY <2>1, <3>1, <3>3, <3>4
    <3>. QED
      BY <3>5 DEF Parsed, Whole, Bad, Remaining, HeaderKnown,
           SizeValid, HeaderSize, PacketSize
  <2>. QED
    BY <2>1, <2>4, <2>5, <2>6
<1>. QED
  BY <1>1, <1>2, <1>3

\* Every step preserves the invariant.
LEMMA InvNext == Inv /\ [Next]_vars => Inv'
<1>. SUFFICES ASSUME Inv, [Next]_vars PROVE Inv'
  OBVIOUS
<1>1. ASSUME NEW bytes \in Segments, HandleRead(bytes) PROVE Inv'
  <2>1. bytes \in Seq(Byte)
    BY DEF Segments
  <2>. QED
    BY <1>1, <2>1, InvRead
<1>2. CASE HandleReadFails
  BY <1>2 DEF HandleReadFails, historyVars, Inv, TypeOK, Window, Parsed
<1>3. CASE UNCHANGED vars \/ Finished
  BY <1>3 DEF Finished, vars, Inv, TypeOK, Window, Parsed
<1>. QED
  BY <1>1, <1>2, <1>3, InvParse DEF Next

\* The inductive invariant.
LEMMA Invariance == Spec => []Inv
  BY InvInit, InvNext, PTL DEF Spec

\* Whatever a client sends, and whatever the buffer's size, the next read has
\* room for at least a byte.
THEOREM ReadsHaveRoom == Spec => []RoomForRead
<1>1. Inv => RoomForRead
  <2>. SUFFICES ASSUME Inv, state = "reading" PROVE Len(buffer) < MaxPacket
    BY DEF RoomForRead
  <2>1. CASE Remaining(buffer, 0) >= 3
    <3>1. HeaderKnown(buffer, 0) /\ SizeValid(buffer, 0)
      BY <2>1 DEF Inv, Parsed, Bad
    <3>2. ~(Remaining(buffer, 0) >= PacketSize(buffer, 0))
      BY <2>1, <3>1 DEF Inv, Parsed, Whole
    <3>3. PacketSize(buffer, 0) \in Nat /\ PacketSize(buffer, 0) <= MaxPacket
      BY <2>1, <3>1, SizeIsNat DEF SizeValid, Inv, TypeOK
    <3>. QED
      BY <3>2, <3>3, FormatAssumption DEF Remaining, Inv, TypeOK
  <2>2. CASE ~(Remaining(buffer, 0) >= 3)
    BY <2>2, FormatAssumption DEF Remaining, Inv, TypeOK
  <2>. QED
    BY <2>1, <2>2
<1>. QED
  BY Invariance, <1>1, PTL

\* The abstract stream is cut by the same format.
LEMMA SameFormat ==
  ASSUME NEW s, NEW p
  PROVE  /\ Stream!Whole(s, p) <=> Whole(s, p)
         /\ Stream!Bad(s, p) <=> Bad(s, p)
         /\ Stream!PacketSize(s, p) = PacketSize(s, p)
<1>1. /\ Stream!Remaining(s, p) = Remaining(s, p)
      /\ Stream!HeaderKnown(s, p) = HeaderKnown(s, p)
      /\ Stream!HeaderSize(s, p) = HeaderSize(s, p)
      /\ Stream!PacketSize(s, p) = PacketSize(s, p)
  BY DEF Stream!Remaining, Remaining, Stream!HeaderKnown, HeaderKnown,
         Stream!HeaderSize, HeaderSize, Stream!PacketSize, PacketSize
<1>2. Stream!SizeValid(s, p) = SizeValid(s, p)
  BY <1>1 DEF Stream!SizeValid, SizeValid
<1>. QED
  BY <1>1, <1>2 DEF Stream!Whole, Whole, Stream!Bad, Bad

\* Initial states map to initial states.
LEMMA StreamInit == Init => Stream!Init
  BY DEF Init, Stream!Init

\* Every step is a step of the abstract stream, or changes nothing it sees.
LEMMA StreamStep ==
  ASSUME Inv, Inv', [Next]_vars
  PROVE  \/ Stream!Next
         \/ UNCHANGED <<stream, dropped + processed, packets, rejected>>
<1>1. /\ Whole(buffer, processed) <=> Whole(stream, dropped + processed)
      /\ Bad(buffer, processed) <=> Bad(stream, dropped + processed)
      /\ Whole(buffer, processed) =>
           PacketSize(buffer, processed) = PacketSize(stream, dropped + processed)
  BY SameView DEF Inv, TypeOK
<1>2. ASSUME NEW bytes \in Segments, HandleRead(bytes) PROVE Stream!Arrive
  <2>. USE <1>2 DEF HandleRead
  <2>1. bytes \in Seq(Byte) /\ stream \in Seq(Byte) /\ stream' \in Seq(Byte)
    BY DEF Segments, Inv, TypeOK
  <2>2. SubSeq(stream', 1, Len(stream)) = stream
    <3>1. /\ Len(stream') = Len(stream) + Len(bytes)
          /\ \A i \in 1 .. Len(stream) : stream'[i] = stream[i]
      BY <2>1, ConcatProperties, LenProperties
    <3>2. /\ SubSeq(stream', 1, Len(stream)) \in Seq(Byte)
          /\ Len(SubSeq(stream', 1, Len(stream))) = Len(stream)
          /\ \A i \in 1 .. Len(stream) : SubSeq(stream', 1, Len(stream))[i] = stream[i]
      <4>1. \A i \in 1 .. Len(stream) : stream'[i] \in Byte
        BY <2>1, <3>1
      <4>2. /\ SubSeq(stream', 1, Len(stream)) \in Seq(Byte)
            /\ Len(SubSeq(stream', 1, Len(stream))) =
                 IF 1 <= Len(stream) THEN Len(stream) - 1 + 1 ELSE 0
            /\ \A i \in 1 .. Len(stream) - 1 + 1 :
                 SubSeq(stream', 1, Len(stream))[i] = stream'[1 + i - 1]
        BY <2>1, <4>1, SubSeqProperties
      <4>. QED
        BY <2>1, <3>1, <4>2
    <3>. QED
      BY <2>1, <3>2, SeqEqual
  <2>3. dropped' + processed' = dropped + processed /\ ~rejected
    BY DEF Inv, TypeOK
  <2>4. ~Whole(stream, dropped + processed) /\ ~Bad(stream, dropped + processed)
    BY <1>1 DEF Inv, Parsed
  <2>. QED
    BY <2>1, <2>2, <2>3, <2>4, SameFormat DEF Stream!Arrive, Stream!Byte, Byte
<1>3. CASE ProcessPacket
  <2>. USE <1>3 DEF ProcessPacket
  <2>1. PacketSize(buffer, processed) \in Nat
    BY SizeIsNat DEF Whole, Inv, TypeOK
  <2>2. dropped' + processed' = dropped + processed + PacketSize(stream, dropped + processed)
    BY <1>1, <2>1 DEF Inv, TypeOK
  <2>3. ~rejected
    BY DEF Inv
  <2>. QED
    BY <1>1, <2>2, <2>3, SameFormat DEF Stream!Next, Stream!Cut
<1>4. CASE BadPacket
  <2>1. ~rejected
    BY <1>4 DEF BadPacket, Inv
  <2>. QED
    BY <1>1, <1>4, <2>1, SameFormat DEF BadPacket, Stream!Next, Stream!Reject
<1>5. CASE NeedMore
  BY <1>5 DEF NeedMore, Inv, TypeOK
<1>6. CASE HandleReadFails \/ Finished \/ UNCHANGED vars
  BY <1>6 DEF HandleReadFails, Finished, vars, historyVars
<1>. QED
  BY <1>2, <1>3, <1>4, <1>5, <1>6 DEF Next, Stream!Next

\* The packets processed are those the stream is cut into by its own headers,
\* however it is segmented into reads, for any buffer size and any bytes.
THEOREM SegmentationDoesNotMatter == Spec => CutsTheStream
<1>1. Inv /\ Inv' /\ [Next]_vars
        => [Stream!Next]_<<stream, dropped + processed, packets, rejected>>
  BY StreamStep
<1>. QED
  BY Invariance, StreamInit, <1>1, PTL DEF Spec, CutsTheStream, Stream!Spec

=============================================================================
