-------------------------- MODULE ConnectionProofs --------------------------
(***************************************************************************)
(* The deserializer cuts every stream of messages where the client did,    *)
(* for every header size, every set of lengths and every way the bytes     *)
(* arrive.                                                                 *)
(***************************************************************************)
EXTENDS ConnectionProps, TLAPS

USE HeaderAssumption, LengthAssumption DEF HeaderAssumption, LengthAssumption

Header == [length: Length, magic: {"right", "wrong"}]

LEMMA MessageType ==
  ASSUME TypeOK, NEW i \in 1 .. Len(stream)
  PROVE  /\ stream[i] \in Message /\ stream[i].at \in Nat /\ stream[i].length \in Nat
         /\ End(i) \in Nat
<1>1. stream[i] \in Message
  BY DEF TypeOK
<1>2. stream[i].at \in Nat /\ stream[i].length \in Nat
  BY <1>1 DEF Message
<1> QED
  BY <1>1, <1>2 DEF End

\* The bytes at the beginning of a message decode to that message's header only.
LEMMA DecodedStart ==
  ASSUME TypeOK, Ascending, NEW i \in 1 .. Len(stream)
  PROVE  Decoded(stream[i].at) = {[length |-> stream[i].length, magic |-> stream[i].magic]}
<1>1. \A j \in 1 .. Len(stream) : stream[j].at = stream[i].at => j = i
  BY MessageType DEF Ascending, TypeOK
<1>2. {j \in 1 .. Len(stream) : stream[j].at = stream[i].at} = {i}
  BY <1>1
<1> QED
  BY <1>2 DEF Decoded

\* In a state of the invariant, the header that the deserializer decodes is the one of
\* the message that begins the buffer; a buffer with bytes in it has such a message.
LEMMA FrontHeader ==
  ASSUME FramingInv, NEW h \in Decoded(Front), size > 0 \/ Len(handed) < Len(stream)
  PROVE  LET k == Len(handed) + 1
         IN  /\ k \in 1 .. Len(stream) /\ Front = stream[k].at
             /\ h.length = stream[k].length /\ h.magic = stream[k].magic
<1> DEFINE k == Len(handed) + 1
<1>1. k \in 1 .. Len(stream)
  BY DEF FramingInv, TypeOK, Aligned
<1>2. Front = stream[k].at
  BY <1>1 DEF FramingInv, Aligned, Start, TypeOK
<1>3. h = [length |-> stream[k].length, magic |-> stream[k].magic]
  BY <1>1, <1>2, DecodedStart DEF FramingInv
<1> QED
  BY <1>1, <1>2, <1>3

-----------------------------------------------------------------------------
LEMMA InitFraming == Init => FramingInv
<1> SUFFICES ASSUME Init PROVE FramingInv
  OBVIOUS
<1> USE DEF Init, EmptyDeserializer
<1>1. TypeOK
  BY DEF TypeOK
<1>2. Contiguous /\ Ascending /\ Framing /\ Flushed
  BY DEF Contiguous, Ascending, Framing, Flushed
<1>3. Aligned
  BY DEF Aligned, Front, Start
<1> QED
  BY <1>1, <1>2, <1>3 DEF FramingInv

\* The client writes one more message, or part of one.
LEMMA WriteFraming ==
  ASSUME FramingInv, NEW l \in Length, NEW magic \in {"right", "wrong"}, NEW n \in Nat,
         n <= HEADER_SIZE_IN_BYTES + l,
         Write(l, magic, n), closed' \in {"open", "closed"},
         closed' = "open" => n = HEADER_SIZE_IN_BYTES + l
  PROVE  FramingInv'
<1> DEFINE m == [at |-> total, length |-> l, magic |-> magic]
<1>1. /\ TypeOK /\ Contiguous /\ Ascending /\ Framing /\ Aligned
  BY DEF FramingInv
<1>0. written = total
  BY DEF FramingInv, Flushed, Write
<1>2. m \in Message /\ l \in Nat
  BY <1>1 DEF Message, TypeOK
<1>N. PICK N \in Nat : N = Len(stream)
  BY <1>1 DEF TypeOK
<1>3. /\ stream' = Append(stream, m) /\ stream' \in Seq(Message)
      /\ Len(stream') = N + 1
      /\ \A i \in 1 .. N : stream'[i] = stream[i]
      /\ stream'[N + 1] = m
      /\ Len(handed) \in Nat
  BY <1>1, <1>2, <1>N DEF Write, TypeOK
<1>4. TypeOK'
  BY <1>0, <1>1, <1>2, <1>3 DEF Write, TypeOK
<1>13. Flushed'
  BY <1>0, <1>1, <1>2 DEF Flushed, Write, TypeOK
<1>5. \A i \in 1 .. N : End(i)' = End(i)
  BY <1>3 DEF End
<1>6. End(N + 1)' = total' /\ Start(N + 1)' = total
  BY <1>1, <1>2, <1>3, <1>N DEF End, Start, Write, TypeOK
<1>7. \A i \in 1 .. N + 1 : Start(i)' = Start(i)
  BY <1>3, <1>6, <1>N DEF Start
<1>8. Start(N + 2)' = total'
  BY <1>3 DEF Start
<1>9. Contiguous'
  <2> SUFFICES ASSUME NEW i \in 1 .. N + 1 PROVE End(i)' = Start(i + 1)'
    BY <1>3 DEF Contiguous
  <2>1. CASE i \in 1 .. N
    <3>1. i + 1 \in 1 .. N + 1 /\ End(i) = Start(i + 1)
      BY <1>1, <1>N, <2>1 DEF Contiguous
    <3> QED
      BY <1>5, <1>7, <2>1, <3>1
  <2>2. CASE i = N + 1
    <3>1. i + 1 = N + 2
      BY <2>2
    <3> QED
      BY <1>6, <1>8, <2>2, <3>1
  <2> QED
    BY <2>1, <2>2
<1>10. Ascending'
  \* Every message begins before the end of the stream.
  <2>1. \A i \in 1 .. N : stream[i].at < total
    <3> SUFFICES ASSUME NEW i \in 1 .. N PROVE stream[i].at < total
      OBVIOUS
    <3>1. N \in 1 .. N /\ End(N) = total
      BY <1>1, <1>N DEF Contiguous, Start
    <3>2. stream[N].at \in Nat /\ stream[i].at \in Nat /\ stream[N].length \in Nat
      BY <1>1, <1>N, <3>1, MessageType
    <3>3. stream[N].at < total
      <4>1. stream[N].at + HEADER_SIZE_IN_BYTES + stream[N].length = total
        BY <3>1 DEF End
      <4> QED
        BY <3>2, <4>1
    <3>4. i # N => stream[i].at < stream[N].at
      BY <1>1, <1>N, <3>1 DEF Ascending
    <3> QED
      BY <1>1, <3>2, <3>3, <3>4 DEF TypeOK
  <2> SUFFICES ASSUME NEW i \in 1 .. N + 1, NEW j \in 1 .. N + 1, i < j
               PROVE  stream'[i].at < stream'[j].at
    BY <1>3 DEF Ascending
  <2>2. i \in 1 .. N /\ stream'[i] = stream[i]
    BY <1>3
  <2>3. CASE j \in 1 .. N
    BY <1>1, <1>3, <1>N, <2>2, <2>3 DEF Ascending
  <2>4. CASE j = N + 1
    BY <1>3, <2>1, <2>2, <2>4
  <2> QED
    BY <2>3, <2>4
<1>11. Framing'
  BY <1>1, <1>3, <1>N DEF Framing, Write
<1>12. Aligned'
  <2> PICK k \in Nat : k = Len(handed) + 1
    BY <1>3
  <2>1. k \in 1 .. N + 1 /\ k = Len(handed') + 1
    BY <1>1, <1>3, <1>N DEF Framing, Write
  <2>2. Front' = Front /\ UNCHANGED <<offset, size, handed>>
    BY DEF Front, Write
  <2>3. Front' = Start(k)'
    BY <1>1, <1>7, <2>1, <2>2 DEF Aligned
  <2>4. size > 0 => k \in 1 .. N /\ offset < End(k)
    BY <1>1, <1>N, <2>1 DEF Aligned
  <2>5. size' > 0 => Len(handed') < Len(stream') /\ offset' < End(k)'
    BY <1>3, <1>5, <2>1, <2>2, <2>4
  <2> QED
    BY <2>1, <2>3, <2>5 DEF Aligned
<1> QED
  BY <1>4, <1>9, <1>10, <1>11, <1>12, <1>13 DEF FramingInv

\* n bytes arrive.
LEMMA ReadFraming ==
  ASSUME FramingInv, NEW n \in 1 .. written - offset, Read(n)
  PROVE  FramingInv'
<1> DEFINE k == Len(handed) + 1
<1>1. /\ TypeOK /\ Contiguous /\ Ascending /\ Framing /\ Aligned
  BY DEF FramingInv
<1>2. PICK h \in Decoded(Front) :
        /\ Validate(size, h) /\ n <= Missing(size, h)
        /\ offset' = offset + n
        /\ IF Complete(size + n, h)
           THEN /\ handed' = Append(handed, [at |-> Front, size |-> size + n])
                /\ size' = EmptyDeserializer
           ELSE size' = size + n /\ UNCHANGED handed
  BY DEF Read
<1>3. /\ Len(handed) \in Nat /\ Len(stream) \in Nat
      /\ offset \in Nat /\ size \in Nat /\ total \in Nat /\ written \in Nat
      /\ offset < written /\ written <= total /\ n \in Nat /\ n > 0
      /\ UNCHANGED <<stream, total, written, closed, conn>>
  BY <1>1 DEF TypeOK, Read
<1>4. size > 0 \/ Len(handed) < Len(stream)
  BY <1>1, <1>3 DEF Aligned, Front, Start
<1>5. /\ k \in 1 .. Len(stream) /\ Front = stream[k].at
      /\ h.length = stream[k].length
  BY <1>4, FrontHeader
<1>6. h.length \in Nat /\ stream[k].at \in Nat /\ Front \in Nat
  BY <1>1, <1>5, MessageType
<1>7. size + n <= HEADER_SIZE_IN_BYTES + h.length
  BY <1>2, <1>3, <1>6, SMTT(30) DEF Missing
<1> Flushed'
  BY <1>3 DEF FramingInv, Flushed
<1>8. CASE Complete(size + n, h)
  <2>1. size + n = HEADER_SIZE_IN_BYTES + h.length
    <3>1. PICK s \in Nat : s = size + n
      BY <1>3
    <3>2. PICK l \in Nat : l = h.length
      BY <1>6
    <3>3. ~(Missing(s, h) > 0)
      BY <1>8, <3>1 DEF Complete
    <3>4. s >= HEADER_SIZE_IN_BYTES
      BY <3>1, <3>3 DEF Missing
    <3>5. ~(l + HEADER_SIZE_IN_BYTES - s > 0)
      BY <3>2, <3>3, <3>4 DEF Missing
    <3>6. s <= HEADER_SIZE_IN_BYTES + l
      BY <1>7, <3>1, <3>2
    <3> QED
      BY <3>1, <3>2, <3>5, <3>6
  <2> DEFINE r == [at |-> Front, size |-> size + n]
  <2>2. r \in [at: Nat, size: Nat] /\ handed' = Append(handed, r) /\ size' = 0
    BY <1>2, <1>3, <1>6, <1>8 DEF EmptyDeserializer
  <2>3. /\ Len(handed') = k /\ handed' \in Seq([at: Nat, size: Nat])
        /\ \A i \in 1 .. Len(handed) : handed'[i] = handed[i]
        /\ handed'[k] = r
    BY <1>1, <2>2 DEF TypeOK
  <2>4. TypeOK'
    BY <1>1, <1>2, <1>3, <2>2, <2>3 DEF TypeOK
  <2>5. Contiguous' /\ Ascending'
    BY <1>1, <1>3 DEF Contiguous, Ascending, End, Start
  <2>6. Framing'
    <3>1. handed'[k] = [at |-> stream[k].at, size |-> HEADER_SIZE_IN_BYTES + stream[k].length]
      BY <1>5, <2>1, <2>3
    <3>2. \A i \in 1 .. k : i = k \/ i \in 1 .. Len(handed)
      BY <1>3
    <3>3. \A i \in 1 .. Len(handed) :
            handed'[i] = [at |-> stream[i].at, size |-> HEADER_SIZE_IN_BYTES + stream[i].length]
      BY <1>1, <2>3 DEF Framing
    <3>4. \A i \in 1 .. k :
            handed'[i] = [at |-> stream[i].at, size |-> HEADER_SIZE_IN_BYTES + stream[i].length]
      BY <3>1, <3>2, <3>3
    <3>5. stream' = stream /\ k <= Len(stream)
      BY <1>3, <1>5
    <3> HIDE DEF k, r
    <3> QED
      BY <2>3, <3>4, <3>5 DEF Framing
  <2>7. offset' = End(k) /\ End(k) = Start(k + 1)
    <3>1. End(k) = Start(k + 1)
      BY <1>1, <1>5 DEF Contiguous
    <3>2. offset = stream[k].at + size
      BY <1>3, <1>5, <1>6 DEF Front
    <3>3. offset' = stream[k].at + (size + n) /\ stream[k].length \in Nat
      BY <1>2, <1>3, <1>5, <1>6, <3>2
    <3>4. offset' = stream[k].at + (HEADER_SIZE_IN_BYTES + stream[k].length)
      BY <1>5, <2>1, <3>3
    <3>5. End(k) = stream[k].at + HEADER_SIZE_IN_BYTES + stream[k].length
      BY DEF End
    <3> HIDE DEF k
    <3> QED
      BY <1>5, <1>6, <3>1, <3>3, <3>4, <3>5
  <2>8. Aligned'
    BY <1>3, <2>2, <2>3, <2>7, <1>2 DEF Aligned, Front, Start
  <2> QED
    BY <2>4, <2>5, <2>6, <2>8 DEF FramingInv
<1>9. CASE ~Complete(size + n, h)
  <2>1. size' = size + n /\ handed' = handed
    BY <1>2, <1>9
  <2>2. size + n < HEADER_SIZE_IN_BYTES + h.length
    BY <1>3, <1>6, <1>7, <1>9 DEF Complete, Missing
  <2>3. TypeOK'
    BY <1>1, <1>2, <1>3, <2>1 DEF TypeOK
  <2>4. Contiguous' /\ Ascending' /\ Framing'
    BY <1>1, <1>3, <2>1 DEF Contiguous, Ascending, Framing, End, Start
  <2>5. Front' = Front
    BY <1>2, <1>3, <2>1 DEF Front
  <2>6. offset' < End(k)
    BY <1>2, <1>3, <1>5, <1>6, <2>2 DEF Front, End
  <2>7. Aligned'
    BY <1>1, <1>3, <1>5, <2>1, <2>5, <2>6 DEF Aligned, Start, End
  <2> QED
    BY <2>3, <2>4, <2>7 DEF FramingInv
<1> QED
  BY <1>8, <1>9

LEMMA NextFraming == ASSUME FramingInv, [Next]_vars PROVE FramingInv'
<1>1. CASE UNCHANGED vars
  BY <1>1 DEF vars, FramingInv, TypeOK, Contiguous, Ascending, Framing, Aligned, Flushed,
              End, Start, Front
<1>2. ASSUME NEW l \in Length, NEW magic \in {"right", "wrong"}, Send(l, magic)
      PROVE  FramingInv'
  <2>1. HEADER_SIZE_IN_BYTES + l \in Nat /\ closed' = closed /\ closed \in {"open", "closed"}
    BY <1>2 DEF Send, FramingInv, TypeOK
  <2> QED
    BY <1>2, <2>1, WriteFraming DEF Send
<1>3. ASSUME NEW l \in Length, NEW magic \in {"right", "wrong"}, Die(l, magic)
      PROVE  FramingInv'
  <2>1. PICK n \in 0 .. HEADER_SIZE_IN_BYTES + l - 1 : Write(l, magic, n)
    BY <1>3 DEF Die
  <2>2. n \in Nat /\ n <= HEADER_SIZE_IN_BYTES + l /\ closed' = "closed"
    BY <1>3 DEF Die
  <2> QED
    BY <2>1, <2>2, WriteFraming
<1>4. CASE ReadSome
  BY <1>4, ReadFraming DEF ReadSome
<1>5. CASE Drop
  BY <1>5 DEF Drop, FramingInv, TypeOK, Contiguous, Ascending, Framing, Aligned, Flushed,
              End, Start, Front
<1> QED
  BY <1>1, <1>2, <1>3, <1>4, <1>5 DEF Next, Receive

\* For every header size, every set of payload lengths and every way the reads cut the
\* stream, deserializer_detach returns the client's messages whole and in order.
THEOREM WholeMessages == Spec => []Framing
<1>1. FramingInv /\ [Next]_vars => FramingInv'
  BY NextFraming
<1>2. FramingInv => Framing
  BY DEF FramingInv
<1> QED
  BY <1>1, <1>2, InitFraming, PTL DEF Spec

LEMMA FramingMissing == ASSUME FramingInv PROVE MissingPositive
<1> SUFFICES ASSUME NEW h \in Decoded(Front) PROVE Missing(size, h) > 0
  BY DEF MissingPositive
<1>1. size \in Nat /\ offset \in Nat
  BY DEF FramingInv, TypeOK
<1>2. CASE size < HEADER_SIZE_IN_BYTES
  BY <1>1, <1>2 DEF Missing
<1>3. CASE ~(size < HEADER_SIZE_IN_BYTES)
  <2> PICK k : k = Len(handed) + 1
    OBVIOUS
  <2>1. size > 0
    BY <1>1, <1>3
  <2>2. /\ k \in 1 .. Len(stream) /\ Front = stream[k].at
        /\ h.length = stream[k].length
    BY <2>1, FrontHeader
  <2>3. stream[k].at \in Nat /\ stream[k].length \in Nat
    BY <2>2, MessageType DEF FramingInv
  <2>4. offset < End(k)
    BY <2>1 DEF FramingInv, Aligned
  <2>5. offset - size = stream[k].at
    BY <2>2 DEF Front
  <2> QED
    BY <1>1, <1>3, <2>2, <2>3, <2>4, <2>5 DEF Missing, End
<1> QED
  BY <1>2, <1>3

\* The assertion of receiver.c:182 never fails: whenever a connection is read, at least
\* one byte of its message is missing, and the difference in deserializer_missing is not
\* below zero.
THEOREM AssertionHolds == Spec => []MissingPositive
<1>1. FramingInv /\ [Next]_vars => FramingInv'
  BY NextFraming
<1>2. FramingInv => MissingPositive
  BY FramingMissing
<1> QED
  BY <1>1, <1>2, InitFraming, PTL DEF Spec

LEMMA ReadValidated ==
  ASSUME FramingInv, OnlyValidated, NEW n \in 1 .. written - offset, Read(n)
  PROVE  OnlyValidated'
<1> DEFINE r == [at |-> Front, size |-> size + n]
<1>1. /\ Len(handed) \in Nat /\ Len(stream) \in Nat /\ size \in Nat /\ offset \in Nat
      /\ written \in Nat /\ offset < written /\ written <= total /\ total \in Nat
      /\ handed \in Seq([at: Nat, size: Nat]) /\ stream' = stream
  BY DEF FramingInv, TypeOK, Read
<1>2. PICK h \in Decoded(Front) :
        /\ Validate(size, h) /\ n <= Missing(size, h)
        /\ IF Complete(size + n, h)
           THEN /\ handed' = Append(handed, [at |-> Front, size |-> size + n])
                /\ size' = EmptyDeserializer
           ELSE size' = size + n /\ UNCHANGED handed
  BY DEF Read
<1>3. CASE handed' = handed
  BY <1>1, <1>3 DEF OnlyValidated
<1>4. CASE handed' = Append(handed, r)
  <2> PICK k \in Nat : k = Len(handed) + 1
    BY <1>1
  <2>1. size > 0 \/ Len(handed) < Len(stream)
    BY <1>1 DEF FramingInv, Aligned, Front, Start
  <2>2. k \in 1 .. Len(stream) /\ Front = stream[k].at /\ h.magic = stream[k].magic
    BY <2>1, FrontHeader
  <2>3. Front \in Nat
    BY <2>2, MessageType DEF FramingInv
  <2>4. r \in [at: Nat, size: Nat]
    BY <1>1, <2>3
  <2>5. /\ Len(handed') = k /\ handed'[k] = r
        /\ \A i \in 1 .. Len(handed) : handed'[i] = handed[i]
    BY <1>1, <1>4, <2>4
  <2>6. size + n > HEADER_SIZE_IN_BYTES => h.magic = "right"
    BY <1>1, <1>2 DEF Validate, Missing
  <2>7. handed'[k].size > HEADER_SIZE_IN_BYTES => stream[k].magic = "right"
    BY <2>2, <2>5, <2>6
  <2>8. \A i \in 1 .. k : i = k \/ i \in 1 .. Len(handed)
    BY <1>1
  <2> QED
    BY <1>1, <2>5, <2>7, <2>8 DEF OnlyValidated
<1> QED
  BY <1>2, <1>3, <1>4

LEMMA NextValidated ==
  ASSUME FramingInv, OnlyValidated, [Next]_vars PROVE OnlyValidated'
<1>1. CASE ReadSome
  BY <1>1, ReadValidated DEF ReadSome
<1>2. ASSUME stream' = stream, handed' = handed PROVE OnlyValidated'
  BY <1>2 DEF OnlyValidated
<1>3. ASSUME NEW l, NEW magic, NEW n, Write(l, magic, n) PROVE OnlyValidated'
  <2>1. /\ stream \in Seq(Message) /\ Len(handed) <= Len(stream) /\ Len(handed) \in Nat
    BY DEF FramingInv, Framing, TypeOK
  <2>2. /\ handed' = handed
        /\ \A i \in 1 .. Len(stream) : stream'[i] = stream[i]
    BY <1>3, <2>1 DEF Write
  <2> QED
    BY <2>1, <2>2 DEF OnlyValidated
<1> QED
  BY <1>1, <1>2, <1>3 DEF Next, Receive, Send, Die, Drop, vars

\* No message with a payload reaches a worker unless its magic code was right: the header
\* is read on its own, so the next round validates it before the payload is complete
\* (receiver.c:160-170, deserializer.c:66-74).
THEOREM PayloadsValidated == Spec => []OnlyValidated
<1>1. Init => FramingInv /\ OnlyValidated
  BY InitFraming DEF Init, OnlyValidated
<1>2. FramingInv /\ OnlyValidated /\ [Next]_vars => (FramingInv /\ OnlyValidated)'
  BY NextFraming, NextValidated
<1> QED
  BY <1>1, <1>2, PTL DEF Spec
=============================================================================
