-------------------------- MODULE TransportProofs --------------------------
(* Proofs about the JSON-RPC transport, for any number of requests and any *)
(* capacity of the pipe: the stream of frames is never torn, answers in    *)
(* time are returned, and the caller sees the request ledger.              *)
EXTENDS JsonRpcTransport, SequenceTheorems, TLAPS

-----------------------------------------------------------------------------
(* Sequences.                                                              *)

\* Moving a prefix of t to the end of s changes neither's concatenation.
LEMMA MoveKeepsConcat ==
    ASSUME NEW S, NEW s \in Seq(S), NEW t \in Seq(S), NEW n \in 1..Len(t)
    PROVE  /\ s \o SubSeq(t, 1, n) \in Seq(S)
           /\ SubSeq(t, n + 1, Len(t)) \in Seq(S)
           /\ (s \o SubSeq(t, 1, n)) \o SubSeq(t, n + 1, Len(t)) = s \o t
<1>1. SubSeq(t, 1, n) \in Seq(S) /\ SubSeq(t, n + 1, Len(t)) \in Seq(S)
  BY SubSeqProperties, ElementOfSeq
<1>2. SubSeq(t, 1, n) \o SubSeq(t, n + 1, Len(t)) = t
  <2>1. SubSeq(t, 1, n) \o SubSeq(t, n + 1, Len(t)) = SubSeq(t, 1, Len(t))
    <3>1. 1 \in 1..(Len(t) + 1) /\ n \in 0..Len(t) /\ Len(t) \in n..Len(t)
      OBVIOUS
    <3>2. QED
      BY <3>1, ConcatAdjacentSubSeq
  <2>2. QED
    BY <2>1, SubSeqFull
<1>3. (s \o SubSeq(t, 1, n)) \o SubSeq(t, n + 1, Len(t))
         = s \o (SubSeq(t, 1, n) \o SubSeq(t, n + 1, Len(t)))
  <2> DEFINE a == SubSeq(t, 1, n)
             b == SubSeq(t, n + 1, Len(t))
  <2>1. a \in Seq(S) /\ b \in Seq(S)
    BY <1>1
  <2> HIDE DEF a, b
  <2>2. (s \o a) \o b = s \o (a \o b)
    BY <2>1
  <2>3. QED
    BY <2>2 DEF a, b
<1>4. s \o SubSeq(t, 1, n) \in Seq(S)
  BY <1>1, ConcatProperties
<1>5. QED
  BY <1>1, <1>2, <1>3, <1>4

\* What remains of s without its first n elements.
LEMMA DropLength ==
    ASSUME NEW S, NEW s \in Seq(S), NEW n \in 1..Len(s)
    PROVE  /\ SubSeq(s, n + 1, Len(s)) \in Seq(S)
           /\ Len(SubSeq(s, n + 1, Len(s))) = Len(s) - n
           /\ \A i \in 1..(Len(s) - n) : SubSeq(s, n + 1, Len(s))[i] = s[i + n]
  OBVIOUS

\* Dropping two elements of s drops them from the concatenation.
LEMMA DropShiftsConcat ==
    ASSUME NEW S, NEW s \in Seq(S), NEW t \in Seq(S), Len(s) >= 2
    PROVE  /\ SubSeq(s, 3, Len(s)) \in Seq(S)
           /\ Len(SubSeq(s, 3, Len(s)) \o t) = Len(s \o t) - 2
           /\ \A i \in 1..(Len(s \o t) - 2) :
                 (SubSeq(s, 3, Len(s)) \o t)[i] = (s \o t)[i + 2]
<1> DEFINE r == SubSeq(s, 3, Len(s))
<1>1. /\ r \in Seq(S) /\ Len(r) = Len(s) - 2
      /\ \A i \in 1..(Len(s) - 2) : r[i] = s[i + 2]
  <2>1. 2 \in 1..Len(s)
    OBVIOUS
  <2>2. /\ SubSeq(s, 2 + 1, Len(s)) \in Seq(S)
        /\ Len(SubSeq(s, 2 + 1, Len(s))) = Len(s) - 2
        /\ \A i \in 1..(Len(s) - 2) : SubSeq(s, 2 + 1, Len(s))[i] = s[i + 2]
    BY <2>1, DropLength
  <2>3. 2 + 1 = 3
    OBVIOUS
  <2>4. QED
    BY <2>2, <2>3, Zenon
<1> HIDE DEF r
<1>2. /\ Len(s) \in Nat /\ Len(t) \in Nat /\ Len(r) \in Nat
      /\ Len(s \o t) = Len(s) + Len(t)
      /\ Len(r \o t) = Len(r) + Len(t)
  <2>1. r \in Seq(S)
    BY <1>1
  <2>2. QED
    BY <2>1, ConcatProperties, LenProperties
<1>3. ASSUME NEW i \in 1..(Len(s \o t) - 2)
      PROVE  (r \o t)[i] = (s \o t)[i + 2]
  <2>1. (r \o t)[i] = IF i <= Len(r) THEN r[i] ELSE t[i - Len(r)]
    BY <1>1, <1>2
  <2>2. (s \o t)[i + 2] = IF i + 2 <= Len(s) THEN s[i + 2] ELSE t[i + 2 - Len(s)]
    BY <1>2
  <2>3. i - Len(r) = i + 2 - Len(s)
    BY <1>1, <1>2
  <2>4. QED
    BY <1>1, <1>2, <2>1, <2>2, <2>3
<1>4. QED
  BY <1>1, <1>2, <1>3 DEF r

\* Appending to t appends to the concatenation.
LEMMA AppendToConcat ==
    ASSUME NEW S, NEW s \in Seq(S), NEW t \in Seq(S), NEW e \in S
    PROVE  /\ Append(t, e) \in Seq(S)
           /\ Len(s \o Append(t, e)) = Len(s \o t) + 1
           /\ \A i \in 1..Len(s \o t) : (s \o Append(t, e))[i] = (s \o t)[i]
           /\ (s \o Append(t, e))[Len(s \o t) + 1] = e
  OBVIOUS

-----------------------------------------------------------------------------
(* The stream.                                                             *)

\* The first line is the first frame.
LEMMA LineIsAFrame ==
    ASSUME TypeOK, Framed, HasLine
    PROVE  /\ Len(buffer) >= 2 /\ LineLength = 2
           /\ buffer[1] = Stream[1] /\ buffer[2] = Stream[2]
           /\ buffer[1].frame = buffer[2].frame
           /\ ~buffer[1].end /\ buffer[2].end
<1>1. buffer \in Seq(Pieces) /\ pipe \in Seq(Pieces)
  BY DEF TypeOK
<1>2. /\ Len(buffer) \in Nat
      /\ Len(Stream) >= Len(buffer)
      /\ \A i \in 1..Len(buffer) : Stream[i] = buffer[i]
  BY <1>1 DEF Stream
<1>3. PICK j \in 1..Len(buffer) : buffer[j].end
  BY DEF HasLine, LineEnds
<1>4. j % 2 = 0
  BY <1>2, <1>3 DEF Framed
<1>5. Len(buffer) >= 2
  BY <1>2, <1>3, <1>4
<1>6. ~buffer[1].end /\ buffer[2].end /\ buffer[1].frame = buffer[2].frame
  BY <1>2, <1>5 DEF Framed
<1>7. 2 \in LineEnds /\ \A i \in LineEnds : i \in Int /\ 2 <= i
  BY <1>2, <1>5, <1>6 DEF LineEnds
<1>8. LineLength = 2
  BY <1>7 DEF LineLength
<1>9. QED
  BY <1>2, <1>5, <1>6, <1>8

\* Taking a line drops the first frame.
LEMMA TakeDropsAFrame ==
    ASSUME TypeOK, Framed, TakeLine
    PROVE  /\ buffer' \in Seq(Pieces)
           /\ Len(Stream) >= 2 /\ Len(Stream') = Len(Stream) - 2
           /\ \A i \in 1..Len(Stream') : Stream'[i] = Stream[i + 2]
           /\ buffer[1] = Stream[1]
           /\ IsWhole /\ ~Stream[1].end /\ Stream[2].end
           /\ Stream[1].frame = Stream[2].frame
<1>1. /\ Len(buffer) >= 2 /\ LineLength = 2
      /\ buffer[1] = Stream[1] /\ buffer[2] = Stream[2]
      /\ buffer[1].frame = buffer[2].frame
      /\ ~buffer[1].end /\ buffer[2].end
  BY LineIsAFrame DEF TakeLine
<1>2. buffer \in Seq(Pieces) /\ pipe \in Seq(Pieces) /\ pipe' = pipe
  BY DEF TypeOK, TakeLine, child
<1>3. buffer' = SubSeq(buffer, 3, Len(buffer))
  BY <1>1 DEF TakeLine
<1>4. Stream' = SubSeq(buffer, 3, Len(buffer)) \o pipe
  BY <1>2, <1>3 DEF Stream
<1>5. /\ buffer' \in Seq(Pieces)
      /\ Len(Stream') = Len(Stream) - 2
      /\ \A i \in 1..(Len(Stream) - 2) : Stream'[i] = Stream[i + 2]
  BY <1>1, <1>2, <1>3, <1>4, DropShiftsConcat DEF Stream
<1>6. Len(Stream) >= 2
  BY <1>1, <1>2 DEF Stream
<1>7. QED
  BY <1>1, <1>5, <1>6 DEF IsWhole

\* Reading moves pieces from the pipe to the buffer.
LEMMA ReadKeepsStream ==
    ASSUME TypeOK, ReadChunk
    PROVE  buffer' \in Seq(Pieces) /\ pipe' \in Seq(Pieces) /\ Stream' = Stream
<1>1. PICK n \in 1..Len(pipe) :
          /\ buffer' = buffer \o SubSeq(pipe, 1, n)
          /\ pipe' = SubSeq(pipe, n + 1, Len(pipe))
  BY DEF ReadChunk
<1>2. buffer \in Seq(Pieces) /\ pipe \in Seq(Pieces)
  BY DEF TypeOK
<1>3. /\ buffer' \in Seq(Pieces) /\ pipe' \in Seq(Pieces)
      /\ buffer' \o pipe' = buffer \o pipe
  BY <1>1, <1>2, MoveKeepsConcat
<1>4. QED
  BY <1>3 DEF Stream

\* Writing appends a piece.
LEMMA WriteExtendsStream ==
    ASSUME TypeOK, NEW piece \in Pieces, pipe' = Append(pipe, piece), buffer' = buffer
    PROVE  /\ pipe' \in Seq(Pieces)
           /\ Len(Stream) \in Nat /\ Len(Stream') = Len(Stream) + 1
           /\ \A i \in 1..Len(Stream) : Stream'[i] = Stream[i]
           /\ Stream'[Len(Stream')] = piece
<1>1. /\ pipe' \in Seq(Pieces)
      /\ Len(Stream') = Len(Stream) + 1
      /\ \A i \in 1..Len(Stream) : Stream'[i] = Stream[i]
      /\ Stream'[Len(Stream) + 1] = piece
  BY AppendToConcat DEF TypeOK, Stream
<1>2. Len(Stream) \in Nat
  BY DEF TypeOK, Stream
<1>3. QED
  BY <1>1, <1>2

\* The frames the child writes.
LEMMA FramesAreFrames ==
    ASSUME TypeOK
    PROVE  /\ \A n \in taken, kind \in {"result", "error", "odd"} : Frame(kind, n) \in Frames
           /\ \A kind \in {"note", "junk"} : Frame(kind, 0) \in Frames
  BY TransportAssumption DEF TransportAssumption, TypeOK, Frame, Frames, Requests

\* Every step keeps every variable in its set.
LEMMA TypeStep ==
    TypeOK /\ Framed /\ [Next]_vars => TypeOK'
<1> SUFFICES ASSUME TypeOK /\ Framed, [Next]_vars
             PROVE  TypeOK'
  OBVIOUS
<1> USE TransportAssumption DEF TypeOK, TransportAssumption, Requests, Ended, NoFrame, Frame, Ends, client, child
<1>1. CASE Request
  BY <1>1 DEF Request
<1>2. CASE RequestFails
  BY <1>2 DEF RequestFails
<1>3. CASE Notify
  BY <1>3 DEF Notify
<1>4. CASE Close
  BY <1>4 DEF Close
<1>5. CASE SkipLine
  BY <1>5, TakeDropsAFrame DEF SkipLine, TakeLine
<1>6. CASE ReturnResult
  BY <1>6, TakeDropsAFrame DEF ReturnResult, TakeLine
<1>7. CASE RaiseError
  BY <1>7, TakeDropsAFrame DEF RaiseError, TakeLine
<1>8. CASE RaiseMalformed
  BY <1>8, TakeDropsAFrame DEF RaiseMalformed, TakeLine
<1>9. CASE ReadChunk
  BY <1>9, ReadKeepsStream DEF ReadChunk
<1>10. CASE NothingToRead
  BY <1>10 DEF NothingToRead
<1>11. CASE RaiseExited
  BY <1>11 DEF RaiseExited
<1>12. CASE RaiseTimedOut
  BY <1>12 DEF RaiseTimedOut
<1>13. CASE ReadAgain
  BY <1>13 DEF ReadAgain
<1>14. CASE DeadlinePasses
  BY <1>14 DEF DeadlinePasses
<1>15. CASE TakeUp
  <2>1. inbox' \in Seq(0..nextId) /\ Head(inbox) \in 0..nextId
    BY <1>15 DEF TakeUp
  <2>2. Head(inbox) # 0 => Head(inbox) \in 1..nextId
    BY <2>1
  <2> taken' \subseteq 1..nextId /\ replied \subseteq taken'
    BY <1>15, <2>2 DEF TakeUp
  <2>3. QED
    BY <1>15, <2>1, <2>2 DEF TakeUp
<1>16. CASE Reply
  <2>1. PICK frame \in Frames : Write(frame) /\ replied' \subseteq taken
    BY <1>16, FramesAreFrames DEF Reply
  <2>2. pipe' \in Seq(Pieces)
    BY <2>1, WriteExtendsStream DEF Write, Piece, Pieces
  <2>3. QED
    BY <2>1, <2>2 DEF Write
<1>17. CASE Chatter
  <2>1. PICK frame \in Frames : Write(frame) /\ replied' = replied
    BY <1>17, FramesAreFrames DEF Chatter
  <2>2. pipe' \in Seq(Pieces)
    BY <2>1, WriteExtendsStream DEF Write, Piece, Pieces
  <2>3. QED
    BY <2>1, <2>2 DEF Write
<1>18. CASE Finish
  <2>1. Piece(half, TRUE) \in Pieces
    BY <1>18 DEF Finish, Piece, Pieces
  <2>2. pipe' \in Seq(Pieces)
    BY <1>18, <2>1, WriteExtendsStream DEF Finish
  <2>3. inTime' \subseteq 1..nextId
    BY <1>18 DEF Finish
  <2>4. QED
    BY <1>18, <2>2, <2>3 DEF Finish
<1>19. CASE CloseStdout
  BY <1>19 DEF CloseStdout
<1>20. CASE Exit
  BY <1>20 DEF Exit
<1>21. CASE UNCHANGED vars
  BY <1>21 DEF vars
<1>22. QED
  BY <1>1, <1>2, <1>3, <1>4, <1>5, <1>6, <1>7, <1>8, <1>9, <1>10, <1>11,
     <1>12, <1>13, <1>14, <1>15, <1>16, <1>17, <1>18, <1>19, <1>20, <1>21
  DEF Next, ReadResponse, Child


-----------------------------------------------------------------------------
(* The four things a step may do to the stream.                            *)

LEMMA StreamStep ==
    ASSUME TypeOK, Framed, [Next]_vars
    PROVE  /\ taken \subseteq taken'
           /\ \/ Stream' = Stream /\ half' = half
              \/ TakeLine
              \/ \E frame \in Frames : Write(frame) /\ frame.id \in taken \cup {0}
              \/ Finish
<1> USE DEF client, child
<1>1. CASE Request
  BY <1>1 DEF Request, Ends, Stream
<1>2. CASE RequestFails
  BY <1>2 DEF RequestFails, Ends, Stream
<1>3. CASE Notify
  BY <1>3 DEF Notify, Ends, Stream
<1>4. CASE Close
  BY <1>4 DEF Close, Ends, Stream
<1>5. CASE SkipLine
  BY <1>5 DEF SkipLine, TakeLine
<1>6. CASE ReturnResult
  BY <1>6 DEF ReturnResult, TakeLine
<1>7. CASE RaiseError
  BY <1>7 DEF RaiseError, TakeLine
<1>8. CASE RaiseMalformed
  BY <1>8 DEF RaiseMalformed, TakeLine
<1>9. CASE ReadChunk
  BY <1>9, ReadKeepsStream DEF ReadChunk
<1>10. CASE NothingToRead
  BY <1>10 DEF NothingToRead, Ends, Stream
<1>11. CASE RaiseExited
  BY <1>11 DEF RaiseExited, Ends, Stream
<1>12. CASE RaiseTimedOut
  BY <1>12 DEF RaiseTimedOut, Ends, Stream
<1>13. CASE ReadAgain
  BY <1>13 DEF ReadAgain, Ends, Stream
<1>14. CASE DeadlinePasses
  BY <1>14 DEF DeadlinePasses, Ends, Stream
<1>15. CASE TakeUp
  BY <1>15 DEF TakeUp, Ends, Stream
<1>16. CASE Reply
  <2>1. PICK frame \in Frames : Write(frame) /\ frame.id \in taken \cup {0}
    BY <1>16, FramesAreFrames DEF Reply, Frame
  <2>2. taken' = taken
    BY <2>1 DEF Write
  <2>3. QED
    BY <2>1, <2>2
<1>17. CASE Chatter
  <2>1. PICK frame \in Frames : Write(frame) /\ frame.id \in taken \cup {0}
    BY <1>17, FramesAreFrames DEF Chatter, Frame
  <2>2. taken' = taken
    BY <2>1 DEF Write
  <2>3. QED
    BY <2>1, <2>2
<1>18. CASE Finish
  BY <1>18 DEF Finish, Ends, Stream
<1>19. CASE CloseStdout
  BY <1>19 DEF CloseStdout, Ends, Stream
<1>20. CASE Exit
  BY <1>20 DEF Exit, Ends, Stream
<1>21. CASE UNCHANGED vars
  BY <1>21 DEF vars, Stream
<1>22. QED
  BY <1>1, <1>2, <1>3, <1>4, <1>5, <1>6, <1>7, <1>8, <1>9, <1>10, <1>11,
     <1>12, <1>13, <1>14, <1>15, <1>16, <1>17, <1>18, <1>19, <1>20, <1>21
  DEF Next, ReadResponse, Child

\* The stream is a sequence.
LEMMA StreamLength ==
    ASSUME TypeOK
    PROVE  Stream \in Seq(Pieces) /\ Len(Stream) \in Nat
  BY DEF TypeOK, Stream

\* The first piece of a frame, or the rest of the one begun, goes to the end.
LEMMA LastPiece ==
    ASSUME Framed, NEW end \in BOOLEAN, NEW frame,
           Len(Stream) \in Nat, Len(Stream') = Len(Stream) + 1,
           \A i \in 1..Len(Stream) : Stream'[i] = Stream[i],
           Stream'[Len(Stream')] = Piece(frame, end),
           frame # NoFrame,
           IF end THEN half = frame /\ half' = NoFrame
                  ELSE half = NoFrame /\ half' = frame
    PROVE  Framed'
<1> DEFINE n == Len(Stream)
           m == Len(Stream')
<1>1. n \in Nat /\ m = n + 1 /\ (end <=> n % 2 = 1) /\ n % 2 \in {0, 1}
  BY DEF Framed
<1>2. Stream'[m].end = end /\ Stream'[m].frame = frame
  BY DEF Piece
<1>3. ASSUME NEW i \in 1..m
      PROVE  /\ Stream'[i].end <=> i % 2 = 0
             /\ Stream'[i].end => Stream'[i - 1].frame = Stream'[i].frame
  <2>1. CASE i = m
    <3>1. Stream'[i].end <=> i % 2 = 0
      BY <1>1, <1>2, <2>1
    <3>2. end => Stream'[n] = Stream[n] /\ Stream[n].frame = frame
      BY <1>1 DEF Framed
    <3>3. QED
      BY <1>1, <1>2, <2>1, <3>1, <3>2
  <2>2. CASE i \in 1..n
    <3>1. Stream[i].end <=> i % 2 = 0
      BY <2>2 DEF Framed
    <3>2. Stream[i].end => Stream[i - 1].frame = Stream[i].frame /\ i - 1 \in 1..n
      BY <1>1, <2>2, <3>1 DEF Framed
    <3>3. QED
      BY <2>2, <3>1, <3>2
  <2>3. QED
    BY <1>1, <2>1, <2>2
<1>4. m % 2 = IF end THEN 0 ELSE 1
  BY <1>1
<1>5. QED
  BY <1>2, <1>3, <1>4 DEF Framed

\* The stream is never torn.
LEMMA FramedStep ==
    ASSUME TypeOK, Framed, [Next]_vars
    PROVE  Framed'
<1>1. CASE Stream' = Stream /\ half' = half
  BY <1>1 DEF Framed
<1>2. CASE TakeLine
  <2>1. half' = half
    BY <1>2 DEF TakeLine, child
  <2>2. /\ Len(Stream) \in Nat /\ Len(Stream') = Len(Stream) - 2 /\ Len(Stream) >= 2
        /\ \A i \in 1..Len(Stream') : Stream'[i] = Stream[i + 2]
    BY <1>2, TakeDropsAFrame, StreamLength
  <2>3. ASSUME NEW i \in 1..Len(Stream')
        PROVE  /\ Stream'[i].end <=> i % 2 = 0
               /\ Stream'[i].end => Stream'[i - 1].frame = Stream'[i].frame
    <3>1. i + 2 \in 1..Len(Stream) /\ Stream'[i] = Stream[i + 2]
      BY <2>2, <2>3
    <3>2. (i + 2) % 2 = i % 2
      BY <2>2, <2>3
    <3>3. Stream'[i].end <=> i % 2 = 0
      BY <3>1, <3>2 DEF Framed
    <3>4. ASSUME Stream'[i].end
          PROVE  Stream'[i - 1].frame = Stream'[i].frame
      <4>1. i - 1 \in 1..Len(Stream')
        BY <2>2, <2>3, <3>3, <3>4
      <4>2. Stream'[i - 1] = Stream[i + 1]
        BY <2>2, <4>1
      <4>3. Stream[(i + 2) - 1].frame = Stream[i + 2].frame
        BY <3>1, <3>4 DEF Framed
      <4>4. QED
        BY <2>2, <3>1, <4>2, <4>3
    <3>5. QED
      BY <3>3, <3>4
  <2>4. Len(Stream') % 2 = Len(Stream) % 2
    BY <2>2
  <2>5. half # NoFrame => Stream'[Len(Stream')].frame = half
    <3>1. SUFFICES ASSUME half # NoFrame
                   PROVE  Stream'[Len(Stream')].frame = half
      OBVIOUS
    <3>2. Len(Stream) % 2 = 1 /\ Stream[Len(Stream)].frame = half
      BY <3>1 DEF Framed
    <3>3. Len(Stream') \in 1..Len(Stream')
      BY <2>2, <3>2
    <3>4. QED
      BY <2>2, <3>2, <3>3
  <2>6. QED
    BY <2>1, <2>3, <2>4, <2>5 DEF Framed
<1>3. CASE \E frame \in Frames : Write(frame) /\ frame.id \in taken \cup {0}
  <2>1. PICK frame \in Frames : Write(frame)
    BY <1>3
  <2>2. /\ half = NoFrame /\ half' = frame /\ frame # NoFrame
        /\ pipe' = Append(pipe, Piece(frame, FALSE)) /\ buffer' = buffer
    BY <2>1 DEF Write, Frames, NoFrame, Frame, client
  <2>3. /\ Len(Stream) \in Nat /\ Len(Stream') = Len(Stream) + 1
        /\ \A i \in 1..Len(Stream) : Stream'[i] = Stream[i]
        /\ Stream'[Len(Stream')] = Piece(frame, FALSE)
    BY <2>2, WriteExtendsStream DEF Piece, Pieces
  <2>4. QED
    BY <2>2, <2>3, LastPiece
<1>4. CASE Finish
  <2>1. /\ half # NoFrame /\ half' = NoFrame
        /\ pipe' = Append(pipe, Piece(half, TRUE)) /\ buffer' = buffer
    BY <1>4 DEF Finish, client
  <2>2. Piece(half, TRUE) \in Pieces
    BY <2>1 DEF TypeOK, Piece, Pieces
  <2>3. /\ Len(Stream) \in Nat /\ Len(Stream') = Len(Stream) + 1
        /\ \A i \in 1..Len(Stream) : Stream'[i] = Stream[i]
        /\ Stream'[Len(Stream')] = Piece(half, TRUE)
    BY <2>1, <2>2, WriteExtendsStream
  <2>4. QED
    BY <2>1, <2>3, LastPiece
<1>5. QED
  BY <1>1, <1>2, <1>3, <1>4, StreamStep

\* What is in the stream answers a request that was taken up.
LEMMA AskedStep ==
    ASSUME TypeOK, Framed, AnswersWereAsked, [Next]_vars
    PROVE  AnswersWereAsked'
<1> taken \subseteq taken'
  BY StreamStep
<1>1. CASE Stream' = Stream /\ half' = half
  BY <1>1 DEF AnswersWereAsked
<1>2. CASE TakeLine
  <2>1. half' = half
    BY <1>2 DEF TakeLine, child
  <2>2. \A i \in 1..Len(Stream') : i + 2 \in 1..Len(Stream) /\ Stream'[i] = Stream[i + 2]
    BY <1>2, TakeDropsAFrame, StreamLength
  <2>3. QED
    BY <2>1, <2>2 DEF AnswersWereAsked
<1>3. CASE \E frame \in Frames : Write(frame) /\ frame.id \in taken \cup {0}
  <2>1. PICK frame \in Frames : Write(frame) /\ frame.id \in taken \cup {0}
    BY <1>3
  <2>2. /\ half' = frame /\ buffer' = buffer /\ Piece(frame, FALSE) \in Pieces
        /\ pipe' = Append(pipe, Piece(frame, FALSE))
    BY <2>1 DEF Write, Piece, Pieces, client
  <2>3. /\ Len(Stream) \in Nat /\ Len(Stream') = Len(Stream) + 1
        /\ \A i \in 1..Len(Stream) : Stream'[i] = Stream[i]
        /\ Stream'[Len(Stream')].frame = frame
    BY <2>2, WriteExtendsStream DEF Piece
  <2>4. \A i \in 1..Len(Stream') : i \in 1..Len(Stream) \/ i = Len(Stream')
    BY <2>3
  <2>5. QED
    BY <2>1, <2>2, <2>3, <2>4 DEF AnswersWereAsked
<1>4. CASE Finish
  <2>1. /\ half' = NoFrame /\ buffer' = buffer /\ Piece(half, TRUE) \in Pieces
        /\ pipe' = Append(pipe, Piece(half, TRUE))
    BY <1>4 DEF Finish, TypeOK, Piece, Pieces, client
  <2>2. /\ Len(Stream) \in Nat /\ Len(Stream') = Len(Stream) + 1
        /\ \A i \in 1..Len(Stream) : Stream'[i] = Stream[i]
        /\ Stream'[Len(Stream')].frame = half
    BY <2>1, WriteExtendsStream DEF Piece
  <2>3. \A i \in 1..Len(Stream') : i \in 1..Len(Stream) \/ i = Len(Stream')
    BY <2>2
  <2>4. QED
    BY <2>1, <2>2, <2>3 DEF AnswersWereAsked, NoFrame, Frame
<1>5. QED
  BY <1>1, <1>2, <1>3, <1>4, StreamStep

\* An answer in time stays in the stream until it is taken, and the deadline and
\* the end of the file are only looked at when the stream holds no answer.
LEMMA ThereStep ==
    ASSUME TypeOK, Framed, AnswerIsThere, [Next]_vars
    PROVE  AnswerIsThere'
<1> USE DEF AnswerIsThere, client, child
<1>1. CASE Request
  BY <1>1 DEF Request, TypeOK
<1>2. CASE RequestFails
  BY <1>2 DEF RequestFails
<1>3. CASE Notify
  BY <1>3 DEF Notify, Ends, Stream
<1>4. CASE Close
  BY <1>4 DEF Close, Ends, Stream
<1>5. CASE SkipLine
  <2>1. pc = "read" /\ pc' = "read" /\ nextId' = nextId /\ inTime' = inTime /\ buffer[1].frame.id # nextId
    BY <1>5 DEF SkipLine, TakeLine, IsMine
  <2>2. /\ Len(Stream) \in Nat /\ Len(Stream') = Len(Stream) - 2
        /\ \A i \in 1..Len(Stream') : Stream'[i] = Stream[i + 2]
        /\ buffer[1] = Stream[1] /\ ~Stream[1].end /\ Stream[1].frame = Stream[2].frame
    BY <1>5, TakeDropsAFrame, StreamLength DEF SkipLine
  <2>3. ASSUME NEW j \in 1..Len(Stream), Stream[j].end, Stream[j].frame.id = nextId
        PROVE  j - 2 \in 1..Len(Stream') /\ Stream'[j - 2] = Stream[j]
    <3>1. j # 1 /\ j # 2
      BY <2>1, <2>2, <2>3
    <3>2. j - 2 \in 1..Len(Stream')
      BY <2>2, <3>1
    <3>3. QED
      BY <2>2, <3>2
  <2>4. QED
    BY <2>1, <2>3
<1>6. CASE ReturnResult
  BY <1>6 DEF ReturnResult, Ends, TypeOK
<1>7. CASE RaiseError
  BY <1>7 DEF RaiseError, Ends, TypeOK
<1>8. CASE RaiseMalformed
  BY <1>8 DEF RaiseMalformed, Ends, TypeOK
<1>9. CASE ReadChunk
  BY <1>9, ReadKeepsStream DEF ReadChunk
<1>10. CASE NothingToRead
  <2>1. Stream = buffer
    BY <1>10 DEF NothingToRead, Stream, TypeOK
  <2>2. \A i \in 1..Len(Stream) : ~Stream[i].end
    BY <1>10, <2>1 DEF NothingToRead, HasLine, LineEnds
  <2>3. QED
    BY <1>10, <2>2 DEF NothingToRead
<1>11. CASE RaiseExited
  BY <1>11 DEF RaiseExited, Ends, Stream
<1>12. CASE RaiseTimedOut
  BY <1>12 DEF RaiseTimedOut, Ends, Stream
<1>13. CASE ReadAgain
  BY <1>13 DEF ReadAgain, Ends, Stream
<1>14. CASE DeadlinePasses
  BY <1>14 DEF DeadlinePasses, Ends, Stream
<1>15. CASE TakeUp
  BY <1>15 DEF TakeUp, Ends, Stream
<1>16. CASE Reply
  <2>1. PICK frame \in Frames : Write(frame)
    BY <1>16, FramesAreFrames DEF Reply
  <2>2. /\ client' = client /\ buffer' = buffer /\ inTime' = inTime /\ isOpen' = isOpen
        /\ pipe' = Append(pipe, Piece(frame, FALSE)) /\ Piece(frame, FALSE) \in Pieces
    BY <2>1 DEF Write, Piece, Pieces
  <2>3. \A j \in 1..Len(Stream) : j \in 1..Len(Stream') /\ Stream'[j] = Stream[j]
    <3>1. /\ Len(Stream) \in Nat /\ Len(Stream') = Len(Stream) + 1
          /\ \A i \in 1..Len(Stream) : Stream'[i] = Stream[i]
      BY <2>2, WriteExtendsStream
    <3>2. QED
      BY <3>1
  <2>4. QED
    BY <2>2, <2>3 DEF client
<1>17. CASE Chatter
  <2>1. PICK frame \in Frames : Write(frame)
    BY <1>17, FramesAreFrames DEF Chatter
  <2>2. /\ client' = client /\ buffer' = buffer /\ inTime' = inTime /\ isOpen' = isOpen
        /\ pipe' = Append(pipe, Piece(frame, FALSE)) /\ Piece(frame, FALSE) \in Pieces
    BY <2>1 DEF Write, Piece, Pieces
  <2>3. \A j \in 1..Len(Stream) : j \in 1..Len(Stream') /\ Stream'[j] = Stream[j]
    <3>1. /\ Len(Stream) \in Nat /\ Len(Stream') = Len(Stream) + 1
          /\ \A i \in 1..Len(Stream) : Stream'[i] = Stream[i]
      BY <2>2, WriteExtendsStream
    <3>2. QED
      BY <3>1
  <2>4. QED
    BY <2>2, <2>3 DEF client
<1>18. CASE Finish
  <2>1. /\ client' = client /\ buffer' = buffer /\ isOpen' = isOpen
        /\ pc = "empty" => late
        /\ pipe' = Append(pipe, Piece(half, TRUE)) /\ Piece(half, TRUE) \in Pieces
    BY <1>18 DEF Finish, TypeOK, Piece, Pieces
  <2>2. /\ Len(Stream') \in 1..Len(Stream')
        /\ \A j \in 1..Len(Stream) : j \in 1..Len(Stream') /\ Stream'[j] = Stream[j]
        /\ Stream'[Len(Stream')].end /\ Stream'[Len(Stream')].frame = half
    <3>1. /\ Len(Stream) \in Nat /\ Len(Stream') = Len(Stream) + 1
          /\ \A i \in 1..Len(Stream) : Stream'[i] = Stream[i]
          /\ Stream'[Len(Stream')] = Piece(half, TRUE)
      BY <2>1, WriteExtendsStream
    <3>2. QED
      BY <3>1 DEF Piece
  <2>3. CASE inTime' = inTime
    BY <2>1, <2>2, <2>3
  <2>4. CASE half.id = nextId /\ ~late
    BY <2>1, <2>2, <2>4
  <2>5. QED
    BY <1>18, <2>3, <2>4 DEF Finish
<1>19. CASE CloseStdout
  BY <1>19 DEF CloseStdout, Ends, Stream
<1>20. CASE Exit
  BY <1>20 DEF Exit, Ends, Stream
<1>21. CASE UNCHANGED vars
  BY <1>21 DEF vars, Stream
<1>22. QED
  BY <1>1, <1>2, <1>3, <1>4, <1>5, <1>6, <1>7, <1>8, <1>9, <1>10, <1>11,
     <1>12, <1>13, <1>14, <1>15, <1>16, <1>17, <1>18, <1>19, <1>20, <1>21
  DEF Next, ReadResponse, Child

\* Nor is such a request ever given up.
LEMMA InTimeStep ==
    ASSUME TypeOK, AnswerIsThere, InTimeIsAnswered, [Next]_vars
    PROVE  InTimeIsAnswered'
<1> inTime \subseteq Requests
  BY TransportAssumption DEF TypeOK, TransportAssumption, Requests
<1> USE DEF InTimeIsAnswered, client, child
<1>1. CASE Request
  BY <1>1 DEF Request, TypeOK
<1>2. CASE RequestFails
  BY <1>2 DEF RequestFails, TypeOK
<1>3. CASE Notify
  BY <1>3 DEF Notify
<1>4. CASE Close
  BY <1>4 DEF Close
<1>5. CASE SkipLine
  BY <1>5 DEF SkipLine, TakeLine, Ends, TypeOK
<1>6. CASE ReturnResult
  BY <1>6 DEF ReturnResult, TakeLine, Ends, TypeOK
<1>7. CASE RaiseError
  BY <1>7 DEF RaiseError, TakeLine, Ends, TypeOK
<1>8. CASE RaiseMalformed
  BY <1>8 DEF RaiseMalformed, TakeLine, Ends, TypeOK
<1>9. CASE ReadChunk
  BY <1>9 DEF ReadChunk
<1>10. CASE NothingToRead
  BY <1>10 DEF NothingToRead
<1>11. CASE RaiseExited
  BY <1>11 DEF RaiseExited, Ends, AnswerIsThere, TypeOK
<1>12. CASE RaiseTimedOut
  BY <1>12 DEF RaiseTimedOut, Ends, AnswerIsThere, TypeOK
<1>13. CASE ReadAgain
  BY <1>13 DEF ReadAgain
<1>14. CASE DeadlinePasses
  BY <1>14 DEF DeadlinePasses
<1>15. CASE TakeUp
  BY <1>15 DEF TakeUp
<1>16. CASE Reply
  BY <1>16 DEF Reply, Write
<1>17. CASE Chatter
  BY <1>17 DEF Chatter, Write
<1>18. CASE Finish
  <2>1. \A n \in inTime' : n \in inTime \/ (n = nextId /\ pc \in {"read", "empty"})
    BY <1>18 DEF Finish
  <2>2. nextId \in Requests /\ pc \in {"read", "empty"} => outcome[nextId] = "open"
    BY DEF TypeOK
  <2>3. pc \in {"read", "empty"} => nextId \in Requests
    BY TransportAssumption DEF TypeOK, TransportAssumption, Requests
  <2>4. QED
    BY <1>18, <2>1, <2>2, <2>3 DEF Finish
<1>19. CASE CloseStdout
  BY <1>19 DEF CloseStdout
<1>20. CASE Exit
  BY <1>20 DEF Exit
<1>21. CASE UNCHANGED vars
  BY <1>21 DEF vars
<1>22. QED
  BY <1>1, <1>2, <1>3, <1>4, <1>5, <1>6, <1>7, <1>8, <1>9, <1>10, <1>11,
     <1>12, <1>13, <1>14, <1>15, <1>16, <1>17, <1>18, <1>19, <1>20, <1>21
  DEF Next, ReadResponse, Child

-----------------------------------------------------------------------------
(* The invariant.                                                          *)

\* The child finds the requests in its stdin in their order.
LEMMA WaitsStep ==
    ASSUME TypeOK, WaitsInOrder, [Next]_vars
    PROVE  WaitsInOrder'
<1>1. CASE Request
  <2>1. /\ nextId \in Nat /\ inbox \in Seq(0..nextId) /\ taken \subseteq 1..nextId
        /\ inbox' = Append(inbox, nextId + 1) /\ taken' = taken
    BY <1>1, TransportAssumption DEF Request, TypeOK, TransportAssumption
  <2>2. /\ Len(inbox) \in Nat /\ Len(inbox') = Len(inbox) + 1
        /\ \A i \in 1..Len(inbox) : inbox'[i] = inbox[i] /\ inbox[i] \in 0..nextId
        /\ inbox'[Len(inbox) + 1] = nextId + 1
    BY <2>1
  <2>3. QED
    BY <2>1, <2>2 DEF WaitsInOrder
<1>2. CASE Notify
  <2>1. inbox \in Seq(0..nextId) /\ inbox' = Append(inbox, 0) /\ taken' = taken
    BY <1>2 DEF Notify, TypeOK
  <2>2. /\ Len(inbox) \in Nat /\ Len(inbox') = Len(inbox) + 1
        /\ \A i \in 1..Len(inbox) : inbox'[i] = inbox[i]
        /\ inbox'[Len(inbox) + 1] = 0
    BY <2>1
  <2>3. QED
    BY <2>1, <2>2 DEF WaitsInOrder
<1>3. CASE TakeUp
  <2>1. /\ inbox \in Seq(0..nextId) /\ inbox # <<>> /\ inbox' = Tail(inbox)
        /\ taken' \subseteq taken \cup {inbox[1]}
    BY <1>3 DEF TakeUp, TypeOK
  <2>2. /\ Len(inbox) \in Nat \ {0} /\ Len(inbox') = Len(inbox) - 1
        /\ \A i \in 1..Len(inbox') : inbox'[i] = inbox[i + 1] /\ i + 1 \in 1..Len(inbox)
    BY <2>1
  <2>3. ASSUME NEW i \in 1..Len(inbox'), inbox'[i] # 0
        PROVE  /\ \A n \in taken' : n < inbox'[i]
               /\ \A j \in 1..(i - 1) : inbox'[j] < inbox'[i]
    <3>1. /\ \A n \in taken : n < inbox'[i]
          /\ \A j \in 1..i : inbox[j] < inbox'[i]
      BY <2>2, <2>3 DEF WaitsInOrder
    <3>2. \A j \in 1..(i - 1) : inbox'[j] = inbox[j + 1] /\ j + 1 \in 1..i
      BY <2>2
    <3>3. QED
      BY <2>1, <3>1, <3>2
  <2>4. QED
    BY <2>3 DEF WaitsInOrder
<1>4. CASE inbox' = inbox /\ taken' = taken
  BY <1>4 DEF WaitsInOrder
<1>5. QED
  BY <1>1, <1>2, <1>3, <1>4
  DEF Next, ReadResponse, Child, vars, client, child, RequestFails, Close, SkipLine,
      ReturnResult, RaiseError, RaiseMalformed, TakeLine, ReadChunk, NothingToRead,
      RaiseExited, RaiseTimedOut, ReadAgain, DeadlinePasses, Reply, Chatter, Write, Finish,
      CloseStdout, Exit

LEMMA StreamEmpty ==
    ASSUME buffer = <<>>, pipe = <<>>
    PROVE  Stream = <<>> /\ Len(Stream) = 0
  BY DEF Stream

\* The inductive invariant holds in every state of every behaviour.
THEOREM TransportInvariant ==
    Spec => []IInv
<1>1. Init => IInv
  <2> SUFFICES ASSUME Init
               PROVE  IInv
    OBVIOUS
  <2> USE DEF Init
  <2>1. TypeOK
    <3>1. buffer \in Seq(Pieces) /\ pipe \in Seq(Pieces) /\ inbox \in Seq(0..nextId)
      OBVIOUS
    <3>2. outcome \in [Requests -> {"unsent", "open"} \cup Ended]
      BY DEF Ended
    <3>3. nextId \in 0..MaxRequests /\ \A n \in Requests : n > nextId
      BY TransportAssumption DEF TransportAssumption, Requests
    <3>4. QED
      BY <3>1, <3>2, <3>3 DEF TypeOK
  <2>2. Framed /\ AnswersWereAsked
    BY StreamEmpty DEF Framed, AnswersWereAsked, NoFrame, Frame
  <2>3. AnswerIsThere /\ InTimeIsAnswered /\ WaitsInOrder
    BY DEF AnswerIsThere, InTimeIsAnswered, WaitsInOrder
  <2>4. QED
    BY <2>1, <2>2, <2>3 DEF IInv
<1>2. IInv /\ [Next]_vars => IInv'
  BY TypeStep, FramedStep, AskedStep, ThereStep, InTimeStep, WaitsStep DEF IInv
<1>3. QED
  BY <1>1, <1>2, PTL DEF Spec

\* Every variable stays in its set.
THEOREM TransportTypes ==
    Spec => []TypeOK
<1>1. IInv => TypeOK
  BY DEF IInv
<1>2. QED
  BY <1>1, TransportInvariant, PTL

\* The frames on their way are never torn, whatever fails when.
THEOREM StreamIsFramed ==
    Spec => []Framed
<1>1. IInv => Framed
  BY DEF IInv
<1>2. QED
  BY <1>1, TransportInvariant, PTL

\* A request whose answer was written in time is never given up.
THEOREM AnswersInTime ==
    Spec => []InTimeIsAnswered
<1>1. IInv => InTimeIsAnswered
  BY DEF IInv
<1>2. QED
  BY <1>1, TransportInvariant, PTL

-----------------------------------------------------------------------------
(* The refinement.                                                         *)

\* The open request is one.
LEMMA OpenIsRequest ==
    ASSUME TypeOK, pc \in {"read", "empty"}
    PROVE  nextId \in Requests /\ nextId # 0 /\ outcome[nextId] = "open"
  BY TransportAssumption DEF TypeOK, TransportAssumption, Requests

\* The end of the open request, as its caller sees it.
LEMMA FateOfEnd ==
    ASSUME TypeOK, pc \in {"read", "empty"}, NEW how \in Ended, Ends(how)
    PROVE  /\ Fate[nextId] = "open"
           /\ Fate' = [Fate EXCEPT ![nextId] =
                          IF how \in {"returned", "error"} THEN "answered" ELSE "raised"]
<1>1. nextId \in Requests /\ outcome[nextId] = "open"
  BY OpenIsRequest
<1>2. outcome' = [outcome EXCEPT ![nextId] = how] /\ outcome \in [Requests -> {"unsent", "open"} \cup Ended]
  BY DEF Ends, TypeOK
<1>3. QED
  BY <1>1, <1>2 DEF Fate, Ended

\* Before a request is sent, those before it have ended and it has not begun.
LEMMA FateBefore ==
    ASSUME TypeOK, pc = "idle", nextId < MaxRequests
    PROVE  /\ nextId + 1 \in Requests /\ Fate[nextId + 1] = "unsent"
           /\ \A m \in 1..nextId : Fate[m] \in {"answered", "raised"}
<1>1. nextId \in Nat /\ nextId + 1 \in Requests /\ 1..nextId \subseteq Requests
  BY TransportAssumption DEF TypeOK, TransportAssumption, Requests
<1>2. outcome[nextId + 1] = "unsent"
  BY <1>1 DEF TypeOK
<1>3. \A m \in 1..nextId : outcome[m] \notin {"unsent", "open"}
  BY <1>1 DEF TypeOK
<1>4. QED
  BY <1>1, <1>2, <1>3 DEF Fate

\* An answer with the id of the open request was written for it.
LEMMA MineWasTaken ==
    ASSUME IInv, TakeLine, IsMine
    PROVE  nextId \in taken
<1>1. Len(Stream) >= 2 /\ buffer[1] = Stream[1]
  BY TakeDropsAFrame DEF IInv
<1>2. buffer[1].frame.id \in taken \cup {0}
  BY <1>1, StreamLength DEF IInv, AnswersWereAsked
<1>3. nextId # 0
  BY OpenIsRequest DEF IInv, TakeLine
<1>4. QED
  BY <1>2, <1>3 DEF IsMine

\* A step that ends no request and takes none up; the child may exit in it.
LEMMA SameFate ==
    ASSUME outcome' = outcome, taken' = taken, running' = running \/ (running /\ running' = FALSE)
    PROVE  [Ledger!Next]_(Ledger!ledger)
<1>1. Fate' = Fate
  BY DEF Fate
<1>2. CASE running' = running
  BY <1>1, <1>2 DEF Ledger!ledger
<1>3. CASE running /\ running' = FALSE
  BY <1>1, <1>3 DEF Ledger!GoesDown, Ledger!Next
<1>4. QED
  BY <1>2, <1>3

\* Every step of the transport is a step of the ledger, or none.
LEMMA LedgerStep ==
    ASSUME IInv, [Next]_vars
    PROVE  [Ledger!Next]_(Ledger!ledger)
<1> USE DEF IInv
<1>0. running \in BOOLEAN
  BY DEF TypeOK
<1>1. CASE Request
  <2>1. Ledger!Open(nextId + 1)
    <3>1. pc = "idle" /\ nextId < MaxRequests /\ UNCHANGED <<taken, running>> /\ nextId \in Nat
      BY <1>1 DEF Request, TypeOK
    <3>2. Fate' = [Fate EXCEPT ![nextId + 1] = "open"]
      BY <1>1, <3>1, FateBefore DEF Request, TypeOK, Fate
    <3>3. QED
      BY <3>1, <3>2, FateBefore DEF Ledger!Open
  <2>2. QED
    BY <1>1, <2>1, FateBefore DEF Request, Ledger!Next, Ledger!Requests, Requests
<1>2. CASE RequestFails
  <2>1. Ledger!OpenFails(nextId + 1)
    <3>1. pc = "idle" /\ nextId < MaxRequests /\ UNCHANGED <<taken, running>> /\ nextId \in Nat
      BY <1>2 DEF RequestFails, TypeOK, child
    <3>2. Fate' = [Fate EXCEPT ![nextId + 1] = "raised"]
      BY <1>2, <3>1, FateBefore DEF RequestFails, TypeOK, Fate
    <3>3. QED
      BY <3>1, <3>2, FateBefore DEF Ledger!OpenFails
  <2>2. QED
    BY <1>2, <2>1, FateBefore DEF RequestFails, Ledger!Next, Ledger!Requests, Requests
<1>3. CASE Notify
  BY <1>3, SameFate DEF Notify, client, child
<1>4. CASE Close
  BY <1>0, <1>4, SameFate DEF Close, client, child
<1>5. CASE SkipLine
  BY <1>5, SameFate DEF SkipLine, TakeLine, child
<1>6. CASE ReturnResult
  <2>1. pc \in {"read", "empty"} /\ UNCHANGED <<taken, running>> /\ Ends("returned")
    BY <1>6 DEF ReturnResult, TakeLine, child
  <2>2. nextId \in taken
    BY <1>6, MineWasTaken DEF ReturnResult
  <2>3. Ledger!Answer(nextId)
    BY <2>1, <2>2, FateOfEnd DEF Ledger!Answer, Ended
  <2>4. QED
    BY <2>1, <2>3, OpenIsRequest DEF Ledger!Next, Ledger!Requests, Requests
<1>7. CASE RaiseError
  <2>1. pc \in {"read", "empty"} /\ UNCHANGED <<taken, running>> /\ Ends("error")
    BY <1>7 DEF RaiseError, TakeLine, child
  <2>2. nextId \in taken
    BY <1>7, MineWasTaken DEF RaiseError
  <2>3. Ledger!Answer(nextId)
    BY <2>1, <2>2, FateOfEnd DEF Ledger!Answer, Ended
  <2>4. QED
    BY <2>1, <2>3, OpenIsRequest DEF Ledger!Next, Ledger!Requests, Requests
<1>8. CASE RaiseMalformed
  <2>1. pc \in {"read", "empty"} /\ UNCHANGED <<taken, running>> /\ Ends("malformed")
    BY <1>8 DEF RaiseMalformed, TakeLine, child
  <2>3. Ledger!Raise(nextId)
    BY <2>1, FateOfEnd DEF Ledger!Raise, Ended
  <2>4. QED
    BY <2>1, <2>3, OpenIsRequest DEF Ledger!Next, Ledger!Requests, Requests
<1>9. CASE ReadChunk
  BY <1>9, SameFate DEF ReadChunk, client, child
<1>10. CASE NothingToRead
  BY <1>10, SameFate DEF NothingToRead, client, child
<1>11. CASE RaiseExited
  <2>1. pc \in {"read", "empty"} /\ UNCHANGED <<taken, running>> /\ Ends("exited")
    BY <1>11 DEF RaiseExited, child
  <2>3. Ledger!Raise(nextId)
    BY <2>1, FateOfEnd DEF Ledger!Raise, Ended
  <2>4. QED
    BY <2>1, <2>3, OpenIsRequest DEF Ledger!Next, Ledger!Requests, Requests
<1>12. CASE RaiseTimedOut
  <2>1. pc \in {"read", "empty"} /\ UNCHANGED <<taken, running>> /\ Ends("timed_out")
    BY <1>12 DEF RaiseTimedOut, child
  <2>3. Ledger!Raise(nextId)
    BY <2>1, FateOfEnd DEF Ledger!Raise, Ended
  <2>4. QED
    BY <2>1, <2>3, OpenIsRequest DEF Ledger!Next, Ledger!Requests, Requests
<1>13. CASE ReadAgain
  BY <1>13, SameFate DEF ReadAgain, client, child
<1>14. CASE DeadlinePasses
  BY <1>14, SameFate DEF DeadlinePasses, client, child
<1>15. CASE TakeUp
  <2>1. /\ Head(inbox) \in 0..nextId /\ outcome' = outcome /\ running /\ running' = running
        /\ inbox # <<>> /\ inbox \in Seq(0..nextId)
    BY <1>15 DEF TakeUp, TypeOK, client
  <2>2. CASE Head(inbox) = 0 \/ Head(inbox) \in taken
    BY <1>15, <2>1, <2>2, SameFate DEF TakeUp
  <2>3. CASE Head(inbox) # 0 /\ Head(inbox) \notin taken
    <3> DEFINE n == Head(inbox)
    <3>1. n \in Requests /\ outcome[n] # "unsent"
      BY <2>1, <2>3, TransportAssumption DEF TypeOK, TransportAssumption, Requests
    <3>2. Fate[n] # "unsent" /\ Fate' = Fate
      BY <2>1, <3>1 DEF Fate
    <3>3. taken' = taken \cup {n}
      BY <1>15, <2>3 DEF TakeUp
    <3>4. \A m \in taken : m < n
      BY <2>1, <2>3 DEF WaitsInOrder
    <3>5. Ledger!Take(n)
      BY <2>1, <3>2, <3>3, <3>4 DEF Ledger!Take
    <3>6. QED
      BY <3>1, <3>5 DEF Ledger!Next, Ledger!Requests, Requests
  <2>4. QED
    BY <2>2, <2>3
<1>16. CASE Reply
  BY <1>16, SameFate DEF Reply, Write, client
<1>17. CASE Chatter
  BY <1>17, SameFate DEF Chatter, Write, client
<1>18. CASE Finish
  BY <1>18, SameFate DEF Finish, client, child
<1>19. CASE CloseStdout
  BY <1>19, SameFate DEF CloseStdout, client, child
<1>20. CASE Exit
  BY <1>20, SameFate DEF Exit, client, child
<1>21. CASE UNCHANGED vars
  BY <1>21, SameFate DEF vars, client, child
<1>22. QED
  BY <1>1, <1>2, <1>3, <1>4, <1>5, <1>6, <1>7, <1>8, <1>9, <1>10, <1>11,
     <1>12, <1>13, <1>14, <1>15, <1>16, <1>17, <1>18, <1>19, <1>20, <1>21
  DEF Next, ReadResponse, Child

\* The caller sees nothing but the request ledger.
THEOREM TransportImplements ==
    Spec => ImplementsRequests
<1>1. Init => Ledger!Init
  BY DEF Init, Ledger!Init, Fate, Ledger!Requests, Requests
<1>2. IInv /\ [Next]_vars => [Ledger!Next]_(Ledger!ledger)
  BY LedgerStep
<1>3. QED
  BY <1>1, <1>2, TransportInvariant, PTL DEF Spec, ImplementsRequests, Ledger!Spec

=============================================================================
