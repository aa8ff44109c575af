------------------------------- MODULE WtProofs -------------------------------
(***************************************************************************)
(* The WebTransport session, for every set of streams and connections, every*)
(* number of seats, every length of a seat's buffer and every trouble.      *)
(***************************************************************************)
EXTENDS WtSession, SumsProofs, SequenceTheorems, FiniteSetTheorems

Byte == Stream \X Nat
Line == Seq(Byte)

SeatRecord   == [in_use : BOOLEAN, stream_id : Nat, line : Line, reply : [of : Line, left : Nat]]
StreamRecord == [state : {"new", "open", "ended", "gone", "lost"}, len : Nat, sent : Nat,
                 got : SUBSET Line, fin : BOOLEAN, refused : BOOLEAN, owed : BOOLEAN]

\* The types of the session's state.
WtTypeOK ==
  /\ seats \in [Seat -> SeatRecord]
  /\ streams \in [Stream -> StreamRecord]
  /\ \A x \in Stream : streams[x].sent <= streams[x].len
  /\ active \subseteq Stream
  /\ asked \subseteq Stream \X Line
  /\ troubles \in Nat

\* A stream is asked for data after its FIN came in, and its last packet goes after that.
FinAfterFin ==
  /\ \A x \in active : streams[x].state = "ended"
  /\ \A x \in Stream : streams[x].fin => streams[x].state \in {"ended", "lost"}

-------------------------------------------------------------------------------
(* The operators of the model.                                             *)

\* Of two numbers, Min gives one that is not above the other.
LEMMA MinOfTwo ==
  ASSUME NEW a \in Nat, NEW b \in Nat
  PROVE  Min({a, b}) = IF a <= b THEN a ELSE b
<1> DEFINE m == IF a <= b THEN a ELSE b
<1>1. m \in {a, b} /\ \A y \in {a, b} : m <= y OBVIOUS
<1>2. \A x \in {a, b} : (\A y \in {a, b} : x <= y) => x = m OBVIOUS
<1> QED BY <1>1, <1>2 DEF Min

\* stream_find gives the seat that carries the id, or a free one when no seat does.
LEMMA SeatForIsOne ==
  ASSUME NEW id, NEW i \in SeatFor(id)
  PROVE  /\ i \in Seat
         /\ \/ seats[i].in_use /\ seats[i].stream_id = id
            \/ ~ seats[i].in_use /\ Holding(id) = {}
<1>1. CASE Holding(id) # {}
  BY <1>1 DEF SeatFor, Holding
<1>2. CASE Holding(id) = {} /\ Free # {}
  <2>1. i = Min(Free) BY <1>2 DEF SeatFor
  <2>2. Free \subseteq Nat BY DEF Free, Seat
  <2>3. \E y \in Free : \A z \in Free : y <= z BY <2>2, <1>2, LeastNatural
  <2>4. Min(Free) \in Free BY <2>3 DEF Min
  <2> QED BY <2>1, <2>4, <1>2 DEF Free
<1> QED BY <1>1, <1>2 DEF SeatFor

\* The bytes of a callback and what a seat keeps of them are lines.
LEMMA BytesAreALine ==
  ASSUME WtTypeOK, NEW x \in Stream, NEW n \in Nat
  PROVE  Bytes(x, n) \in Line /\ Len(Bytes(x, n)) = n
<1>1. \A k \in 1..n : << x, streams[x].sent + k >> \in Byte
  BY DEF WtTypeOK, StreamRecord, Byte
<1> QED BY <1>1 DEF Bytes, Line

\* What a seat's buffer keeps of more bytes: their first ones, to its end.
LEMMA KeptIsALine ==
  ASSUME NEW l \in Line, NEW b \in Line
  PROVE  /\ Kept(l, b) \in Line
         /\ Len(Kept(l, b)) = IF WT_LINE_MAX <= Len(l) + Len(b) THEN WT_LINE_MAX
                                                               ELSE Len(l) + Len(b)
         /\ \A k \in 1..Len(Kept(l, b)) :
              Kept(l, b)[k] = IF k <= Len(l) THEN l[k] ELSE b[k - Len(l)]
<1>1. Len(l) \in Nat /\ Len(b) \in Nat BY LenProperties DEF Line
<1> DEFINE m == Min({WT_LINE_MAX, Len(l) + Len(b)})
<1>2. m = IF WT_LINE_MAX <= Len(l) + Len(b) THEN WT_LINE_MAX ELSE Len(l) + Len(b)
  BY <1>1, MinOfTwo, WtConstants
<1>3. m \in Nat /\ m <= Len(l) + Len(b)
  BY <1>1, <1>2, WtConstants
<1>4. /\ l \o b \in Line /\ Len(l \o b) = Len(l) + Len(b)
      /\ \A k \in 1..Len(l) + Len(b) : (l \o b)[k] = IF k <= Len(l) THEN l[k] ELSE b[k - Len(l)]
  BY ConcatProperties DEF Line
<1>5. \A k \in 1..m : (l \o b)[k] \in Byte
  BY <1>1, <1>3, <1>4, ElementOfSeq DEF Line
<1> HIDE DEF m
<1>6. /\ SubSeq(l \o b, 1, m) \in Line /\ Len(SubSeq(l \o b, 1, m)) = m
      /\ \A k \in 1..m : SubSeq(l \o b, 1, m)[k] = (l \o b)[k]
  BY <1>3, <1>5, SubSeqProperties DEF Line
<1>7. Kept(l, b) = SubSeq(l \o b, 1, m) BY DEF Kept, m
<1> QED BY <1>1, <1>2, <1>3, <1>4, <1>6, <1>7

\* The seat stream_find hands out is a seat.
LEMMA TakenIsASeat ==
  ASSUME WtTypeOK, NEW x \in Stream, NEW i \in SeatFor(x[2])
  PROVE  Taken(i, x[2]) \in SeatRecord /\ Taken(i, x[2]).in_use /\ Taken(i, x[2]).stream_id = x[2]
<1>1. i \in Seat /\ (seats[i].in_use => seats[i].stream_id = x[2]) BY SeatForIsOne
<1>2. << >> \in Line BY DEF Line
<1>3. Empty \in SeatRecord BY <1>2 DEF Empty, NoReply, SeatRecord
<1>4. x[2] \in Nat BY WtConstants
<1>5. seats[i] \in SeatRecord BY <1>1 DEF WtTypeOK
<1>6. CASE seats[i].in_use BY <1>6, <1>5, <1>1 DEF Taken
<1>7. CASE ~ seats[i].in_use
  BY <1>7, <1>2, <1>4 DEF Taken, Empty, NoReply, SeatRecord
<1> QED BY <1>6, <1>7

\* A stream with one field changed is a stream, and a seat with one field changed a seat.
LEMMA StreamFields ==
  ASSUME NEW S \in [Stream -> StreamRecord], NEW x \in Stream
  PROVE  /\ \A n \in Nat : [S EXCEPT ![x].sent = n] \in [Stream -> StreamRecord]
         /\ \A st \in {"new", "open", "ended", "gone", "lost"} :
              [S EXCEPT ![x].state = st] \in [Stream -> StreamRecord]
         /\ \A g \in SUBSET Line : [S EXCEPT ![x].got = g] \in [Stream -> StreamRecord]
         /\ \A b \in BOOLEAN : [S EXCEPT ![x].fin = b] \in [Stream -> StreamRecord]
         /\ [S EXCEPT ![x].refused = TRUE] \in [Stream -> StreamRecord]
         /\ [S EXCEPT ![x].owed = TRUE] \in [Stream -> StreamRecord]
<1>1. ASSUME NEW n \in Nat PROVE [S EXCEPT ![x].sent = n] \in [Stream -> StreamRecord]
  BY DEF StreamRecord
<1>2. ASSUME NEW st \in {"new", "open", "ended", "gone", "lost"}
      PROVE [S EXCEPT ![x].state = st] \in [Stream -> StreamRecord]
  BY DEF StreamRecord
<1>3. ASSUME NEW g \in SUBSET Line PROVE [S EXCEPT ![x].got = g] \in [Stream -> StreamRecord]
  BY DEF StreamRecord
<1>4. ASSUME NEW b \in BOOLEAN PROVE [S EXCEPT ![x].fin = b] \in [Stream -> StreamRecord]
  BY DEF StreamRecord
<1>5. [S EXCEPT ![x].refused = TRUE] \in [Stream -> StreamRecord]
  BY DEF StreamRecord
<1>6. [S EXCEPT ![x].owed = TRUE] \in [Stream -> StreamRecord]
  BY DEF StreamRecord
<1> QED BY <1>1, <1>2, <1>3, <1>4, <1>5, <1>6

\* A seat with a field changed is a seat.
LEMMA SeatFields ==
  ASSUME NEW r \in SeatRecord
  PROVE  /\ \A l \in Line : [r EXCEPT !.line = l] \in SeatRecord
         /\ \A a \in [of : Line, left : Nat] : [r EXCEPT !.reply = a] \in SeatRecord
         /\ \A n \in Nat : [r EXCEPT !.reply.left = n] \in SeatRecord
<1>1. ASSUME NEW l \in Line PROVE [r EXCEPT !.line = l] \in SeatRecord
  BY DEF SeatRecord
<1>2. ASSUME NEW a \in [of : Line, left : Nat] PROVE [r EXCEPT !.reply = a] \in SeatRecord
  BY DEF SeatRecord
<1>3. ASSUME NEW n \in Nat PROVE [r EXCEPT !.reply.left = n] \in SeatRecord
  BY DEF SeatRecord
<1> QED BY <1>1, <1>2, <1>3

\* The stream after a callback.
LEMMA SentIsTyped ==
  ASSUME WtTypeOK, NEW x \in Stream, NEW n \in 0..(streams[x].len - streams[x].sent),
         NEW st \in {"open", "ended"}
  PROVE  /\ Sent(x, n, st) \in [Stream -> StreamRecord]
         /\ \A y \in Stream : Sent(x, n, st)[y].sent <= Sent(x, n, st)[y].len
<1>1. streams[x].sent + n \in Nat BY DEF WtTypeOK, StreamRecord
<1>2. [streams EXCEPT ![x].sent = @ + n] \in [Stream -> StreamRecord]
  BY <1>1, StreamFields DEF WtTypeOK
<1>3. Sent(x, n, st) \in [Stream -> StreamRecord]
  BY <1>2, StreamFields DEF Sent
<1>4. \A y \in Stream : Sent(x, n, st)[y].sent <= Sent(x, n, st)[y].len
  BY <1>1 DEF WtTypeOK, Sent, StreamRecord
<1> QED BY <1>3, <1>4

-------------------------------------------------------------------------------
(* Types.                                                                  *)

\* The types of the session, of which no run's property speaks alone.
LEMMA WtTypes == Spec => []WtTypeOK
<1>0. << >> \in Line /\ Empty \in SeatRecord
  <2>1. << >> \in Line BY DEF Line
  <2> QED BY <2>1 DEF Empty, NoReply, SeatRecord
<1>1. Init => WtTypeOK
  <2> SUFFICES ASSUME Init PROVE WtTypeOK OBVIOUS
  <2>1. seats \in [Seat -> SeatRecord] BY <1>0 DEF Init
  <2>2. PICK len \in Commands :
       streams = [x \in Stream |-> [state |-> "new", len |-> len[x], sent |-> 0,
                                    got |-> {}, fin |-> FALSE, refused |-> FALSE,
                                    owed |-> FALSE]]
    BY DEF Init
  <2>3. \A x \in Stream : len[x] \in Nat BY WtConstants
  <2>4. streams \in [Stream -> StreamRecord] BY <2>2, <2>3 DEF StreamRecord
  <2>5. \A x \in Stream : streams[x].sent <= streams[x].len BY <2>2, <2>3
  <2> QED BY <2>1, <2>4, <2>5 DEF Init, WtTypeOK
<1>2. WtTypeOK /\ [Next]_vars => WtTypeOK'
  <2> SUFFICES ASSUME WtTypeOK, [Next]_vars PROVE WtTypeOK' OBVIOUS
  <2>1. ASSUME NEW x \in Stream, PostData(x) PROVE WtTypeOK'
    <3>1. PICK n \in 1..(streams[x].len - streams[x].sent) :
            /\ streams' = Sent(x, n, "open")
            /\ \E i \in SeatFor(x[2]) :
                 seats' = [seats EXCEPT ![i] =
                             [Taken(i, x[2]) EXCEPT !.line = Kept(@, Bytes(x, n))]]
      BY <2>1 DEF PostData
    <3>2. n \in Nat /\ n \in 0..(streams[x].len - streams[x].sent) BY DEF WtTypeOK, StreamRecord
    <3>3. PICK i \in SeatFor(x[2]) :
            seats' = [seats EXCEPT ![i] = [Taken(i, x[2]) EXCEPT !.line = Kept(@, Bytes(x, n))]]
      BY <3>1
    <3>4. Kept(Taken(i, x[2]).line, Bytes(x, n)) \in Line
      BY <3>2, TakenIsASeat, BytesAreALine, KeptIsALine DEF SeatRecord
    <3>5. seats' \in [Seat -> SeatRecord]
      BY <3>3, <3>4, TakenIsASeat, SeatFields DEF WtTypeOK
    <3>6. /\ streams' \in [Stream -> StreamRecord]
          /\ \A y \in Stream : streams'[y].sent <= streams'[y].len
      BY <3>1, <3>2, SentIsTyped
    <3> QED BY <2>1, <3>5, <3>6 DEF WtTypeOK, PostData
  <2>2. ASSUME NEW x \in Stream, PostFin(x) PROVE WtTypeOK'
    <3> DEFINE n == streams[x].len - streams[x].sent
    <3>1. n \in Nat /\ n \in 0..(streams[x].len - streams[x].sent) BY DEF WtTypeOK, StreamRecord
    <3> DEFINE line(i) == Kept(Taken(i, x[2]).line, Bytes(x, n))
    <3>3. PICK i \in SeatFor(x[2]) :
            /\ seats' = [seats EXCEPT ![i] = [Taken(i, x[2]) EXCEPT !.line = line(i),
                                                  !.reply = [of |-> line(i), left |-> REPLY_PARTS]]]
            /\ asked' = asked \cup {<< x, line(i) >>}
      BY <2>2 DEF PostFin
    <3>2. streams' = [Sent(x, n, "ended") EXCEPT ![x].owed = TRUE] BY <2>2 DEF PostFin
    <3> HIDE DEF n
    <3>4. line(i) \in Line
      BY <3>1, TakenIsASeat, BytesAreALine, KeptIsALine DEF SeatRecord
    <3> HIDE DEF line
    <3>5. seats' \in [Seat -> SeatRecord]
      <4>1. [of |-> line(i), left |-> REPLY_PARTS] \in [of : Line, left : Nat]
        BY <3>4, WtConstants
      <4> QED BY <3>3, <3>4, <4>1, TakenIsASeat, SeatFields DEF WtTypeOK
    <3>6. streams' \in [Stream -> StreamRecord]
      BY <3>1, <3>2, SentIsTyped, StreamFields
    <3>7. \A y \in Stream : streams'[y].sent <= streams'[y].len
      <4>1. \A y \in Stream : /\ streams'[y].sent = Sent(x, n, "ended")[y].sent
                             /\ streams'[y].len = Sent(x, n, "ended")[y].len
        BY <3>1, <3>2, SentIsTyped DEF StreamRecord
      <4> QED BY <4>1, <3>1, SentIsTyped
    <3>8. active' \subseteq Stream /\ troubles' = troubles BY <2>2 DEF PostFin, Marked, WtTypeOK
    <3> QED BY <3>3, <3>4, <3>5, <3>6, <3>7, <3>8 DEF WtTypeOK
  <2>3. ASSUME NEW x \in Stream, PostFinSilent(x) PROVE WtTypeOK'
    <3> DEFINE n == streams[x].len - streams[x].sent
    <3>1. n \in Nat /\ n \in 0..(streams[x].len - streams[x].sent) BY DEF WtTypeOK, StreamRecord
    <3> DEFINE line(i) == Kept(Taken(i, x[2]).line, Bytes(x, n))
    <3>3. PICK i \in SeatFor(x[2]) :
            /\ seats' = [seats EXCEPT ![i] = Empty]
            /\ UNCHANGED asked \/ asked' = asked \cup {<< x, line(i) >>}
      BY <2>3 DEF PostFinSilent
    <3>2. streams' = Sent(x, n, "ended") BY <2>3 DEF PostFinSilent
    <3> HIDE DEF n
    <3>4. line(i) \in Line
      BY <3>1, TakenIsASeat, BytesAreALine, KeptIsALine DEF SeatRecord
    <3> HIDE DEF line
    <3>5. seats' \in [Seat -> SeatRecord] BY <3>3, <1>0 DEF WtTypeOK
    <3>6. streams' \in [Stream -> StreamRecord] BY <3>1, <3>2, SentIsTyped
    <3>7. \A y \in Stream : streams'[y].sent <= streams'[y].len BY <3>1, <3>2, SentIsTyped
    <3>8. active' = active /\ troubles' \in Nat BY <2>3 DEF PostFinSilent, Trouble, WtTypeOK
    <3> QED BY <3>3, <3>4, <3>5, <3>6, <3>7, <3>8 DEF WtTypeOK
  <2>4. ASSUME NEW x \in Stream, NoSeat(x) PROVE WtTypeOK'
    <3>1. PICK n \in 0..(streams[x].len - streams[x].sent), state \in {"open", "ended"} :
            streams' = [Sent(x, n, state) EXCEPT ![x].refused = TRUE]
      <4>1. streams[x].len - streams[x].sent \in Nat BY DEF WtTypeOK, StreamRecord
      <4> QED BY <2>4, <4>1 DEF NoSeat
    <3>2. streams' \in [Stream -> StreamRecord] BY <3>1, SentIsTyped, StreamFields
    <3>3. \A y \in Stream : streams'[y].sent <= streams'[y].len
      <4>1. \A y \in Stream : /\ streams'[y].sent = Sent(x, n, state)[y].sent
                             /\ streams'[y].len = Sent(x, n, state)[y].len
        BY <3>1, SentIsTyped DEF StreamRecord
      <4> QED BY <4>1, SentIsTyped
    <3> QED BY <2>4, <3>2, <3>3 DEF WtTypeOK, NoSeat
  <2>5. ASSUME NEW x \in Stream, ProvideData(x) PROVE WtTypeOK'
    <3>1. PICK i \in Holding(x[2]) : \E n \in 1..seats[i].reply.left :
            /\ seats' = [seats EXCEPT ![i] = AfterSending(i, n)]
            /\ streams' = [streams EXCEPT ![x].got = @ \cup {seats[i].reply.of},
                                          ![x].fin = (n = seats[i].reply.left)]
            /\ active' = IF n < seats[i].reply.left THEN active ELSE active \ {x}
      BY <2>5 DEF ProvideData
    <3>2. PICK n \in 1..seats[i].reply.left :
            /\ seats' = [seats EXCEPT ![i] = AfterSending(i, n)]
            /\ streams' = [streams EXCEPT ![x].got = @ \cup {seats[i].reply.of},
                                          ![x].fin = (n = seats[i].reply.left)]
            /\ active' = IF n < seats[i].reply.left THEN active ELSE active \ {x}
      BY <3>1
    <3>3. i \in Seat /\ seats[i] \in SeatRecord BY DEF Holding, WtTypeOK
    <3>4. AfterSending(i, n) \in SeatRecord BY <1>0, <3>3, SeatFields DEF AfterSending, SeatRecord
    <3>5. seats' \in [Seat -> SeatRecord] BY <3>2, <3>3, <3>4 DEF WtTypeOK
    <3>6. streams' \in [Stream -> StreamRecord]
      <4>1. (n = seats[i].reply.left) \in BOOLEAN OBVIOUS
      <4>2. seats[i].reply.of \in Line BY <3>3 DEF SeatRecord
      <4>3. streams[x].got \cup {seats[i].reply.of} \in SUBSET Line
        BY <4>2 DEF WtTypeOK, StreamRecord
      <4>4. [streams EXCEPT ![x].got = @ \cup {seats[i].reply.of}] \in [Stream -> StreamRecord]
        BY <4>3, StreamFields DEF WtTypeOK
      <4> QED BY <3>2, <4>1, <4>4, StreamFields
    <3>7. \A y \in Stream : streams'[y].sent <= streams'[y].len
      BY <3>2 DEF WtTypeOK, StreamRecord
    <3>8. active' \subseteq Stream BY <3>2 DEF WtTypeOK
    <3> QED BY <2>5, <3>5, <3>6, <3>7, <3>8 DEF WtTypeOK, ProvideData
  <2>6. ASSUME NEW x \in Stream, ProvideNothing(x) PROVE WtTypeOK'
    BY <2>6 DEF ProvideNothing, WtTypeOK
  <2>7. ASSUME NEW x \in Stream, Reset(x) PROVE WtTypeOK'
    <3>1. seats' \in [Seat -> SeatRecord] BY <2>7, <1>0 DEF Reset, WtTypeOK
    <3>2. streams' \in [Stream -> StreamRecord] BY <2>7, StreamFields DEF Reset, WtTypeOK
    <3>3. \A y \in Stream : streams'[y].sent <= streams'[y].len BY <2>7 DEF Reset, WtTypeOK, StreamRecord
    <3> QED BY <2>7, <3>1, <3>2, <3>3 DEF Reset, Trouble, WtTypeOK
  <2>8. ASSUME NEW c \in Client, Drop(c) PROVE WtTypeOK'
    <3>2. streams' \in [Stream -> StreamRecord]
      <4>1. ASSUME NEW r \in StreamRecord PROVE [r EXCEPT !.state = "lost"] \in StreamRecord
        BY DEF StreamRecord
      <4> QED BY <2>8, <4>1 DEF Drop, WtTypeOK
    <3>3. \A y \in Stream : streams'[y].sent <= streams'[y].len
      BY <2>8 DEF Drop, WtTypeOK, StreamRecord
    <3> QED BY <2>8, <3>2, <3>3 DEF Drop, Trouble, WtTypeOK
  <2>9. CASE UNCHANGED vars BY <2>9 DEF vars, WtTypeOK
  <2> QED BY <2>1, <2>2, <2>3, <2>4, <2>5, <2>6, <2>7, <2>8, <2>9 DEF Next
<1> QED BY <1>1, <1>2, PTL DEF Spec

-------------------------------------------------------------------------------
(* What a callback does, field by field.                                   *)

\* Stream x has n more bytes in and is in state st; no other stream changes.
StreamStep(x, n, st) ==
  /\ \A y \in Stream \ {x} : streams'[y] = streams[y]
  /\ streams'[x].state = st /\ streams'[x].sent = streams[x].sent + n
  /\ streams'[x].len = streams[x].len
  /\ streams'[x].got = streams[x].got /\ streams'[x].fin = streams[x].fin

\* No seat but i changes.
SeatStep(i) == i \in Seat /\ \A j \in Seat \ {i} : seats'[j] = seats[j]

\* Bytes for a stream that has or gets a seat.
LEMMA PostDataStep ==
  ASSUME WtTypeOK, NEW x \in Stream, PostData(x)
  PROVE  /\ streams[x].state \in {"new", "open"}
         /\ active' = active /\ asked' = asked
         /\ \E n \in 1..(streams[x].len - streams[x].sent), i \in SeatFor(x[2]) :
              /\ StreamStep(x, n, "open") /\ streams'[x].refused = streams[x].refused
              /\ SeatStep(i) /\ seats'[i].in_use /\ seats'[i].stream_id = x[2]
              /\ seats'[i].line = Kept(Taken(i, x[2]).line, Bytes(x, n))
              /\ seats'[i].reply = Taken(i, x[2]).reply
<1>1. PICK n \in 1..(streams[x].len - streams[x].sent) :
        /\ streams' = Sent(x, n, "open")
        /\ \E i \in SeatFor(x[2]) :
             seats' = [seats EXCEPT ![i] =
                         [Taken(i, x[2]) EXCEPT !.line = Kept(@, Bytes(x, n))]]
  BY DEF PostData
<1>2. PICK i \in SeatFor(x[2]) :
        seats' = [seats EXCEPT ![i] = [Taken(i, x[2]) EXCEPT !.line = Kept(@, Bytes(x, n))]]
  BY <1>1
<1>3. StreamStep(x, n, "open") /\ streams'[x].refused = streams[x].refused
  BY <1>1 DEF StreamStep, Sent, WtTypeOK, StreamRecord
<1>4. i \in Seat BY SeatForIsOne
<1>5. SeatStep(i) BY <1>2, <1>4 DEF SeatStep, WtTypeOK
<1>6. /\ seats'[i].in_use /\ seats'[i].stream_id = x[2]
      /\ seats'[i].line = Kept(Taken(i, x[2]).line, Bytes(x, n))
      /\ seats'[i].reply = Taken(i, x[2]).reply
  BY <1>2, <1>4, TakenIsASeat DEF WtTypeOK, SeatRecord
<1> QED BY <1>3, <1>5, <1>6 DEF PostData

\* The last bytes of a stream: the ward is asked, and the answer waits.
LEMMA PostFinStep ==
  ASSUME WtTypeOK, NEW x \in Stream, PostFin(x)
  PROVE  /\ streams[x].state \in {"new", "open"}
         /\ active' = active \cup {x}
         /\ StreamStep(x, streams[x].len - streams[x].sent, "ended")
         /\ streams'[x].refused = streams[x].refused
         /\ \E i \in SeatFor(x[2]), line \in Line :
              /\ line = Kept(Taken(i, x[2]).line, Bytes(x, streams[x].len - streams[x].sent))
              /\ SeatStep(i) /\ seats'[i].in_use /\ seats'[i].stream_id = x[2]
              /\ seats'[i].line = line /\ seats'[i].reply = [of |-> line, left |-> REPLY_PARTS]
              /\ asked' = asked \cup {<< x, line >>}
<1> DEFINE n == streams[x].len - streams[x].sent
           line(i) == Kept(Taken(i, x[2]).line, Bytes(x, n))
<1>1. PICK i \in SeatFor(x[2]) :
        /\ seats' = [seats EXCEPT ![i] = [Taken(i, x[2]) EXCEPT !.line = line(i),
                                              !.reply = [of |-> line(i), left |-> REPLY_PARTS]]]
        /\ asked' = asked \cup {<< x, line(i) >>}
  BY DEF PostFin
<1>2. streams' = [Sent(x, n, "ended") EXCEPT ![x].owed = TRUE] BY DEF PostFin
<1>3. n \in Nat BY DEF WtTypeOK, StreamRecord
<1>4. line(i) \in Line
  BY <1>3, TakenIsASeat, BytesAreALine, KeptIsALine DEF SeatRecord
<1>5. StreamStep(x, n, "ended") /\ streams'[x].refused = streams[x].refused
  BY <1>2 DEF StreamStep, Sent, WtTypeOK, StreamRecord
<1>6. i \in Seat BY SeatForIsOne
<1>7. SeatStep(i) BY <1>1, <1>6 DEF SeatStep, WtTypeOK
<1>8. /\ seats'[i].in_use /\ seats'[i].stream_id = x[2]
      /\ seats'[i].line = line(i) /\ seats'[i].reply = [of |-> line(i), left |-> REPLY_PARTS]
  <2> HIDE DEF line
  <2> QED BY <1>1, <1>6, TakenIsASeat DEF WtTypeOK, SeatRecord
<1> HIDE DEF line
<1> QED BY <1>1, <1>4, <1>5, <1>7, <1>8 DEF PostFin, Marked, line

\* The same, where the ward has nothing to say: the seat goes at once.
LEMMA PostFinSilentStep ==
  ASSUME WtTypeOK, NEW x \in Stream, PostFinSilent(x)
  PROVE  /\ streams[x].state \in {"new", "open"}
         /\ active' = active
         /\ StreamStep(x, streams[x].len - streams[x].sent, "ended")
         /\ streams'[x].refused = streams[x].refused
         /\ \E i \in SeatFor(x[2]), line \in Line :
              /\ line = Kept(Taken(i, x[2]).line, Bytes(x, streams[x].len - streams[x].sent))
              /\ SeatStep(i) /\ seats'[i] = Empty
              /\ asked' = asked \/ asked' = asked \cup {<< x, line >>}
<1> DEFINE n == streams[x].len - streams[x].sent
           line(i) == Kept(Taken(i, x[2]).line, Bytes(x, n))
<1>1. PICK i \in SeatFor(x[2]) :
        /\ seats' = [seats EXCEPT ![i] = Empty]
        /\ UNCHANGED asked \/ asked' = asked \cup {<< x, line(i) >>}
  BY DEF PostFinSilent
<1>2. streams' = Sent(x, n, "ended") BY DEF PostFinSilent
<1>3. n \in Nat BY DEF WtTypeOK, StreamRecord
<1>4. line(i) \in Line
  BY <1>3, TakenIsASeat, BytesAreALine, KeptIsALine DEF SeatRecord
<1>5. StreamStep(x, n, "ended") /\ streams'[x].refused = streams[x].refused
  BY <1>2 DEF StreamStep, Sent, WtTypeOK, StreamRecord
<1>6. i \in Seat BY SeatForIsOne
<1>7. SeatStep(i) /\ seats'[i] = Empty BY <1>1, <1>6 DEF SeatStep, WtTypeOK
<1> HIDE DEF line
<1> QED BY <1>1, <1>4, <1>5, <1>7 DEF PostFinSilent, line

\* Bytes for a stream that gets no seat.
LEMMA NoSeatStep ==
  ASSUME WtTypeOK, NEW x \in Stream, NoSeat(x)
  PROVE  /\ streams[x].state \in {"new", "open"} /\ SeatFor(x[2]) = {}
         /\ seats' = seats /\ active' = active /\ asked' = asked
         /\ streams'[x].refused
         /\ \E n \in 0..(streams[x].len - streams[x].sent), st \in {"open", "ended"} :
              StreamStep(x, n, st)
<1>1. PICK n \in 0..(streams[x].len - streams[x].sent), st \in {"open", "ended"} :
        streams' = [Sent(x, n, st) EXCEPT ![x].refused = TRUE]
  <2>1. streams[x].len - streams[x].sent \in Nat BY DEF WtTypeOK, StreamRecord
  <2> QED BY <2>1 DEF NoSeat
<1>2. StreamStep(x, n, st) /\ streams'[x].refused
  BY <1>1 DEF StreamStep, Sent, WtTypeOK, StreamRecord
<1> QED BY <1>2 DEF NoSeat

\* A part of the answer is sent, and with its last the seat goes.
LEMMA ProvideDataStep ==
  ASSUME WtTypeOK, NEW x \in Stream, ProvideData(x)
  PROVE  /\ x \in active /\ asked' = asked
         /\ \A y \in Stream \ {x} : streams'[y] = streams[y]
         /\ streams'[x].state = streams[x].state /\ streams'[x].sent = streams[x].sent
         /\ streams'[x].len = streams[x].len /\ streams'[x].refused = streams[x].refused
         /\ \E i \in Holding(x[2]) :
              /\ SeatStep(i) /\ seats[i].reply # NoReply
              /\ streams'[x].got = streams[x].got \cup {seats[i].reply.of}
              /\ \/ /\ ~ streams'[x].fin /\ active' = active
                    /\ seats'[i].in_use /\ seats'[i].stream_id = x[2]
                    /\ seats'[i].line = seats[i].line /\ seats'[i].reply.of = seats[i].reply.of
                 \/ streams'[x].fin /\ active' = active \ {x} /\ seats'[i] = Empty
<1>1. PICK i \in Holding(x[2]) :
        /\ seats[i].reply # NoReply
        /\ \E n \in 1..seats[i].reply.left :
            /\ seats' = [seats EXCEPT ![i] = AfterSending(i, n)]
            /\ streams' = [streams EXCEPT ![x].got = @ \cup {seats[i].reply.of},
                                          ![x].fin = (n = seats[i].reply.left)]
            /\ active' = IF n < seats[i].reply.left THEN active ELSE active \ {x}
  BY DEF ProvideData
<1>2. PICK n \in 1..seats[i].reply.left :
        /\ seats' = [seats EXCEPT ![i] = AfterSending(i, n)]
        /\ streams' = [streams EXCEPT ![x].got = @ \cup {seats[i].reply.of},
                                      ![x].fin = (n = seats[i].reply.left)]
        /\ active' = IF n < seats[i].reply.left THEN active ELSE active \ {x}
  BY <1>1
<1>3. i \in Seat /\ seats[i] \in SeatRecord /\ seats[i].in_use /\ seats[i].stream_id = x[2]
  BY DEF Holding, WtTypeOK
<1>4. SeatStep(i) /\ seats'[i] = AfterSending(i, n) BY <1>2, <1>3 DEF SeatStep, WtTypeOK
<1>5. /\ \A y \in Stream \ {x} : streams'[y] = streams[y]
      /\ streams'[x].state = streams[x].state /\ streams'[x].sent = streams[x].sent
      /\ streams'[x].len = streams[x].len /\ streams'[x].refused = streams[x].refused
      /\ streams'[x].got = streams[x].got \cup {seats[i].reply.of}
      /\ streams'[x].fin = (n = seats[i].reply.left)
  BY <1>2 DEF WtTypeOK, StreamRecord
<1>6. CASE n < seats[i].reply.left
  <2>0. n # seats[i].reply.left BY <1>6, <1>3 DEF SeatRecord
  <2>1. ~ streams'[x].fin /\ active' = active
    <3>1. ~ streams'[x].fin BY <2>0, <1>5
    <3> QED BY <3>1, <1>6, <1>2
  <2>2. seats'[i] = [seats[i] EXCEPT !.reply.left = @ - n] BY <1>4, <1>6 DEF AfterSending
  <2>3. /\ seats'[i].in_use /\ seats'[i].stream_id = x[2]
        /\ seats'[i].line = seats[i].line /\ seats'[i].reply.of = seats[i].reply.of
    BY <2>2, <1>3 DEF SeatRecord
  <2> QED BY <2>1, <2>3, <1>1, <1>4, <1>5 DEF ProvideData
<1>7. CASE ~(n < seats[i].reply.left)
  <2>1. n = seats[i].reply.left BY <1>7, <1>3 DEF SeatRecord
  <2>2. streams'[x].fin BY <2>1, <1>5
  <2>4. active' = active \ {x} BY <1>7, <1>2
  <2>3. seats'[i] = Empty BY <1>4, <1>7 DEF AfterSending
  <2> QED BY <2>2, <2>3, <2>4, <1>1, <1>4, <1>5 DEF ProvideData
<1> QED BY <1>6, <1>7

-------------------------------------------------------------------------------
(* Seats.                                                                  *)

\* The three together are inductive.
SeatInv == SeatsAreDistinct /\ FinAfterFin /\ SeatsAreGivenBack

\* The seats are kept by every step.
LEMMA SeatInvHolds == Spec => []SeatInv
<1>1. Init => SeatInv
  <2> SUFFICES ASSUME Init PROVE SeatInv OBVIOUS
  <2>1. \A i \in Seat : ~ seats[i].in_use BY DEF Init, Empty
  <2>2. \A x \in Stream : ~ streams[x].fin BY DEF Init
  <2> QED BY <2>1, <2>2 DEF Init, SeatInv, SeatsAreDistinct, FinAfterFin, SeatsAreGivenBack
<1>2. WtTypeOK /\ SeatInv /\ [Next]_vars => SeatInv'
  <2> SUFFICES ASSUME WtTypeOK, SeatInv, [Next]_vars PROVE SeatInv' OBVIOUS
  <2>0. ~ Empty.in_use BY DEF Empty
  <2>1. ASSUME NEW x \in Stream, PostData(x) PROVE SeatInv'
    <3>1. streams[x].state \in {"new", "open"} /\ active' = active BY <2>1, PostDataStep
    <3>2. PICK n \in 1..(streams[x].len - streams[x].sent), i \in SeatFor(x[2]) :
            StreamStep(x, n, "open") /\ SeatStep(i) /\ seats'[i].in_use /\ seats'[i].stream_id = x[2]
      BY <2>1, PostDataStep
    <3>3. \A j \in Seat \ {i} : ~ (seats'[j].in_use /\ seats'[j].stream_id = x[2])
      BY <3>2, SeatForIsOne DEF SeatInv, SeatsAreDistinct, SeatStep, Holding
    <3>4. SeatsAreDistinct' BY <3>2, <3>3 DEF SeatInv, SeatsAreDistinct, SeatStep
    <3>5. FinAfterFin' BY <3>1, <3>2 DEF SeatInv, FinAfterFin, StreamStep, WtTypeOK
    <3>6. SeatsAreGivenBack'
      BY <3>1, <3>2 DEF SeatInv, SeatsAreGivenBack, FinAfterFin, StreamStep, SeatStep
    <3> QED BY <3>4, <3>5, <3>6 DEF SeatInv
  <2>2. ASSUME NEW x \in Stream, PostFin(x) PROVE SeatInv'
    <3>1. /\ streams[x].state \in {"new", "open"} /\ active' = active \cup {x}
          /\ StreamStep(x, streams[x].len - streams[x].sent, "ended")
      BY <2>2, PostFinStep
    <3>2. PICK i \in SeatFor(x[2]) : SeatStep(i) /\ seats'[i].in_use /\ seats'[i].stream_id = x[2]
      BY <2>2, PostFinStep
    <3>3. \A j \in Seat \ {i} : ~ (seats'[j].in_use /\ seats'[j].stream_id = x[2])
      BY <3>2, SeatForIsOne DEF SeatInv, SeatsAreDistinct, SeatStep, Holding
    <3>4. SeatsAreDistinct' BY <3>2, <3>3 DEF SeatInv, SeatsAreDistinct, SeatStep
    <3>5. FinAfterFin' BY <3>1, <3>2 DEF SeatInv, FinAfterFin, StreamStep, WtTypeOK
    <3>6. SeatsAreGivenBack'
      BY <3>1, <3>2 DEF SeatInv, SeatsAreGivenBack, FinAfterFin, StreamStep, SeatStep
    <3> QED BY <3>4, <3>5, <3>6 DEF SeatInv
  <2>3. ASSUME NEW x \in Stream, PostFinSilent(x) PROVE SeatInv'
    <3>1. /\ streams[x].state \in {"new", "open"} /\ active' = active
          /\ StreamStep(x, streams[x].len - streams[x].sent, "ended")
      BY <2>3, PostFinSilentStep
    <3>2. PICK i \in SeatFor(x[2]) : SeatStep(i) /\ seats'[i] = Empty
      BY <2>3, PostFinSilentStep
    <3>4. SeatsAreDistinct' BY <3>2, <2>0 DEF SeatInv, SeatsAreDistinct, SeatStep
    <3>5. FinAfterFin' BY <3>1, <3>2 DEF SeatInv, FinAfterFin, StreamStep, WtTypeOK
    <3>6. SeatsAreGivenBack'
      BY <3>1, <3>2, <2>0 DEF SeatInv, SeatsAreGivenBack, FinAfterFin, StreamStep, SeatStep
    <3> QED BY <3>4, <3>5, <3>6 DEF SeatInv
  <2>4. ASSUME NEW x \in Stream, NoSeat(x) PROVE SeatInv'
    <3>1. /\ streams[x].state \in {"new", "open"} /\ active' = active /\ seats' = seats
          /\ \E n \in 0..(streams[x].len - streams[x].sent), st \in {"open", "ended"} :
               StreamStep(x, n, st)
      BY <2>4, NoSeatStep
    <3>4. SeatsAreDistinct' BY <3>1 DEF SeatInv, SeatsAreDistinct
    <3>5. FinAfterFin' BY <3>1 DEF SeatInv, FinAfterFin, StreamStep, WtTypeOK
    <3>6. SeatsAreGivenBack' BY <3>1 DEF SeatInv, SeatsAreGivenBack, FinAfterFin, StreamStep
    <3> QED BY <3>4, <3>5, <3>6 DEF SeatInv
  <2>5. ASSUME NEW x \in Stream, ProvideData(x) PROVE SeatInv'
    <3>1. /\ x \in active
          /\ \A y \in Stream \ {x} : streams'[y] = streams[y]
          /\ streams'[x].state = streams[x].state
      BY <2>5, ProvideDataStep
    <3>2. PICK i \in Holding(x[2]) :
              /\ SeatStep(i)
              /\ \/ /\ ~ streams'[x].fin /\ active' = active
                    /\ seats'[i].in_use /\ seats'[i].stream_id = x[2]
                 \/ streams'[x].fin /\ active' = active \ {x} /\ seats'[i] = Empty
      BY <2>5, ProvideDataStep
    <3>3. i \in Seat /\ seats[i].in_use /\ seats[i].stream_id = x[2] BY DEF Holding
    <3>4. SeatsAreDistinct' BY <3>2, <3>3, <2>0 DEF SeatInv, SeatsAreDistinct, SeatStep
    <3>5. FinAfterFin' BY <3>1, <3>2 DEF SeatInv, FinAfterFin, WtTypeOK
    <3>6. SeatsAreGivenBack'
      <4>1. CASE ~ streams'[x].fin /\ seats'[i].in_use /\ seats'[i].stream_id = x[2]
        BY <4>1, <3>1, <3>2, <3>3 DEF SeatInv, SeatsAreGivenBack, FinAfterFin, SeatStep
      <4>2. CASE seats'[i] = Empty
        <5>1. \A j \in Seat \ {i} : seats[j].in_use => seats[j].stream_id # x[2]
          BY <3>3 DEF SeatInv, SeatsAreDistinct
        <5> QED BY <4>2, <5>1, <3>1, <3>2, <2>0 DEF SeatInv, SeatsAreGivenBack, SeatStep
      <4> QED BY <4>1, <4>2, <3>2
    <3> QED BY <3>4, <3>5, <3>6 DEF SeatInv
  <2>6. ASSUME NEW x \in Stream, ProvideNothing(x) PROVE SeatInv'
    BY <2>6 DEF ProvideNothing, SeatInv, SeatsAreDistinct, FinAfterFin, SeatsAreGivenBack
  <2>7. ASSUME NEW x \in Stream, Reset(x) PROVE SeatInv'
    <3>1. /\ \A y \in Stream \ {x} : streams'[y] = streams[y]
          /\ streams'[x].state = "gone" /\ streams'[x].fin = streams[x].fin
          /\ ~ streams[x].fin /\ active' = active \ {x}
      BY <2>7 DEF Reset, WtTypeOK, StreamRecord
    <3>2. \A i \in Seat : seats'[i] = IF i \in Holding(x[2]) THEN Empty ELSE seats[i]
      BY <2>7 DEF Reset
    <3>4. SeatsAreDistinct' BY <3>2, <2>0 DEF SeatInv, SeatsAreDistinct
    <3>5. FinAfterFin' BY <3>1 DEF SeatInv, FinAfterFin, WtTypeOK
    <3>6. SeatsAreGivenBack' BY <3>1, <3>2, <2>0 DEF SeatInv, SeatsAreGivenBack, Holding
    <3> QED BY <3>4, <3>5, <3>6 DEF SeatInv
  <2>8. ASSUME NEW c \in Client, Drop(c) PROVE SeatInv'
    <3>1. /\ seats' = seats /\ active' = {x \in active : x[1] # c}
          /\ \A x \in Stream : /\ streams'[x].fin = streams[x].fin
                               /\ streams'[x].state = IF x[1] = c THEN "lost" ELSE streams[x].state
      BY <2>8 DEF Drop, WtTypeOK, StreamRecord
    <3>4. SeatsAreDistinct' BY <3>1 DEF SeatInv, SeatsAreDistinct
    <3>5. FinAfterFin' BY <3>1 DEF SeatInv, FinAfterFin, WtTypeOK
    <3>6. SeatsAreGivenBack' BY <3>1 DEF SeatInv, SeatsAreGivenBack
    <3> QED BY <3>4, <3>5, <3>6 DEF SeatInv
  <2>9. CASE UNCHANGED vars
    BY <2>9 DEF vars, SeatInv, SeatsAreDistinct, FinAfterFin, SeatsAreGivenBack
  <2> QED BY <2>1, <2>2, <2>3, <2>4, <2>5, <2>6, <2>7, <2>8, <2>9 DEF Next
<1> QED BY <1>1, <1>2, WtTypes, PTL DEF Spec

\* Two seats never carry one stream id (wt.c 67-78).
THEOREM EveryIdHasOneSeat == Spec => []SeatsAreDistinct
<1>1. SeatInv => SeatsAreDistinct BY DEF SeatInv
<1> QED BY <1>1, SeatInvHolds, PTL

\* A seat is held for a stream that goes on, or whose connection died (wt.c 141-152).
THEOREM SeatsComeBack == Spec => []SeatsAreGivenBack
<1>1. SeatInv => SeatsAreGivenBack BY DEF SeatInv
<1> QED BY <1>1, SeatInvHolds, PTL

-------------------------------------------------------------------------------
(* Lines and replies of a stream whose id no other connection uses.        *)

\* What a seat holds of the first m bytes of stream x.
Typed(x, m) == [k \in 1..(IF WT_LINE_MAX <= m THEN WT_LINE_MAX ELSE m) |-> << x, k >>]

\* What was typed on a stream is its bytes in order, to the end of a buffer.
LEMMA TypedIsALine ==
  ASSUME NEW x \in Stream, NEW m \in Nat
  PROVE  /\ Typed(x, m) \in Line
         /\ Len(Typed(x, m)) = IF WT_LINE_MAX <= m THEN WT_LINE_MAX ELSE m
         /\ \A k \in 1..Len(Typed(x, m)) : Typed(x, m)[k] = << x, k >>
<1> DEFINE n == IF WT_LINE_MAX <= m THEN WT_LINE_MAX ELSE m
<1>1. n \in Nat BY WtConstants
<1>2. Typed(x, m) = [k \in 1..n |-> << x, k >>] BY DEF Typed
<1> HIDE DEF n
<1>3. \A k \in 1..n : << x, k >> \in Byte BY <1>1 DEF Byte
<1> QED BY <1>1, <1>2, <1>3 DEF Line, n

\* The whole of a command, as far as a seat holds it.
LEMMA HeardIsTyped ==
  ASSUME WtTypeOK, NEW x \in Stream
  PROVE  Heard(x) = Typed(x, streams[x].len)
<1> DEFINE L == streams[x].len
           m == Min({WT_LINE_MAX, L})
<1>1. L \in Nat BY DEF WtTypeOK, StreamRecord
<1>2. m = (IF WT_LINE_MAX <= L THEN WT_LINE_MAX ELSE L) /\ m \in Nat /\ m <= L
  BY <1>1, MinOfTwo, WtConstants
<1>3. \A k \in 1..L : Whole(x, L)[k] = << x, k >> BY DEF Whole
<1> HIDE DEF L, m
<1>4. \A k \in 1..m : Whole(x, L)[k] \in Byte BY <1>1, <1>2, <1>3 DEF Byte
<1>5. /\ SubSeq(Whole(x, L), 1, m) \in Line /\ Len(SubSeq(Whole(x, L), 1, m)) = m
      /\ \A k \in 1..m : SubSeq(Whole(x, L), 1, m)[k] = Whole(x, L)[k]
  BY <1>2, <1>4, SubSeqProperties DEF Line
<1>6. SubSeq(Whole(x, L), 1, m) = Typed(x, L)
  <2>1. /\ Typed(x, L) \in Line /\ Len(Typed(x, L)) = m
        /\ \A k \in 1..m : Typed(x, L)[k] = << x, k >>
    BY <1>1, <1>2, TypedIsALine
  <2>2. \A k \in 1..m : SubSeq(Whole(x, L), 1, m)[k] = Typed(x, L)[k]
    BY <1>1, <1>2, <1>3, <1>5, <2>1
  <2> QED BY <1>5, <2>1, <2>2, SeqEqual DEF Line
<1> QED BY <1>6 DEF Heard, L, m

\* A seat with all of a stream's bytes so far has them all after its next callback, up to
\* the end of the buffer and no further.
LEMMA KeptGoesOn ==
  ASSUME WtTypeOK, NEW x \in Stream, NEW n \in Nat
  PROVE  Kept(Typed(x, streams[x].sent), Bytes(x, n)) = Typed(x, streams[x].sent + n)
<1> DEFINE s == streams[x].sent
           l == Typed(x, s)
           b == Bytes(x, n)
<1>1. s \in Nat /\ s + n \in Nat BY DEF WtTypeOK, StreamRecord
<1>2. b \in Line /\ Len(b) = n BY BytesAreALine
<1>3. \A k \in 1..n : b[k] = << x, s + k >> BY DEF Bytes
<1>4. /\ l \in Line /\ Len(l) = (IF WT_LINE_MAX <= s THEN WT_LINE_MAX ELSE s)
      /\ \A k \in 1..Len(l) : l[k] = << x, k >>
  BY <1>1, TypedIsALine
<1>5. /\ Typed(x, s + n) \in Line
      /\ Len(Typed(x, s + n)) = (IF WT_LINE_MAX <= s + n THEN WT_LINE_MAX ELSE s + n)
      /\ \A k \in 1..Len(Typed(x, s + n)) : Typed(x, s + n)[k] = << x, k >>
  BY <1>1, TypedIsALine
<1> HIDE DEF l, b
<1>6. /\ Kept(l, b) \in Line
      /\ Len(Kept(l, b)) = IF WT_LINE_MAX <= Len(l) + n THEN WT_LINE_MAX ELSE Len(l) + n
      /\ \A k \in 1..Len(Kept(l, b)) :
           Kept(l, b)[k] = IF k <= Len(l) THEN l[k] ELSE b[k - Len(l)]
  BY <1>2, <1>4, KeptIsALine
<1> HIDE DEF s
<1>7. Len(Kept(l, b)) = Len(Typed(x, s + n)) /\ Len(Kept(l, b)) \in Nat
  BY <1>1, <1>4, <1>5, <1>6, WtConstants
<1>8. ASSUME NEW k \in 1..Len(Kept(l, b)) PROVE Kept(l, b)[k] = << x, k >>
  <2>1. CASE k <= Len(l)
    <3>1. k \in 1..Len(l) BY <2>1, <1>1, <1>4, WtConstants
    <3> QED BY <3>1, <2>1, <1>4, <1>6
  <2>2. CASE ~(k <= Len(l))
    <3>1. Len(l) = s /\ k - s \in 1..n BY <2>2, <1>1, <1>4, <1>6, <1>7, WtConstants
    <3>2. Kept(l, b)[k] = b[k - s] BY <3>1, <2>2, <1>6
    <3>3. b[k - s] = << x, s + (k - s) >> BY <3>1, <1>3
    <3>4. s + (k - s) = k BY <1>1, <1>7
    <3> QED BY <3>2, <3>3, <3>4
  <2> QED BY <2>1, <2>2
<1>9. Kept(l, b) = Typed(x, s + n)
  BY <1>5, <1>6, <1>7, <1>8, SeqEqual DEF Line
<1> QED BY <1>9 DEF s, l, b

\* A stream is new only before anything else, what its client types never changes, and a
\* refusal is not forgotten.
LEMMA StreamsGoOn ==
  ASSUME WtTypeOK, [Next]_vars, NEW y \in Stream
  PROVE  /\ streams'[y].state = "new" => streams[y].state = "new"
         /\ streams'[y].len = streams[y].len
         /\ streams[y].refused => streams'[y].refused
<1>1. ASSUME NEW x \in Stream, PostData(x) PROVE
         /\ streams'[y].state = "new" => streams[y].state = "new"
         /\ streams'[y].len = streams[y].len
         /\ streams[y].refused => streams'[y].refused
  BY <1>1, PostDataStep DEF StreamStep
<1>2. ASSUME NEW x \in Stream, PostFin(x) \/ PostFinSilent(x) PROVE
         /\ streams'[y].state = "new" => streams[y].state = "new"
         /\ streams'[y].len = streams[y].len
         /\ streams[y].refused => streams'[y].refused
  BY <1>2, PostFinStep, PostFinSilentStep DEF StreamStep
<1>3. ASSUME NEW x \in Stream, NoSeat(x) PROVE
         /\ streams'[y].state = "new" => streams[y].state = "new"
         /\ streams'[y].len = streams[y].len
         /\ streams[y].refused => streams'[y].refused
  BY <1>3, NoSeatStep DEF StreamStep
<1>4. ASSUME NEW x \in Stream, ProvideData(x) PROVE
         /\ streams'[y].state = "new" => streams[y].state = "new"
         /\ streams'[y].len = streams[y].len
         /\ streams[y].refused => streams'[y].refused
  BY <1>4, ProvideDataStep
<1>5. ASSUME NEW x \in Stream, ProvideNothing(x) \/ Reset(x) PROVE
         /\ streams'[y].state = "new" => streams[y].state = "new"
         /\ streams'[y].len = streams[y].len
         /\ streams[y].refused => streams'[y].refused
  BY <1>5 DEF ProvideNothing, Reset, WtTypeOK, StreamRecord
<1>6. ASSUME NEW c \in Client, Drop(c) PROVE
         /\ streams'[y].state = "new" => streams[y].state = "new"
         /\ streams'[y].len = streams[y].len
         /\ streams[y].refused => streams'[y].refused
  BY <1>6 DEF Drop, WtTypeOK, StreamRecord
<1>7. CASE UNCHANGED vars BY <1>7 DEF vars
<1> QED BY <1>1, <1>2, <1>3, <1>4, <1>5, <1>6, <1>7 DEF Next

\* A stream that was never refused a seat, and whose id nobody else uses, has a seat with
\* all it has typed while it is open; and a reply on a seat of its id is the answer to it.
OwnSeat ==
  /\ \A x \in Stream : streams[x].state = "new" => streams[x].sent = 0
  /\ \A x \in Stream : Alone(x) /\ ~ streams[x].refused =>
       /\ streams[x].state = "open" =>
            \E i \in Holding(x[2]) : seats[i].line = Typed(x, streams[x].sent)
       /\ \A i \in Holding(x[2]) : seats[i].reply # NoReply => seats[i].reply.of = Heard(x)

\* Every line the ward was asked on such a stream, a long one included.
AskedIsHeard ==
  \A a \in asked : Alone(a[1]) /\ ~ streams[a[1]].refused => a[2] = Heard(a[1])

\* The three properties of such a stream.
OwnInv == OwnSeat /\ AskedIsHeard /\ AnswersItsOwn

\* What is alone was alone, and is heard the same.
LEMMA AloneBefore ==
  ASSUME WtTypeOK, WtTypeOK', [Next]_vars, NEW x \in Stream
  PROVE  (Alone(x)' => Alone(x)) /\ Heard(x)' = Heard(x)
<1>1. Alone(x)' => Alone(x) BY StreamsGoOn DEF Alone
<1>2. Heard(x)' = Heard(x) BY StreamsGoOn DEF Heard
<1> QED BY <1>1, <1>2

\* The seat of a new stream that is alone is a fresh one.
LEMMA NewHasNoSeat ==
  ASSUME SeatInv, NEW x \in Stream, Alone(x), streams[x].state = "new"
  PROVE  Holding(x[2]) = {}
BY DEF SeatInv, SeatsAreGivenBack, Holding, Alone

\* The line a callback leaves: all that was typed so far.
LEMMA OwnLineGoesOn ==
  ASSUME WtTypeOK, SeatInv, OwnSeat, NEW x \in Stream, Alone(x), ~ streams[x].refused,
         streams[x].state \in {"new", "open"}, NEW n \in Nat, NEW i \in SeatFor(x[2])
  PROVE  /\ Kept(Taken(i, x[2]).line, Bytes(x, n)) = Typed(x, streams[x].sent + n)
         /\ Taken(i, x[2]).reply # NoReply => Taken(i, x[2]).reply.of = Heard(x)
<1>1. CASE streams[x].state = "new"
  <2>1. streams[x].sent = 0 BY <1>1 DEF OwnSeat
  <2>2. ~ seats[i].in_use BY <1>1, NewHasNoSeat, SeatForIsOne DEF Holding
  <2>3. Taken(i, x[2]).line = << >> /\ Taken(i, x[2]).reply = NoReply
    BY <2>2 DEF Taken, Empty, NoReply
  <2>4. Typed(x, 0) = << >>
    <3>1. Typed(x, 0) \in Line /\ Len(Typed(x, 0)) = 0 BY TypedIsALine, WtConstants
    <3> QED BY <3>1, EmptySeq DEF Line
  <2> QED BY <2>1, <2>3, <2>4, KeptGoesOn
<1>2. CASE streams[x].state = "open"
  <2>1. PICK j \in Holding(x[2]) : seats[j].line = Typed(x, streams[x].sent)
    BY <1>2 DEF OwnSeat
  <2>2. i = j /\ seats[i].in_use
    BY <2>1, SeatForIsOne DEF SeatInv, SeatsAreDistinct, Holding
  <2>3. Taken(i, x[2]) = seats[i] BY <2>2 DEF Taken
  <2>4. seats[i].reply # NoReply => seats[i].reply.of = Heard(x) BY <2>1, <2>2 DEF OwnSeat
  <2> QED BY <2>1, <2>2, <2>3, <2>4, KeptGoesOn
<1> QED BY <1>1, <1>2

\* A callback on the seat of one id leaves the seats of the others alone.
LEMMA OtherSeatsStay ==
  ASSUME NEW x \in Stream, NEW i \in Seat, SeatStep(i),
         seats[i].in_use => seats[i].stream_id = x[2],
         seats'[i].in_use => seats'[i].stream_id = x[2],
         NEW z \in Stream, z[2] # x[2]
  PROVE  /\ Holding(z[2])' = Holding(z[2])
         /\ \A j \in Holding(z[2]) : seats'[j] = seats[j]
<1>1. i \notin Holding(z[2]) /\ i \notin Holding(z[2])' BY DEF Holding
<1>2. \A j \in Seat \ {i} : seats'[j] = seats[j] BY DEF SeatStep
<1> QED BY <1>1, <1>2 DEF Holding

\* One stream's part of OwnSeat.
OwnSeatOf(z) ==
  /\ streams[z].state = "new" => streams[z].sent = 0
  /\ Alone(z) /\ ~ streams[z].refused =>
       /\ streams[z].state = "open" =>
            \E i \in Holding(z[2]) : seats[i].line = Typed(z, streams[z].sent)
       /\ \A i \in Holding(z[2]) : seats[i].reply # NoReply => seats[i].reply.of = Heard(z)

\* A step at stream x leaves the part of a stream with another id as it was, and a stream
\* of the same id is not alone after it.
LEMMA OthersOwn ==
  ASSUME WtTypeOK, WtTypeOK', [Next]_vars, OwnSeat,
         NEW x \in Stream, streams'[x].state # "new",
         NEW z \in Stream, z # x, streams'[z] = streams[z],
         NEW i \in Seat, SeatStep(i),
         seats[i].in_use => seats[i].stream_id = x[2],
         seats'[i].in_use => seats'[i].stream_id = x[2]
  PROVE  OwnSeatOf(z)'
<1>1. (Alone(z)' => Alone(z)) /\ Heard(z)' = Heard(z) BY AloneBefore
<1>2. streams[z].state = "new" => streams[z].sent = 0 BY DEF OwnSeat
<1>3. CASE z[2] = x[2]
  <2>1. ~ Alone(z)' BY <1>3 DEF Alone
  <2> QED BY <2>1, <1>2 DEF OwnSeatOf
<1>4. CASE z[2] # x[2]
  <2>1. /\ Holding(z[2])' = Holding(z[2])
        /\ \A j \in Holding(z[2]) : seats'[j] = seats[j]
    BY <1>4, OtherSeatsStay
  <2> QED BY <2>1, <1>1, <1>2 DEF OwnSeatOf, OwnSeat
<1> QED BY <1>3, <1>4

\* The buffer of a stream with an id of its own is kept by every step.
LEMMA OwnSeatStep ==
  ASSUME WtTypeOK, WtTypeOK', SeatInv, SeatInv', OwnSeat, [Next]_vars
  PROVE  OwnSeat'
<1> SUFFICES ASSUME NEW z \in Stream PROVE OwnSeatOf(z)'
  BY DEF OwnSeat, OwnSeatOf
<1>0. OwnSeatOf(z) BY DEF OwnSeat, OwnSeatOf
<1>a. (Alone(z)' => Alone(z)) /\ Heard(z)' = Heard(z) BY AloneBefore
<1>b. streams[z].refused => streams'[z].refused BY StreamsGoOn
<1>c. ~ Empty.in_use BY DEF Empty
<1>1. ASSUME NEW x \in Stream, PostData(x) PROVE OwnSeatOf(z)'
  <2>1. streams[x].state \in {"new", "open"} BY <1>1, PostDataStep
  <2>2. PICK n \in 1..(streams[x].len - streams[x].sent), i \in SeatFor(x[2]) :
              /\ StreamStep(x, n, "open") /\ streams'[x].refused = streams[x].refused
              /\ SeatStep(i) /\ seats'[i].in_use /\ seats'[i].stream_id = x[2]
              /\ seats'[i].line = Kept(Taken(i, x[2]).line, Bytes(x, n))
              /\ seats'[i].reply = Taken(i, x[2]).reply
    BY <1>1, PostDataStep
  <2>3. i \in Seat /\ (seats[i].in_use => seats[i].stream_id = x[2]) BY SeatForIsOne
  <2>4. CASE z # x
    BY <2>2, <2>3, <2>4, OthersOwn DEF StreamStep
  <2>5. CASE z = x
    <3> SUFFICES ASSUME Alone(x)', ~ streams'[x].refused
                 PROVE  /\ \E j \in Holding(x[2])' : seats'[j].line = Typed(x, streams'[x].sent)
                        /\ \A j \in Holding(x[2])' : seats'[j].reply # NoReply => seats'[j].reply.of = Heard(x)'
      BY <2>2, <2>5 DEF OwnSeatOf, StreamStep
    <3>1. Alone(x) /\ ~ streams[x].refused /\ n \in Nat BY <1>a, <2>2, <2>5 DEF WtTypeOK, StreamRecord
    <3>2. /\ seats'[i].line = Typed(x, streams[x].sent + n)
          /\ seats'[i].reply # NoReply => seats'[i].reply.of = Heard(x)
      BY <3>1, <2>1, <2>2, OwnLineGoesOn
    <3>3. i \in Holding(x[2])' /\ \A j \in Holding(x[2])' : j = i
      BY <2>2, <2>3 DEF Holding, SeatInv, SeatsAreDistinct
    <3>4. streams'[x].sent = streams[x].sent + n BY <2>2 DEF StreamStep
    <3> QED BY <3>2, <3>3, <3>4, <1>a, <2>5
  <2> QED BY <2>4, <2>5
<1>2. ASSUME NEW x \in Stream, PostFin(x) PROVE OwnSeatOf(z)'
  <2> DEFINE n == streams[x].len - streams[x].sent
  <2>1. streams[x].state \in {"new", "open"} /\ StreamStep(x, n, "ended")
        /\ streams'[x].refused = streams[x].refused
    BY <1>2, PostFinStep
  <2>0. n \in Nat /\ streams[x].sent + n = streams[x].len BY DEF WtTypeOK, StreamRecord
  <2>2. PICK i \in SeatFor(x[2]), line \in Line :
              /\ line = Kept(Taken(i, x[2]).line, Bytes(x, n))
              /\ SeatStep(i) /\ seats'[i].in_use /\ seats'[i].stream_id = x[2]
              /\ seats'[i].reply = [of |-> line, left |-> REPLY_PARTS]
    BY <1>2, PostFinStep
  <2> HIDE DEF n
  <2>3. i \in Seat /\ (seats[i].in_use => seats[i].stream_id = x[2]) BY SeatForIsOne
  <2>4. CASE z # x
    BY <2>1, <2>2, <2>3, <2>4, OthersOwn DEF StreamStep
  <2>5. CASE z = x
    <3> SUFFICES ASSUME Alone(x)', ~ streams'[x].refused
                 PROVE  \A j \in Holding(x[2])' : seats'[j].reply.of = Heard(x)'
      BY <2>1, <2>5 DEF OwnSeatOf, StreamStep
    <3>1. Alone(x) /\ ~ streams[x].refused BY <1>a, <2>1, <2>5
    <3>2. line = Typed(x, streams[x].len)
      BY <3>1, <2>0, <2>1, <2>2, OwnLineGoesOn
    <3>3. \A j \in Holding(x[2])' : j = i
      BY <2>2, <2>3 DEF Holding, SeatInv, SeatsAreDistinct
    <3>4. seats'[i].reply.of = Heard(x)'
      <4>1. seats'[i].reply.of = line BY <2>2
      <4>2. Heard(x)' = Heard(x) BY <1>a, <2>5
      <4>3. Heard(x) = line BY <3>2, HeardIsTyped
      <4> QED BY <4>1, <4>2, <4>3
    <3> QED BY <3>3, <3>4
  <2> QED BY <2>4, <2>5
<1>3. ASSUME NEW x \in Stream, PostFinSilent(x) PROVE OwnSeatOf(z)'
  <2>1. /\ streams[x].state \in {"new", "open"}
        /\ StreamStep(x, streams[x].len - streams[x].sent, "ended")
        /\ streams'[x].refused = streams[x].refused
    BY <1>3, PostFinSilentStep
  <2>2. PICK i \in SeatFor(x[2]) : SeatStep(i) /\ seats'[i] = Empty
    BY <1>3, PostFinSilentStep
  <2>3. /\ i \in Seat
        /\ \/ seats[i].in_use /\ seats[i].stream_id = x[2]
           \/ ~ seats[i].in_use /\ Holding(x[2]) = {}
    BY SeatForIsOne
  <2>4. CASE z # x
    BY <2>1, <2>2, <2>3, <2>4, <1>c, OthersOwn DEF StreamStep
  <2>5. CASE z = x
    <3>1. Holding(x[2])' = {}
      BY <2>2, <2>3, <1>c DEF Holding, SeatInv, SeatsAreDistinct, SeatStep
    <3> QED BY <3>1, <2>1, <2>5 DEF OwnSeatOf, StreamStep
  <2> QED BY <2>4, <2>5
<1>4. ASSUME NEW x \in Stream, NoSeat(x) PROVE OwnSeatOf(z)'
  <2>1. /\ seats' = seats /\ streams'[x].refused
        /\ \E n \in 0..(streams[x].len - streams[x].sent), st \in {"open", "ended"} :
               StreamStep(x, n, st)
    BY <1>4, NoSeatStep
  <2>4. CASE z # x
    <3>1. streams'[z] = streams[z] BY <2>1, <2>4 DEF StreamStep
    <3> QED BY <3>1, <2>1, <1>0, <1>a DEF OwnSeatOf, Holding
  <2>5. CASE z = x
    BY <2>1, <2>5 DEF OwnSeatOf, StreamStep
  <2> QED BY <2>4, <2>5
<1>5. ASSUME NEW x \in Stream, ProvideData(x) PROVE OwnSeatOf(z)'
  <2>1. /\ x \in active
        /\ \A y \in Stream \ {x} : streams'[y] = streams[y]
        /\ streams'[x].state = streams[x].state /\ streams'[x].sent = streams[x].sent
        /\ streams'[x].refused = streams[x].refused
    BY <1>5, ProvideDataStep
  <2>2. PICK i \in Holding(x[2]) :
          /\ SeatStep(i)
          /\ \/ /\ seats'[i].in_use /\ seats'[i].stream_id = x[2]
                /\ seats'[i].reply.of = seats[i].reply.of /\ seats[i].reply # NoReply
             \/ seats'[i] = Empty
    BY <1>5, ProvideDataStep
  <2>3. i \in Seat /\ seats[i].in_use /\ seats[i].stream_id = x[2] BY DEF Holding
  <2>0. streams[x].state = "ended" BY <2>1 DEF SeatInv, FinAfterFin
  <2>4. CASE z # x
    BY <2>0, <2>1, <2>2, <2>3, <2>4, <1>c, OthersOwn
  <2>5. CASE z = x
    <3>1. ASSUME NEW j \in Holding(x[2])' PROVE j = i /\ seats'[i].in_use
      BY <2>2, <2>3, <1>c DEF Holding, SeatInv, SeatsAreDistinct, SeatStep
    <3>2. seats'[i].in_use => seats'[i].reply.of = seats[i].reply.of /\ seats[i].reply # NoReply
      BY <2>2, <1>c
    <3> QED BY <3>1, <3>2, <2>0, <2>1, <2>2, <2>5, <1>0, <1>a DEF OwnSeatOf
  <2> QED BY <2>4, <2>5
<1>6. ASSUME NEW x \in Stream, ProvideNothing(x) PROVE OwnSeatOf(z)'
  BY <1>6, <1>0, <1>a DEF ProvideNothing, OwnSeatOf, Holding
<1>7. ASSUME NEW x \in Stream, Reset(x) PROVE OwnSeatOf(z)'
  <2>1. /\ \A y \in Stream \ {x} : streams'[y] = streams[y]
        /\ streams'[x].state = "gone"
    BY <1>7 DEF Reset, WtTypeOK, StreamRecord
  <2>2. \A i \in Seat : seats'[i] = IF i \in Holding(x[2]) THEN Empty ELSE seats[i]
    BY <1>7 DEF Reset
  <2>3. CASE z[2] = x[2] /\ z # x
    <3>1. ~ Alone(z)' BY <2>1, <2>3 DEF Alone
    <3> QED BY <3>1, <2>1, <2>3, <1>0 DEF OwnSeatOf
  <2>4. CASE z[2] # x[2]
    <3>1. Holding(z[2])' = Holding(z[2]) /\ \A j \in Holding(z[2]) : seats'[j] = seats[j]
      BY <2>2, <2>4, <1>c DEF Holding
    <3> QED BY <3>1, <2>1, <2>4, <1>0, <1>a DEF OwnSeatOf
  <2>5. CASE z = x
    <3>1. Holding(x[2])' = {} BY <2>2, <1>c DEF Holding
    <3> QED BY <3>1, <2>1, <2>5 DEF OwnSeatOf
  <2> QED BY <2>3, <2>4, <2>5
<1>8. ASSUME NEW c \in Client, Drop(c) PROVE OwnSeatOf(z)'
  <2>1. /\ seats' = seats
        /\ streams'[z].sent = streams[z].sent /\ streams'[z].refused = streams[z].refused
        /\ streams'[z].state = streams[z].state \/ streams'[z].state = "lost"
    BY <1>8 DEF Drop, WtTypeOK, StreamRecord
  <2> QED BY <2>1, <1>0, <1>a DEF OwnSeatOf, Holding
<1>9. CASE UNCHANGED vars
  BY <1>9, <1>0, <1>a DEF vars, OwnSeatOf, Holding
<1> QED BY <1>1, <1>2, <1>3, <1>4, <1>5, <1>6, <1>7, <1>8, <1>9 DEF Next

\* What was asked and answered before the step is still what was typed.
LEMMA OldAnswersStay ==
  ASSUME WtTypeOK, WtTypeOK', [Next]_vars, OwnInv
  PROVE  /\ \A a \in asked : Alone(a[1])' /\ ~ streams'[a[1]].refused => a[2] = Heard(a[1])'
         /\ \A x \in Stream : Alone(x)' /\ ~ streams'[x].refused => streams[x].got \subseteq {Heard(x)'}
<1>1. \A a \in asked : a[1] \in Stream BY DEF WtTypeOK
<1> QED BY <1>1, AloneBefore, StreamsGoOn DEF OwnInv, AskedIsHeard, AnswersItsOwn

\* And with it what the ward was asked, and answered.
LEMMA OwnInvHolds == Spec => []OwnInv
<1>1. Init => OwnInv
  <2> SUFFICES ASSUME Init PROVE OwnInv OBVIOUS
  <2>1. \A i \in Seat : ~ seats[i].in_use BY DEF Init, Empty
  <2>2. \A x \in Stream : streams[x].state = "new" /\ streams[x].sent = 0 /\ streams[x].got = {}
    BY DEF Init
  <2> QED BY <2>1, <2>2 DEF Init, OwnInv, OwnSeat, Holding, AskedIsHeard, AnswersItsOwn
<1>2. WtTypeOK /\ WtTypeOK' /\ SeatInv /\ SeatInv' /\ OwnInv /\ [Next]_vars => OwnInv'
  <2> SUFFICES ASSUME WtTypeOK, WtTypeOK', SeatInv, SeatInv', OwnInv, [Next]_vars PROVE OwnInv'
    OBVIOUS
  <2>0. OwnSeat' BY OwnSeatStep DEF OwnInv
  <2>a. \A x \in Stream : (Alone(x)' => Alone(x)) /\ Heard(x)' = Heard(x) BY AloneBefore
  <2>b. \A a \in asked : Alone(a[1])' /\ ~ streams'[a[1]].refused => a[2] = Heard(a[1])'
    BY OldAnswersStay
  <2>c. \A x \in Stream : Alone(x)' /\ ~ streams'[x].refused => streams[x].got \subseteq {Heard(x)'}
    BY OldAnswersStay
  <2>d. ASSUME asked' = asked PROVE AskedIsHeard' BY <2>b, <2>d DEF AskedIsHeard
  <2>e. ASSUME \A x \in Stream : streams'[x].got = streams[x].got PROVE AnswersItsOwn'
    BY <2>c, <2>e DEF AnswersItsOwn
  <2>f. ASSUME NEW x \in Stream, NEW i \in SeatFor(x[2]), NEW line,
               line = Kept(Taken(i, x[2]).line, Bytes(x, streams[x].len - streams[x].sent)),
               streams[x].state \in {"new", "open"}, streams'[x].refused = streams[x].refused,
               asked' = asked \/ asked' = asked \cup {<< x, line >>}
        PROVE  AskedIsHeard'
    <3>1. ASSUME Alone(x)', ~ streams'[x].refused PROVE line = Heard(x)'
      <4>1. Alone(x) /\ ~ streams[x].refused BY <3>1, <2>a, <2>f
      <4>2. /\ streams[x].len - streams[x].sent \in Nat
            /\ streams[x].sent + (streams[x].len - streams[x].sent) = streams[x].len
        BY DEF WtTypeOK, StreamRecord
      <4>3. line = Typed(x, streams[x].sent + (streams[x].len - streams[x].sent))
        BY <4>1, <4>2, <2>f, OwnLineGoesOn DEF OwnInv
      <4> QED BY <4>2, <4>3, <2>a, HeardIsTyped
    <3> QED BY <3>1, <2>b, <2>f DEF AskedIsHeard
  <2>1. ASSUME NEW x \in Stream, PostData(x) PROVE OwnInv'
    <3>1. asked' = asked /\ \A y \in Stream : streams'[y].got = streams[y].got
      BY <2>1, PostDataStep DEF StreamStep
    <3> QED BY <3>1, <2>0, <2>d, <2>e DEF OwnInv
  <2>2. ASSUME NEW x \in Stream, PostFin(x) PROVE OwnInv'
    <3>1. \A y \in Stream : streams'[y].got = streams[y].got
      BY <2>2, PostFinStep DEF StreamStep
    <3>2. PICK i \in SeatFor(x[2]), line \in Line :
            /\ line = Kept(Taken(i, x[2]).line, Bytes(x, streams[x].len - streams[x].sent))
            /\ SeatStep(i) /\ seats'[i].in_use /\ seats'[i].stream_id = x[2]
            /\ seats'[i].line = line /\ seats'[i].reply = [of |-> line, left |-> REPLY_PARTS]
            /\ asked' = asked \cup {<< x, line >>}
      BY <2>2, PostFinStep, Zenon
    <3>3. streams[x].state \in {"new", "open"} /\ streams'[x].refused = streams[x].refused
      BY <2>2, PostFinStep
    <3>4. AskedIsHeard' BY <3>2, <3>3, <2>f
    <3> QED BY <3>1, <3>4, <2>0, <2>e DEF OwnInv
  <2>3. ASSUME NEW x \in Stream, PostFinSilent(x) PROVE OwnInv'
    <3>1. \A y \in Stream : streams'[y].got = streams[y].got
      BY <2>3, PostFinSilentStep DEF StreamStep
    <3>2. AskedIsHeard' BY <2>3, <2>f, PostFinSilentStep
    <3> QED BY <3>1, <3>2, <2>0, <2>e DEF OwnInv
  <2>4. ASSUME NEW x \in Stream, NoSeat(x) PROVE OwnInv'
    <3>1. asked' = asked /\ \A y \in Stream : streams'[y].got = streams[y].got
      BY <2>4, NoSeatStep DEF StreamStep
    <3> QED BY <3>1, <2>0, <2>d, <2>e DEF OwnInv
  <2>5. ASSUME NEW x \in Stream, ProvideData(x) PROVE OwnInv'
    <3>1. /\ asked' = asked /\ streams'[x].refused = streams[x].refused
          /\ \A y \in Stream \ {x} : streams'[y] = streams[y]
      BY <2>5, ProvideDataStep
    <3>2. PICK i \in Holding(x[2]) :
            /\ seats[i].reply # NoReply
            /\ streams'[x].got = streams[x].got \cup {seats[i].reply.of}
      BY <2>5, ProvideDataStep
    <3>3. Alone(x)' /\ ~ streams'[x].refused => seats[i].reply.of = Heard(x)'
      BY <3>1, <3>2, <2>a DEF OwnInv, OwnSeat
    <3>4. AnswersItsOwn' BY <3>1, <3>2, <3>3, <2>c DEF AnswersItsOwn
    <3> QED BY <3>1, <3>4, <2>0, <2>d DEF OwnInv
  <2>6. ASSUME NEW x \in Stream, ProvideNothing(x) \/ Reset(x) PROVE OwnInv'
    <3>1. asked' = asked /\ \A y \in Stream : streams'[y].got = streams[y].got
      BY <2>6 DEF ProvideNothing, Reset, WtTypeOK, StreamRecord
    <3> QED BY <3>1, <2>0, <2>d, <2>e DEF OwnInv
  <2>7. ASSUME NEW c \in Client, Drop(c) PROVE OwnInv'
    <3>1. asked' = asked /\ \A y \in Stream : streams'[y].got = streams[y].got
      BY <2>7 DEF Drop, WtTypeOK, StreamRecord
    <3> QED BY <3>1, <2>0, <2>d, <2>e DEF OwnInv
  <2>8. CASE UNCHANGED vars
    <3>1. asked' = asked /\ \A y \in Stream : streams'[y].got = streams[y].got
      BY <2>8 DEF vars
    <3> QED BY <3>1, <2>0, <2>d, <2>e DEF OwnInv
  <2> QED BY <2>1, <2>2, <2>3, <2>4, <2>5, <2>6, <2>7, <2>8 DEF Next
<1> QED BY <1>1, <1>2, WtTypes, SeatInvHolds, PTL DEF Spec

\* A command that fits is asked whole, whatever happens to other streams (wt.c 67-83, 95-105).
THEOREM WardHearsWhatWasTyped == Spec => []AskedIsTyped
<1>1. WtTypeOK /\ OwnInv => AskedIsTyped
  <2> SUFFICES ASSUME WtTypeOK, OwnInv, NEW a \in asked, Alone(a[1]), ~ streams[a[1]].refused,
                      streams[a[1]].len <= WT_LINE_MAX
               PROVE  a[2] = Whole(a[1], streams[a[1]].len)
    BY DEF AskedIsTyped
  <2> DEFINE x == a[1]
  <2>0. x \in Stream /\ streams[x].len \in Nat BY DEF WtTypeOK, StreamRecord
  <2>1. a[2] = Heard(x) BY DEF OwnInv, AskedIsHeard
  <2>2. Heard(x) = Typed(x, streams[x].len) BY <2>0, HeardIsTyped
  <2>3. Typed(x, streams[x].len) = Whole(x, streams[x].len)
    BY <2>0, WtConstants DEF Typed, Whole
  <2> QED BY <2>1, <2>2, <2>3
<1> QED BY <1>1, WtTypes, OwnInvHolds, PTL

\* What is sent on a stream answers what was typed on it (wt.c 34, 109-125).
THEOREM RepliesAreOwn == Spec => []AnswersItsOwn
<1>1. OwnInv => AnswersItsOwn BY DEF OwnInv
<1> QED BY <1>1, OwnInvHolds, PTL

-------------------------------------------------------------------------------
(* Lines of any stream: runs of each stream's bytes.                       *)

\* The bytes of stream x after place j of a line, up to place k.
Count(l, j, k, x) == Cardinality({i \in (j + 1)..k : l[i][1] = x})

\* The line has bytes of one stream id only, and those of each stream are consecutive.
Runs(l, id) ==
  \A k \in 1..Len(l) :
    /\ l[k][1][2] = id
    /\ \A j \in 1..k : l[j][1] = l[k][1] => l[k][2] - l[j][2] = Count(l, j, k, l[k][1])

\* A line that is not full holds every byte of a stream since the first it has of it.
UpTo(l, x, sent) == \A j \in 1..Len(l) : l[j][1] = x => sent - l[j][2] = Count(l, j, Len(l), x)

\* A finite set and an interval beyond it.
LEMMA IntervalBeyond ==
  ASSUME NEW A, IsFiniteSet(A), NEW L \in Nat, NEW k \in Nat, L <= k, A \cap ((L + 1)..k) = {}
  PROVE  Cardinality(A \cup ((L + 1)..k)) = Cardinality(A) + (k - L)
<1> DEFINE C == (L + 1)..k
<1>1. L + 1 \in Int /\ k \in Int OBVIOUS
<1>2. IsFiniteSet(C) BY <1>1, FS_Interval
<1>3. Cardinality(C) = k - L
  <2>1. Cardinality((L + 1)..k) = (IF L + 1 > k THEN 0 ELSE k - (L + 1) + 1) BY <1>1, FS_Interval
  <2> QED BY <2>1
<1>4. A \cap C = {} OBVIOUS
<1> HIDE DEF C
<1>5. Cardinality(A \cup C) = Cardinality(A) + Cardinality(C) - Cardinality(A \cap C)
  BY <1>2, FS_Union
<1>6. Cardinality(A \cap C) = 0 BY <1>4, FS_EmptySet
<1>7. Cardinality(A) \in Nat BY FS_CardinalityType
<1>8. Cardinality(A \cup C) = Cardinality(A) + (k - L) BY <1>3, <1>5, <1>6, <1>7
<1> QED BY <1>8 DEF C

\* The bytes of one callback keep a line a run, whether or not all of them are kept.
LEMMA RunsGoOn ==
  ASSUME NEW l \in Line, NEW x \in Stream, NEW s \in Nat, NEW n \in Nat, NEW b \in Line,
         Len(b) = n, \A k \in 1..n : b[k] = << x, s + k >>,
         Runs(l, x[2]), Len(l) <= WT_LINE_MAX, Len(l) < WT_LINE_MAX => UpTo(l, x, s)
  PROVE  /\ Runs(Kept(l, b), x[2]) /\ Len(Kept(l, b)) <= WT_LINE_MAX
         /\ Len(Kept(l, b)) < WT_LINE_MAX =>
              /\ Len(l) < WT_LINE_MAX
              /\ UpTo(Kept(l, b), x, s + n)
              /\ \A y \in Stream \ {x}, t \in Nat : UpTo(l, y, t) => UpTo(Kept(l, b), y, t)
<1> DEFINE L == Len(l)
           m == Kept(l, b)
           M == Len(m)
<1>1. L \in Nat BY DEF Line
<1>2. /\ m \in Line
      /\ M = IF WT_LINE_MAX <= L + n THEN WT_LINE_MAX ELSE L + n
      /\ \A k \in 1..M : m[k] = IF k <= L THEN l[k] ELSE b[k - L]
  BY KeptIsALine
<1>3. M \in Nat /\ L <= M /\ M <= WT_LINE_MAX /\ M - L <= n
  BY <1>1, <1>2, WtConstants
<1> HIDE DEF L, m, M
<1>4. \A k \in 1..L : m[k] = l[k] BY <1>1, <1>2, <1>3
<1>5. \A k \in (L + 1)..M : m[k] = << x, s + (k - L) >> BY <1>1, <1>2, <1>3
<1>a. \A k \in 1..M : m[k][2] \in Nat BY <1>2, <1>3, ElementOfSeq DEF Line, Byte, M
<1>6. ASSUME NEW k \in 1..M, NEW j \in 1..k, m[j][1] = m[k][1]
      PROVE  m[k][2] - m[j][2] = Count(m, j, k, m[k][1])
  <2>1. CASE k <= L
    <3>1. Count(m, j, k, m[k][1]) = Count(l, j, k, m[k][1])
      <4> DEFINE y == m[k][1]
      <4>1. \A i \in (j + 1)..k : m[i] = l[i] BY <2>1, <1>1, <1>4
      <4> HIDE DEF y
      <4>2. {i \in (j + 1)..k : m[i][1] = y} = {i \in (j + 1)..k : l[i][1] = y} BY <4>1
      <4>3. Count(m, j, k, y) = Count(l, j, k, y) BY <4>2 DEF Count
      <4> QED BY <4>3 DEF y
    <3>2. l[k] = m[k] /\ l[j] = m[j] BY <2>1, <1>1, <1>4
    <3>3. k \in 1..Len(l) BY <2>1, <1>1 DEF L
    <3> QED BY <3>1, <3>2, <3>3, <1>6 DEF Runs
  <2>2. CASE k > L
    <3>0. k \in (L + 1)..M /\ m[k] = << x, s + (k - L) >> BY <2>2, <1>1, <1>5
    <3>1. CASE j > L
      <4>0. j \in (L + 1)..M BY <3>1, <3>0, <1>1, <1>3
      <4>1. m[j] = << x, s + (j - L) >> BY <4>0, <1>5
      <4>2. \A i \in (j + 1)..k : m[i][1] = x
        <5>1. \A i \in (j + 1)..k : i \in (L + 1)..M BY <3>0, <3>1, <1>1, <1>3
        <5> QED BY <5>1, <1>5
      <4>4. Count(m, j, k, x) = k - j
        <5>1. j \in Nat /\ k \in Nat /\ j <= k OBVIOUS
        <5>2. {i \in (j + 1)..k : m[i][1] = x} = (j + 1)..k BY <4>2
        <5>3. Cardinality((j + 1)..k) = (IF j + 1 > k THEN 0 ELSE k - (j + 1) + 1)
          BY <5>1, FS_Interval
        <5>4. Cardinality((j + 1)..k) = k - j BY <5>1, <5>3
        <5> QED BY <5>2, <5>4 DEF Count
      <4>5. m[k][1] = x /\ m[k][2] = s + (k - L) /\ m[j][2] = s + (j - L) BY <3>0, <4>1
      <4> QED BY <4>4, <4>5, <1>1
    <3>2. CASE j <= L
      <4>1. m[k][1] = x /\ m[k][2] = s + (k - L) BY <3>0
      <4>2. m[j] = l[j] /\ l[j][1] = x /\ j \in 1..Len(l) BY <3>2, <1>1, <1>4, <1>6, <4>1 DEF L
      <4>3. L < WT_LINE_MAX BY <3>0, <1>1, <1>3, WtConstants
      <4>4. s - l[j][2] = Count(l, j, L, x) BY <4>2, <4>3 DEF UpTo, L
      <4>5. Count(m, j, L, x) = Count(l, j, L, x)
        <5>1. \A i \in (j + 1)..L : m[i] = l[i] BY <1>1, <1>4
        <5>2. {i \in (j + 1)..L : m[i][1] = x} = {i \in (j + 1)..L : l[i][1] = x} BY <5>1
        <5> QED BY <5>2 DEF Count
      <4>6. Count(m, j, k, x) = Count(m, j, L, x) + (k - L)
        <5>0. \A i \in (L + 1)..k : i \in (L + 1)..M BY <3>0, <1>1, <1>3
        <5>1. \A i \in (L + 1)..k : m[i][1] = x BY <5>0, <1>5
        <5>2. j \in Nat /\ k \in Nat /\ j <= L /\ L <= k BY <3>0, <3>2, <1>1
        <5> DEFINE A == {i \in (j + 1)..L : m[i][1] = x}
                   B == {i \in (j + 1)..k : m[i][1] = x}
        <5>3. B = A \cup ((L + 1)..k) /\ A \cap ((L + 1)..k) = {} BY <5>1, <5>2, <1>1
        <5>4. IsFiniteSet(A)
          <6>1. IsFiniteSet((j + 1)..L) BY <5>2, <1>1, FS_Interval
          <6> QED BY <6>1, FS_Subset
        <5> HIDE DEF A, B
        <5>5. Cardinality(A \cup ((L + 1)..k)) = Cardinality(A) + (k - L)
          BY <5>2, <5>3, <5>4, <1>1, IntervalBeyond
        <5>6. Cardinality(B) = Cardinality(A) + (k - L) BY <5>3, <5>5
        <5> QED BY <5>6 DEF Count, A, B
      <4>7. m[j][2] \in Nat BY <1>1, <1>3, <1>a
      <4> QED BY <4>1, <4>2, <4>4, <4>5, <4>6, <4>7, <1>1
    <3> QED BY <3>1, <3>2, <1>1
  <2> QED BY <2>1, <2>2, <1>1
<1>7. ASSUME NEW k \in 1..M PROVE m[k][1][2] = x[2]
  <2>1. CASE k <= L
    <3>1. k \in 1..Len(l) /\ m[k] = l[k] BY <2>1, <1>1, <1>4 DEF L
    <3> QED BY <3>1 DEF Runs
  <2>2. CASE k > L
    <3>1. k \in (L + 1)..M BY <2>2, <1>1
    <3> QED BY <3>1, <1>5
  <2> QED BY <2>1, <2>2, <1>1
<1>8. Runs(m, x[2]) BY <1>6, <1>7 DEF Runs, M
<1>9. ASSUME M < WT_LINE_MAX
      PROVE  /\ L < WT_LINE_MAX /\ UpTo(m, x, s + n)
             /\ \A y \in Stream \ {x}, t \in Nat : UpTo(l, y, t) => UpTo(m, y, t)
  <2>1. M = L + n /\ L < WT_LINE_MAX BY <1>9, <1>1, <1>2, WtConstants
  <2>2. UpTo(m, x, s + n)
    <3> DEFINE t == s + n
    <3>0. t \in Nat /\ (n = 0 => t = s) OBVIOUS
    <3>1. CASE n = 0
      <4>1. M = L BY <3>1, <2>1, <1>1
      <4> HIDE DEF t
      <4>2. ASSUME NEW j \in 1..M, m[j][1] = x PROVE t - m[j][2] = Count(m, j, M, x)
        <5>1. j \in 1..Len(l) /\ m[j] = l[j] BY <4>1, <1>4 DEF L
        <5>2. s - l[j][2] = Count(l, j, L, x) BY <5>1, <4>2, <2>1 DEF UpTo, L
        <5>3. j \in Nat /\ \A i \in (j + 1)..L : m[i] = l[i] BY <1>1, <1>3, <1>4
        <5>4. Count(m, j, L, x) = Count(l, j, L, x)
          <6>1. {i \in (j + 1)..L : m[i][1] = x} = {i \in (j + 1)..L : l[i][1] = x} BY <5>3
          <6> QED BY <6>1 DEF Count
        <5> QED BY <5>1, <5>2, <5>4, <4>1, <3>0, <3>1
      <4>3. UpTo(m, x, t) BY <4>2 DEF UpTo, M
      <4> QED BY <4>3 DEF t
    <3>2. CASE n > 0
      <4>1. M \in (L + 1)..M /\ M \in 1..M BY <3>2, <2>1, <1>1
      <4>2. m[M] = << x, t >>
        <5>1. m[M] = << x, s + (M - L) >> BY <4>1, <1>5
        <5>2. M - L = n BY <2>1, <1>1
        <5> QED BY <5>1, <5>2
      <4> HIDE DEF t
      <4>3. m[M][1] = x /\ m[M][2] = t BY <4>2
      <4>4. ASSUME NEW j \in 1..M, m[j][1] = x PROVE t - m[j][2] = Count(m, j, M, x)
        <5>1. m[M][2] - m[j][2] = Count(m, j, M, m[M][1]) BY <4>1, <4>3, <4>4, <1>6
        <5> QED BY <5>1, <4>3
      <4>5. UpTo(m, x, t) BY <4>4 DEF UpTo, M
      <4> QED BY <4>5 DEF t
    <3> QED BY <3>1, <3>2
  <2>3. ASSUME NEW y \in Stream \ {x}, NEW t \in Nat, UpTo(l, y, t) PROVE UpTo(m, y, t)
    <3>1. ASSUME NEW j \in 1..M, m[j][1] = y PROVE t - m[j][2] = Count(m, j, M, y)
      <4>1. j <= L
        <5>1. j > L => j \in (L + 1)..M BY <1>1
        <5>2. j > L => m[j][1] = x BY <5>1, <1>5
        <5> QED BY <5>2, <3>1, <1>1
      <4>2. j \in 1..Len(l) /\ m[j] = l[j] BY <4>1, <1>1, <1>4 DEF L
      <4>3. t - l[j][2] = Count(l, j, L, y) BY <4>2, <2>3, <3>1 DEF UpTo, L
      <4>4. j \in Nat /\ \A i \in (j + 1)..L : m[i] = l[i] BY <1>1, <1>3, <1>4
      <4>5. Count(m, j, L, y) = Count(l, j, L, y)
        <5>1. {i \in (j + 1)..L : m[i][1] = y} = {i \in (j + 1)..L : l[i][1] = y} BY <4>4
        <5> QED BY <5>1 DEF Count
      <4>6. \A i \in (L + 1)..M : m[i][1] # y BY <1>5
      <4>7. Count(m, j, M, y) = Count(m, j, L, y)
        <5>1. {i \in (j + 1)..M : m[i][1] = y} = {i \in (j + 1)..L : m[i][1] = y}
          BY <4>1, <4>4, <4>6, <1>1, <1>3
        <5> QED BY <5>1 DEF Count
      <4> QED BY <4>2, <4>3, <4>5, <4>7
    <3> QED BY <3>1 DEF UpTo, M
  <2> QED BY <2>1, <2>2, <2>3
<1> QED BY <1>3, <1>8, <1>9 DEF m, M, L

\* The line of a seat that is held: a run, not longer than the buffer and, when there is
\* room left, with all that its streams have sent since it began.
SeatRuns(i) ==
  seats[i].in_use =>
    /\ Runs(seats[i].line, seats[i].stream_id)
    /\ Len(seats[i].line) <= WT_LINE_MAX
    /\ Len(seats[i].line) < WT_LINE_MAX =>
         \A y \in Stream : UpTo(seats[i].line, y, streams[y].sent)

RunInv == LinesAreRuns /\ \A i \in Seat : SeatRuns(i)

\* The property, line by line.
LEMMA LinesAreRunsIs ==
  ASSUME WtTypeOK
  PROVE  LinesAreRuns <=> \A a \in asked : Runs(a[2], a[1][2])
<1>1. \A a \in asked : DOMAIN a[2] = 1..Len(a[2])
  BY LenProperties DEF WtTypeOK, Line
<1> QED BY <1>1 DEF LinesAreRuns, Runs, Count

\* The line of the seat after a callback.
LEMMA PostRuns ==
  ASSUME WtTypeOK, RunInv, NEW x \in Stream, NEW n \in Nat, NEW i \in SeatFor(x[2]), NEW m,
         m = Kept(Taken(i, x[2]).line, Bytes(x, n))
  PROVE  /\ Runs(m, x[2]) /\ Len(m) <= WT_LINE_MAX
         /\ Len(m) < WT_LINE_MAX =>
              /\ UpTo(m, x, streams[x].sent + n)
              /\ \A y \in Stream \ {x} : UpTo(m, y, streams[y].sent)
<1> DEFINE l == Taken(i, x[2]).line
           b == Bytes(x, n)
<1>1. l \in Line BY TakenIsASeat DEF SeatRecord
<1>2. b \in Line /\ Len(b) = n BY BytesAreALine
<1>3. \A k \in 1..n : b[k] = << x, streams[x].sent + k >> BY DEF Bytes
<1>4. \A y \in Stream : streams[y].sent \in Nat BY DEF WtTypeOK, StreamRecord
<1>5. /\ Runs(l, x[2]) /\ Len(l) <= WT_LINE_MAX
      /\ Len(l) < WT_LINE_MAX => \A y \in Stream : UpTo(l, y, streams[y].sent)
  <2>1. CASE seats[i].in_use
    <3>1. i \in Seat /\ seats[i].stream_id = x[2] /\ l = seats[i].line
      BY <2>1, SeatForIsOne DEF Taken
    <3> QED BY <3>1, <2>1 DEF RunInv, SeatRuns
  <2>2. CASE ~ seats[i].in_use
    <3>1. l = << >> /\ Len(l) = 0 BY <2>2, EmptySeq DEF Taken, Empty
    <3> HIDE DEF l
    <3> QED BY <3>1, WtConstants DEF Runs, UpTo
  <2> QED BY <2>1, <2>2
<1> HIDE DEF l, b
<1>6. /\ Runs(Kept(l, b), x[2]) /\ Len(Kept(l, b)) <= WT_LINE_MAX
      /\ Len(Kept(l, b)) < WT_LINE_MAX =>
           /\ Len(l) < WT_LINE_MAX
           /\ UpTo(Kept(l, b), x, streams[x].sent + n)
           /\ \A y \in Stream \ {x}, t \in Nat : UpTo(l, y, t) => UpTo(Kept(l, b), y, t)
  BY <1>1, <1>2, <1>3, <1>4, <1>5, RunsGoOn
<1>7. m = Kept(l, b) BY DEF l, b
<1> QED BY <1>4, <1>5, <1>6, <1>7

\* A seat of another id has no bytes of x, so nothing of it depends on what x sends.
LEMMA SeatRunsStay ==
  ASSUME WtTypeOK, RunInv, NEW x \in Stream, NEW j \in Seat, seats'[j] = seats[j],
         seats[j].in_use => seats[j].stream_id # x[2],
         \A y \in Stream \ {x} : streams'[y].sent = streams[y].sent
  PROVE  SeatRuns(j)'
<1> SUFFICES ASSUME seats[j].in_use PROVE SeatRuns(j)'
  BY DEF SeatRuns
<1>1. Runs(seats[j].line, seats[j].stream_id) BY DEF RunInv, SeatRuns
<1>2. UpTo(seats[j].line, x, streams'[x].sent) BY <1>1 DEF Runs, UpTo
<1> QED BY <1>1, <1>2 DEF RunInv, SeatRuns

\* Every seat's buffer and every line is a run, at every step.
LEMMA RunInvHolds == Spec => []RunInv
<1>1. Init => RunInv
  <2> SUFFICES ASSUME Init PROVE RunInv OBVIOUS
  <2>1. \A i \in Seat : ~ seats[i].in_use BY DEF Init, Empty
  <2>2. asked = {} BY DEF Init
  <2> QED BY <2>1, <2>2 DEF RunInv, SeatRuns, LinesAreRuns
<1>2. WtTypeOK /\ WtTypeOK' /\ SeatInv /\ SeatInv' /\ RunInv /\ [Next]_vars => RunInv'
  <2> SUFFICES ASSUME WtTypeOK, WtTypeOK', SeatInv, SeatInv', RunInv, [Next]_vars PROVE RunInv'
    OBVIOUS
  <2>a. \A a \in asked : Runs(a[2], a[1][2]) BY LinesAreRunsIs DEF RunInv
  <2>b. LinesAreRuns' <=> \A a \in asked' : Runs(a[2], a[1][2])
    <3>1. \A a \in asked' : DOMAIN a[2] = 1..Len(a[2])
      BY LenProperties DEF WtTypeOK, Line
    <3> QED BY <3>1 DEF LinesAreRuns, Runs, Count
  <2>c. ~ Empty.in_use BY DEF Empty
  <2>d. ASSUME \A x \in Stream : streams'[x].sent = streams[x].sent,
               NEW i \in Seat, seats'[i] = seats[i] \/ seats'[i] = Empty
        PROVE  SeatRuns(i)'
    BY <2>c, <2>d DEF SeatRuns, RunInv
  <2>e. ASSUME NEW x \in Stream, NEW i \in SeatFor(x[2]), SeatStep(i), NEW n \in Nat, NEW st,
               StreamStep(x, n, st), NEW j \in Seat \ {i}
        PROVE  SeatRuns(j)'
    <3>1. seats'[j] = seats[j] BY <2>e DEF SeatStep
    <3>2. seats[j].in_use => seats[j].stream_id # x[2]
      BY <2>e, SeatForIsOne DEF SeatInv, SeatsAreDistinct, Holding
    <3> QED BY <3>1, <3>2, <2>e, SeatRunsStay DEF StreamStep
  <2>1. ASSUME NEW x \in Stream, PostData(x) PROVE RunInv'
    <3>1. asked' = asked BY <2>1, PostDataStep
    <3>2. PICK n \in 1..(streams[x].len - streams[x].sent), i \in SeatFor(x[2]) :
              /\ StreamStep(x, n, "open") /\ streams'[x].refused = streams[x].refused
              /\ SeatStep(i) /\ seats'[i].in_use /\ seats'[i].stream_id = x[2]
              /\ seats'[i].line = Kept(Taken(i, x[2]).line, Bytes(x, n))
              /\ seats'[i].reply = Taken(i, x[2]).reply
      BY <2>1, PostDataStep
    <3>3. n \in Nat /\ i \in Seat BY <3>2, SeatForIsOne DEF WtTypeOK, StreamRecord
    <3>4. \A j \in Seat \ {i} : SeatRuns(j)' BY <3>2, <3>3, <2>e
    <3>5. SeatRuns(i)'
      <4>1. /\ Runs(seats'[i].line, x[2]) /\ Len(seats'[i].line) <= WT_LINE_MAX
            /\ Len(seats'[i].line) < WT_LINE_MAX =>
                 /\ UpTo(seats'[i].line, x, streams[x].sent + n)
                 /\ \A y \in Stream \ {x} : UpTo(seats'[i].line, y, streams[y].sent)
        BY <3>2, <3>3, PostRuns
      <4>2. streams'[x].sent = streams[x].sent + n /\ \A y \in Stream \ {x} : streams'[y] = streams[y]
        BY <3>2 DEF StreamStep
      <4> QED BY <3>2, <4>1, <4>2 DEF SeatRuns
    <3> QED BY <3>1, <3>4, <3>5, <2>a, <2>b DEF RunInv
  <2>2. ASSUME NEW x \in Stream, PostFin(x) PROVE RunInv'
    <3> DEFINE n == streams[x].len - streams[x].sent
    <3>1. n \in Nat BY DEF WtTypeOK, StreamRecord
    <3>0. StreamStep(x, n, "ended") BY <2>2, PostFinStep
    <3>2. PICK i \in SeatFor(x[2]), line \in Line :
            /\ line = Kept(Taken(i, x[2]).line, Bytes(x, streams[x].len - streams[x].sent))
            /\ SeatStep(i) /\ seats'[i].in_use /\ seats'[i].stream_id = x[2]
            /\ seats'[i].line = line /\ seats'[i].reply = [of |-> line, left |-> REPLY_PARTS]
            /\ asked' = asked \cup {<< x, line >>}
      BY <2>2, PostFinStep, Zenon
    <3>3. i \in Seat BY SeatForIsOne
    <3>6. /\ Runs(line, x[2]) /\ Len(line) <= WT_LINE_MAX
          /\ Len(line) < WT_LINE_MAX =>
               /\ UpTo(line, x, streams[x].sent + n)
               /\ \A y \in Stream \ {x} : UpTo(line, y, streams[y].sent)
      BY <3>1, <3>2, PostRuns
    <3> HIDE DEF n
    <3>4. \A j \in Seat \ {i} : SeatRuns(j)' BY <3>0, <3>1, <3>2, <3>3, <2>e
    <3>5. SeatRuns(i)'
      <4>2. streams'[x].sent = streams[x].sent + n /\ \A y \in Stream \ {x} : streams'[y] = streams[y]
        BY <3>0 DEF StreamStep
      <4> QED BY <3>2, <3>6, <4>2 DEF SeatRuns
    <3>7. \A a \in asked' : Runs(a[2], a[1][2]) BY <3>2, <3>6, <2>a
    <3> QED BY <3>4, <3>5, <3>7, <2>b DEF RunInv
  <2>3. ASSUME NEW x \in Stream, PostFinSilent(x) PROVE RunInv'
    <3> DEFINE n == streams[x].len - streams[x].sent
    <3>1. n \in Nat BY DEF WtTypeOK, StreamRecord
    <3>0. StreamStep(x, n, "ended") BY <2>3, PostFinSilentStep
    <3>2. PICK i \in SeatFor(x[2]), line \in Line :
            /\ line = Kept(Taken(i, x[2]).line, Bytes(x, streams[x].len - streams[x].sent))
            /\ SeatStep(i) /\ seats'[i] = Empty
            /\ asked' = asked \/ asked' = asked \cup {<< x, line >>}
      BY <2>3, PostFinSilentStep, Zenon
    <3>3. i \in Seat BY SeatForIsOne
    <3>6. Runs(line, x[2]) BY <3>1, <3>2, PostRuns
    <3> HIDE DEF n
    <3>4. \A j \in Seat \ {i} : SeatRuns(j)' BY <3>0, <3>1, <3>2, <3>3, <2>e
    <3>5. SeatRuns(i)' BY <3>2, <2>c DEF SeatRuns
    <3>7. \A a \in asked' : Runs(a[2], a[1][2]) BY <3>2, <3>6, <2>a
    <3> QED BY <3>4, <3>5, <3>7, <2>b DEF RunInv
  <2>4. ASSUME NEW x \in Stream, NoSeat(x) PROVE RunInv'
    <3>1. /\ seats' = seats /\ asked' = asked /\ SeatFor(x[2]) = {}
          /\ \A y \in Stream \ {x} : streams'[y].sent = streams[y].sent
      BY <2>4, NoSeatStep DEF StreamStep
    <3>2. Holding(x[2]) = {} BY <3>1 DEF SeatFor
    <3>3. ASSUME NEW j \in Seat PROVE SeatRuns(j)'
      <4>1. seats[j].in_use => seats[j].stream_id # x[2] BY <3>2 DEF Holding
      <4> QED BY <4>1, <3>1, SeatRunsStay
    <3> QED BY <3>1, <3>3, <2>a, <2>b DEF RunInv
  <2>5. ASSUME NEW x \in Stream, ProvideData(x) PROVE RunInv'
    <3>1. asked' = asked /\ \A y \in Stream : streams'[y].sent = streams[y].sent
      BY <2>5, ProvideDataStep
    <3>2. PICK i \in Holding(x[2]) :
            /\ SeatStep(i)
            /\ \/ /\ seats'[i].in_use /\ seats'[i].stream_id = x[2]
                  /\ seats'[i].line = seats[i].line
               \/ seats'[i] = Empty
      BY <2>5, ProvideDataStep
    <3>3. i \in Seat /\ seats[i].in_use /\ seats[i].stream_id = x[2] BY DEF Holding
    <3>4. SeatRuns(i)' BY <3>1, <3>2, <3>3, <2>c DEF RunInv, SeatRuns
    <3>5. \A j \in Seat \ {i} : SeatRuns(j)' BY <3>1, <3>2, <2>d DEF SeatStep
    <3> QED BY <3>1, <3>4, <3>5, <2>a, <2>b DEF RunInv
  <2>6. ASSUME NEW x \in Stream, ProvideNothing(x) \/ Reset(x) PROVE RunInv'
    <3>1. /\ asked' = asked /\ \A y \in Stream : streams'[y].sent = streams[y].sent
          /\ \A i \in Seat : seats'[i] = seats[i] \/ seats'[i] = Empty
      BY <2>6 DEF ProvideNothing, Reset, WtTypeOK, StreamRecord
    <3> QED BY <3>1, <2>a, <2>b, <2>d DEF RunInv
  <2>7. ASSUME NEW c \in Client, Drop(c) PROVE RunInv'
    <3>1. /\ asked' = asked /\ \A y \in Stream : streams'[y].sent = streams[y].sent
          /\ seats' = seats
      BY <2>7 DEF Drop, WtTypeOK, StreamRecord
    <3> QED BY <3>1, <2>a, <2>b, <2>d DEF RunInv
  <2>8. CASE UNCHANGED vars
    <3>1. /\ asked' = asked /\ \A y \in Stream : streams'[y].sent = streams[y].sent
          /\ seats' = seats
      BY <2>8 DEF vars
    <3> QED BY <3>1, <2>a, <2>b, <2>d DEF RunInv
  <2> QED BY <2>1, <2>2, <2>3, <2>4, <2>5, <2>6, <2>7, <2>8 DEF Next
<1> QED BY <1>1, <1>2, WtTypes, SeatInvHolds, PTL DEF Spec

\* Of any stream, also one that shares its id or lost some bytes to a full table, the ward
\* is asked runs of what was typed on that id (wt.c 67-83, 95-105).
THEOREM LinesAreNeverTorn == Spec => []LinesAreRuns
<1>1. RunInv => LinesAreRuns BY DEF RunInv
<1> QED BY <1>1, RunInvHolds, PTL
===============================================================================
