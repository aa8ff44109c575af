------------------------------ MODULE WtSession ------------------------------
(***************************************************************************)
(* The WebTransport session of src/wt.c: commands arrive on streams, in     *)
(* pieces, and each is answered on the stream it came on.  One session      *)
(* object with WT_MAX_STREAMS seats serves every connection, and a seat is  *)
(* looked up by the stream's id alone.                                      *)
(*                                                                          *)
(* picoquic and h3zero are external: they deliver the bytes of a stream in  *)
(* order, cut anywhere, its FIN with the last of them, and ask for data on  *)
(* a stream that was marked active.  A stream id is unique on its           *)
(* connection only, and every connection counts from the same number.  The  *)
(* ward is external too: weft_ask answers a line, or answers nothing.       *)
(*                                                                          *)
(* A byte is the pair of the stream it was typed on and its position; a     *)
(* reply is known by the line it answers.  The poll loop is single          *)
(* threaded, so a callback is one step.  A reset of the stream by its       *)
(* client, and a connection that dies, end the stream; h3zero tells the     *)
(* session of the first and frees the streams of the second, which the      *)
(* callback's default case ignores.                                         *)
(***************************************************************************)
EXTENDS Integers, Sequences, FiniteSets, FiniteSetsExt, SequencesExt

CONSTANTS
  Stream,           \* the streams that are opened: pairs of connection and stream id
  WT_MAX_STREAMS,   \* seats
  WT_LINE_MAX,      \* bytes of a command a seat holds
  Commands,         \* what clients type: a command's length for each stream
  REPLY_PARTS,      \* packets a reply takes
  Troubles,         \* "reset", "drop", "silent": what may go wrong with a stream
  MAX_TROUBLES      \* bound on how often it does

ASSUME WtConstants ==
  /\ \A x \in Stream : x[2] \in Nat
  /\ Commands \subseteq [Stream -> Nat]
  /\ WT_MAX_STREAMS \in Nat /\ WT_LINE_MAX \in Nat /\ REPLY_PARTS \in Nat \ {0}
  /\ MAX_TROUBLES \in Nat
  /\ Troubles \subseteq {"reset", "drop", "silent"}

VARIABLES
  seats,     \* wt_session_t.s
  streams,   \* each client's side of its streams
  active,    \* the streams marked active with picoquic
  asked,     \* history: the lines the ward was asked, and by which stream
  troubles   \* how many troubles there were

vars == << seats, streams, active, asked, troubles >>

Seat   == 1..WT_MAX_STREAMS
Client == {x[1] : x \in Stream}
Whole(x, n) == [k \in 1..n |-> << x, k >>]      \* what a client typed

NoReply == [of |-> << >>, left |-> 0]
Empty   == [in_use |-> FALSE, stream_id |-> 0, line |-> << >>, reply |-> NoReply]

\* A stream is "new", then "open" until its FIN is in, then "ended"; it is "gone"
\* when it was reset and "lost" when its connection died.  `got` is what was answered
\* on it; history: some of its bytes were `refused` a seat, and it is `owed` a reply.
Init ==
  /\ seats = [i \in Seat |-> Empty]
  /\ \E len \in Commands :
       streams = [x \in Stream |-> [state |-> "new", len |-> len[x], sent |-> 0,
                                    got |-> {}, fin |-> FALSE, refused |-> FALSE,
                                    owed |-> FALSE]]
  /\ active = {} /\ asked = {} /\ troubles = 0

\* stream_find: the seat that carries this id, or with `make` the first free one.
Holding(id) == {i \in Seat : seats[i].in_use /\ seats[i].stream_id = id}
Free        == {i \in Seat : ~ seats[i].in_use}

\* Variant: a free seat is preferred to the one that carries the id.
SeatFirstFree(id) == IF Free # {} THEN {Min(Free)} ELSE Holding(id)

\* Variant: a stream that finds every seat taken is given the first.
SeatForAny(id) == IF Holding(id) # {} THEN Holding(id) ELSE IF Free # {} THEN {Min(Free)} ELSE {1}

\* The seat a callback works on.
SeatFor(id) == IF Holding(id) # {} THEN Holding(id) ELSE IF Free # {} THEN {Min(Free)} ELSE {}

\* The seat as stream_find hands it out.
Taken(i, id) == IF seats[i].in_use THEN seats[i] ELSE [Empty EXCEPT !.in_use = TRUE, !.stream_id = id]

\* The callback's loop: bytes past the end of the buffer are not kept.
Kept(line, bytes) == SubSeq(line \o bytes, 1, Min({WT_LINE_MAX, Len(line) + Len(bytes)}))

\* The bytes a callback carries, and the stream after it.
Bytes(x, n) == [k \in 1..n |-> << x, streams[x].sent + k >>]
Sent(x, n, state) == [streams EXCEPT ![x].sent = @ + n, ![x].state = state]

\* One of the things that may go wrong does.
Trouble(kind) ==
  kind \in Troubles /\ troubles < MAX_TROUBLES /\ troubles' = troubles + 1

-------------------------------------------------------------------------------

\* post_data: some bytes, and the FIN not among them.
PostData(x) ==
  /\ streams[x].state \in {"new", "open"}
  /\ \E n \in 1..(streams[x].len - streams[x].sent) :
       /\ streams' = Sent(x, n, "open")
       /\ \E i \in SeatFor(x[2]) :
            seats' = [seats EXCEPT ![i] =
                        [Taken(i, x[2]) EXCEPT !.line = Kept(@, Bytes(x, n))]]
  /\ UNCHANGED << active, asked, troubles >>

\* Variant: nobody tells picoquic that the stream has data.
MarkedNot(x) == active

\* picoquic_mark_active_stream, once there is a reply to send.
Marked(x) == active \cup {x}

\* post_fin: the rest of the bytes.  The ward is asked, and the stream marked.
PostFin(x) ==
  /\ streams[x].state \in {"new", "open"}
  /\ LET n == streams[x].len - streams[x].sent IN
       /\ streams' = [Sent(x, n, "ended") EXCEPT ![x].owed = TRUE]
       /\ \E i \in SeatFor(x[2]) :
            LET line == Kept(Taken(i, x[2]).line, Bytes(x, n)) IN
              /\ seats' = [seats EXCEPT ![i] = [Taken(i, x[2]) EXCEPT !.line = line,
                                                  !.reply = [of |-> line, left |-> REPLY_PARTS]]]
              /\ asked' = asked \cup {<< x, line >>}
  /\ active' = Marked(x)
  /\ UNCHANGED troubles

\* post_fin when there is no memory for a reply, or the ward answers nothing: a
\* reply too big to describe the ward.  The seat is given back.
PostFinSilent(x) ==
  /\ Trouble("silent")
  /\ streams[x].state \in {"new", "open"}
  /\ LET n == streams[x].len - streams[x].sent IN
       /\ streams' = Sent(x, n, "ended")
       /\ \E i \in SeatFor(x[2]) :
            /\ seats' = [seats EXCEPT ![i] = Empty]
            /\ \/ UNCHANGED asked
               \/ asked' = asked \cup {<< x, Kept(Taken(i, x[2]).line, Bytes(x, n)) >>}
  /\ UNCHANGED active

\* Every seat is taken: the bytes are read and forgotten.
NoSeat(x) ==
  /\ streams[x].state \in {"new", "open"} /\ SeatFor(x[2]) = {}
  /\ \/ \E n \in 1..(streams[x].len - streams[x].sent) :
            streams' = [Sent(x, n, "open") EXCEPT ![x].refused = TRUE]
     \/ streams' = [Sent(x, streams[x].len - streams[x].sent, "ended") EXCEPT ![x].refused = TRUE]
  /\ UNCHANGED << seats, active, asked, troubles >>

\* Variant: the seat is kept after the last of its reply.
AfterSendingKept(i, n) == [seats[i] EXCEPT !.reply.left = @ - n]

\* The seat after n packets of its reply: the FIN went with the last of them.
AfterSending(i, n) ==
  IF n < seats[i].reply.left THEN [seats[i] EXCEPT !.reply.left = @ - n] ELSE Empty

\* provide_data: as much of the reply as fits.
ProvideData(x) ==
  /\ x \in active
  /\ \E i \in Holding(x[2]) :
       /\ seats[i].reply # NoReply
       /\ \E n \in 1..seats[i].reply.left :
            /\ seats' = [seats EXCEPT ![i] = AfterSending(i, n)]
            /\ streams' = [streams EXCEPT ![x].got = @ \cup {seats[i].reply.of},
                                          ![x].fin = (n = seats[i].reply.left)]
            /\ active' = IF n < seats[i].reply.left THEN active ELSE active \ {x}
  /\ UNCHANGED << asked, troubles >>

\* provide_data on a stream with no reply: nothing, and not active any more.
ProvideNothing(x) ==
  /\ x \in active
  /\ \A i \in Holding(x[2]) : seats[i].reply = NoReply
  /\ active' = active \ {x}
  /\ UNCHANGED << seats, streams, asked, troubles >>

\* reset and stop_sending: whatever carries this id is released.
Reset(x) ==
  /\ Trouble("reset")
  /\ streams[x].state \in {"open", "ended"} /\ ~ streams[x].fin
  /\ streams' = [streams EXCEPT ![x].state = "gone"]
  /\ seats' = [i \in Seat |-> IF i \in Holding(x[2]) THEN Empty ELSE seats[i]]
  /\ active' = active \ {x}
  /\ UNCHANGED asked

\* The connection dies.  The session is not told in a way it listens to.
Drop(c) ==
  /\ Trouble("drop")
  /\ \E x \in Stream : x[1] = c /\ streams[x].state \in {"open", "ended"}
  /\ streams' = [x \in Stream |->
                   IF x[1] = c THEN [streams[x] EXCEPT !.state = "lost"] ELSE streams[x]]
  /\ active' = {x \in active : x[1] # c}
  /\ UNCHANGED << seats, asked >>

Next == \/ \E x \in Stream : \/ PostData(x) \/ PostFin(x) \/ PostFinSilent(x) \/ NoSeat(x)
                             \/ ProvideData(x) \/ ProvideNothing(x) \/ Reset(x)
        \/ \E c \in Client : Drop(c)

Spec == Init /\ [][Next]_vars

\* picoquic keeps asking an active stream for data while its peer reads.
FairSpec == Spec /\ \A x \in Stream : WF_vars(ProvideData(x))

-------------------------------------------------------------------------------
(* Properties.                                                             *)

\* Two seats never carry the same stream id, whatever is reset, dropped or
\* interleaved: stream_find would answer with the first (wt.c 67-78).
SeatsAreDistinct ==
  \A i, j \in Seat : seats[i].in_use /\ seats[j].in_use
                       /\ seats[i].stream_id = seats[j].stream_id => i = j

\* No other connection has opened this stream id.
Alone(x) == \A y \in Stream : y[2] = x[2] /\ y # x => streams[y].state = "new"

\* A command that fits a seat's buffer is asked whole, from its first byte to its
\* last, on a stream that was never refused a seat and whose id no other connection
\* uses: other streams' resets, drops, silences and long commands do not show
\* (wt.c 67-83, 95-105).
AskedIsTyped ==
  \A a \in asked :
    Alone(a[1]) /\ ~ streams[a[1]].refused /\ streams[a[1]].len <= WT_LINE_MAX
      => a[2] = Whole(a[1], streams[a[1]].len)

\* The same, of a command that is too long or came to a full table: it is dropped and
\* answered by silence, and no part of it is run, as the comments say (wt.c 97,
\* 99-100).  The code truncates the first and runs the tail of the second.
AskedIsWhole ==
  \A a \in asked : Alone(a[1]) => a[2] = Whole(a[1], streams[a[1]].len)

\* Whatever is cut, reset or refused a seat, the ward is never asked a line with
\* bytes of another stream id in it, nor with bytes of a stream swapped, repeated or
\* missing between two that are there (wt.c 67-83, 95-105).
LinesAreRuns ==
  \A a \in asked : \A k \in DOMAIN a[2] :
    /\ a[2][k][1][2] = a[1][2]
    /\ \A j \in 1..k : a[2][j][1] = a[2][k][1] =>
         a[2][k][2] - a[2][j][2] = Cardinality({i \in (j + 1)..k : a[2][i][1] = a[2][k][1]})

\* What the ward hears of a command: as much as a seat keeps of it.
Heard(x) == SubSeq(Whole(x, streams[x].len), 1, Min({WT_LINE_MAX, streams[x].len}))

\* What is sent on a stream that was never refused a seat and whose id no other
\* connection uses answers what the ward heard of its own command (wt.c 34, one
\* command in flight per stream; wt.c 109-125).
AnswersItsOwn ==
  \A x \in Stream : Alone(x) /\ ~ streams[x].refused =>
    streams[x].got \subseteq {Heard(x)}

\* The same, of every stream (wt.c 34).
AnswersEachItsOwn ==
  \A x \in Stream : streams[x].got \subseteq {Heard(x)}

\* A command the ward has answered is answered on its stream, to the FIN, unless the
\* stream was reset, its connection died, or another connection came to use its id
\* (wt.c 107-125).
EveryCommandAnswered ==
  \A x \in Stream : streams[x].owed ~>
    streams[x].fin \/ streams[x].state \in {"gone", "lost"} \/ ~ Alone(x)

\* A seat is held for a stream that is still going on, and given back with its last
\* packet, its reset or the ward's silence; only a connection that dies leaves seats
\* behind (wt.c 141-143, 147-152).
SeatsAreGivenBack ==
  \A i \in Seat : seats[i].in_use =>
    \E x \in Stream : /\ x[2] = seats[i].stream_id /\ ~ streams[x].fin
                       /\ streams[x].state \in {"open", "ended", "lost"}
==============================================================================
