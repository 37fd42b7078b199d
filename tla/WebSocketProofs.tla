--------------------------- MODULE WebSocketProofs ---------------------------
(***************************************************************************)
(* A WebSocket connection, for any number of frames, chunks and replies.   *)
(* The writer leaves nothing behind, and the program is told of every      *)
(* connection that is let go of (which needs to know besides that          *)
(* is_close_handler_called_ is only set with the call).                    *)
(* Each direction implements Channel.  The messages of the page reach the  *)
(* handler whole and in order: reading on from here would hand over what   *)
(* has been posed (MessagesInv).  The texts of the handlers reach the page *)
(* in order: with those on the wire, what is being written, what waits and *)
(* what is posted are all of them, until nothing can arrive any more       *)
(* (RepliesInv).                                                           *)
(***************************************************************************)
EXTENDS WebSocket, WellFoundedInduction, TLAPS

CallIsFlagged == is_close_handler_called_ => closeCalls > 0

SocketInv ==
    /\ NothingLeftBehind /\ ClosedIsTold /\ CallIsFlagged
    /\ closeCalls \in Nat

\* do_write leaves frames in write_buffers_ only when a batch is under way.
LEMMA DoWriteKeeps ==
    ASSUME NEW frames, NothingLeftBehind, DoWrite(frames)
    PROVE  write_buffers_' # <<>> => sending_buffers_' # <<>>
<1>1. CASE sending_buffers_ = <<>>
  BY <1>1 DEF DoWrite
<1>2. CASE sending_buffers_ # <<>>
  BY <1>2 DEF DoWrite
<1> QED
  BY <1>1, <1>2

\* A step that touches neither the buffers nor the flags keeps the invariant.
LEMMA UntouchedKeeps ==
    ASSUME SocketInv, UNCHANGED <<writeVars, closeVars>>
    PROVE  SocketInv'
<1> QED
  BY DEF SocketInv, NothingLeftBehind, ClosedIsTold, CallIsFlagged, writeVars, closeVars

\* check_destroy has told the program, now or before.
LEMMA CheckDestroyTells ==
    ASSUME SocketInv, CheckDestroy, UNCHANGED is_close_handler_called_
    PROVE  closeCalls' \in Nat /\ closeCalls' > 0 /\ CallIsFlagged'
<1>1. CASE is_close_handler_called_
  BY <1>1 DEF SocketInv, CallIsFlagged, CheckDestroy
<1>2. CASE ~is_close_handler_called_
  BY <1>2 DEF SocketInv, CallIsFlagged, CheckDestroy
<1> QED
  BY <1>1, <1>2

\* The connection start() leaves has a batch under way and is registered.
LEMMA SocketInit == Init => SocketInv
<1> QED
  BY DEF Init, SocketInv, NothingLeftBehind, ClosedIsTold, CallIsFlagged

\* The frame at the end of a payload: a message and a ping are none of the writer's
\* business until their sends run, and a close frame gives the connection up.
LEMMA FragmentKeeps ==
    ASSUME SocketInv, NEW payload, handle_fragment(payload)
    PROVE  SocketInv'
<1>1. CASE mini_header_.op = "close"
  <2>1. HandleClose
    BY <1>1 DEF handle_fragment
  <2>2. closeCalls' \in Nat /\ closeCalls' > 0
    <3>1. CASE is_close_handler_called_
      BY <2>1, <3>1 DEF HandleClose, SocketInv, CallIsFlagged
    <3>2. CASE ~is_close_handler_called_
      BY <2>1, <3>2 DEF HandleClose, SocketInv
    <3> QED
      BY <3>1, <3>2
  <2>3. close_connection_'
    BY <2>1 DEF HandleClose
  <2> QED
    BY <2>2, <2>3 DEF SocketInv, NothingLeftBehind, ClosedIsTold, CallIsFlagged
<1>2. CASE mini_header_.op = "ping"
  <2>1. HandlePing
    BY <1>2 DEF handle_fragment
  <2> QED
    BY <2>1, UntouchedKeeps DEF HandlePing
<1>3. CASE mini_header_.op # "close" /\ mini_header_.op # "ping"
  <2>1. HandleData(payload)
    BY <1>3 DEF handle_fragment
  <2> QED
    BY <2>1, UntouchedKeeps DEF HandleData
<1> QED
  BY <1>1, <1>2, <1>3

\* Every step of the server and of the peer keeps the invariant.
LEMMA SocketNext == SocketInv /\ [Next]_wsVars => SocketInv'
<1> SUFFICES ASSUME SocketInv, [Next]_wsVars PROVE SocketInv'
  OBVIOUS
<1>1. CASE RunTask
  <2>1. CASE Alive
    <3>1. UNCHANGED closeVars /\ DoWrite(<<Head(tasks)>>)
      BY <1>1, <2>1 DEF RunTask
    <3>2. write_buffers_' # <<>> => sending_buffers_' # <<>>
      BY <3>1, DoWriteKeeps DEF SocketInv
    <3> QED
      BY <3>1, <3>2 DEF SocketInv, NothingLeftBehind, ClosedIsTold, CallIsFlagged, closeVars
  <2>2. CASE ~Alive
    BY <1>1, <2>2, UntouchedKeeps DEF RunTask
  <2> QED
    BY <2>1, <2>2
<1>2. CASE WriteDone
  BY <1>2 DEF WriteDone, SocketInv, NothingLeftBehind, ClosedIsTold, CallIsFlagged
<1>3. CASE WriteFails
  <2>1. close_connection_' /\ CheckDestroy /\ UNCHANGED is_close_handler_called_
    BY <1>3 DEF WriteFails
  <2> QED
    BY <2>1, CheckDestroyTells DEF SocketInv, NothingLeftBehind, ClosedIsTold
<1>4. CASE ReadFails
  <2>1. close_connection_' /\ CheckDestroy /\ UNCHANGED is_close_handler_called_
    BY <1>4 DEF ReadFails
  <2> QED
    BY <2>1, CheckDestroyTells DEF SocketInv, NothingLeftBehind, ClosedIsTold
<1>5. CASE ReadPayload
  <2>1. CASE LeftOfPayload = 0
    BY <1>5, <2>1, FragmentKeeps DEF ReadPayload
  <2>2. CASE LeftOfPayload # 0
    BY <1>5, <2>2, UntouchedKeeps DEF ReadPayload
  <2> QED
    BY <2>1, <2>2
<1>6. CASE ReadMiniHeader \/ ReadLength \/ ReadMask \/ HeaderSplit
  BY <1>6, UntouchedKeeps DEF ReadMiniHeader, ReadLength, ReadMask, HeaderSplit
<1>7. CASE Peer
  BY <1>7, UntouchedKeeps DEF Peer, PeerSendsData, PeerSendsControl, PeerGoes
<1>8. CASE UNCHANGED wsVars
  BY <1>8, UntouchedKeeps DEF wsVars
<1> QED
  BY <1>1, <1>2, <1>3, <1>4, <1>5, <1>6, <1>7, <1>8 DEF Next, Server

\* The invariant holds in every state of a connection.
LEMMA SocketInvariant == Spec => []SocketInv
<1> QED
  BY SocketInit, SocketNext, PTL DEF Spec

\* Nothing a handler has sent waits in write_buffers_ without a write under way that
\* takes it along, as long as the connection is not given up.
THEOREM SocketLeavesNothingBehind == Spec => []NothingLeftBehind
<1>1. SocketInv => NothingLeftBehind
  BY DEF SocketInv
<1> QED
  BY <1>1, SocketInvariant, PTL

\* The app never drops a connection without its close handler having been called,
\* whichever of a close frame, a failing read and a failing write comes first.
THEOREM SocketCloseIsTold == Spec => []ClosedIsTold
<1>1. SocketInv => ClosedIsTold
  BY DEF SocketInv
<1> QED
  BY <1>1, SocketInvariant, PTL

-----------------------------------------------------------------------------
(* The reader, and what it makes of the pieces that are on their way *)

Piece == [kind : {"MiniHeader", "Len16", "Len64", "Mask"}, header : Headers]
         \cup [kind : {"Payload"}, data : Nat]

ReaderOf(state, header, left, fragment, message, handed) ==
    [state |-> state, header |-> header, left |-> left, fragment |-> fragment,
     message |-> message, handed |-> handed]
Reader == ReaderOf(state_, mini_header_, remaining_length_, fragment_, message_, delivered)

\* The reader once it has handled the payload that it has read to its end, if it has.
Settle(r) ==
    IF r.state = "Payload" /\ r.left = 0
    THEN IF r.header.op \in {"close", "ping"}
         THEN ReaderOf("MiniHeader", r.header, 0, <<>>, r.message, r.handed)
         ELSE IF r.header.fin
         THEN ReaderOf("MiniHeader", r.header, 0, <<>>, <<>>,
                       Append(r.handed, r.message \o r.fragment))
         ELSE ReaderOf("MiniHeader", r.header, 0, <<>>, r.message \o r.fragment, r.handed)
    ELSE r

\* The reader after one more piece.
Decoded(r, p) ==
    IF r.state = "MiniHeader"
    THEN ReaderOf(LengthState(p.header.size), p.header, p.header.size, r.fragment, r.message,
                  r.handed)
    ELSE IF r.state \in {"Len16", "Len64"}
    THEN ReaderOf("Mask", r.header, r.left, r.fragment, r.message, r.handed)
    ELSE IF r.state = "Mask"
    THEN Settle(ReaderOf("Payload", r.header, r.left, r.fragment, r.message, r.handed))
    ELSE Settle(ReaderOf("Payload", r.header, r.left - 1, Append(r.fragment, p.data), r.message,
                         r.handed))

\* The readers that a queue of pieces leads to, one after the other.
Reads(r, s, q) ==
    /\ DOMAIN r = 0..Len(q) /\ r[0] = s
    /\ \A k \in 1..Len(q) : r[k] = Decoded(r[k - 1], q[k])

Begins(s, t) == \E n \in 0..Len(t) : s = SubSeq(t, 1, n)

\* The reader is between frames and has all that the peer has made.
CaughtUp(r) == /\ r.state = "MiniHeader" /\ r.fragment = <<>>
               /\ r.message = pose /\ r.handed = posed

\* Reading on will hand over what the peer has posed, in order, and all of it unless
\* the peer goes.
Expected ==
    \E r : /\ Reads(r, Settle(Reader), incoming)
           /\ \A k \in 0..Len(incoming) : Begins(r[k].handed, posed)
           /\ peer # "gone" => CaughtUp(r[Len(incoming)])

MessagesInv ==
    /\ incoming \in Seq(Piece) /\ made \in Nat
    /\ posed \in Seq(Seq(Nat)) /\ pose \in Seq(Nat)
    /\ Begins(delivered, posed)
    /\ reading => Expected

-----------------------------------------------------------------------------
(* Sequences and runs of the reader *)

\* It is what the channel calls a prefix.
LEMMA BeginsIsPrefix ==
    ASSUME NEW S, NEW t \in Seq(S), NEW s, Begins(s, t)
    PROVE  s \in Seq(S) /\ IsPrefix(s, t)
<1>1. PICK n \in 0..Len(t) : s = SubSeq(t, 1, n)
  BY DEF Begins
<1>2. /\ s \in Seq(S) /\ Len(s) = n /\ n <= Len(t) /\ DOMAIN s = 1..n
      /\ \A k \in 1..n : s[k] = t[k]
  BY <1>1
<1>3. SubSeq(s, 1, Len(s)) = s
  BY <1>2
<1> QED
  BY <1>1, <1>2, <1>3 DEF IsPrefix

\* What begins a sequence begins it when it has grown.
LEMMA BeginsGrows ==
    ASSUME NEW S, NEW t \in Seq(S), NEW x \in S, NEW s, Begins(s, t)
    PROVE  Begins(s, Append(t, x))
<1>1. PICK n \in 0..Len(t) : s = SubSeq(t, 1, n)
  BY DEF Begins
<1>2. SubSeq(Append(t, x), 1, n) = SubSeq(t, 1, n) /\ n \in 0..Len(Append(t, x))
  BY <1>1
<1> QED
  BY <1>1, <1>2 DEF Begins

\* A sequence begins itself.
LEMMA BeginsSelf ==
    ASSUME NEW S, NEW t \in Seq(S)
    PROVE  Begins(t, t)
<1>1. SubSeq(t, 1, Len(t)) = t /\ Len(t) \in 0..Len(t)
  OBVIOUS
<1> QED
  BY <1>1 DEF Begins

\* A piece that is read is the first of the run.
LEMMA ReadsTail ==
    ASSUME NEW q \in Seq(Piece), q # <<>>, NEW s, NEW r, Reads(r, s, q)
    PROVE  LET l == [k \in 0..(Len(q) - 1) |-> r[k + 1]]
           IN  /\ Reads(l, Decoded(s, Head(q)), Tail(q))
               /\ \A k \in 0..Len(Tail(q)) : l[k] = r[k + 1] /\ k + 1 \in 0..Len(q)
               /\ l[Len(Tail(q))] = r[Len(q)]
<1> DEFINE l == [k \in 0..(Len(q) - 1) |-> r[k + 1]]
<1>1. /\ Len(q) \in Nat /\ Len(q) > 0 /\ Len(Tail(q)) = Len(q) - 1 /\ Head(q) = q[1]
      /\ \A k \in 1..(Len(q) - 1) : Tail(q)[k] = q[k + 1]
  OBVIOUS
<1>2. r[0] = s /\ \A k \in 1..Len(q) : r[k] = Decoded(r[k - 1], q[k])
  BY DEF Reads
<1>3. DOMAIN l = 0..Len(Tail(q)) /\ \A k \in 0..Len(Tail(q)) : l[k] = r[k + 1]
  BY <1>1
<1>4. l[0] = Decoded(s, Head(q))
  BY <1>1, <1>2
<1>5. ASSUME NEW k \in 1..Len(Tail(q))
      PROVE  l[k] = Decoded(l[k - 1], Tail(q)[k])
  <2>1. k + 1 \in 1..Len(q) /\ k - 1 \in 0..Len(Tail(q)) /\ (k + 1) - 1 = k /\ (k - 1) + 1 = k
    BY <1>1
  <2>2. r[k + 1] = Decoded(r[k], q[k + 1])
    BY <1>2, <2>1
  <2> QED
    BY <1>1, <1>3, <2>1, <2>2
<1> HIDE DEF l
<1>6. Reads(l, Decoded(s, Head(q)), Tail(q))
  BY <1>3, <1>4, <1>5 DEF Reads
<1>7. l[Len(Tail(q))] = r[Len(q)]
  BY <1>1, <1>3
<1> QED
  BY <1>1, <1>3, <1>6, <1>7 DEF l

\* Pieces that are sent carry the run on.
LEMMA ReadsOn ==
    ASSUME NEW q \in Seq(Piece), NEW t \in Seq(Piece), NEW s, NEW r, Reads(r, s, q),
           NEW e, Reads(e, r[Len(q)], t)
    PROVE  LET l == [k \in 0..(Len(q) + Len(t)) |->
                        IF k <= Len(q) THEN r[k] ELSE e[k - Len(q)]]
           IN  /\ Reads(l, s, q \o t) /\ l[Len(q \o t)] = e[Len(t)]
               /\ \A k \in 0..Len(q \o t) :
                     \/ k \in 0..Len(q) /\ l[k] = r[k]
                     \/ \E n \in 0..Len(t) : l[k] = e[n]
<1> DEFINE l == [k \in 0..(Len(q) + Len(t)) |->
                    IF k <= Len(q) THEN r[k] ELSE e[k - Len(q)]]
           u == q \o t
<1>1. /\ Len(q) \in Nat /\ Len(t) \in Nat /\ Len(u) = Len(q) + Len(t)
      /\ \A k \in 1..Len(q) : u[k] = q[k]
      /\ \A k \in 1..Len(u) : k > Len(q) => u[k] = t[k - Len(q)]
  OBVIOUS
<1>2. /\ r[0] = s /\ \A k \in 1..Len(q) : r[k] = Decoded(r[k - 1], q[k])
      /\ e[0] = r[Len(q)] /\ \A k \in 1..Len(t) : e[k] = Decoded(e[k - 1], t[k])
  BY DEF Reads
<1>3. /\ DOMAIN l = 0..Len(u) /\ \A k \in 0..Len(q) : l[k] = r[k]
      /\ \A k \in 0..Len(t) : l[Len(q) + k] = e[k]
  <2>1. l[Len(q) + 0] = e[0]
    BY <1>1, <1>2
  <2>2. ASSUME NEW k \in 1..Len(t) PROVE l[Len(q) + k] = e[k]
    <3>1. Len(q) + k \in 0..(Len(q) + Len(t)) /\ ~(Len(q) + k <= Len(q))
          /\ (Len(q) + k) - Len(q) = k
      BY <1>1
    <3> QED
      BY <3>1
  <2>3. \A k \in 0..Len(t) : k = 0 \/ k \in 1..Len(t)
    BY <1>1
  <2>4. \A k \in 0..Len(q) : k \in 0..(Len(q) + Len(t)) /\ k <= Len(q)
    BY <1>1
  <2>5. DOMAIN l = 0..Len(u)
    BY <1>1
  <2>6. \A k \in 0..Len(q) : l[k] = r[k]
    BY <2>4
  <2> HIDE DEF l
  <2> QED
    BY <2>1, <2>2, <2>3, <2>5, <2>6
<1> HIDE DEF l, u
<1>4. ASSUME NEW k \in 1..Len(u)
      PROVE  l[k] = Decoded(l[k - 1], u[k])
  <2>1. CASE k <= Len(q)
    <3>1. k \in 1..Len(q) /\ k \in 0..Len(q) /\ k - 1 \in 0..Len(q)
      BY <1>1, <2>1
    <3> QED
      BY <1>1, <1>2, <1>3, <3>1
  <2>2. CASE k > Len(q)
    <3> DEFINE n == k - Len(q)
    <3>3. u[k] = t[n]
      BY <1>1, <2>2
    <3>4. k \in Nat /\ k <= Len(q) + Len(t) /\ Len(q) \in Nat /\ Len(t) \in Nat
      BY <1>1
    <3>1. /\ n \in 1..Len(t) /\ n \in 0..Len(t) /\ n - 1 \in 0..Len(t)
          /\ k = Len(q) + n /\ k - 1 = Len(q) + (n - 1)
      BY <2>2, <3>4
    <3>2. e[n] = Decoded(e[n - 1], t[n])
      BY <1>2, <3>1
    <3> HIDE DEF n
    <3> QED
      BY <1>3, <3>1, <3>2, <3>3
  <2> QED
    BY <1>1, <2>1, <2>2
<1>5. Reads(l, s, u)
  BY <1>1, <1>2, <1>3, <1>4 DEF Reads
<1>6. l[Len(u)] = e[Len(t)]
  BY <1>1, <1>3
<1>7. ASSUME NEW k \in 0..Len(u)
      PROVE  \/ k \in 0..Len(q) /\ l[k] = r[k]
             \/ \E n \in 0..Len(t) : l[k] = e[n]
  <2>1. CASE k <= Len(q)
    BY <1>1, <1>3, <2>1
  <2>2. CASE k > Len(q)
    <3>1. k - Len(q) \in 0..Len(t) /\ Len(q) + (k - Len(q)) = k
      BY <1>1, <2>2
    <3> QED
      BY <1>3, <3>1
  <2> QED
    BY <1>1, <2>1, <2>2
<1> QED
  BY <1>5, <1>6, <1>7 DEF l, u

\* The pieces of a frame: the header first, then the length's bytes if it has some and
\* the mask, which ends at place h, and the payload.
LEMMA PiecesMean ==
    ASSUME NEW header \in Headers, NEW c \in Nat
    PROVE  LET chunks == [k \in 1..header.size |-> c]
               P == Pieces(header, chunks)
               h == IF LengthState(header.size) = "Mask" THEN 2 ELSE 3
           IN  /\ P \in Seq(Piece) /\ Len(P) = h + header.size
               /\ P[1].header = header
               /\ \A k \in 1..header.size : P[h + k].data = c
<1> DEFINE chunks == [k \in 1..header.size |-> c]
           piece(kind) == [kind |-> kind, header |-> header]
           h == IF LengthState(header.size) = "Mask" THEN 2 ELSE 3
           A == IF LengthState(header.size) = "Mask" THEN <<>>
                ELSE <<piece(LengthState(header.size))>>
           B == <<piece("MiniHeader")>> \o A \o <<piece("Mask")>>
           C == [k \in DOMAIN chunks |-> [kind |-> "Payload", data |-> chunks[k]]]
<1>1. header.size \in Nat
  BY BoundAssumption DEF Headers
<1>2. /\ piece("MiniHeader") \in Piece /\ piece("Mask") \in Piece
      /\ piece(LengthState(header.size)) \in Piece
  BY DEF Piece, LengthState
<1>3. piece("MiniHeader").header = header
  OBVIOUS
<1>4. C \in Seq(Piece) /\ Len(C) = header.size /\ \A k \in 1..header.size : C[k].data = c
  <2>1. C = [k \in 1..header.size |-> [kind |-> "Payload", data |-> c]]
    BY <1>1
  <2> DEFINE d == [kind |-> "Payload", data |-> c]
  <2>2. d \in Piece /\ d.data = c
    BY DEF Piece
  <2>3. C = [k \in 1..header.size |-> d]
    BY <2>1
  <2> HIDE DEF d, C
  <2>4. C \in Seq(Piece) /\ Len(C) = header.size
    BY <1>1, <2>2, <2>3
  <2>5. \A k \in 1..header.size : C[k] = d
    BY <2>3
  <2> QED
    BY <2>2, <2>4, <2>5
<1>5. Pieces(header, chunks) = B \o C
  BY DEF Pieces
<1> HIDE DEF piece, C
<1>6. B \in Seq(Piece) /\ Len(B) = h /\ B[1] = piece("MiniHeader")
  <2>1. CASE LengthState(header.size) = "Mask"
    BY <1>2, <2>1
  <2>2. CASE LengthState(header.size) # "Mask"
    BY <1>2, <2>2
  <2> QED
    BY <2>1, <2>2
<1>7. h \in {2, 3}
  OBVIOUS
<1> HIDE DEF B, h
<1>8. /\ B \o C \in Seq(Piece) /\ Len(B \o C) = h + header.size /\ (B \o C)[1] = B[1]
      /\ \A k \in 1..header.size : (B \o C)[h + k] = C[k]
  BY <1>1, <1>4, <1>6, <1>7
<1> QED
  BY <1>3, <1>4, <1>5, <1>6, <1>8 DEF h

\* A frame is read to its end: a data frame adds its payload to the message and hands
\* it over if it is the last, a control frame leaves the message alone.
LEMMA FrameReads ==
    ASSUME NEW header \in Headers, NEW c \in Nat, NEW s, s.state = "MiniHeader",
           s.fragment = <<>>
    PROVE  LET chunks == [k \in 1..header.size |-> c]
               P == Pieces(header, chunks)
               z == Settle(ReaderOf("Payload", header, 0, chunks, s.message, s.handed))
           IN  \E e : /\ Reads(e, s, P) /\ e[Len(P)] = z
                      /\ \A k \in 0..Len(P) : e[k].handed \in {s.handed, z.handed}
<1> DEFINE some(n) == [k \in 1..n |-> c]
           P == Pieces(header, some(header.size))
           h == IF LengthState(header.size) = "Mask" THEN 2 ELSE 3
           unread(state) == ReaderOf(state, header, header.size, <<>>, s.message, s.handed)
           raw(n) == ReaderOf("Payload", header, header.size - n, some(n), s.message, s.handed)
           e == [k \in 0..Len(P) |->
                    IF k = 0 THEN s
                    ELSE IF k = 1 THEN unread(LengthState(header.size))
                    ELSE IF k < h THEN unread("Mask")
                    ELSE Settle(raw(k - h))]
<1>1. header.size \in Nat
  BY BoundAssumption DEF Headers
<1>2. /\ P \in Seq(Piece) /\ Len(P) = h + header.size
      /\ P[1].header = header /\ \A k \in 1..header.size : P[h + k].data = c
  BY PiecesMean
<1>3. /\ h \in {2, 3} /\ LengthState(header.size) \in {"Mask", "Len16", "Len64"}
      /\ h = 2 <=> LengthState(header.size) = "Mask"
  BY DEF LengthState
<1> HIDE DEF P, h
<1>4. some(0) = <<>>
  OBVIOUS
<1>5. ASSUME NEW n \in Nat PROVE Append(some(n), c) = some(n + 1)
  OBVIOUS
<1>6. ASSUME NEW k \in 1..Len(P)
      PROVE  e[k] = Decoded(e[k - 1], P[k])
  <2>0. k \in 0..Len(P) /\ k - 1 \in 0..Len(P) /\ k \in Nat /\ k <= h + header.size
    BY <1>1, <1>2, <1>3
  <2>1. CASE k = 1
    <3>1. e[1] = unread(LengthState(header.size)) /\ e[0] = s
      BY <2>0, <2>1
    <3>2. Decoded(s, P[1]) = unread(LengthState(header.size))
      BY <1>2 DEF Decoded, ReaderOf
    <3> HIDE DEF e
    <3> QED
      BY <2>1, <3>1, <3>2
  <2>2. CASE k > 1 /\ k < h
    <3>1. k = 2 /\ h = 3
      BY <1>3, <2>0, <2>2
    <3>2. e[2] = unread("Mask") /\ e[1] = unread(LengthState(header.size))
      BY <2>0, <3>1
    <3> HIDE DEF e
    <3>3. LengthState(header.size) \in {"Len16", "Len64"}
      BY <1>3, <3>1
    <3>4. Decoded(unread(LengthState(header.size)), P[2]) = unread("Mask")
      BY <3>3 DEF Decoded, ReaderOf
    <3> QED
      BY <3>1, <3>2, <3>4
  <2>3. CASE k = h
    <3>1. e[h] = Settle(raw(0)) /\ raw(0) = unread("Payload")
      <4>1. e[h] = Settle(raw(h - h))
        BY <1>3, <2>0, <2>3
      <4>2. h - h = 0 /\ header.size - 0 = header.size
        BY <1>1, <1>3
      <4> QED
        BY <1>4, <4>1, <4>2
    <3>2. e[h - 1] = unread("Mask")
      <4>1. CASE h = 2
        <5>1. e[1] = unread(LengthState(header.size))
          BY <1>1, <1>2, <4>1
        <5> QED
          BY <1>3, <4>1, <5>1
      <4>2. CASE h = 3
        <5>1. e[2] = unread("Mask")
          BY <1>1, <1>2, <4>2
        <5> QED
          BY <4>2, <5>1
      <4> QED
        BY <1>3, <4>1, <4>2
    <3> HIDE DEF e
    <3> QED
      BY <2>3, <3>1, <3>2 DEF Decoded, ReaderOf
  <2>4. CASE k > h
    <3> DEFINE n == k - h
    <3>1. /\ n \in Nat /\ n >= 1 /\ n <= header.size /\ k = h + n /\ k - 1 >= h
          /\ (k - 1) - h = n - 1 /\ (n - 1) + 1 = n /\ n - 1 \in Nat
          /\ header.size - (n - 1) - 1 = header.size - n /\ header.size - (n - 1) # 0
      <4>1. n \in Nat /\ n >= 1 /\ n <= header.size /\ k = h + n /\ h \in Nat
        BY <1>1, <1>3, <2>0, <2>4
      <4> HIDE DEF n
      <4> QED
        BY <1>1, <4>1
    <3>2. e[k] = Settle(raw(n))
      BY <1>3, <2>0, <2>4
    <3>3. e[k - 1] = Settle(raw(n - 1))
      BY <1>3, <2>0, <2>4, <3>1
    <3>4. P[k].data = c
      BY <1>2, <3>1
    <3> HIDE DEF n, e
    <3>5. Settle(raw(n - 1)) = raw(n - 1)
      BY <3>1 DEF Settle, ReaderOf
    <3>6. Append(some(n - 1), c) = some(n)
      BY <1>5, <3>1
    <3> HIDE DEF some
    <3>7. Decoded(raw(n - 1), P[k]) =
            Settle(ReaderOf("Payload", header, (header.size - (n - 1)) - 1,
                            Append(some(n - 1), P[k].data), s.message, s.handed))
      BY DEF Decoded, ReaderOf
    <3> QED
      BY <3>1, <3>2, <3>3, <3>4, <3>5, <3>6, <3>7
  <2> QED
    BY <1>3, <2>0, <2>1, <2>2, <2>3, <2>4
<1>7. DOMAIN e = 0..Len(P) /\ e[0] = s
  BY <1>1, <1>2, <1>3
<1>8. e[Len(P)] = Settle(ReaderOf("Payload", header, 0, some(header.size), s.message, s.handed))
  <2>3. Len(P) \in 0..Len(P) /\ Len(P) # 0 /\ Len(P) # 1 /\ ~(Len(P) < h)
    BY <1>1, <1>2, <1>3
  <2>1. e[Len(P)] = Settle(raw(Len(P) - h))
    BY <2>3
  <2>2. Len(P) - h = header.size /\ header.size - header.size = 0
    BY <1>1, <1>2, <1>3
  <2> HIDE DEF e
  <2> QED
    BY <2>1, <2>2
<1>9. ASSUME NEW k \in 0..Len(P)
      PROVE  e[k].handed \in {s.handed, e[Len(P)].handed}
  <2>1. CASE k < h
    <3>1. e[k] \in {s, unread(LengthState(header.size)), unread("Mask")}
      BY <2>1
    <3> HIDE DEF e
    <3> QED
      BY <3>1 DEF ReaderOf
  <2>2. CASE k >= h /\ k # Len(P)
    <3>1. e[k] = Settle(raw(k - h)) /\ header.size - (k - h) # 0
      BY <1>1, <1>2, <1>3, <2>2
    <3> HIDE DEF e
    <3> QED
      BY <3>1 DEF Settle, ReaderOf
  <2>3. CASE k = Len(P)
    BY <2>3
  <2>4. k < h \/ k >= h
    BY <1>3
  <2> HIDE DEF e
  <2> QED
    BY <2>1, <2>2, <2>3, <2>4
<1> HIDE DEF e
<1>10. Reads(e, s, P)
  BY <1>6, <1>7 DEF Reads
<1> QED
  BY <1>8, <1>9, <1>10 DEF P

-----------------------------------------------------------------------------
(* The messages *)

\* What is expected in the next state.
LEMMA ExpectedNext ==
    ASSUME NEW r, Reads(r, Settle(Reader)', incoming'),
           \A k \in 0..Len(incoming') : Begins(r[k].handed, posed'),
           peer' # "gone" => LET z == r[Len(incoming')]
                             IN  /\ z.state = "MiniHeader" /\ z.fragment = <<>>
                                 /\ z.message = pose' /\ z.handed = posed'
    PROVE  Expected'
BY DEF Expected, Reads, Begins, CaughtUp

\* A piece that is read leaves the reader where the run was to lead.
LEMMA PieceRead ==
    ASSUME incoming \in Seq(Piece), incoming # <<>>, Expected, incoming' = Tail(incoming),
           UNCHANGED <<peer, posed, pose>>,
           Settle(Reader)' = Decoded(Settle(Reader), Head(incoming))
    PROVE  Expected'
<1>1. PICK r : /\ Reads(r, Settle(Reader), incoming)
               /\ \A k \in 0..Len(incoming) : Begins(r[k].handed, posed)
               /\ peer # "gone" => CaughtUp(r[Len(incoming)])
  BY DEF Expected
<1> DEFINE l == [k \in 0..(Len(incoming) - 1) |-> r[k + 1]]
<1>2. /\ Reads(l, Decoded(Settle(Reader), Head(incoming)), Tail(incoming))
      /\ \A k \in 0..Len(Tail(incoming)) : l[k] = r[k + 1] /\ k + 1 \in 0..Len(incoming)
      /\ l[Len(Tail(incoming))] = r[Len(incoming)]
  BY <1>1, ReadsTail
<1> HIDE DEF l
<1>3. Reads(l, Settle(Reader)', incoming')
  BY <1>2
<1>4. ASSUME NEW k \in 0..Len(incoming') PROVE Begins(l[k].handed, posed')
  <2>1. k \in 0..Len(Tail(incoming))
    OBVIOUS
  <2>2. l[k] = r[k + 1] /\ k + 1 \in 0..Len(incoming)
    BY <1>2, <2>1
  <2>3. Begins(r[k + 1].handed, posed)
    BY <1>1, <2>2
  <2> QED
    BY <2>2, <2>3
<1>5. ASSUME peer' # "gone"
      PROVE  LET z == l[Len(incoming')]
             IN  /\ z.state = "MiniHeader" /\ z.fragment = <<>>
                 /\ z.message = pose' /\ z.handed = posed'
  <2>1. CaughtUp(r[Len(incoming)])
    BY <1>1, <1>5
  <2>2. l[Len(incoming')] = r[Len(incoming)]
    BY <1>2
  <2> QED
    BY <2>1, <2>2 DEF CaughtUp
<1> QED
  BY <1>3, <1>4, <1>5, ExpectedNext

\* What does not touch the reader and its queue.
LEMMA MessagesUntouched ==
    ASSUME MessagesInv, UNCHANGED <<incoming, state_, mini_header_, remaining_length_,
                                    fragment_, message_, delivered, peer, posed, pose>>,
           reading' => reading, made' \in Nat
    PROVE  MessagesInv'
<1>1. Reader' = Reader
  BY DEF Reader
<1>2. Expected => Expected'
  BY <1>1 DEF Expected, Reads, CaughtUp, Begins
<1> QED
  BY <1>2 DEF MessagesInv, Begins

\* A frame the peer makes carries the run on to what the peer has posed by then.
LEMMA FramePosed ==
    ASSUME MessagesInv, UNCHANGED <<readVars, delivered>>, peer # "gone",
           NEW header \in Headers, NEW c \in Nat,
           incoming' = incoming \o Pieces(header, [k \in 1..header.size |-> c]),
           \/ header.op \in {"close", "ping"} /\ UNCHANGED <<posed, pose>>
           \/ /\ header.op \notin {"close", "ping"} /\ header.fin
              /\ posed' = Append(posed, pose \o [k \in 1..header.size |-> c]) /\ pose' = <<>>
           \/ /\ header.op \notin {"close", "ping"} /\ ~header.fin
              /\ posed' = posed /\ pose' = pose \o [k \in 1..header.size |-> c],
           made' \in Nat
    PROVE  MessagesInv'
<1> DEFINE chunks == [k \in 1..header.size |-> c]
           P == Pieces(header, chunks)
<1>1. /\ incoming \in Seq(Piece) /\ posed \in Seq(Seq(Nat)) /\ pose \in Seq(Nat)
      /\ Begins(delivered, posed)
      /\ reading => Expected
  BY DEF MessagesInv
<1>2. chunks \in Seq(Nat)
  BY BoundAssumption DEF Headers
<1>3. P \in Seq(Piece)
  BY PiecesMean
<1>4. /\ incoming' = incoming \o P
      /\ \/ header.op \in {"close", "ping"} /\ UNCHANGED <<posed, pose>>
         \/ /\ header.op \notin {"close", "ping"} /\ header.fin
            /\ posed' = Append(posed, pose \o chunks) /\ pose' = <<>>
         \/ /\ header.op \notin {"close", "ping"} /\ ~header.fin
            /\ posed' = posed /\ pose' = pose \o chunks
  OBVIOUS
<1> HIDE DEF chunks, P
<1>5. incoming' \in Seq(Piece)
  <2>1. \A a, b \in Seq(Piece) : a \o b \in Seq(Piece)
    OBVIOUS
  <2> QED
    BY <1>1, <1>3, <1>4, <2>1, Zenon
<1>6. posed' \in Seq(Seq(Nat)) /\ pose' \in Seq(Nat)
  <2>1. pose \o chunks \in Seq(Nat)
    BY <1>1, <1>2
  <2>2. \A x \in Seq(Nat) : Append(posed, x) \in Seq(Seq(Nat))
    BY <1>1
  <2>3. <<>> \in Seq(Nat)
    OBVIOUS
  <2> QED
    BY <1>1, <1>4, <2>1, <2>2, <2>3, Zenon
<1>7. ASSUME NEW s, Begins(s, posed) PROVE Begins(s, posed')
  <2>1. pose \o chunks \in Seq(Nat)
    BY <1>1, <1>2
  <2>2. CASE posed' = posed
    BY <1>7, <2>2
  <2>3. CASE posed' = Append(posed, pose \o chunks)
    BY <1>1, <1>7, <2>1, <2>3, BeginsGrows
  <2> QED
    BY <1>4, <2>2, <2>3
<1>8. ASSUME reading PROVE Expected'
  <2>0. Expected
    BY <1>1, <1>8
  <2>1. PICK r : /\ Reads(r, Settle(Reader), incoming)
                 /\ \A k \in 0..Len(incoming) : Begins(r[k].handed, posed)
                 /\ peer # "gone" => CaughtUp(r[Len(incoming)])
    BY <2>0 DEF Expected
  <2> DEFINE s == r[Len(incoming)]
             z == Settle(ReaderOf("Payload", header, 0, chunks, s.message, s.handed))
  <2>2. s.state = "MiniHeader" /\ s.fragment = <<>> /\ s.message = pose /\ s.handed = posed
    BY <2>1 DEF CaughtUp
  <2>3. PICK e : /\ Reads(e, s, P) /\ e[Len(P)] = z
                 /\ \A k \in 0..Len(P) : e[k].handed \in {s.handed, z.handed}
    BY <2>2, FrameReads DEF chunks, P
  <2>4. /\ z.state = "MiniHeader" /\ z.fragment = <<>>
        /\ z.message = pose' /\ z.handed = posed'
    <3> HIDE DEF s
    <3>1. CASE header.op \in {"close", "ping"}
      BY <1>4, <2>2, <3>1 DEF Settle, ReaderOf
    <3>2. CASE header.op \notin {"close", "ping"} /\ header.fin
      BY <1>4, <2>2, <3>2 DEF Settle, ReaderOf
    <3>3. CASE header.op \notin {"close", "ping"} /\ ~header.fin
      BY <1>4, <2>2, <3>3 DEF Settle, ReaderOf
    <3> QED
      BY <3>1, <3>2, <3>3
  <2> HIDE DEF s, z
  <2> DEFINE l == [k \in 0..(Len(incoming) + Len(P)) |->
                      IF k <= Len(incoming) THEN r[k] ELSE e[k - Len(incoming)]]
  <2>5. /\ Reads(l, Settle(Reader), incoming \o P) /\ l[Len(incoming \o P)] = e[Len(P)]
        /\ \A k \in 0..Len(incoming \o P) :
              \/ k \in 0..Len(incoming) /\ l[k] = r[k]
              \/ \E n \in 0..Len(P) : l[k] = e[n]
    BY <1>1, <1>3, <2>1, <2>3, ReadsOn DEF s
  <2> HIDE DEF l
  <2>6. Begins(posed, posed') /\ Begins(posed', posed')
    BY <1>1, <1>6, <1>7, BeginsSelf
  <2>7. \A k \in 0..Len(incoming') : Begins(l[k].handed, posed')
    <3> SUFFICES ASSUME NEW k \in 0..Len(incoming \o P) PROVE Begins(l[k].handed, posed')
      BY <1>4
    <3>1. CASE k \in 0..Len(incoming) /\ l[k] = r[k]
      BY <1>7, <2>1, <3>1
    <3>2. CASE \E n \in 0..Len(P) : l[k] = e[n]
      BY <2>2, <2>3, <2>4, <2>6, <3>2
    <3> QED
      BY <2>5, <3>1, <3>2
  <2>8. l[Len(incoming')] = z
    BY <1>4, <2>3, <2>5
  <2>9. Reads(l, Settle(Reader)', incoming')
    <3>1. Reader' = Reader
      BY DEF Reader, readVars
    <3> QED
      BY <1>4, <2>5, <3>1 DEF Settle
  <2> QED
    BY <2>4, <2>7, <2>8, <2>9, ExpectedNext
<1> QED
  BY <1>1, <1>5, <1>6, <1>7, <1>8 DEF MessagesInv, readVars, Begins

\* At first nothing is on its way and nothing has been posed.
LEMMA MessagesInit == Init => MessagesInv
<1> SUFFICES ASSUME Init PROVE MessagesInv
  OBVIOUS
<1>1. /\ incoming = <<>> /\ posed = <<>> /\ pose = <<>> /\ delivered = <<>> /\ made = 0
      /\ state_ = "MiniHeader" /\ fragment_ = <<>> /\ message_ = <<>>
  BY DEF Init
<1>2. Begins(<<>>, posed)
  <2>1. <<>> \in Seq(Nat)
    OBVIOUS
  <2>2. Begins(<<>>, <<>>)
    BY <2>1, BeginsSelf, Zenon
  <2> QED
    BY <1>1, <2>2
<1>3. Settle(Reader) = Reader
  BY <1>1 DEF Settle, Reader, ReaderOf
<1> DEFINE r == [k \in 0..0 |-> Reader]
<1>4. r[0] = Reader /\ DOMAIN r = 0..Len(incoming) /\ Len(incoming) = 0
  BY <1>1
<1> HIDE DEF r
<1>5. Reads(r, Settle(Reader), incoming)
  BY <1>3, <1>4 DEF Reads
<1>6. \A k \in 0..Len(incoming) : Begins(r[k].handed, posed)
  <2>1. Reader.handed = <<>>
    BY <1>1 DEF Reader, ReaderOf
  <2> QED
    BY <1>2, <1>4, <2>1
<1>7. CaughtUp(r[Len(incoming)])
  BY <1>1, <1>4 DEF CaughtUp, Reader, ReaderOf
<1>8. Expected
  BY <1>5, <1>6, <1>7 DEF Expected
<1> QED
  BY <1>1, <1>2, <1>8 DEF MessagesInv

\* The reads of a header, its length and its mask are steps of the run.
LEMMA HeadReadsKeep ==
    ASSUME MessagesInv, ReadMiniHeader \/ ReadLength \/ ReadMask
    PROVE  MessagesInv'
<1> DEFINE p == Head(incoming)
<1>1. /\ incoming \in Seq(Piece) /\ made \in Nat /\ posed \in Seq(Seq(Nat)) /\ pose \in Seq(Nat)
      /\ Begins(delivered, posed)
      /\ reading => Expected
  BY DEF MessagesInv
<1>2. /\ reading /\ incoming # <<>> /\ incoming' = Tail(incoming)
      /\ UNCHANGED <<reading, peer, posed, pose, made, delivered, fragment_, message_>>
  BY DEF ReadMiniHeader, ReadLength, ReadMask, Take, peerVars, auxVars
<1>3. Settle(Reader)' = Decoded(Settle(Reader), p)
  <2>1. CASE ReadMiniHeader
    <3>1. /\ state_ = "MiniHeader" /\ mini_header_' = p.header
          /\ state_' = LengthState(p.header.size) /\ remaining_length_' = p.header.size
      BY <2>1 DEF ReadMiniHeader, Take
    <3>2. LengthState(p.header.size) # "Payload"
      BY DEF LengthState
    <3> HIDE DEF p
    <3> QED
      BY <1>2, <3>1, <3>2 DEF Settle, Decoded, Reader, ReaderOf
  <2>2. CASE ReadLength
    <3>1. /\ state_ \in {"Len16", "Len64"} /\ state_' = "Mask"
          /\ UNCHANGED <<mini_header_, remaining_length_>>
      BY <2>2 DEF ReadLength, Take
    <3> HIDE DEF p
    <3>2. Settle(Reader) = Reader /\ Settle(Reader)' = Reader'
      BY <3>1 DEF Settle, Reader, ReaderOf
    <3>3. Reader' = ReaderOf("Mask", mini_header_, remaining_length_, fragment_, message_,
                             delivered)
      BY <1>2, <3>1 DEF Reader, ReaderOf
    <3>4. Decoded(Reader, p) = ReaderOf("Mask", mini_header_, remaining_length_, fragment_,
                                        message_, delivered)
      BY <3>1 DEF Decoded, Reader, ReaderOf
    <3> QED
      BY <3>2, <3>3, <3>4
  <2>3. CASE ReadMask
    <3>1. /\ state_ = "Mask" /\ state_' = "Payload"
          /\ UNCHANGED <<mini_header_, remaining_length_>>
      BY <2>3 DEF ReadMask, Take
    <3> HIDE DEF p
    <3> DEFINE s == ReaderOf("Payload", mini_header_, remaining_length_, fragment_, message_,
                             delivered)
    <3>2. Settle(Reader) = Reader
      BY <3>1 DEF Settle, Reader, ReaderOf
    <3>3. Reader' = s
      BY <1>2, <3>1 DEF Reader, ReaderOf
    <3>4. Decoded(Reader, p) = Settle(s)
      BY <3>1 DEF Decoded, Reader, ReaderOf
    <3>5. Settle(Reader)' = Settle(Reader')
      BY DEF Settle, ReaderOf
    <3> HIDE DEF s
    <3> QED
      BY <3>2, <3>3, <3>4, <3>5
  <2> QED
    BY <2>1, <2>2, <2>3
<1>4. Expected'
  BY <1>1, <1>2, <1>3, PieceRead
<1>5. incoming' \in Seq(Piece)
  BY <1>1, <1>2
<1> QED
  BY <1>1, <1>2, <1>4, <1>5 DEF MessagesInv, Begins

\* A read of the payload: the reader is where the run was to lead, or already was
\* when the payload is empty; a close frame ends the reading.
LEMMA PayloadReadKeeps ==
    ASSUME MessagesInv, ReadPayload
    PROVE  MessagesInv'
<1> DEFINE p == Head(incoming)
           empty == remaining_length_ = 0
           payload == IF empty THEN fragment_ ELSE Append(fragment_, p.data)
<1>1. /\ incoming \in Seq(Piece) /\ made \in Nat /\ posed \in Seq(Seq(Nat)) /\ pose \in Seq(Nat)
      /\ Begins(delivered, posed)
      /\ reading => Expected
  BY DEF MessagesInv
<1>2. /\ reading /\ state_ = "Payload" /\ remaining_length_' = LeftOfPayload
      /\ UNCHANGED <<mini_header_, peer, posed, pose, made>>
      /\ empty => incoming' = incoming
      /\ ~empty => incoming # <<>> /\ incoming' = Tail(incoming)
      /\ LeftOfPayload = 0 =>
           handle_fragment(payload) /\ fragment_' = <<>> /\ state_' = "MiniHeader"
      /\ LeftOfPayload # 0 =>
           /\ fragment_' = payload
           /\ UNCHANGED <<state_, reading, message_, delivered>>
  BY DEF ReadPayload, peerVars
<1>3. incoming' \in Seq(Piece)
  <2>1. incoming # <<>> => Tail(incoming) \in Seq(Piece)
    BY <1>1
  <2> HIDE DEF empty
  <2> QED
    BY <1>1, <1>2, <2>1
<1> DEFINE s == ReaderOf("Payload", mini_header_, LeftOfPayload, payload, message_, delivered)
<1>4. ASSUME reading' PROVE Reader' = Settle(s)
  <2>1. CASE LeftOfPayload = 0
    <3>1. handle_fragment(payload)
      BY <1>2, <2>1
    <3>2. mini_header_.op # "close"
      BY <1>4, <3>1 DEF handle_fragment, HandleClose
    <3>3. CASE mini_header_.op = "ping"
      <4>1. UNCHANGED <<message_, delivered>>
        BY <3>1, <3>3 DEF handle_fragment, HandlePing
      <4> HIDE DEF payload
      <4> QED
        BY <1>2, <2>1, <3>3, <4>1 DEF Settle, Reader, ReaderOf
    <3>4. CASE mini_header_.op # "ping"
      <4>1. HandleData(payload)
        BY <3>1, <3>2, <3>4 DEF handle_fragment
      <4> HIDE DEF payload
      <4>2. /\ mini_header_.fin => /\ delivered' = Append(delivered, message_ \o payload)
                                   /\ message_' = <<>>
            /\ ~mini_header_.fin => message_' = message_ \o payload /\ delivered' = delivered
        BY <4>1 DEF HandleData
      <4> QED
        BY <1>2, <2>1, <3>2, <3>4, <4>2 DEF Settle, Reader, ReaderOf
    <3> QED
      BY <3>3, <3>4
  <2>2. CASE LeftOfPayload # 0
    <3> HIDE DEF payload
    <3> QED
      BY <1>2, <2>2 DEF Settle, Reader, ReaderOf
  <2> QED
    BY <2>1, <2>2
<1>5. CASE ~reading'
  <2>1. Begins(delivered, posed)'
    <3>1. delivered' = delivered
      <4>1. LeftOfPayload = 0 /\ handle_fragment(payload)
        BY <1>2, <1>5
      <4> HIDE DEF payload
      <4> QED
        BY <1>2, <1>5, <4>1 DEF handle_fragment, HandleClose, HandlePing, HandleData
    <3> QED
      BY <1>1, <1>2, <3>1 DEF Begins
  <2> QED
    BY <1>1, <1>2, <1>3, <1>5, <2>1 DEF MessagesInv
<1>6. CASE reading'
  <2>1. Settle(Reader)' = Settle(s)
    <3>1. Settle(Settle(s)) = Settle(s)
      BY DEF Settle, ReaderOf
    <3>2. Reader' = Settle(s)
      BY <1>4, <1>6
    <3>3. Settle(Reader)' = Settle(Reader')
      BY DEF Settle
    <3> QED
      BY <3>1, <3>2, <3>3
  <2>2. Expected'
    <3>1. CASE empty
      <4>1. Settle(Reader)' = Settle(Reader)
        <5>1. Reader = s
          BY <1>2, <3>1 DEF Reader, ReaderOf, LeftOfPayload
        <5> QED
          BY <2>1, <5>1
      <4>2. PICK r : /\ Reads(r, Settle(Reader), incoming)
                     /\ \A k \in 0..Len(incoming) : Begins(r[k].handed, posed)
                     /\ peer # "gone" => CaughtUp(r[Len(incoming)])
        BY <1>1, <1>2 DEF Expected
      <4>3. peer # "gone" => LET z == r[Len(incoming)]
                             IN  /\ z.state = "MiniHeader" /\ z.fragment = <<>>
                                 /\ z.message = pose /\ z.handed = posed
        BY <4>2 DEF CaughtUp
      <4> HIDE DEF s
      <4> QED
        BY <1>2, <3>1, <4>1, <4>2, <4>3, ExpectedNext
    <3>2. CASE ~empty
      <4>1. Settle(Reader) = Reader
        BY <3>2 DEF Settle, Reader, ReaderOf
      <4>2. Decoded(Reader, p) = Settle(s)
        <5>1. LeftOfPayload = remaining_length_ - 1 /\ payload = Append(fragment_, p.data)
          BY <3>2 DEF LeftOfPayload
        <5> HIDE DEF p, payload
        <5> QED
          BY <1>2, <5>1 DEF Decoded, Reader, ReaderOf
      <4> HIDE DEF s
      <4> QED
        BY <1>1, <1>2, <2>1, <3>2, <4>1, <4>2, PieceRead
    <3> QED
      BY <3>1, <3>2
  <2>3. Begins(delivered, posed)'
    <3>1. PICK r : r[0] = Settle(Reader)' /\ Begins(r[0].handed, posed)'
      <4>1. PICK r : /\ Reads(r, Settle(Reader)', incoming')
                     /\ \A k \in 0..Len(incoming') : Begins(r[k].handed, posed')
        BY <2>2 DEF Expected, Reads, Begins
      <4>2. 0 \in 0..Len(incoming')
        BY <1>3
      <4> QED
        BY <4>1, <4>2 DEF Reads, Begins
    <3>2. Settle(Reader)'.handed = delivered'
      <4>1. Settle(Reader)' = Reader'
        BY <1>4, <1>6, <2>1
      <4> HIDE DEF s
      <4> QED
        BY <4>1 DEF Reader, ReaderOf
    <3> QED
      BY <3>1, <3>2 DEF Begins
  <2> QED
    BY <1>1, <1>2, <1>3, <2>2, <2>3 DEF MessagesInv
<1> QED
  BY <1>5, <1>6

\* The peer's end goes: what was lost with it was at the end of the run.
LEMMA PeerGoesKeeps ==
    ASSUME MessagesInv, PeerGoes
    PROVE  MessagesInv'
<1>1. /\ incoming \in Seq(Piece) /\ made \in Nat
      /\ posed \in Seq(Seq(Nat)) /\ pose \in Seq(Nat)
      /\ Begins(delivered, posed)
      /\ reading => Expected
  BY DEF MessagesInv
<1>2. /\ peer' = "gone" /\ incoming' \in {incoming, <<>>}
      /\ UNCHANGED <<posed, pose, made, delivered, reading, state_, mini_header_,
                     remaining_length_, fragment_, message_>>
  BY DEF PeerGoes, readVars, auxVars
<1>3. Settle(Reader)' = Settle(Reader)
  <2>1. Reader' = Reader
    BY <1>2 DEF Reader
  <2> QED
    BY <2>1 DEF Settle
<1>4. ASSUME reading PROVE Expected'
  <2>1. PICK r : /\ Reads(r, Settle(Reader), incoming)
                 /\ \A k \in 0..Len(incoming) : Begins(r[k].handed, posed)
    BY <1>1, <1>4 DEF Expected
  <2>2. CASE incoming' = incoming
    BY <1>2, <1>3, <2>1, <2>2, ExpectedNext
  <2>3. CASE incoming' = <<>>
    <3> DEFINE l == [k \in 0..0 |-> r[0]]
    <3>1. l[0] = r[0] /\ DOMAIN l = 0..Len(incoming') /\ Len(incoming') = 0
      BY <2>3
    <3>2. 0 \in 0..Len(incoming)
      BY <1>1
    <3>3. r[0] = Settle(Reader) /\ Begins(r[0].handed, posed)
      BY <2>1, <3>2 DEF Reads
    <3> HIDE DEF l
    <3>4. Reads(l, Settle(Reader)', incoming')
      BY <1>3, <3>1, <3>3 DEF Reads
    <3>5. \A k \in 0..Len(incoming') : Begins(l[k].handed, posed')
      BY <1>2, <3>1, <3>3
    <3> QED
      BY <1>2, <3>4, <3>5, ExpectedNext
  <2> QED
    BY <1>2, <2>2, <2>3
<1>5. incoming' \in Seq(Piece)
  <2>1. <<>> \in Seq(Piece)
    OBVIOUS
  <2> QED
    BY <1>1, <1>2, <2>1, Zenon
<1>6. Begins(delivered, posed)'
  BY <1>1, <1>2 DEF Begins
<1> QED
  BY <1>1, <1>2, <1>4, <1>5, <1>6 DEF MessagesInv

\* The peer's frames.
LEMMA PeerFramesKeep ==
    ASSUME MessagesInv, PeerSendsData \/ PeerSendsControl
    PROVE  MessagesInv'
<1>1. made \in Nat /\ made + 1 \in Nat
  BY DEF MessagesInv
<1>2. CASE PeerSendsData
  <2>1. PICK fin \in BOOLEAN, size \in 0..MaxChunks :
            LET op == IF posing THEN "continuation" ELSE "text"
                chunks == [k \in 1..size |-> made + 1]
            IN /\ incoming' = incoming \o Pieces([op |-> op, fin |-> fin, size |-> size], chunks)
               /\ pose' = IF fin THEN <<>> ELSE pose \o chunks
               /\ posed' = IF fin THEN Append(posed, pose \o chunks) ELSE posed
    BY <1>2 DEF PeerSendsData
  <2> DEFINE header == [op |-> IF posing THEN "continuation" ELSE "text",
                        fin |-> fin, size |-> size]
  <2>2. /\ header \in Headers /\ header.op \notin {"close", "ping"}
        /\ header.fin = fin /\ header.size = size
    BY DEF Headers
  <2>3. /\ UNCHANGED <<readVars, delivered>> /\ peer # "gone" /\ made' = made + 1
    BY <1>2 DEF PeerSendsData, auxVars
  <2>4. incoming' = incoming \o Pieces(header, [k \in 1..header.size |-> made + 1])
    BY <2>1
  <2> HIDE DEF header
  <2>5. \/ /\ header.fin
           /\ posed' = Append(posed, pose \o [k \in 1..header.size |-> made + 1])
           /\ pose' = <<>>
        \/ /\ ~header.fin
           /\ posed' = posed /\ pose' = pose \o [k \in 1..header.size |-> made + 1]
    BY <2>1, <2>2
  <2> QED
    BY <1>1, <2>2, <2>3, <2>4, <2>5, FramePosed
<1>3. CASE PeerSendsControl
  <2>1. PICK op \in {"ping", "close"} :
            incoming' = incoming \o Pieces([op |-> op, fin |-> TRUE, size |-> 0], <<>>)
    BY <1>3 DEF PeerSendsControl
  <2> DEFINE header == [op |-> op, fin |-> TRUE, size |-> 0]
  <2>2. header \in Headers /\ header.op \in {"close", "ping"} /\ header.size = 0
    BY BoundAssumption DEF Headers
  <2>3. /\ UNCHANGED <<readVars, delivered, posed, pose>> /\ peer # "gone"
        /\ made' = made + 1
    BY <1>3 DEF PeerSendsControl, auxVars
  <2>4. <<>> = [k \in 1..0 |-> 0]
    OBVIOUS
  <2>5. incoming' = incoming \o Pieces(header, [k \in 1..0 |-> 0])
    BY <2>1, <2>4
  <2> HIDE DEF header
  <2>6. incoming' = incoming \o Pieces(header, [k \in 1..header.size |-> 0])
    BY <2>2, <2>5
  <2>7. header.op \in {"close", "ping"} /\ UNCHANGED <<posed, pose>>
    BY <2>2, <2>3
  <2>8. 0 \in Nat /\ made' \in Nat
    BY <1>1, <2>3
  <2> QED
    BY <2>2, <2>3, <2>6, <2>7, <2>8, FramePosed
<1> QED
  BY <1>2, <1>3

\* Every step keeps the run.
LEMMA MessagesStep == MessagesInv /\ [Next]_wsVars => MessagesInv'
<1> SUFFICES ASSUME MessagesInv, [Next]_wsVars PROVE MessagesInv'
  OBVIOUS
<1>1. made \in Nat
  BY DEF MessagesInv
<1>2. CASE RunTask \/ WriteDone \/ WriteFails \/ ReadFails \/ UNCHANGED wsVars
  <2>1. CASE RunTask
    BY <1>1, <2>1, MessagesUntouched DEF RunTask, readVars, peerVars, auxVars
  <2>2. CASE WriteDone
    BY <1>1, <2>2, MessagesUntouched DEF WriteDone, readVars, peerVars
  <2>3. CASE WriteFails
    BY <1>1, <2>3, MessagesUntouched DEF WriteFails, readVars, peerVars
  <2>4. CASE ReadFails
    BY <1>1, <2>4, MessagesUntouched DEF ReadFails, peerVars, auxVars
  <2>5. CASE UNCHANGED wsVars
    BY <1>1, <2>5, MessagesUntouched DEF wsVars, readVars, peerVars, auxVars
  <2> QED
    BY <1>2, <2>1, <2>2, <2>3, <2>4, <2>5
<1>3. CASE HeaderSplit
  <2>1. /\ incoming # <<>> /\ incoming' = Tail(incoming) /\ ~reading'
        /\ UNCHANGED <<made, posed, pose, delivered>>
    BY <1>3 DEF HeaderSplit, Take, peerVars
  <2>2. incoming' \in Seq(Piece)
    BY <2>1 DEF MessagesInv
  <2> QED
    BY <2>1, <2>2 DEF MessagesInv, Begins
<1>4. CASE ReadMiniHeader \/ ReadLength \/ ReadMask
  BY <1>4, HeadReadsKeep
<1>5. CASE ReadPayload
  BY <1>5, PayloadReadKeeps
<1>6. CASE PeerSendsData \/ PeerSendsControl
  BY <1>6, PeerFramesKeep
<1>7. CASE PeerGoes
  BY <1>7, PeerGoesKeeps
<1> QED
  BY <1>2, <1>3, <1>4, <1>5, <1>6, <1>7 DEF Next, Server, Peer

\* Only a read that ends a message hands one over, and only the peer poses one.
LEMMA MessagesMove ==
    ASSUME MessagesInv, [Next]_wsVars
    PROVE  \/ UNCHANGED <<posed, delivered>>
           \/ UNCHANGED delivered /\ \E x \in Seq(Nat) : posed' = Append(posed, x)
           \/ UNCHANGED posed /\ \E x : delivered' = Append(delivered, x)
<1>1. CASE UNCHANGED wsVars \/ RunTask \/ WriteDone \/ WriteFails \/ ReadMiniHeader
           \/ ReadLength \/ ReadMask \/ ReadFails \/ HeaderSplit
  <2>1. CASE UNCHANGED wsVars
    BY <2>1 DEF wsVars, peerVars, auxVars
  <2>2. CASE RunTask \/ ReadMiniHeader \/ ReadLength \/ ReadMask \/ ReadFails
    BY <2>2 DEF RunTask, ReadMiniHeader, ReadLength, ReadMask, ReadFails, peerVars, auxVars
  <2>3. CASE WriteDone \/ WriteFails \/ HeaderSplit
    BY <2>3 DEF WriteDone, WriteFails, HeaderSplit, peerVars
  <2> QED
    BY <1>1, <2>1, <2>2, <2>3
<1>2. CASE ReadPayload
  <2> DEFINE payload == IF remaining_length_ = 0 THEN fragment_
                        ELSE Append(fragment_, Head(incoming).data)
  <2>1. UNCHANGED posed /\ (handle_fragment(payload) \/ UNCHANGED delivered)
    BY <1>2 DEF ReadPayload, peerVars
  <2> HIDE DEF payload
  <2>2. CASE handle_fragment(payload)
    <3>1. CASE mini_header_.op \in {"close", "ping"}
      BY <2>1, <2>2, <3>1 DEF handle_fragment, HandleClose, HandlePing
    <3>2. CASE mini_header_.op \notin {"close", "ping"}
      <4>1. HandleData(payload)
        BY <2>2, <3>2 DEF handle_fragment
      <4>2. delivered' = Append(delivered, message_ \o payload) \/ delivered' = delivered
        BY <4>1 DEF HandleData
      <4> QED
        BY <2>1, <4>2
    <3> QED
      BY <3>1, <3>2
  <2> QED
    BY <2>1, <2>2
<1>3. CASE PeerSendsData
  <2>1. PICK fin \in BOOLEAN, size \in 0..MaxChunks :
            LET chunks == [k \in 1..size |-> made + 1]
            IN posed' = IF fin THEN Append(posed, pose \o chunks) ELSE posed
    BY <1>3 DEF PeerSendsData
  <2> DEFINE chunks == [k \in 1..size |-> made + 1]
  <2>2. chunks \in Seq(Nat)
    BY BoundAssumption DEF MessagesInv
  <2>3. posed' = Append(posed, pose \o chunks) \/ posed' = posed
    BY <2>1
  <2> HIDE DEF chunks
  <2>4. pose \o chunks \in Seq(Nat)
    BY <2>2 DEF MessagesInv
  <2>5. UNCHANGED delivered
    BY <1>3 DEF PeerSendsData, auxVars
  <2> QED
    BY <2>3, <2>4, <2>5
<1>4. CASE PeerSendsControl \/ PeerGoes
  BY <1>4 DEF PeerSendsControl, PeerGoes, auxVars
<1> QED
  BY <1>1, <1>2, <1>3, <1>4 DEF Next, Server, Peer

\* Whatever frames a message comes in, however they are cut into reads, whatever
\* control frames are between them and whenever the peer goes: the reader of
\* Connection (crow_all.h do_read, handle_fragment) is a channel, which hands the
\* page's messages to the handler in order, each once and whole.
THEOREM MessagesArriveInOrder == Spec => MessagesImplementChannel
<1>1. Init => MessagesInOrder!Init
  <2> SUFFICES ASSUME Init PROVE MessagesInOrder!Init
    OBVIOUS
  <2>1. posed \in Seq(Seq(Nat)) /\ Begins(delivered, posed)
    BY MessagesInit DEF MessagesInv
  <2>2. IsPrefix(delivered, posed)
    BY <2>1, BeginsIsPrefix
  <2> QED
    BY <2>2 DEF MessagesInOrder!Init, MessagesInOrder!IsPrefix, IsPrefix
<1>2. MessagesInv /\ MessagesInv' /\ [Next]_wsVars
      => [MessagesInOrder!Next]_<<posed, delivered>>
  <2> SUFFICES ASSUME MessagesInv, MessagesInv', [Next]_wsVars
               PROVE  [MessagesInOrder!Next]_<<posed, delivered>>
    OBVIOUS
  <2>1. /\ posed \in Seq(Seq(Nat)) /\ Begins(delivered, posed)
        /\ posed' \in Seq(Seq(Nat)) /\ Begins(delivered', posed')
    BY DEF MessagesInv, Begins
  <2>2. CASE UNCHANGED <<posed, delivered>>
    BY <2>2
  <2>3. CASE UNCHANGED delivered /\ \E x \in Seq(Nat) : posed' = Append(posed, x)
    <3>1. Begins(posed, posed')
      BY <2>1, <2>3, BeginsSelf, BeginsGrows
    <3>2. IsPrefix(posed, posed')
      BY <2>1, <3>1, BeginsIsPrefix
    <3> QED
      BY <2>3, <3>2
         DEF MessagesInOrder!Next, MessagesInOrder!Send, MessagesInOrder!IsPrefix, IsPrefix
  <2>4. CASE UNCHANGED posed /\ \E x : delivered' = Append(delivered, x)
    <3>1. IsPrefix(delivered', posed) /\ delivered' \in Seq(Seq(Nat))
      BY <2>1, <2>4, BeginsIsPrefix
    <3>2. delivered \in Seq(Seq(Nat))
      BY <2>1, BeginsIsPrefix
    <3>3. Begins(delivered, delivered')
      <4>1. PICK x : delivered' = Append(delivered, x)
        BY <2>4
      <4>2. /\ SubSeq(delivered', 1, Len(delivered)) = delivered
            /\ Len(delivered) \in 0..Len(delivered')
        BY <3>1, <3>2, <4>1
      <4> QED
        BY <4>2 DEF Begins
    <3>4. IsPrefix(delivered, delivered')
      BY <3>1, <3>3, BeginsIsPrefix
    <3> QED
      BY <2>4, <3>1, <3>4
         DEF MessagesInOrder!Next, MessagesInOrder!Receive, MessagesInOrder!IsPrefix, IsPrefix
  <2> QED
    BY <2>2, <2>3, <2>4, MessagesMove
<1> QED
  BY <1>1, <1>2, MessagesInit, MessagesStep, PTL
     DEF Spec, MessagesImplementChannel, MessagesInOrder!Spec

-----------------------------------------------------------------------------
(* The texts among frames *)

Frame == [op : {"hello", "text", "pong", "close"}, data : Nat]

\* A nonempty set of natural numbers has a least element.
LEMMA LeastExists ==
    ASSUME NEW K \in SUBSET Nat, K # {}
    PROVE  \E x \in K : \A y \in K : x <= y
<1>1. PICK x \in K : \A y \in K : ~(<<y, x>> \in OpToRel(<, Nat))
  BY NatLessThanWellFounded, WFMin
<1>2. ASSUME NEW y \in K PROVE x <= y
  <2>1. <<y, x>> \in Nat \X Nat /\ ~(<<y, x>> \in OpToRel(<, Nat))
    BY <1>1
  <2>2. ~(y < x)
    BY <2>1 DEF OpToRel
  <2>3. x \in Nat /\ y \in Nat
    OBVIOUS
  <2> QED
    BY <2>2, <2>3
<1> QED
  BY <1>2

Texted(t, f) == IF f.op = "text" THEN Append(t, f) ELSE t

\* The texts among the first n frames of s, for every n.
TextsUpTo(f, s, m) ==
    /\ DOMAIN f = 0..m /\ f[0] = <<>>
    /\ \A n \in 1..m : f[n] = Texted(f[n - 1], s[n])

\* There are such, one frame after the other.
LEMMA TextsExist ==
    ASSUME NEW s, NEW m \in Nat
    PROVE  \E f : TextsUpTo(f, s, m)
<1> DEFINE K == {n \in Nat : ~\E f : TextsUpTo(f, s, n)}
<1> SUFFICES ASSUME K # {} PROVE FALSE
  OBVIOUS
<1>1. PICK n \in K : \A y \in K : n <= y
  BY LeastExists
<1>2. CASE n = 0
  <2> DEFINE f == [k \in 0..0 |-> <<>>]
  <2>1. DOMAIN f = 0..0 /\ f[0] = <<>>
    OBVIOUS
  <2> HIDE DEF f
  <2>2. TextsUpTo(f, s, 0)
    BY <2>1 DEF TextsUpTo
  <2> QED
    BY <1>2, <2>2
<1>3. CASE n # 0
  <2>1. n - 1 \in Nat /\ n - 1 \notin K /\ n \in Nat
    BY <1>1, <1>3
  <2>2. PICK f : TextsUpTo(f, s, n - 1)
    BY <2>1
  <2> DEFINE g == [k \in 0..n |-> IF k = n THEN Texted(f[n - 1], s[n]) ELSE f[k]]
  <2>3. /\ DOMAIN g = 0..n /\ g[n] = Texted(f[n - 1], s[n])
        /\ \A k \in 0..(n - 1) : g[k] = f[k]
    BY <2>1
  <2> HIDE DEF g
  <2>4. g[0] = <<>>
    <3>1. 0 \in 0..(n - 1)
      BY <2>1
    <3> QED
      BY <2>2, <2>3, <3>1 DEF TextsUpTo
  <2>5. ASSUME NEW k \in 1..n PROVE g[k] = Texted(g[k - 1], s[k])
    <3>1. k - 1 \in 0..(n - 1)
      BY <2>1
    <3>2. CASE k = n
      BY <2>3, <3>1, <3>2
    <3>3. CASE k # n
      <4>1. k \in 1..(n - 1) /\ k \in 0..(n - 1)
        BY <2>1, <3>3
      <4> QED
        BY <2>2, <2>3, <3>1, <4>1 DEF TextsUpTo
    <3> QED
      BY <3>2, <3>3
  <2>6. TextsUpTo(g, s, n)
    BY <2>3, <2>4, <2>5 DEF TextsUpTo
  <2> QED
    BY <2>6
<1> QED
  BY <1>2, <1>3

\* And only one, which Texts reads its value from.
LEMMA TextsOf ==
    ASSUME NEW S, NEW s \in Seq(S), NEW f, TextsUpTo(f, s, Len(s))
    PROVE  Texts(s) = f[Len(s)]
<1> DEFINE T == CHOOSE g : g = [n \in 0..Len(s) |->
                     IF n = 0 THEN <<>>
                     ELSE IF s[n].op = "text" THEN Append(g[n - 1], s[n]) ELSE g[n - 1]]
<1>1. Texts(s) = T[Len(s)]
  BY DEF Texts
<1>2. \E g : g = [n \in 0..Len(s) |->
                     IF n = 0 THEN <<>>
                     ELSE IF s[n].op = "text" THEN Append(g[n - 1], s[n]) ELSE g[n - 1]]
  <2>1. f = [n \in 0..Len(s) |->
                     IF n = 0 THEN <<>>
                     ELSE IF s[n].op = "text" THEN Append(f[n - 1], s[n]) ELSE f[n - 1]]
    <3>1. ASSUME NEW n \in 0..Len(s)
          PROVE  f[n] = IF n = 0 THEN <<>>
                        ELSE IF s[n].op = "text" THEN Append(f[n - 1], s[n]) ELSE f[n - 1]
      <4>1. n = 0 \/ n \in 1..Len(s)
        OBVIOUS
      <4> QED
        BY <4>1 DEF TextsUpTo, Texted
    <3>2. f = [n \in 0..Len(s) |-> f[n]]
      BY DEF TextsUpTo
    <3> QED
      BY <3>1, <3>2
  <2> QED
    BY <2>1
<1>3. T = [n \in 0..Len(s) |->
                     IF n = 0 THEN <<>>
                     ELSE IF s[n].op = "text" THEN Append(T[n - 1], s[n]) ELSE T[n - 1]]
  BY <1>2
<1> HIDE DEF T
<1>4. TextsUpTo(T, s, Len(s))
  <2>1. DOMAIN T = 0..Len(s) /\ 0 \in 0..Len(s)
    BY <1>3
  <2>2. T[0] = <<>>
    BY <1>3, <2>1
  <2>3. ASSUME NEW n \in 1..Len(s) PROVE T[n] = Texted(T[n - 1], s[n])
    <3>1. n \in 0..Len(s) /\ n # 0
      OBVIOUS
    <3> QED
      BY <1>3, <3>1 DEF Texted
  <2> QED
    BY <2>1, <2>2, <2>3 DEF TextsUpTo
<1> DEFINE K == {n \in 0..Len(s) : T[n] # f[n]}
<1>5. K = {}
  <2> SUFFICES ASSUME K # {} PROVE FALSE
    OBVIOUS
  <2>1. K \in SUBSET Nat
    OBVIOUS
  <2>2. PICK n \in K : \A y \in K : n <= y
    BY <2>1, LeastExists
  <2>3. n # 0
    BY <1>4 DEF TextsUpTo
  <2>4. n \in 1..Len(s) /\ n - 1 \in 0..Len(s) /\ n - 1 \notin K
    BY <2>2, <2>3
  <2>5. T[n - 1] = f[n - 1]
    BY <2>4
  <2>6. T[n] = f[n]
    BY <1>4, <2>4, <2>5 DEF TextsUpTo
  <2> QED
    BY <2>6
<1>6. Len(s) \in 0..Len(s)
  OBVIOUS
<1> QED
  BY <1>1, <1>5, <1>6

\* The texts are taken frame by frame.
LEMMA TextsRun ==
    ASSUME NEW S, NEW s \in Seq(S)
    PROVE  \E f : TextsUpTo(f, s, Len(s)) /\ Texts(s) = f[Len(s)]
<1>1. Len(s) \in Nat
  OBVIOUS
<1> QED
  BY <1>1, TextsExist, TextsOf

\* They are frames.
LEMMA TextsTyped ==
    ASSUME NEW S, NEW s \in Seq(S), NEW f, TextsUpTo(f, s, Len(s))
    PROVE  \A n \in 0..Len(s) : f[n] \in Seq(S)
<1> DEFINE K == {n \in 0..Len(s) : f[n] \notin Seq(S)}
<1> SUFFICES ASSUME K # {} PROVE FALSE
  OBVIOUS
<1>1. PICK n \in K : \A y \in K : n <= y
  <2>1. K \in SUBSET Nat
    OBVIOUS
  <2> QED
    BY <2>1, LeastExists
<1>2. n # 0
  <2>1. <<>> \in Seq(S) /\ f[n] \notin Seq(S)
    BY <1>1
  <2>2. f[0] = <<>>
    BY DEF TextsUpTo
  <2> QED
    BY <2>1, <2>2
<1>3. n \in 1..Len(s) /\ n - 1 \in 0..Len(s) /\ n - 1 \notin K
  BY <1>1, <1>2
<1>4. f[n - 1] \in Seq(S) /\ s[n] \in S
  BY <1>3
<1>5. f[n] \in Seq(S)
  <2>1. f[n] = Texted(f[n - 1], s[n])
    BY <1>3 DEF TextsUpTo
  <2>2. Append(f[n - 1], s[n]) \in Seq(S)
    BY <1>4
  <2> QED
    BY <1>4, <2>1, <2>2 DEF Texted
<1> QED
  BY <1>5

\* So are those of the whole sequence.
LEMMA TextsType ==
    ASSUME NEW S, NEW s \in Seq(S)
    PROVE  Texts(s) \in Seq(S)
<1>1. PICK f : TextsUpTo(f, s, Len(s)) /\ Texts(s) = f[Len(s)]
  BY TextsRun
<1>2. Len(s) \in 0..Len(s)
  OBVIOUS
<1> QED
  BY <1>1, <1>2, TextsTyped

\* The texts of one sequence after another.
LEMMA TextsConcat ==
    ASSUME NEW S, NEW a \in Seq(S), NEW b \in Seq(S)
    PROVE  Texts(a \o b) = Texts(a) \o Texts(b)
<1>1. PICK f : TextsUpTo(f, a, Len(a)) /\ Texts(a) = f[Len(a)]
  BY TextsRun
<1>2. PICK g : TextsUpTo(g, b, Len(b)) /\ Texts(b) = g[Len(b)]
  BY TextsRun
<1> DEFINE c == a \o b
           t == Texts(a)
           h == [n \in 0..(Len(a) + Len(b)) |->
                    IF n <= Len(a) THEN f[n] ELSE t \o g[n - Len(a)]]
<1>3. /\ Len(a) \in Nat /\ Len(b) \in Nat /\ c \in Seq(S) /\ Len(c) = Len(a) + Len(b)
      /\ \A n \in 1..Len(a) : c[n] = a[n]
      /\ \A n \in 1..Len(b) : c[Len(a) + n] = b[n]
  OBVIOUS
<1>4. t \in Seq(S)
  BY TextsType
<1>5. /\ DOMAIN h = 0..Len(c) /\ \A n \in 0..Len(a) : h[n] = f[n]
      /\ \A n \in 0..Len(b) : h[Len(a) + n] = t \o g[n]
  <2>1. DOMAIN h = 0..Len(c)
    BY <1>3
  <2>2. ASSUME NEW n \in 0..Len(a) PROVE h[n] = f[n]
    <3>1. n \in 0..(Len(a) + Len(b)) /\ n <= Len(a)
      BY <1>3
    <3> QED
      BY <3>1
  <2>3. ASSUME NEW n \in 0..Len(b) PROVE h[Len(a) + n] = t \o g[n]
    <3>1. CASE n = 0
      <4>1. g[0] = <<>> /\ Len(a) + 0 = Len(a) /\ Len(a) \in 0..Len(a)
        BY <1>2, <1>3 DEF TextsUpTo
      <4>2. h[Len(a) + 0] = t
        BY <1>1, <2>2, <4>1
      <4>3. t \o <<>> = t
        BY <1>4
      <4> QED
        BY <3>1, <4>1, <4>2, <4>3
    <3>2. CASE n # 0
      <4>1. /\ Len(a) + n \in 0..(Len(a) + Len(b)) /\ ~(Len(a) + n <= Len(a))
            /\ (Len(a) + n) - Len(a) = n
        BY <1>3, <3>2
      <4> QED
        BY <4>1
    <3> QED
      BY <3>1, <3>2
  <2> HIDE DEF h
  <2> QED
    BY <2>1, <2>2, <2>3
<1> HIDE DEF h, t, c
<1>6. ASSUME NEW n \in 1..Len(c) PROVE h[n] = Texted(h[n - 1], c[n])
  <2>1. CASE n <= Len(a)
    <3>1. n \in 1..Len(a) /\ n \in 0..Len(a) /\ n - 1 \in 0..Len(a)
      BY <1>3, <2>1
    <3> QED
      BY <1>1, <1>3, <1>5, <3>1 DEF TextsUpTo
  <2>2. CASE n > Len(a)
    <3> DEFINE k == n - Len(a)
    <3>1. /\ k \in 1..Len(b) /\ k \in 0..Len(b) /\ k - 1 \in 0..Len(b)
          /\ n = Len(a) + k /\ n - 1 = Len(a) + (k - 1)
      BY <1>3, <2>2
    <3> HIDE DEF k
    <3>2. h[n] = t \o g[k] /\ h[n - 1] = t \o g[k - 1] /\ c[n] = b[k]
      BY <1>3, <1>5, <3>1
    <3>3. g[k] = Texted(g[k - 1], b[k])
      BY <1>2, <3>1 DEF TextsUpTo
    <3>4. t \o Texted(g[k - 1], b[k]) = Texted(t \o g[k - 1], b[k])
      <4>1. g[k - 1] \in Seq(S) /\ b[k] \in S
        <5>1. TextsUpTo(g, b, Len(b))
          BY <1>2
        <5> QED
          BY <3>1, <5>1, TextsTyped
      <4>2. t \o Append(g[k - 1], b[k]) = Append(t \o g[k - 1], b[k])
        BY <1>4, <4>1
      <4> QED
        BY <4>2 DEF Texted
    <3> QED
      BY <3>2, <3>3, <3>4
  <2> QED
    BY <1>3, <2>1, <2>2
<1>7. TextsUpTo(h, c, Len(c))
  <2>1. h[0] = <<>>
    <3>1. 0 \in 0..Len(a)
      BY <1>3
    <3> QED
      BY <1>1, <1>5, <3>1 DEF TextsUpTo
  <2> QED
    BY <1>5, <1>6, <2>1 DEF TextsUpTo
<1>8. Texts(c) = h[Len(a) + Len(b)]
  BY <1>3, <1>7, TextsOf
<1>9. Len(b) \in 0..Len(b)
  BY <1>3
<1> QED
  BY <1>2, <1>5, <1>8, <1>9 DEF c, t

\* Frames that are all texts are their texts.
LEMMA TextsOnly ==
    ASSUME NEW S, NEW s \in Seq(S), \A n \in 1..Len(s) : s[n].op = "text"
    PROVE  Texts(s) = s
<1> DEFINE f == [n \in 0..Len(s) |-> SubSeq(s, 1, n)]
<1>1. ASSUME NEW n \in 1..Len(s) PROVE f[n] = Texted(f[n - 1], s[n])
  <2>1. n \in 0..Len(s) /\ n - 1 \in 0..Len(s) /\ s[n] \in S
    OBVIOUS
  <2>2. f[n] = SubSeq(s, 1, n) /\ f[n - 1] = SubSeq(s, 1, n - 1)
    BY <2>1
  <2>3. SubSeq(s, 1, n) = Append(SubSeq(s, 1, n - 1), s[n])
    BY <2>1
  <2> HIDE DEF f
  <2> QED
    BY <2>2, <2>3 DEF Texted
<1>2. DOMAIN f = 0..Len(s) /\ f[0] = <<>> /\ f[Len(s)] = s
  <2>1. 0 \in 0..Len(s) /\ Len(s) \in 0..Len(s)
    OBVIOUS
  <2>2. SubSeq(s, 1, 0) = <<>> /\ SubSeq(s, 1, Len(s)) = s
    OBVIOUS
  <2> QED
    BY <2>1, <2>2
<1> HIDE DEF f
<1>3. TextsUpTo(f, s, Len(s))
  BY <1>1, <1>2 DEF TextsUpTo
<1> QED
  BY <1>2, <1>3, TextsOf

\* A frame that is none leaves the texts as they are.
LEMMA TextsSkip ==
    ASSUME NEW a \in Seq(Frame), NEW b \in Seq(Frame), NEW x \in Frame, x.op # "text"
    PROVE  Texts((a \o <<x>>) \o b) = Texts(a \o b)
<1>1. <<x>> \in Seq(Frame) /\ a \o <<x>> \in Seq(Frame)
  OBVIOUS
<1>2. Texts(<<x>>) = <<>>
  <2> DEFINE f == [n \in 0..1 |-> <<>>]
  <2>1. DOMAIN f = 0..1 /\ f[0] = <<>> /\ f[1] = <<>>
    OBVIOUS
  <2> HIDE DEF f
  <2>2. Len(<<x>>) = 1 /\ <<x>>[1] = x
    OBVIOUS
  <2>3. \A n \in 1..1 : n = 1 /\ n - 1 = 0
    OBVIOUS
  <2>4. TextsUpTo(f, <<x>>, Len(<<x>>))
    BY <2>1, <2>2, <2>3 DEF TextsUpTo, Texted
  <2> QED
    BY <1>1, <2>1, <2>2, <2>4, TextsOf
<1>3. Texts(a) \in Seq(Frame)
  BY TextsType
<1>4. Texts(a \o <<x>>) = Texts(a)
  <2>1. Texts(a \o <<x>>) = Texts(a) \o <<>>
    BY <1>1, <1>2, TextsConcat
  <2>2. Texts(a) \o <<>> = Texts(a)
    BY <1>3
  <2> QED
    BY <2>1, <2>2
<1> DEFINE c == a \o <<x>>
<1>5. c \in Seq(Frame) /\ Texts(c) = Texts(a)
  BY <1>1, <1>4
<1> HIDE DEF c
<1>6. Texts(c \o b) = Texts(c) \o Texts(b)
  BY <1>5, TextsConcat
<1>7. Texts(a \o b) = Texts(a) \o Texts(b)
  BY TextsConcat
<1> QED
  BY <1>5, <1>6, <1>7 DEF c

-----------------------------------------------------------------------------
(* The replies *)

\* What has been sent and has not reached the peer, in the order it will.
OnItsWay == (sending_buffers_ \o write_buffers_) \o tasks

\* A connection that is given up reads no more.
GivenUp == has_sent_close_ \/ close_connection_ \/ ~adaptorOpen => ~reading \/ peer = "gone"

FramesTyped ==
    /\ onWire \in Seq(Frame) /\ sending_buffers_ \in Seq(Frame)
    /\ write_buffers_ \in Seq(Frame) /\ tasks \in Seq(Frame) /\ replies \in Seq(Frame)

\* Nothing has been lost, or nothing will reach the peer any more.
Intact == replies = Texts(onWire \o OnItsWay)
CutOff == /\ peer = "gone" \/ ~Alive
          /\ \E rest \in Seq(Frame) : replies = Texts(onWire) \o rest

RepliesInv == FramesTyped /\ GivenUp /\ (Intact \/ CutOff)

\* Concatenations.
LEMMA Grouped ==
    ASSUME NEW S, NEW a \in Seq(S), NEW b \in Seq(S), NEW c \in Seq(S)
    PROVE  /\ a \o b \in Seq(S) /\ (a \o b) \o c = a \o (b \o c)
           /\ <<>> \o a = a /\ a \o <<>> = a /\ <<>> \in Seq(S)
OBVIOUS

\* The same of frames, fact by fact.
LEMMA FramesGrouped == \A a, b, c \in Seq(Frame) : a \o (b \o c) = (a \o b) \o c
BY Grouped

\* A concatenation of frames is one.
LEMMA FramesClosed == \A a, b \in Seq(Frame) : a \o b \in Seq(Frame)
BY Grouped

\* A sequence cut in two.
LEMMA CutAt ==
    ASSUME NEW S, NEW s \in Seq(S), NEW n \in 0..Len(s)
    PROVE  /\ SubSeq(s, 1, n) \in Seq(S) /\ SubSeq(s, n + 1, Len(s)) \in Seq(S)
           /\ s = SubSeq(s, 1, n) \o SubSeq(s, n + 1, Len(s))
<1> DEFINE a == SubSeq(s, 1, n)
           b == SubSeq(s, n + 1, Len(s))
<1>1. n \in Nat /\ Len(s) \in Nat /\ n <= Len(s)
  OBVIOUS
<1>2. a \in Seq(S) /\ Len(a) = n /\ \A k \in 1..n : a[k] = s[k]
  BY <1>1
<1>3. b \in Seq(S) /\ Len(b) = Len(s) - n /\ \A k \in 1..(Len(s) - n) : b[k] = s[n + k]
  <2>1. b \in Seq(S) /\ Len(b) = Len(s) - n
    BY <1>1
  <2>2. ASSUME NEW k \in 1..(Len(s) - n) PROVE b[k] = s[n + k]
    BY <1>1
  <2> QED
    BY <2>1, <2>2
<1> HIDE DEF a, b
<1>4. /\ a \o b \in Seq(S) /\ Len(a \o b) = Len(s)
      /\ \A k \in 1..n : (a \o b)[k] = a[k]
      /\ \A k \in 1..(Len(s) - n) : (a \o b)[n + k] = b[k]
  BY <1>1, <1>2, <1>3
<1>5. ASSUME NEW k \in 1..Len(s) PROVE (a \o b)[k] = s[k]
  <2>1. CASE k <= n
    BY <1>1, <1>2, <1>4, <2>1
  <2>2. CASE k > n
    <3>1. k - n \in 1..(Len(s) - n) /\ n + (k - n) = k
      BY <1>1, <2>2
    <3> QED
      BY <1>3, <1>4, <3>1
  <2>3. k <= n \/ k > n
    BY <1>1
  <2> QED
    BY <2>1, <2>2, <2>3
<1>6. a \o b = s
  <2> DEFINE c == a \o b
  <2>1. c \in Seq(S) /\ Len(c) = Len(s) /\ \A k \in 1..Len(s) : c[k] = s[k]
    BY <1>4, <1>5
  <2> HIDE DEF c
  <2>2. c = s
    BY <2>1
  <2> QED
    BY <2>2 DEF c
<1> QED
  BY <1>2, <1>3, <1>6 DEF a, b

\* The writer puts new frames behind those it has.
LEMMA WriteQueues ==
    ASSUME FramesTyped, NEW frames \in Seq(Frame), DoWrite(frames)
    PROVE  /\ sending_buffers_' \in Seq(Frame) /\ write_buffers_' \in Seq(Frame)
           /\ sending_buffers_' \o write_buffers_'
                = (sending_buffers_ \o write_buffers_) \o frames
<1>1. /\ sending_buffers_ \in Seq(Frame) /\ write_buffers_ \in Seq(Frame)
      /\ write_buffers_ \o frames \in Seq(Frame) /\ <<>> \in Seq(Frame)
  BY Grouped DEF FramesTyped
<1>2. CASE sending_buffers_ = <<>>
  <2>1. sending_buffers_' = write_buffers_ \o frames /\ write_buffers_' = <<>>
    BY <1>2 DEF DoWrite
  <2>2. sending_buffers_ \o write_buffers_ = write_buffers_
    BY <1>1, <1>2, Grouped
  <2>3. (write_buffers_ \o frames) \o <<>> = write_buffers_ \o frames
    BY <1>1, Grouped
  <2> QED
    BY <1>1, <2>1, <2>2, <2>3
<1>3. CASE sending_buffers_ # <<>>
  <2>1. sending_buffers_' = sending_buffers_ /\ write_buffers_' = write_buffers_ \o frames
    BY <1>3 DEF DoWrite
  <2>2. sending_buffers_ \o (write_buffers_ \o frames)
          = (sending_buffers_ \o write_buffers_) \o frames
    BY <1>1, Grouped
  <2> QED
    BY <1>1, <2>1, <2>2
<1> QED
  BY <1>2, <1>3

\* What arrived begins what was sent, and frames that are left are the rest.
LEMMA IntactRest ==
    ASSUME FramesTyped, NEW a \in Seq(Frame), NEW b \in Seq(Frame), replies = Texts(a \o b)
    PROVE  \E rest \in Seq(Frame) : replies = Texts(a) \o rest
BY TextsConcat, TextsType

\* What touches neither frames nor what keeps the object alive.
LEMMA RepliesUntouched ==
    ASSUME RepliesInv, UNCHANGED <<onWire, sending_buffers_, write_buffers_, tasks, replies>>,
           reading' => reading, registered' => registered, GivenUp',
           peer = "gone" => peer' = "gone"
    PROVE  RepliesInv'
BY DEF RepliesInv, FramesTyped, Intact, CutOff, OnItsWay, Alive

\* A posted send that runs, on an object that is still there or not.
LEMMA RunTaskReplies ==
    ASSUME RepliesInv, RunTask
    PROVE  RepliesInv'
<1>1. /\ tasks # <<>> /\ tasks' = Tail(tasks)
      /\ UNCHANGED <<onWire, replies, reading, registered, peer, has_sent_close_,
                     close_connection_, adaptorOpen>>
  BY DEF RunTask, readVars, closeVars, peerVars, auxVars
<1>2. FramesTyped /\ GivenUp /\ (Intact \/ CutOff)
  BY DEF RepliesInv
<1>3. GivenUp'
  BY <1>1, <1>2 DEF GivenUp
<1>4. /\ tasks \in Seq(Frame) /\ Head(tasks) \in Frame /\ Tail(tasks) \in Seq(Frame)
      /\ tasks = <<Head(tasks)>> \o Tail(tasks)
  BY <1>1, <1>2 DEF FramesTyped
<1>5. CASE Alive
  <2>1. DoWrite(<<Head(tasks)>>)
    BY <1>5 DEF RunTask
  <2>2. <<Head(tasks)>> \in Seq(Frame)
    BY <1>4
  <2>3. /\ sending_buffers_' \in Seq(Frame) /\ write_buffers_' \in Seq(Frame)
        /\ sending_buffers_' \o write_buffers_'
             = (sending_buffers_ \o write_buffers_) \o <<Head(tasks)>>
    BY <1>2, <2>1, <2>2, WriteQueues
  <2>4. FramesTyped'
    BY <1>1, <1>2, <1>4, <2>3 DEF FramesTyped
  <2>5. OnItsWay' = OnItsWay
    <3> DEFINE q == sending_buffers_ \o write_buffers_
               h == <<Head(tasks)>>
               t == Tail(tasks)
    <3>1. q \in Seq(Frame) /\ h \in Seq(Frame) /\ t \in Seq(Frame) /\ tasks = h \o t
      BY <1>2, <1>4, Grouped DEF FramesTyped
    <3>2. OnItsWay' = (q \o h) \o t /\ OnItsWay = q \o tasks
      BY <1>1, <2>3 DEF OnItsWay
    <3> HIDE DEF q, h, t
    <3> QED
      BY <3>1, <3>2, Grouped
  <2>6. CASE Intact
    <3>1. Intact'
      BY <1>1, <2>5, <2>6 DEF Intact
    <3> QED
      BY <1>3, <2>4, <3>1 DEF RepliesInv
  <2>7. CASE CutOff
    <3>1. CutOff'
      BY <1>1, <1>5, <2>7 DEF CutOff
    <3> QED
      BY <1>3, <2>4, <3>1 DEF RepliesInv
  <2> QED
    BY <1>2, <2>6, <2>7
<1>6. CASE ~Alive
  <2>1. UNCHANGED <<sending_buffers_, write_buffers_>>
    BY <1>6 DEF RunTask, writeVars
  <2>2. FramesTyped'
    BY <1>1, <1>2, <1>4, <2>1 DEF FramesTyped
  <2>3. ~Alive'
    BY <1>1, <1>6, <2>1 DEF Alive
  <2>4. \E rest \in Seq(Frame) : replies = Texts(onWire) \o rest
    <3>1. CASE Intact
      <4>1. onWire \in Seq(Frame) /\ OnItsWay \in Seq(Frame)
        BY <1>2, Grouped DEF FramesTyped, OnItsWay
      <4> QED
        BY <1>2, <3>1, <4>1, IntactRest DEF Intact
    <3>2. CASE CutOff
      BY <3>2 DEF CutOff
    <3> QED
      BY <1>2, <3>1, <3>2
  <2>5. CutOff'
    BY <1>1, <2>3, <2>4 DEF CutOff
  <2> QED
    BY <1>3, <2>2, <2>5 DEF RepliesInv
<1> QED
  BY <1>5, <1>6

\* A write that ends well takes its batch from the way to the wire.
LEMMA WriteDoneReplies ==
    ASSUME RepliesInv, WriteDone
    PROVE  RepliesInv'
<1>1. /\ onWire' = IF peer = "gone" THEN onWire ELSE onWire \o sending_buffers_
      /\ sending_buffers_ # <<>> /\ sending_buffers_' = write_buffers_ /\ write_buffers_' = <<>>
      /\ close_connection_' = has_sent_close_
      /\ UNCHANGED <<tasks, replies, reading, registered, peer, has_sent_close_, adaptorOpen>>
  BY DEF WriteDone, readVars, peerVars
<1>2. FramesTyped /\ GivenUp /\ (Intact \/ CutOff)
  BY DEF RepliesInv
<1>3. GivenUp'
  BY <1>1, <1>2 DEF GivenUp
<1>4. /\ onWire \in Seq(Frame) /\ sending_buffers_ \in Seq(Frame)
      /\ write_buffers_ \in Seq(Frame) /\ tasks \in Seq(Frame)
      /\ onWire \o sending_buffers_ \in Seq(Frame) /\ <<>> \in Seq(Frame)
  BY <1>2, Grouped DEF FramesTyped
<1>5. FramesTyped'
  BY <1>1, <1>2, <1>4 DEF FramesTyped
<1>6. CASE peer = "gone"
  <2>1. \E rest \in Seq(Frame) : replies = Texts(onWire) \o rest
    <3>1. CASE Intact
      <4>1. onWire \in Seq(Frame) /\ OnItsWay \in Seq(Frame)
        BY <1>4, Grouped DEF OnItsWay
      <4> QED
        BY <1>2, <3>1, <4>1, IntactRest DEF Intact
    <3>2. CASE CutOff
      BY <3>2 DEF CutOff
    <3> QED
      BY <1>2, <3>1, <3>2
  <2>2. CutOff'
    BY <1>1, <1>6, <2>1 DEF CutOff
  <2> QED
    BY <1>3, <1>5, <2>2 DEF RepliesInv
<1>7. CASE peer # "gone"
  <2>1. Intact
    BY <1>1, <1>2, <1>7 DEF CutOff, Alive
  <2>2. onWire' \o OnItsWay' = onWire \o OnItsWay
    <3> DEFINE a == onWire
               b == sending_buffers_
               c == write_buffers_
               d == tasks
    <3>1. a \in Seq(Frame) /\ b \in Seq(Frame) /\ c \in Seq(Frame) /\ d \in Seq(Frame)
      BY <1>4
    <3>2. OnItsWay = (b \o c) \o d /\ OnItsWay' = (c \o <<>>) \o d /\ onWire' = a \o b
      BY <1>1, <1>7 DEF OnItsWay
    <3> HIDE DEF a, b, c, d
    <3>3. c \o <<>> = c /\ (b \o c) \o d = b \o (c \o d) /\ c \o d \in Seq(Frame)
      BY <3>1, Grouped
    <3>4. (a \o b) \o (c \o d) = a \o (b \o (c \o d))
      BY <3>1, <3>3, FramesGrouped
    <3> QED
      BY <3>2, <3>3, <3>4 DEF a
  <2>3. Intact'
    BY <1>1, <2>1, <2>2 DEF Intact
  <2> QED
    BY <1>3, <1>5, <2>3 DEF RepliesInv
<1> QED
  BY <1>6, <1>7

\* A write that fails may have brought the first of its batch to the peer; nothing
\* follows them.
LEMMA WriteFailsReplies ==
    ASSUME RepliesInv, WriteFails
    PROVE  RepliesInv'
<1>1. PICK n \in 0..Len(sending_buffers_) :
          /\ peer = "gone" => n = 0
          /\ onWire' = onWire \o SubSeq(sending_buffers_, 1, n)
  BY DEF WriteFails
<1>2. /\ sending_buffers_ # <<>> /\ sending_buffers_' = <<>>
      /\ peer = "gone" \/ ~adaptorOpen \/ close_connection_
      /\ ~registered'
      /\ UNCHANGED <<tasks, write_buffers_, replies, reading, peer>>
  BY DEF WriteFails, CheckDestroy, readVars, peerVars
<1>3. FramesTyped /\ GivenUp /\ (Intact \/ CutOff)
  BY DEF RepliesInv
<1> DEFINE some == SubSeq(sending_buffers_, 1, n)
           left == SubSeq(sending_buffers_, n + 1, Len(sending_buffers_))
<1>4. some \in Seq(Frame) /\ left \in Seq(Frame) /\ sending_buffers_ = some \o left
  BY <1>3, CutAt DEF FramesTyped
<1>5. /\ onWire \in Seq(Frame) /\ sending_buffers_ \in Seq(Frame)
      /\ write_buffers_ \in Seq(Frame) /\ tasks \in Seq(Frame)
      /\ onWire \o some \in Seq(Frame) /\ <<>> \in Seq(Frame)
  BY <1>3, <1>4, Grouped DEF FramesTyped
<1>6. FramesTyped'
  BY <1>1, <1>2, <1>3, <1>5 DEF FramesTyped
<1>7. peer' = "gone" \/ ~Alive'
  BY <1>2, <1>3 DEF GivenUp, Alive
<1>8. GivenUp'
  BY <1>2, <1>7 DEF GivenUp, Alive
<1>9. \E rest \in Seq(Frame) : replies = Texts(onWire') \o rest
  <2>1. CASE Intact
    <3> HIDE DEF some, left
    <3> DEFINE a == onWire
               c == write_buffers_
               d == tasks
    <3>1. /\ a \in Seq(Frame) /\ c \in Seq(Frame) /\ d \in Seq(Frame)
          /\ c \o d \in Seq(Frame)
      BY <1>5, Grouped
    <3>2. onWire \o OnItsWay = a \o (((some \o left) \o c) \o d)
      BY <1>4 DEF OnItsWay
    <3> HIDE DEF a, c, d
    <3>3. ((some \o left) \o c) \o d = (some \o left) \o (c \o d)
      <4> DEFINE u == some \o left
      <4>1. u \in Seq(Frame)
        BY <1>4, Grouped
      <4> HIDE DEF u
      <4>2. (u \o c) \o d = u \o (c \o d)
        BY <3>1, <4>1, Grouped
      <4> QED
        BY <4>2 DEF u
    <3> DEFINE e == c \o d
               r == left \o e
    <3>4. e \in Seq(Frame)
      BY <3>1
    <3> HIDE DEF e
    <3>5. (some \o left) \o e = some \o r /\ r \in Seq(Frame)
      BY <1>4, <3>4, Grouped
    <3> HIDE DEF r
    <3>6. a \o (some \o r) = (a \o some) \o r
      <4>1. a \in Seq(Frame) /\ some \in Seq(Frame) /\ r \in Seq(Frame)
        BY <1>4, <3>1, <3>5
      <4> QED
        BY <4>1, FramesGrouped, FramesClosed
    <3>7. replies = Texts((a \o some) \o r)
      BY <2>1, <3>2, <3>3, <3>5, <3>6 DEF Intact, e
    <3>8. a \o some \in Seq(Frame) /\ onWire' = a \o some
      BY <1>1, <1>5 DEF a, some
    <3> QED
      BY <1>3, <3>5, <3>7, <3>8, IntactRest
  <2>2. CASE CutOff
    <3>1. peer = "gone"
      BY <1>2, <2>2 DEF CutOff, Alive
    <3>2. onWire' = onWire
      <4>1. some = <<>>
        BY <1>1, <3>1
      <4> QED
        BY <1>1, <1>5, <4>1, Grouped
    <3> QED
      BY <2>2, <3>2 DEF CutOff
  <2> QED
    BY <1>3, <2>1, <2>2
<1>10. CutOff'
  BY <1>2, <1>7, <1>9 DEF CutOff
<1> QED
  BY <1>6, <1>8, <1>10 DEF RepliesInv

\* What a handler sends is put behind what is on its way.
LEMMA PostedReplies ==
    ASSUME RepliesInv, NEW new \in Seq(Frame),
           tasks' = tasks \o new,
           replies' = replies \o Texts(new),
           UNCHANGED <<onWire, sending_buffers_, write_buffers_, reading, registered, peer,
                       has_sent_close_, close_connection_, adaptorOpen>>
    PROVE  RepliesInv'
<1>1. FramesTyped /\ GivenUp /\ (Intact \/ CutOff)
  BY DEF RepliesInv
<1>2. GivenUp'
  BY <1>1 DEF GivenUp
<1>3. Texts(new) \in Seq(Frame)
  BY TextsType
<1>4. FramesTyped'
  BY <1>1, <1>3, Grouped DEF FramesTyped
<1>5. CASE Intact
  <2> DEFINE q == sending_buffers_ \o write_buffers_
             w == onWire
             t == tasks
  <2>1. w \in Seq(Frame) /\ q \in Seq(Frame) /\ t \in Seq(Frame)
    BY <1>1, Grouped DEF FramesTyped
  <2>2. OnItsWay = q \o t /\ OnItsWay' = q \o (t \o new)
    BY DEF OnItsWay
  <2>3. replies = Texts(w \o (q \o t))
    BY <1>5, <2>2 DEF Intact
  <2> HIDE DEF q, w, t
  <2>4. q \o t \in Seq(Frame) /\ q \o (t \o new) = (q \o t) \o new
    BY <2>1, FramesGrouped, FramesClosed
  <2>5. /\ w \o (q \o t) \in Seq(Frame)
        /\ w \o ((q \o t) \o new) = (w \o (q \o t)) \o new
    <3> DEFINE u == q \o t
    <3>1. u \in Seq(Frame)
      BY <2>4
    <3> HIDE DEF u
    <3>2. w \o u \in Seq(Frame) /\ w \o (u \o new) = (w \o u) \o new
      <4>1. w \in Seq(Frame) /\ u \in Seq(Frame) /\ new \in Seq(Frame)
        BY <2>1, <3>1
      <4> QED
        BY <4>1, FramesGrouped, FramesClosed
    <3> QED
      BY <3>2 DEF u
  <2>6. Texts((w \o (q \o t)) \o new) = Texts(w \o (q \o t)) \o Texts(new)
    BY <2>5, TextsConcat
  <2>7. replies' = Texts(w \o OnItsWay')
    BY <2>2, <2>3, <2>4, <2>5, <2>6
  <2>8. Intact'
    BY <2>7 DEF Intact, w
  <2> QED
    BY <1>2, <1>4, <2>8 DEF RepliesInv
<1>6. CASE CutOff
  <2>1. PICK rest \in Seq(Frame) : replies = Texts(onWire) \o rest
    BY <1>6 DEF CutOff
  <2>2. Texts(onWire) \in Seq(Frame)
    BY <1>1, TextsType DEF FramesTyped
  <2>3. /\ rest \o Texts(new) \in Seq(Frame)
        /\ replies \o Texts(new) = Texts(onWire) \o (rest \o Texts(new))
    BY <1>3, <2>1, <2>2, Grouped
  <2>4. peer' = "gone" \/ ~Alive'
    BY <1>6 DEF CutOff, Alive
  <2>5. CutOff'
    BY <2>3, <2>4 DEF CutOff
  <2> QED
    BY <1>2, <1>4, <2>5 DEF RepliesInv
<1> QED
  BY <1>1, <1>5, <1>6

\* The peer's close frame: the answer goes among what is on its way, and is no text.
LEMMA CloseReplies ==
    ASSUME RepliesInv, reading, HandleClose, UNCHANGED <<onWire, peer>>
    PROVE  RepliesInv'
<1>1. /\ DoWrite(<<CloseFrame>>) /\ ~reading' /\ ~registered'
      /\ UNCHANGED <<tasks, replies>>
  BY DEF HandleClose
<1>2. FramesTyped /\ GivenUp /\ (Intact \/ CutOff)
  BY DEF RepliesInv
<1>3. GivenUp'
  BY <1>1 DEF GivenUp
<1>4. CloseFrame \in Frame /\ CloseFrame.op # "text" /\ <<CloseFrame>> \in Seq(Frame)
  BY DEF CloseFrame, Frame
<1>5. /\ sending_buffers_' \in Seq(Frame) /\ write_buffers_' \in Seq(Frame)
      /\ sending_buffers_' \o write_buffers_'
           = (sending_buffers_ \o write_buffers_) \o <<CloseFrame>>
  BY <1>1, <1>2, <1>4, WriteQueues
<1>6. FramesTyped'
  BY <1>1, <1>2, <1>5 DEF FramesTyped
<1>7. Texts(onWire' \o OnItsWay') = Texts(onWire \o OnItsWay)
  <2> DEFINE q == sending_buffers_ \o write_buffers_
             w == onWire
             t == tasks
             x == CloseFrame
  <2>1. w \in Seq(Frame) /\ q \in Seq(Frame) /\ t \in Seq(Frame)
    BY <1>2, Grouped DEF FramesTyped
  <2>2. OnItsWay = q \o t /\ OnItsWay' = (q \o <<x>>) \o t
    BY <1>1, <1>5 DEF OnItsWay
  <2>3. x \in Frame /\ x.op # "text" /\ <<x>> \in Seq(Frame)
    BY <1>4
  <2> HIDE DEF q, w, t, x
  <2>4. w \o q \in Seq(Frame) /\ w \o (q \o t) = (w \o q) \o t
    BY <2>1, FramesGrouped, FramesClosed
  <2>5. w \o ((q \o <<x>>) \o t) = ((w \o q) \o <<x>>) \o t
    <3>1. w \o ((q \o <<x>>) \o t) = (w \o (q \o <<x>>)) \o t
      <4> DEFINE v == q \o <<x>>
      <4>1. v \in Seq(Frame)
        BY <2>1, <2>3, FramesClosed
      <4> HIDE DEF v
      <4>2. w \o (v \o t) = (w \o v) \o t
        BY <2>1, <4>1, FramesGrouped
      <4> QED
        BY <4>2 DEF v
    <3>2. w \o (q \o <<x>>) = (w \o q) \o <<x>>
      BY <2>1, <2>3, FramesGrouped
    <3> QED
      BY <3>1, <3>2
  <2> DEFINE u == w \o q
  <2>6. u \in Seq(Frame)
    BY <2>4
  <2> HIDE DEF u
  <2>7. Texts((u \o <<x>>) \o t) = Texts(u \o t)
    BY <2>1, <2>3, <2>6, TextsSkip
  <2>8. Texts(w \o OnItsWay') = Texts(w \o OnItsWay)
    BY <2>2, <2>4, <2>5, <2>7 DEF u
  <2> QED
    BY <2>8 DEF w
<1>8. CASE Intact
  <2>1. Intact'
    BY <1>1, <1>7, <1>8 DEF Intact
  <2> QED
    BY <1>3, <1>6, <2>1 DEF RepliesInv
<1>9. CASE CutOff /\ peer = "gone"
  <2>1. CutOff'
    BY <1>1, <1>9 DEF CutOff
  <2> QED
    BY <1>3, <1>6, <2>1 DEF RepliesInv
<1>10. CutOff => peer = "gone"
  BY DEF CutOff, Alive
<1> QED
  BY <1>2, <1>8, <1>9, <1>10

\* The frame at the end of a payload.
LEMMA FragmentReplies ==
    ASSUME RepliesInv, reading, NEW payload, handle_fragment(payload),
           UNCHANGED <<onWire, peer>>
    PROVE  RepliesInv'
<1>1. replies \in Seq(Frame)
  BY DEF RepliesInv, FramesTyped
<1>2. CASE mini_header_.op = "close"
  <2>1. HandleClose
    BY <1>2 DEF handle_fragment
  <2> QED
    BY <2>1, CloseReplies
<1>3. CASE mini_header_.op = "ping"
  <2>1. /\ tasks' = Append(tasks, Pong)
        /\ UNCHANGED <<reading, writeVars, closeVars, replies>>
    BY <1>3 DEF handle_fragment, HandlePing
  <2>2. Pong \in Frame /\ Pong.op # "text" /\ <<Pong>> \in Seq(Frame) /\ <<>> \in Seq(Frame)
    BY DEF Pong, Frame
  <2>3. tasks' = tasks \o <<Pong>>
    BY <2>1, <2>2 DEF RepliesInv, FramesTyped
  <2>4. Texts(<<Pong>>) = <<>>
    <3>1. Texts((<<>> \o <<Pong>>) \o <<>>) = Texts(<<>> \o <<>>)
      BY <2>2, TextsSkip
    <3>2. (<<>> \o <<Pong>>) \o <<>> = <<Pong>> /\ <<>> \o <<>> = <<>>
      OBVIOUS
    <3>3. Texts(<<>>) = <<>>
      <4>1. \A n \in 1..Len(<<>>) : <<>>[n].op = "text"
        OBVIOUS
      <4> QED
        BY <2>2, <4>1, TextsOnly
    <3> QED
      BY <3>1, <3>2, <3>3
  <2>5. replies' = replies \o Texts(<<Pong>>)
    BY <1>1, <2>1, <2>4
  <2> QED
    BY <2>1, <2>2, <2>3, <2>5, PostedReplies DEF writeVars, closeVars
<1>4. CASE mini_header_.op \notin {"close", "ping"}
  <2>1. HandleData(payload)
    BY <1>4 DEF handle_fragment
  <2>2. CASE mini_header_.fin
    <3>1. PICK n \in 0..MaxReplies :
              LET answers == [k \in 1..n |-> Text(Len(replies) + k)]
              IN tasks' = tasks \o answers /\ replies' = replies \o answers
      BY <2>1, <2>2 DEF HandleData
    <3> DEFINE answers == [k \in 1..n |-> Text(Len(replies) + k)]
    <3>2. tasks' = tasks \o answers /\ replies' = replies \o answers
      BY <3>1
    <3>3. n \in Nat /\ Len(replies) \in Nat
      BY <1>1, BoundAssumption
    <3>4. \A k \in 1..n : Text(Len(replies) + k) \in Frame /\ Text(Len(replies) + k).op = "text"
      BY <3>3 DEF Text, Frame
    <3>5. /\ answers \in Seq(Frame) /\ Len(answers) = n
          /\ \A k \in 1..Len(answers) : answers[k].op = "text"
      <4>1. answers \in Seq(Frame) /\ Len(answers) = n
        BY <3>3, <3>4
      <4>2. ASSUME NEW k \in 1..n PROVE answers[k].op = "text"
        <5>1. answers[k] = Text(Len(replies) + k)
          OBVIOUS
        <5> HIDE DEF answers
        <5> QED
          BY <3>4, <5>1
      <4> HIDE DEF answers
      <4> QED
        BY <4>1, <4>2
    <3> HIDE DEF answers
    <3>6. Texts(answers) = answers
      BY <3>5, TextsOnly
    <3>7. UNCHANGED <<reading, writeVars, closeVars>>
      BY <2>1 DEF HandleData
    <3> QED
      BY <3>2, <3>5, <3>6, <3>7, PostedReplies DEF writeVars, closeVars
  <2>3. CASE ~mini_header_.fin
    <3>1. UNCHANGED <<tasks, replies, reading, writeVars, closeVars>>
      BY <2>1, <2>3 DEF HandleData
    <3>2. GivenUp'
      BY <3>1 DEF RepliesInv, GivenUp, closeVars
    <3> QED
      BY <3>1, <3>2, RepliesUntouched DEF writeVars, closeVars
  <2> QED
    BY <2>2, <2>3
<1> QED
  BY <1>2, <1>3, <1>4

\* At first the upgrade's answer and the open handler's text are on their way.
LEMMA RepliesInit == Init => RepliesInv
<1> SUFFICES ASSUME Init PROVE RepliesInv
  OBVIOUS
<1>1. /\ onWire = <<>> /\ sending_buffers_ = <<Hello>> /\ write_buffers_ = <<>>
      /\ tasks = <<Text(1)>> /\ replies = <<Text(1)>>
      /\ ~has_sent_close_ /\ ~close_connection_ /\ adaptorOpen
  BY DEF Init
<1>2. Hello \in Frame /\ Hello.op # "text" /\ Text(1) \in Frame /\ Text(1).op = "text"
  BY DEF Hello, Text, Frame
<1>3. FramesTyped
  BY <1>1, <1>2 DEF FramesTyped
<1> DEFINE h == Hello
           t == Text(1)
<1>4. onWire \o OnItsWay = (<<>> \o <<h>>) \o <<t>>
  BY <1>1 DEF OnItsWay
<1>5. h \in Frame /\ h.op # "text" /\ t \in Frame /\ t.op = "text" /\ replies = <<t>>
  BY <1>1, <1>2
<1> HIDE DEF h, t
<1>6. /\ <<t>> \in Seq(Frame) /\ <<>> \in Seq(Frame) /\ <<>> \o <<t>> = <<t>>
      /\ Len(<<t>>) = 1 /\ \A k \in 1..1 : <<t>>[k].op = "text"
  BY <1>5
<1>7. Texts((<<>> \o <<h>>) \o <<t>>) = Texts(<<t>>)
  BY <1>5, <1>6, TextsSkip
<1>8. Texts(<<t>>) = <<t>>
  BY <1>6, TextsOnly
<1>9. Intact
  BY <1>4, <1>5, <1>7, <1>8 DEF Intact
<1> QED
  BY <1>1, <1>3, <1>9 DEF RepliesInv, GivenUp

\* Every step keeps the order of the replies.
LEMMA RepliesStep == RepliesInv /\ [Next]_wsVars => RepliesInv'
<1> SUFFICES ASSUME RepliesInv, [Next]_wsVars PROVE RepliesInv'
  OBVIOUS
<1>1. GivenUp
  BY DEF RepliesInv
<1>2. CASE RunTask
  BY <1>2, RunTaskReplies
<1>3. CASE WriteDone
  BY <1>3, WriteDoneReplies
<1>4. CASE WriteFails
  BY <1>4, WriteFailsReplies
<1>5. CASE ReadMiniHeader \/ ReadLength \/ ReadMask \/ HeaderSplit
  <2>1. /\ UNCHANGED <<onWire, sending_buffers_, write_buffers_, tasks, replies, registered,
                       peer, has_sent_close_, close_connection_, adaptorOpen>>
        /\ reading' => reading
    BY <1>5 DEF ReadMiniHeader, ReadLength, ReadMask, HeaderSplit, writeVars, closeVars,
                peerVars, auxVars
  <2>2. GivenUp'
    BY <1>1, <2>1 DEF GivenUp
  <2> QED
    BY <2>1, <2>2, RepliesUntouched
<1>6. CASE ReadPayload
  <2> DEFINE payload == IF remaining_length_ = 0 THEN fragment_
                        ELSE Append(fragment_, Head(incoming).data)
  <2>1. /\ reading /\ UNCHANGED <<onWire, peer>>
        /\ \/ handle_fragment(payload)
           \/ UNCHANGED <<tasks, reading, writeVars, closeVars, replies>>
    BY <1>6 DEF ReadPayload, peerVars
  <2> HIDE DEF payload
  <2>2. CASE handle_fragment(payload)
    BY <2>1, <2>2, FragmentReplies
  <2>3. CASE UNCHANGED <<tasks, reading, writeVars, closeVars, replies>>
    <3>1. GivenUp'
      BY <1>1, <2>1, <2>3 DEF GivenUp, closeVars
    <3> QED
      BY <2>1, <2>3, <3>1, RepliesUntouched DEF writeVars, closeVars
  <2> QED
    BY <2>1, <2>2, <2>3
<1>7. CASE ReadFails
  <2>1. /\ UNCHANGED <<onWire, sending_buffers_, write_buffers_, tasks, replies, peer>>
        /\ ~reading' /\ ~registered'
    BY <1>7 DEF ReadFails, CheckDestroy, writeVars, peerVars, auxVars
  <2>2. GivenUp'
    BY <2>1 DEF GivenUp
  <2> QED
    BY <2>1, <2>2, RepliesUntouched
<1>8. CASE Peer \/ UNCHANGED wsVars
  <2>1. /\ UNCHANGED <<onWire, sending_buffers_, write_buffers_, tasks, replies, registered,
                       reading, has_sent_close_, close_connection_, adaptorOpen>>
        /\ peer = "gone" => peer' = "gone"
    <3>1. CASE UNCHANGED wsVars
      BY <3>1 DEF wsVars, readVars, writeVars, closeVars, peerVars, auxVars
    <3>2. CASE Peer
      BY <3>2 DEF Peer, PeerSendsData, PeerSendsControl, PeerGoes, readVars, writeVars,
                  closeVars, auxVars
    <3> QED
      BY <1>8, <3>1, <3>2
  <2>2. GivenUp'
    BY <1>1, <2>1 DEF GivenUp
  <2> QED
    BY <2>1, <2>2, RepliesUntouched
<1> QED
  BY <1>2, <1>3, <1>4, <1>5, <1>6, <1>7, <1>8 DEF Next, Server

\* Only a handler sends, and only a write that ends brings frames to the peer.
LEMMA RepliesMove ==
    ASSUME RepliesInv, [Next]_wsVars
    PROVE  \/ UNCHANGED <<replies, onWire>>
           \/ UNCHANGED onWire /\ \E new \in Seq(Frame) : replies' = replies \o new
           \/ UNCHANGED replies /\ \E new \in Seq(Frame) : onWire' = onWire \o new
<1>1. replies \in Seq(Frame) /\ sending_buffers_ \in Seq(Frame)
  BY DEF RepliesInv, FramesTyped
<1>2. CASE UNCHANGED wsVars \/ RunTask \/ ReadMiniHeader \/ ReadLength \/ ReadMask
           \/ ReadFails \/ HeaderSplit \/ Peer
  <2>1. CASE UNCHANGED wsVars
    BY <2>1 DEF wsVars, auxVars
  <2>2. CASE RunTask \/ ReadMiniHeader \/ ReadLength \/ ReadMask \/ ReadFails \/ HeaderSplit
    BY <2>2 DEF RunTask, ReadMiniHeader, ReadLength, ReadMask, ReadFails, HeaderSplit, auxVars
  <2>3. CASE Peer
    BY <2>3 DEF Peer, PeerSendsData, PeerSendsControl, PeerGoes, auxVars
  <2> QED
    BY <1>2, <2>1, <2>2, <2>3
<1>3. CASE WriteDone
  BY <1>1, <1>3 DEF WriteDone
<1>4. CASE WriteFails
  <2>1. PICK n \in 0..Len(sending_buffers_) :
            onWire' = onWire \o SubSeq(sending_buffers_, 1, n)
    BY <1>4 DEF WriteFails
  <2>2. SubSeq(sending_buffers_, 1, n) \in Seq(Frame)
    BY <1>1, CutAt
  <2>3. UNCHANGED replies
    BY <1>4 DEF WriteFails
  <2> QED
    BY <2>1, <2>2, <2>3
<1>5. CASE ReadPayload
  <2> DEFINE payload == IF remaining_length_ = 0 THEN fragment_
                        ELSE Append(fragment_, Head(incoming).data)
  <2>1. UNCHANGED onWire /\ (handle_fragment(payload) \/ UNCHANGED replies)
    BY <1>5 DEF ReadPayload
  <2> HIDE DEF payload
  <2>2. CASE handle_fragment(payload)
    <3>1. CASE mini_header_.op \in {"close", "ping"}
      BY <2>1, <2>2, <3>1 DEF handle_fragment, HandleClose, HandlePing
    <3>2. CASE mini_header_.op \notin {"close", "ping"}
      <4>1. HandleData(payload)
        BY <2>2, <3>2 DEF handle_fragment
      <4>2. CASE mini_header_.fin
        <5>1. PICK n \in 0..MaxReplies :
                  replies' = replies \o [k \in 1..n |-> Text(Len(replies) + k)]
          BY <4>1, <4>2 DEF HandleData
        <5>2. n \in Nat /\ Len(replies) \in Nat
          BY <1>1, BoundAssumption
        <5>3. \A k \in 1..n : Text(Len(replies) + k) \in Frame
          BY <5>2 DEF Text, Frame
        <5>4. [k \in 1..n |-> Text(Len(replies) + k)] \in Seq(Frame)
          BY <5>2, <5>3
        <5> QED
          BY <2>1, <5>1, <5>4
      <4>3. CASE ~mini_header_.fin
        BY <2>1, <4>1, <4>3 DEF HandleData
      <4> QED
        BY <4>2, <4>3
    <3> QED
      BY <3>1, <3>2
  <2> QED
    BY <2>1, <2>2
<1> QED
  BY <1>2, <1>3, <1>4, <1>5 DEF Next, Server

\* What a sequence begins with.
LEMMA ConcatBegins ==
    ASSUME NEW S, NEW a \in Seq(S), NEW b \in Seq(S)
    PROVE  IsPrefix(a, a \o b)
<1>1. a \o b \in Seq(S) /\ Len(a) \in 0..Len(a \o b) /\ SubSeq(a \o b, 1, Len(a)) = a
  <2>1. a \o b \in Seq(S) /\ Len(a) \in 0..Len(a \o b)
    OBVIOUS
  <2> DEFINE c == SubSeq(a \o b, 1, Len(a))
  <2>2. c \in Seq(S) /\ Len(c) = Len(a) /\ \A k \in 1..Len(a) : c[k] = a[k]
    OBVIOUS
  <2> HIDE DEF c
  <2>3. c = a
    BY <2>2
  <2> QED
    BY <2>1, <2>3 DEF c
<1>2. Begins(a, a \o b)
  BY <1>1 DEF Begins
<1> QED
  BY <1>1, <1>2, BeginsIsPrefix

\* What has arrived begins what was sent.
LEMMA RepliesPrefix == RepliesInv => IsPrefix(Texts(onWire), replies)
<1> SUFFICES ASSUME RepliesInv PROVE IsPrefix(Texts(onWire), replies)
  OBVIOUS
<1>1. FramesTyped /\ (Intact \/ CutOff)
  BY DEF RepliesInv
<1>2. \E rest \in Seq(Frame) : replies = Texts(onWire) \o rest
  <2>1. onWire \in Seq(Frame) /\ OnItsWay \in Seq(Frame)
    BY <1>1, Grouped DEF FramesTyped, OnItsWay
  <2> QED
    BY <1>1, <2>1, IntactRest DEF Intact, CutOff
<1>3. Texts(onWire) \in Seq(Frame)
  BY <1>1, TextsType DEF FramesTyped
<1> QED
  BY <1>2, <1>3, ConcatBegins

\* However the frames are gathered and written, whatever other frames are among them
\* and wherever the connection breaks off: the writer of Connection (crow_all.h
\* send_data, do_write and its completion) is a channel, which brings the texts of the
\* handlers to the page in the order they were sent, each once.
THEOREM RepliesArriveInOrder == Spec => RepliesImplementChannel
<1>1. Init => RepliesInOrder!Init
  BY RepliesPrefix, RepliesInit DEF RepliesInOrder!Init, RepliesInOrder!IsPrefix, IsPrefix
<1>2. RepliesInv /\ RepliesInv' /\ [Next]_wsVars
      => [RepliesInOrder!Next]_<<replies, Texts(onWire)>>
  <2> SUFFICES ASSUME RepliesInv, RepliesInv', [Next]_wsVars
               PROVE  [RepliesInOrder!Next]_<<replies, Texts(onWire)>>
    OBVIOUS
  <2>1. /\ onWire \in Seq(Frame) /\ replies \in Seq(Frame)
        /\ Texts(onWire) \in Seq(Frame)
    BY TextsType DEF RepliesInv, FramesTyped
  <2>2. CASE UNCHANGED <<replies, onWire>>
    BY <2>2 DEF Texts
  <2>3. CASE UNCHANGED onWire /\ \E new \in Seq(Frame) : replies' = replies \o new
    <3>1. IsPrefix(replies, replies')
      BY <2>1, <2>3, ConcatBegins
    <3>2. Texts(onWire)' = Texts(onWire)
      BY <2>3 DEF Texts
    <3> QED
      BY <3>1, <3>2
         DEF RepliesInOrder!Next, RepliesInOrder!Send, RepliesInOrder!IsPrefix, IsPrefix
  <2>4. CASE UNCHANGED replies /\ \E new \in Seq(Frame) : onWire' = onWire \o new
    <3>1. PICK new \in Seq(Frame) : onWire' = onWire \o new
      BY <2>4
    <3>2. Texts(onWire)' = Texts(onWire')
      BY DEF Texts
    <3>3. Texts(onWire') = Texts(onWire) \o Texts(new)
      BY <2>1, <3>1, TextsConcat
    <3>4. Texts(new) \in Seq(Frame)
      BY TextsType
    <3>5. IsPrefix(Texts(onWire), Texts(onWire)')
      BY <2>1, <3>2, <3>3, <3>4, ConcatBegins
    <3>6. IsPrefix(Texts(onWire)', replies)
      <4>1. (RepliesInv => IsPrefix(Texts(onWire), replies))'
        BY RepliesPrefix, PTL
      <4>2. IsPrefix(Texts(onWire), replies)'
        BY <4>1
      <4> QED
        BY <2>4, <4>2
    <3> QED
      BY <2>4, <3>5, <3>6
         DEF RepliesInOrder!Next, RepliesInOrder!Receive, RepliesInOrder!IsPrefix, IsPrefix
  <2> QED
    BY <2>2, <2>3, <2>4, RepliesMove
<1> QED
  BY <1>1, <1>2, RepliesInit, RepliesStep, PTL
     DEF Spec, RepliesImplementChannel, RepliesInOrder!Spec
=============================================================================
