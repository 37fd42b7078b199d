------------------------------ MODULE WebSocket ------------------------------
(***************************************************************************)
(* A server-side WebSocket connection of Crow (crow_all.h, namespace       *)
(* websocket), as the engine uses it: frames are read piece by piece and   *)
(* put together to messages for the program's handler; what the handlers   *)
(* send is posted to the connection's thread, collected, and written one   *)
(* batch at a time; the peer may close, or vanish with reads and writes    *)
(* under way.                                                              *)
(*                                                                         *)
(* The thread of the connection runs one completion or task at a time.  A  *)
(* read that was started after a handler had posted its sends may end      *)
(* before those tasks have run: see Scheduler, where an event of the       *)
(* socket that is already queued completes the new read.                   *)
(*                                                                         *)
(* The engine never closes a connection itself, never pings, and sets no   *)
(* maximum payload; the branches for these are not modelled.               *)
(***************************************************************************)
EXTENDS Naturals, Sequences, SequencesExt

CONSTANTS MaxFrames,    \* bound: frames the peer sends
          MaxChunks,    \* bound: chunks of a payload, each what one read takes
          MaxReplies    \* bound: what a handler sends for one message

ASSUME BoundAssumption ==
    MaxFrames \in Nat /\ MaxChunks \in Nat /\ MaxReplies \in Nat

VARIABLES
    incoming,         \* pieces of frames the peer has sent and no read has taken
    peer,             \* "open", "closing" once it sent a close frame, "gone"
    state_,           \* what the next read takes
    reading,          \* a read is under way; its completion keeps the object alive
    mini_header_,     \* the header of the current frame
    remaining_length_,\* chunks of it left to read
    fragment_,        \* its payload so far
    message_,         \* the payloads of the current message so far
    tasks,            \* sends posted to the thread and not yet run
    write_buffers_, sending_buffers_,
    close_connection_, has_sent_close_, has_recv_close_, is_close_handler_called_,
    adaptorOpen,      \* the socket has not been closed by the server
    registered,       \* in the app's websockets_, which keeps the object alive
    \* auxiliary: no step of the server reads these
    posed,            \* messages the peer has sent to their last frame
    pose,             \* the chunks of the message it is in the middle of
    posing,           \* it is in the middle of one
    made,             \* frames the peer has made
    delivered,        \* messages handed to message_handler_
    replies,          \* texts the handlers have sent
    onWire,           \* frames that reached the peer
    closeCalls,       \* how often close_handler_ was called
    torn              \* a read returned half a header

readVars == <<state_, reading, mini_header_, remaining_length_, fragment_, message_>>
writeVars == <<write_buffers_, sending_buffers_>>
closeVars == <<close_connection_, has_sent_close_, has_recv_close_,
               is_close_handler_called_, adaptorOpen, registered, closeCalls>>
peerVars == <<peer, posed, pose, posing, made>>
auxVars == <<delivered, replies, onWire, torn>>
wsVars == <<incoming, tasks, readVars, writeVars, closeVars, peerVars, auxVars>>

-----------------------------------------------------------------------------
(* Frames.                                                                 *)

Hello == [op |-> "hello", data |-> 0]
Text(n) == [op |-> "text", data |-> n]
Pong == [op |-> "pong", data |-> 0]
CloseFrame == [op |-> "close", data |-> 0]

NoHeader == [op |-> "none", fin |-> FALSE, size |-> 0]

\* Which read follows a mini header: the short lengths are in the header itself,
\* the longer ones in two or eight bytes after it.
LengthState(size) ==
    IF size = 3 THEN "Len64" ELSE IF size = 2 THEN "Len16" ELSE "Mask"

\* What the peer puts on the wire for a frame; a browser masks every frame.
Pieces(header, chunks) ==
    LET length == LengthState(header.size)
        piece(kind) == [kind |-> kind, header |-> header]
    IN <<piece("MiniHeader")>>
       \o (IF length = "Mask" THEN <<>> ELSE <<piece(length)>>)
       \o <<piece("Mask")>>
       \o [k \in DOMAIN chunks |-> [kind |-> "Payload", data |-> chunks[k]]]

-----------------------------------------------------------------------------
(* Writing.                                                                *)

\* What keeps the object alive.  A posted send only watches it.
Alive == registered \/ reading \/ sending_buffers_ # <<>>

\* Slip: the swap without the test for a batch under way.
DoWriteAtOnce(frames) ==
    /\ sending_buffers_' = write_buffers_ \o frames
    /\ write_buffers_' = <<>>

\* do_write after frames have been appended: a batch starts when none is under way.
DoWrite(frames) ==
    IF sending_buffers_ = <<>>
    THEN /\ sending_buffers_' = write_buffers_ \o frames
         /\ write_buffers_' = <<>>
    ELSE /\ write_buffers_' = write_buffers_ \o frames
         /\ UNCHANGED sending_buffers_

\* Slip: the close handler is left out of it.
CheckDestroyQuietly ==
    /\ registered' = FALSE
    /\ UNCHANGED closeCalls

\* What check_destroy does: it tells the program unless a close frame did, and leaves the list.
CheckDestroy ==
    /\ closeCalls' = IF is_close_handler_called_ THEN closeCalls ELSE closeCalls + 1
    /\ registered' = FALSE

\* A posted send; it does nothing when the object is gone.
RunTask ==
    /\ tasks # <<>>
    /\ tasks' = Tail(tasks)
    /\ IF Alive THEN DoWrite(<<Head(tasks)>>) ELSE UNCHANGED writeVars
    /\ UNCHANGED <<incoming, readVars, closeVars, peerVars, auxVars>>

\* Slip: the completion leaves what has gathered meanwhile where it is.
WriteDoneForgets ==
    /\ sending_buffers_ # <<>> /\ adaptorOpen /\ ~close_connection_
    /\ onWire' = IF peer = "gone" THEN onWire ELSE onWire \o sending_buffers_
    /\ sending_buffers_' = <<>>
    /\ close_connection_' = has_sent_close_
    /\ UNCHANGED <<incoming, tasks, write_buffers_, readVars, has_sent_close_,
                   has_recv_close_, is_close_handler_called_, adaptorOpen, registered,
                   closeCalls, peerVars, delivered, replies, torn>>

\* async_write succeeds.  What reaches a peer that goes before is not counted.
WriteDone ==
    /\ sending_buffers_ # <<>> /\ adaptorOpen /\ ~close_connection_
    /\ onWire' = IF peer = "gone" THEN onWire ELSE onWire \o sending_buffers_
    /\ sending_buffers_' = write_buffers_ /\ write_buffers_' = <<>>
    /\ close_connection_' = has_sent_close_
    /\ UNCHANGED <<incoming, tasks, readVars, has_sent_close_, has_recv_close_,
                   is_close_handler_called_, adaptorOpen, registered, closeCalls,
                   peerVars, delivered, replies, torn>>

\* async_write ends because the peer is gone or the socket was closed under it (part
\* of the batch may have arrived), or ends well on a connection already given up.
WriteFails ==
    /\ sending_buffers_ # <<>>
    /\ peer = "gone" \/ ~adaptorOpen \/ close_connection_
    /\ \E n \in 0..Len(sending_buffers_) :
        /\ peer = "gone" => n = 0
        /\ onWire' = onWire \o SubSeq(sending_buffers_, 1, n)
    /\ sending_buffers_' = <<>>
    /\ close_connection_' = TRUE
    /\ CheckDestroy
    /\ UNCHANGED <<incoming, tasks, write_buffers_, readVars, has_sent_close_,
                   has_recv_close_, is_close_handler_called_, adaptorOpen, peerVars,
                   delivered, replies, torn>>

-----------------------------------------------------------------------------
(* Reading.                                                                *)

Take(kind) ==
    /\ reading /\ state_ = kind
    /\ incoming # <<>> /\ Head(incoming).kind = kind
    /\ incoming' = Tail(incoming)

\* The header is read with async_read_some, which may return its first byte alone.
\* A build with CROW_ENABLE_DEBUG throws there; the others read on in the middle of
\* the frame, which is not followed.
HeaderSplit ==
    /\ Take("MiniHeader")
    /\ torn' = TRUE
    /\ reading' = FALSE
    /\ UNCHANGED <<tasks, state_, mini_header_, remaining_length_, fragment_, message_,
                   writeVars, closeVars, peerVars, delivered, replies, onWire>>

ReadMiniHeader ==
    /\ Take("MiniHeader")
    /\ LET header == Head(incoming).header IN
        /\ mini_header_' = header
        /\ state_' = LengthState(header.size)
        /\ remaining_length_' = header.size
    /\ UNCHANGED <<tasks, reading, fragment_, message_, writeVars, closeVars, peerVars, auxVars>>

ReadLength ==
    /\ \E kind \in {"Len16", "Len64"} : Take(kind)
    /\ state_' = "Mask"
    /\ UNCHANGED <<tasks, reading, mini_header_, remaining_length_, fragment_, message_,
                   writeVars, closeVars, peerVars, auxVars>>

ReadMask ==
    /\ Take("Mask")
    /\ state_' = "Payload"
    /\ UNCHANGED <<tasks, reading, mini_header_, remaining_length_, fragment_, message_,
                   writeVars, closeVars, peerVars, auxVars>>

\* Slip: the message is not cleared once it has been handed over.
HandleDataKeeps(payload) ==
    /\ message_' = message_ \o payload
    /\ IF mini_header_.fin
       THEN /\ delivered' = Append(delivered, message_ \o payload)
            /\ \E n \in 0..MaxReplies :
                LET answers == [k \in 1..n |-> Text(Len(replies) + k)]
                IN tasks' = tasks \o answers /\ replies' = replies \o answers
       ELSE UNCHANGED <<tasks, delivered, replies>>
    /\ UNCHANGED <<reading, writeVars, closeVars>>

\* A frame of a message: the program's handler gets the message with its last frame
\* and posts what it answers.
HandleData(payload) ==
    /\ IF mini_header_.fin
       THEN /\ delivered' = Append(delivered, message_ \o payload)
            /\ message_' = <<>>
            /\ \E n \in 0..MaxReplies :
                LET answers == [k \in 1..n |-> Text(Len(replies) + k)]
                IN tasks' = tasks \o answers /\ replies' = replies \o answers
       ELSE /\ message_' = message_ \o payload
            /\ UNCHANGED <<tasks, delivered, replies>>
    /\ UNCHANGED <<reading, writeVars, closeVars>>

\* The peer's close frame: the answer goes to the write buffers, the program's close
\* handler is called, and the next do_read, which finds both closes, shuts the socket
\* and lets go of the connection.
HandleClose ==
    /\ has_recv_close_' = TRUE /\ has_sent_close_' = TRUE
    /\ is_close_handler_called_' = TRUE
    /\ closeCalls' = IF is_close_handler_called_ THEN closeCalls ELSE closeCalls + 1
    /\ DoWrite(<<CloseFrame>>)
    /\ close_connection_' = TRUE /\ adaptorOpen' = FALSE
    /\ registered' = FALSE
    /\ reading' = FALSE
    /\ UNCHANGED <<tasks, message_, delivered, replies>>

HandlePing ==
    /\ tasks' = Append(tasks, Pong)
    /\ UNCHANGED <<reading, message_, writeVars, closeVars, delivered, replies>>

handle_fragment(payload) ==
    CASE mini_header_.op = "close" -> HandleClose
      [] mini_header_.op = "ping" -> HandlePing
      [] OTHER -> HandleData(payload)

\* What is left of a payload after the read, of a chunk or of nothing at all.
LeftOfPayload == IF remaining_length_ = 0 THEN 0 ELSE remaining_length_ - 1

\* A payload read.  An empty payload is read at once, whatever there is to read.
ReadPayload ==
    /\ reading /\ state_ = "Payload"
    /\ LET empty == remaining_length_ = 0
           payload == IF empty THEN fragment_ ELSE Append(fragment_, Head(incoming).data)
       IN /\ IF empty THEN UNCHANGED incoming
             ELSE incoming # <<>> /\ incoming' = Tail(incoming)
          /\ remaining_length_' = LeftOfPayload
          /\ IF LeftOfPayload = 0
             THEN /\ handle_fragment(payload)
                  /\ fragment_' = <<>>
                  /\ state_' = "MiniHeader"
             ELSE /\ fragment_' = payload
                  /\ UNCHANGED <<state_, tasks, reading, message_, writeVars, closeVars,
                                 delivered, replies>>
    /\ UNCHANGED <<mini_header_, peerVars, onWire, torn>>

\* The end of what the peer sent, or its reset.
ReadFails ==
    /\ reading
    /\ peer = "gone" /\ incoming = <<>>
    /\ ~(state_ = "Payload" /\ remaining_length_ = 0)
    /\ reading' = FALSE
    /\ close_connection_' = TRUE
    /\ adaptorOpen' = FALSE
    /\ CheckDestroy
    /\ UNCHANGED <<incoming, tasks, state_, mini_header_, remaining_length_, fragment_,
                   message_, writeVars, has_sent_close_, has_recv_close_,
                   is_close_handler_called_, peerVars, auxVars>>

-----------------------------------------------------------------------------
(* The peer.                                                               *)

\* A frame of a message, whole or a part of one.  The peer makes none before it has
\* the answer to its upgrade.
PeerSendsData ==
    /\ peer = "open" /\ onWire # <<>> /\ made < MaxFrames
    /\ \E fin \in BOOLEAN, size \in 0..MaxChunks :
        LET op == IF posing THEN "continuation" ELSE "text"
            chunks == [k \in 1..size |-> made + 1]
        IN /\ incoming' = incoming \o Pieces([op |-> op, fin |-> fin, size |-> size], chunks)
           /\ posing' = ~fin
           /\ pose' = IF fin THEN <<>> ELSE pose \o chunks
           /\ posed' = IF fin THEN Append(posed, pose \o chunks) ELSE posed
    /\ made' = made + 1
    /\ UNCHANGED <<tasks, peer, readVars, writeVars, closeVars, auxVars>>

\* Control frames may come between the frames of a message.
PeerSendsControl ==
    /\ peer = "open" /\ onWire # <<>> /\ made < MaxFrames
    /\ \E op \in {"ping", "close"} :
        /\ incoming' = incoming \o Pieces([op |-> op, fin |-> TRUE, size |-> 0], <<>>)
        /\ peer' = IF op = "close" THEN "closing" ELSE peer
    /\ made' = made + 1
    /\ UNCHANGED <<tasks, posed, pose, posing, readVars, writeVars, closeVars, auxVars>>

\* The peer's end is closed or lost; what was not read yet may be lost with it.
PeerGoes ==
    /\ peer # "gone"
    /\ peer' = "gone"
    /\ incoming' \in {incoming, <<>>}
    /\ UNCHANGED <<tasks, posed, pose, posing, made, readVars, writeVars, closeVars, auxVars>>

-----------------------------------------------------------------------------
\* The state start() leaves: the upgrade's answer is being written, the open handler
\* has posted what it sends, and the first header is awaited.
Init ==
    /\ incoming = <<>> /\ peer = "open"
    /\ state_ = "MiniHeader" /\ reading = TRUE
    /\ mini_header_ = NoHeader /\ remaining_length_ = 0
    /\ fragment_ = <<>> /\ message_ = <<>>
    /\ tasks = <<Text(1)>> /\ replies = <<Text(1)>>
    /\ sending_buffers_ = <<Hello>> /\ write_buffers_ = <<>>
    /\ close_connection_ = FALSE /\ has_sent_close_ = FALSE /\ has_recv_close_ = FALSE
    /\ is_close_handler_called_ = FALSE
    /\ adaptorOpen = TRUE /\ registered = TRUE
    /\ posed = <<>> /\ pose = <<>> /\ posing = FALSE /\ made = 0
    /\ delivered = <<>> /\ onWire = <<>> /\ closeCalls = 0 /\ torn = FALSE

Server ==
    \/ RunTask \/ WriteDone \/ WriteFails
    \/ ReadMiniHeader \/ ReadLength \/ ReadMask \/ ReadPayload \/ ReadFails

Peer == PeerSendsData \/ PeerSendsControl \/ PeerGoes

Next == Server \/ HeaderSplit \/ Peer

Spec == Init /\ [][Next]_wsVars

\* The thread of the connection is never kept from its next completion or task; a
\* peer that is there reads, so that a write ends.
FairSpec ==
    /\ Spec
    /\ WF_wsVars(RunTask) /\ WF_wsVars(WriteDone) /\ WF_wsVars(WriteFails)
    /\ WF_wsVars(ReadMiniHeader \/ ReadLength \/ ReadMask \/ ReadPayload \/ ReadFails)

-----------------------------------------------------------------------------
(* Properties.                                                             *)

Headers == [op : {"none", "text", "continuation", "ping", "close"},
            fin : BOOLEAN, size : 0..MaxChunks]

WebSocketTypeOK ==
    /\ peer \in {"open", "closing", "gone"}
    /\ state_ \in {"MiniHeader", "Len16", "Len64", "Mask", "Payload"}
    /\ mini_header_ \in Headers /\ remaining_length_ \in 0..MaxChunks
    /\ {reading, close_connection_, has_sent_close_, has_recv_close_, adaptorOpen,
        is_close_handler_called_, registered, posing, torn} \subseteq BOOLEAN
    /\ made \in 0..MaxFrames /\ closeCalls \in Nat

\* The texts among frames, in order; a recursive function, which the proofs can unfold.
Texts(frames) ==
    LET texts[n \in 0..Len(frames)] ==
          IF n = 0 THEN <<>>
          ELSE IF frames[n].op = "text" THEN Append(texts[n - 1], frames[n])
          ELSE texts[n - 1]
    IN texts[Len(frames)]

\* What the handlers send reaches the page in the order it was sent, each text once,
\* however the writes are batched and whenever the connection ends: Session relies on
\* it for the balances, the trades and the candles.
RepliesInOrder == INSTANCE Channel WITH sent <- replies, received <- Texts(onWire)
RepliesImplementChannel == RepliesInOrder!Spec

\* Every message the page sends reaches the message handler whole and in order, in
\* however many frames and reads it comes and whatever control frames are between.
MessagesInOrder == INSTANCE Channel WITH sent <- posed, received <- delivered
MessagesImplementChannel == MessagesInOrder!Spec

\* Nothing waits in write_buffers_ with no write under way that would take it along:
\* do_write's return when a batch is under way loses no wake-up.
NothingLeftBehind ==
    write_buffers_ # <<>> /\ ~close_connection_ => sending_buffers_ # <<>>

\* The object is not let go of without the program's close handler having been called.
ClosedIsTold == ~registered => closeCalls > 0

\* A peer that closes or vanishes is noticed, whatever was being read or written then,
\* and the app lets go of the connection.
ConnectionsEnd == peer # "open" ~> torn \/ (~registered /\ ~Alive)

\* What a handler sent reaches a page that stays.
RepliesArrive ==
    \A n \in 1..(1 + MaxFrames * MaxReplies) :
        n <= Len(replies) ~> n <= Len(Texts(onWire)) \/ close_connection_ \/ peer # "open"

\* crow_all.h:10544 "if the close handler was not yet called at this point": the close
\* handler is called once for a connection.  check_destroy calls it and does not note
\* that it did.
CloseHandlerOnce == closeCalls <= 1

\* crow_all.h:10043 "Sets a flag to destroy the object once the message is sent": a
\* connection that ends with both closes has sent its close frame, unless the peer went.
CloseFrameSent ==
    has_sent_close_ /\ peer # "gone" /\ ~Alive => Contains(onWire, CloseFrame)

\* crow_all.h:10173 "WebSocket:MiniHeader:async_read fail:asio bug?": a header is read
\* whole.
HeaderReadsWhole == ~torn
=============================================================================
