------------------------------- MODULE Stream -------------------------------
(***************************************************************************)
(* sylar/stream.cc, sylar/streams/socket_stream.cc and the send, receive   *)
(* and close of sylar/socket.cc, with the ByteArray of module ByteArray.   *)
(*                                                                         *)
(* One fiber owns the array and the stream.  While it is in readFixSize()  *)
(* or writeFixSize() every turn of the loop is a step of its own, between  *)
(* which the peer sends and hangs up; the kernel (external) moves as many  *)
(* bytes as it likes.                                                      *)
(***************************************************************************)
EXTENDS ByteArray

CONSTANTS Source,      (* the caller's buffer, for writeFixSize(buffer)      *)
          Lengths,     (* the lengths of the calls                           *)
          MaxWire      (* bound: bytes the peer sends                        *)

ASSUME StreamAssumption ==
    Source \in Seq(Byte) /\ MaxWire \in 0 .. Radix - 1 /\ Lengths \subseteq Nat \ {0}

VARIABLES m_isConnected,   (* Socket::m_isConnected                          *)
          inbox,           (* bytes that have arrived and wait to be read    *)
          sent,            (* how many the peer has sent                     *)
          hungUp,          (* has the peer closed?                           *)
          call,            (* the call that runs, or the result of the last  *)
          buffer,          (* the caller's buffer                            *)
          moved            (* history: what the call has moved so far        *)

streamVars == <<m_isConnected, inbox, sent, hungUp, call, buffer, moved>>
allVars    == <<vars, streamVars>>

NoCall == [op |-> "none", on |-> "ba", length |-> 0, left |-> 0, start |-> 0,
           rt |-> 0, running |-> FALSE]

StreamInit ==
    /\ Init
    /\ m_isConnected = TRUE /\ inbox = <<>> /\ sent = 0 /\ hungUp = FALSE
    /\ call = NoCall /\ buffer = <<>> /\ moved = <<>>

(* The fiber calls readFixSize() or writeFixSize() on the array or a buffer. *)
Call(op, on, n) ==
    /\ ~call.running /\ ~fault
    /\ writes < MaxWrites /\ writes' = writes + 1
    /\ on = "ba" /\ op = "read" => ba.m_position + n <= MaxSize
    /\ on = "buffer" /\ op = "write" => n <= Len(Source)
    /\ call' = [op |-> op, on |-> on, length |-> n, left |-> n,
                start |-> ba.m_position, rt |-> 0, running |-> TRUE]
    /\ buffer' = IF on = "buffer" /\ op = "write" THEN Source ELSE <<>>
    /\ moved' = <<>>
    /\ last' = IF on = "ba" /\ op = "read" THEN Nothing ELSE last
    /\ ret' = <<>> /\ threw' = FALSE
    /\ UNCHANGED <<ba, fault, m_isConnected, inbox, sent, hungUp>>

(* The loop ends: everything has been moved, or len <= 0.                    *)
Return(rt) ==
    /\ call' = [call EXCEPT !.rt = rt, !.running = FALSE]
    /\ UNCHANGED <<inbox, buffer, moved>>

(* One turn moves the bytes s.                                               *)
Moves(s) ==
    /\ s # <<>>
    /\ moved' = moved \o s
    /\ call' = [call EXCEPT !.left = @ - Len(s)]

ArrayKept == UNCHANGED <<ba, fault, last>>

(* read(ba, left): the buffers of getWriteBuffers() are filled, and          *)
(* setPosition() makes what came in part of the array.                       *)
getWriteBuffers == addCapacity(ba, call.left)
ReadArray ==
    LET c == getWriteBuffers
        a == Start(c.m_cur, c.m_position)
    IN  \/ /\ \E k \in 1 .. Len(inbox) :
                  /\ k <= call.left
                  /\ Moves(SubSeq(inbox, 1, k))
                  /\ inbox' = SubSeq(inbox, k + 1, Len(inbox))
                  /\ ba' = setPosition(Filled(c, a, SubSeq(inbox, 1, k)),
                                       c.m_position + k)
           /\ fault' = Misses(c, c.m_cur, c.m_position, call.left)
           /\ last' = [kind |-> "raw", value |-> moved', pos |-> call.start,
                       endian |-> ba.m_endian]
           /\ UNCHANGED buffer
        \/ /\ \/ inbox = <<>> /\ hungUp /\ Return(0)
              \/ Return(-1)
           /\ ba' = c /\ UNCHANGED <<fault, last>>

(* read(buffer + offset, left)                                               *)
ReadBuffer ==
    /\ \/ \E k \in 1 .. Len(inbox) :
              /\ k <= call.left
              /\ Moves(SubSeq(inbox, 1, k))
              /\ inbox' = SubSeq(inbox, k + 1, Len(inbox))
              /\ buffer' = SubSeq(buffer, 1, call.length - call.left)
                               \o SubSeq(inbox, 1, k)
       \/ inbox = <<>> /\ hungUp /\ Return(0)
       \/ Return(-1)
    /\ ArrayKept

(* Mutant: from the root.                                                    *)
ReadBuffersFromRoot ==
    LET n == IF call.left > getReadSize(ba) THEN getReadSize(ba) ELSE call.left
    IN  IF n = 0 THEN <<>> ELSE BytesFrom(ba, 0, ba.m_position, n)

(* write(ba, left): getReadBuffers() offers what can be read, at most left   *)
(* bytes; with none of it, sendmsg() sends nothing.                          *)
getReadBuffers ==
    LET n == IF call.left > getReadSize(ba) THEN getReadSize(ba) ELSE call.left
    IN  IF n = 0 THEN <<>> ELSE BytesFrom(ba, ba.m_cur, ba.m_position, n)
WriteArray ==
    \/ \E k \in 1 .. Len(getReadBuffers) :
           /\ Moves(SubSeq(getReadBuffers, 1, k))
           /\ ba' = setPosition(ba, ba.m_position + k)
           /\ UNCHANGED <<fault, last, inbox, buffer>>
    \/ getReadBuffers = <<>> /\ Return(0) /\ ArrayKept
    \/ Return(-1) /\ ArrayKept

(* write(buffer + offset, left)                                              *)
WriteBuffer ==
    LET offset == call.length - call.left
    IN  /\ \/ \E k \in 1 .. call.left :
                  Moves(SubSeq(buffer, offset + 1, offset + k)) /\ UNCHANGED <<inbox, buffer>>
           \/ Return(-1)
        /\ ArrayKept

(* A turn of the loop of the call.                                           *)
Turn ==
    /\ call.running
    /\ IF call.left = 0 THEN Return(call.length) /\ ArrayKept
       ELSE IF ~m_isConnected THEN Return(-1) /\ ArrayKept
       ELSE \/ call.op = "read" /\ call.on = "ba" /\ ReadArray
            \/ call.op = "read" /\ call.on = "buffer" /\ ReadBuffer
            \/ call.op = "write" /\ call.on = "ba" /\ WriteArray
            \/ call.op = "write" /\ call.on = "buffer" /\ WriteBuffer
    /\ ret' = <<>> /\ threw' = FALSE
    /\ UNCHANGED <<writes, m_isConnected, sent, hungUp>>

(* What happens on the connection matters only to a call that runs.          *)
(* SocketStream::close() by whoever holds the stream.                        *)
Close ==
    /\ call.running /\ m_isConnected
    /\ m_isConnected' = FALSE
    /\ UNCHANGED <<vars, inbox, sent, hungUp, call, buffer, moved>>

PeerSends ==
    /\ call.running /\ ~hungUp /\ sent < MaxWire
    /\ sent' = sent + 1 /\ inbox' = Append(inbox, sent + 1)
    /\ UNCHANGED <<vars, m_isConnected, hungUp, call, buffer, moved>>

PeerHangsUp ==
    /\ call.running /\ ~hungUp /\ hungUp' = TRUE
    /\ UNCHANGED <<vars, m_isConnected, inbox, sent, call, buffer, moved>>

(* Between two calls the fiber uses the array; the result of the last call   *)
(* is then no longer kept.                                                   *)
ArrayOperation ==
    /\ ~call.running /\ Next
    /\ call' = NoCall /\ buffer' = <<>> /\ moved' = <<>>
    /\ UNCHANGED <<m_isConnected, inbox, sent, hungUp>>

StreamNext ==
    \/ ArrayOperation
    \/ \E op \in {"read", "write"}, on \in {"ba", "buffer"}, n \in Lengths :
           Call(op, on, n)
    \/ Turn \/ Close \/ PeerSends \/ PeerHangsUp

StreamSpec == StreamInit /\ [][StreamNext]_allVars

-----------------------------------------------------------------------------
(* Properties.                                                               *)

(* readFixSize() and writeFixSize() move the bytes of a call in order, each   *)
(* once, however the kernel cuts them: what has been moved is what the array  *)
(* or the buffer holds from where the call began, the position has followed,  *)
(* and the call answers its length exactly when all of it has been moved.     *)
StreamExact ==
    LET n == Len(moved)
    IN  /\ call.left = call.length - n
        /\ call.running /\ call.on = "ba" =>
               ba.m_position = call.start + n /\ Slice(call.start, n) = moved
        /\ call.op # "none" /\ call.on = "buffer" => SubSeq(buffer, 1, n) = moved
        /\ ~call.running /\ call.op # "none" =>
               (call.rt = call.length) = (n = call.length)
=============================================================================
