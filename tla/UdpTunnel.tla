----------------------------- MODULE UdpTunnel ------------------------------
(***************************************************************************)
(* Datagrams over one encrypted stream, both ways (udp_pipe.cpp).  The     *)
(* client end is a UdpProxy entry for one source address, the server end   *)
(* a UdpPipe; each frames what its local socket receives, buffers it until *)
(* its stream opens (make_side of client.cpp and server.cpp), and decodes  *)
(* with a FrameDecoder what the stream delivers, cut up as it likes.       *)
(*                                                                         *)
(* A byte is a digit below Base and a length header has HeaderBytes of     *)
(* them, most significant first: 256 and 4 in the code.                    *)
(***************************************************************************)
EXTENDS Integers, Sequences, SequencesExt

CONSTANTS
    Base,             \* values of a byte
    HeaderBytes,      \* digits of a length header
    MaxDatagram,      \* kMaxDatagram
    MaxPendingBytes,  \* kMaxPendingBytes of the client and of the server
    MaxSent           \* bound: datagrams each local application sends

\* What a digit counts for that has k others behind it: 1 << 8k in the code.
Place[k \in 0..HeaderBytes] == IF k = 0 THEN 1 ELSE Base * Place[k - 1]

\* A header can announce more than a datagram may hold.
ASSUME CodecAssumption ==
    /\ Base \in Nat \ {0, 1}
    /\ HeaderBytes \in Nat \ {0}
    /\ MaxDatagram \in 0..(Place[HeaderBytes] - 2)
ASSUME BoundsAssumption ==
    /\ MaxPendingBytes \in Nat
    /\ MaxSent \in [{"client", "server"} -> Nat]

VARIABLES
    \* one of each at both ends
    end,        \* the proxy's entry, the pipe: "live", "closing", "gone"
    opened,     \* Conn::stream_open
    pending,    \* Conn::pending
    received,   \* datagrams recv_cb has seen, dropped ones included
    accepted,   \* history: datagrams the side took
    buffer,     \* FrameDecoder::buffer_
    delivered,  \* history: datagrams sent to the local application
    over,       \* the stream's close callback has run
    \* the stream
    wire,       \* bytes from each end that the other has not been given
    broken,     \* an end has sent a header that is too long
    ending      \* an end has closed the stream: it takes no more writes

sendVars == <<opened, pending, received, accepted>>
recvVars == <<buffer, delivered>>
lifeVars == <<end, over, ending>>
vars     == <<sendVars, recvVars, lifeVars, wire, broken>>

Ends     == {"client", "server"}
Other(e) == CHOOSE f \in Ends : f # e

Byte      == 0..(Base - 1)
Datagrams == BoundedSeq(Byte, MaxDatagram)

\* What the decoder keeps between two pushes is less than one frame: a header
\* above the cap does not make it buffer (udp_pipe.cpp:90-107).
TypeOK ==
    /\ end \in [Ends -> {"none", "live", "closing", "gone"}]
    /\ opened \in [Ends -> BOOLEAN]
    /\ pending \in [Ends -> Seq(Byte)]
    /\ \A e \in Ends : Len(pending[e]) <= MaxPendingBytes
    /\ received \in [Ends -> Nat]
    /\ \A e \in Ends : received[e] <= MaxSent[e]
    /\ accepted \in [Ends -> Seq(Datagrams)]
    /\ buffer \in [Ends -> Seq(Byte)]
    /\ \A e \in Ends : Len(buffer[e]) < HeaderBytes + MaxDatagram \/ end[e] # "live"
    /\ delivered \in [Ends -> Seq(Datagrams)]
    /\ over \in [Ends -> BOOLEAN]
    /\ wire \in [Ends -> Seq(Byte)]
    /\ broken \in [Ends -> BOOLEAN]
    /\ ending \in BOOLEAN

\* A UdpPipe whose start() fails has no socket and stays in the server's map.
Init ==
    /\ \E s \in {"live", "none"} :
          end = [e \in Ends |-> IF e = "server" THEN s ELSE "live"]
    /\ opened = [e \in Ends |-> FALSE]
    /\ pending = [e \in Ends |-> <<>>]
    /\ received = [e \in Ends |-> 0]
    /\ accepted = [e \in Ends |-> <<>>]
    /\ buffer = [e \in Ends |-> <<>>]
    /\ delivered = [e \in Ends |-> <<>>]
    /\ over = [e \in Ends |-> FALSE]
    /\ wire = [e \in Ends |-> <<>>]
    /\ broken = [e \in Ends |-> FALSE]
    /\ ending = FALSE

-----------------------------------------------------------------------------
(* The codec                                                               *)

\* frame(): the length, then the payload.
Header(n) == [k \in 1..HeaderBytes |-> (n \div Place[HeaderBytes - k]) % Base]
Frame(d)  == Header(Len(d)) \o d

\* The length a header at offset o of bytes announces.
LengthAt(bytes, o) ==
    LET upTo[k \in 0..HeaderBytes] ==
          IF k = 0 THEN 0 ELSE upTo[k - 1] * Base + bytes[o + k]
    IN  upTo[HeaderBytes]

\* Mutant: the length is taken to include the header.
TotalWithoutHeader(n) == IF n < HeaderBytes THEN HeaderBytes ELSE n

\* Bytes of a frame whose header announces n.
Total(n) == HeaderBytes + n

\* Mutant: any length is waited for.
TooLongNever(n) == FALSE

\* The cap, checked before the frame is waited for.
TooLong(n) == n > MaxDatagram

\* The loop of FrameDecoder::push from each offset of its buffer: the frames
\* it emits, where it ends, and whether it met no length above the cap.
PushLoop(bytes) ==
    LET from[o \in 0..Len(bytes)] ==
          LET n    == LengthAt(bytes, o)
              next == from[o + Total(n)]
          IN  IF Len(bytes) - o < HeaderBytes
              THEN [frames |-> <<>>, rest |-> o, ok |-> TRUE]
              ELSE IF TooLong(n)
              THEN [frames |-> <<>>, rest |-> o, ok |-> FALSE]
              ELSE IF Len(bytes) - o < Total(n)
              THEN [frames |-> <<>>, rest |-> o, ok |-> TRUE]
              ELSE [next EXCEPT !.frames =
                        <<SubSeq(bytes, o + HeaderBytes + 1, o + Total(n))>> \o @]
    IN  from

\* push(): the loop from the start, and what it leaves in the buffer.
Decode(bytes) ==
    LET all == PushLoop(bytes)[0]
    IN  [all EXCEPT !.rest = SubSeq(bytes, all.rest + 1, Len(bytes))]

-----------------------------------------------------------------------------
(* The end of one end                                                      *)

\* UdpPipe::destroy() waits for the close callback of its socket, if it has
\* one; the proxy forgets its entry at once.
EndLets(e) ==
    IF e = "client" \/ end[e] = "none" THEN "gone" ELSE "closing"

\* The end is destroyed, and with it the stream closed.
GiveUp(e) ==
    /\ end' = [end EXCEPT ![e] = EndLets(e)]
    /\ ending' = TRUE
    /\ UNCHANGED over

-----------------------------------------------------------------------------
(* Local socket to stream                                                  *)

\* Mutant: half of what does not fit is kept.
BufferFrameCut(e, d) ==
    /\ pending' = [pending EXCEPT ![e] =
            LET all == @ \o Frame(d)
            IN  SubSeq(all, 1, IF Len(all) < MaxPendingBytes
                               THEN Len(all) ELSE MaxPendingBytes)]
    /\ accepted' = IF Len(pending[e]) < MaxPendingBytes
                   THEN [accepted EXCEPT ![e] = Append(@, d)]
                   ELSE accepted

\* make_side() before the stream opens: the frame is kept whole or not at all.
BufferFrame(e, d) ==
    IF Len(pending[e]) + Len(Frame(d)) > MaxPendingBytes
    THEN UNCHANGED <<pending, accepted>>
    ELSE /\ pending' = [pending EXCEPT ![e] = @ \o Frame(d)]
         /\ accepted' = [accepted EXCEPT ![e] = Append(@, d)]

\* The stream takes the frame.
WriteFrame(e, d) ==
    /\ wire' = [wire EXCEPT ![e] = @ \o Frame(d)]
    /\ accepted' = [accepted EXCEPT ![e] = Append(@, d)]

\* recv_cb: one datagram of the local application.  A refused write drops the
\* proxy's entry, or destroys the pipe.
RecvCb(e) ==
    /\ end[e] = "live" /\ received[e] < MaxSent[e]
    /\ received' = [received EXCEPT ![e] = @ + 1]
    /\ \E n \in 0..MaxDatagram :
          LET d == [k \in 1..n |-> received[e] % Base]
          IN  \/ /\ ~opened[e]
                 /\ BufferFrame(e, d)
                 /\ UNCHANGED <<wire, lifeVars>>
              \/ /\ opened[e] /\ ~ending
                 /\ WriteFrame(e, d)
                 /\ UNCHANGED <<pending, lifeVars>>
              \/ /\ opened[e] /\ ending
                 /\ GiveUp(e)
                 /\ UNCHANGED <<wire, pending, accepted>>
    /\ UNCHANGED <<opened, broken, recvVars>>

\* A datagram the socket cut short is dropped; an error of the proxy's socket
\* is only logged, one of the pipe's socket destroys it.
RecvTruncated(e) ==
    /\ end[e] = "live" /\ received[e] < MaxSent[e]
    /\ received' = [received EXCEPT ![e] = @ + 1]
    /\ UNCHANGED <<opened, pending, accepted, recvVars, lifeVars, wire, broken>>

RecvError ==
    /\ end["server"] = "live"
    /\ GiveUp("server")
    /\ UNCHANGED <<sendVars, recvVars, wire, broken>>

-----------------------------------------------------------------------------
(* The stream                                                              *)

\* on_open: what was buffered goes out in one write.  A stream that has been
\* told to close refuses it: the client shuts the connection down, the server
\* leaves it to the next write.
StreamOpenCb(e) ==
    /\ ~opened[e] /\ ~over[e]
    /\ opened' = [opened EXCEPT ![e] = TRUE]
    /\ pending' = [pending EXCEPT ![e] = <<>>]
    /\ \/ /\ ~ending
          /\ wire' = [wire EXCEPT ![e] = @ \o pending[e]]
          /\ UNCHANGED lifeVars
       \/ /\ ending
          /\ wire' = wire
          /\ IF e = "client" /\ pending[e] # <<>>
             THEN GiveUp(e)
             ELSE UNCHANGED lifeVars
    /\ UNCHANGED <<received, accepted, recvVars, broken>>

\* Another program at this end: a header above the cap.
OversizedHeader(e) ==
    /\ opened[e] /\ ~broken[e] /\ ~ending
    /\ broken' = [broken EXCEPT ![e] = TRUE]
    /\ wire' = [wire EXCEPT ![e] = @ \o Header(MaxDatagram + 1)]
    /\ UNCHANGED <<sendVars, recvVars, lifeVars>>

\* on_stream_data() with the next bytes of the stream.  An end that is not
\* live ignores them.
OnStreamData(e) ==
    /\ opened[e] /\ ~over[e]
    /\ \E n \in 1..Len(wire[Other(e)]) :
          LET out == Decode(buffer[e] \o SubSeq(wire[Other(e)], 1, n))
          IN  /\ wire' = [wire EXCEPT ![Other(e)] = SubSeq(@, n + 1, Len(@))]
              /\ IF end[e] = "live"
                 THEN /\ buffer' = [buffer EXCEPT ![e] = out.rest]
                      /\ delivered' = [delivered EXCEPT ![e] = @ \o out.frames]
                      /\ IF out.ok THEN UNCHANGED lifeVars ELSE GiveUp(e)
                 ELSE UNCHANGED <<recvVars, lifeVars>>
    /\ UNCHANGED <<sendVars, broken>>

\* The stream's close callback: the proxy's entry is erased, the pipe
\* destroyed.
OnStreamClose(e) ==
    /\ ~over[e]
    /\ over' = [over EXCEPT ![e] = TRUE]
    /\ ending' = TRUE
    /\ end' = IF end[e] \in {"live", "none"}
              THEN [end EXCEPT ![e] = EndLets(e)]
              ELSE end
    /\ UNCHANGED <<sendVars, recvVars, wire, broken>>

\* The owner tears its end down: HolesailServer::destroy(), or
\* HolesailClient::destroy() and with it the proxy.
OwnerDestroy(e) ==
    /\ end[e] \in {"live", "none"}
    /\ GiveUp(e)
    /\ UNCHANGED <<sendVars, recvVars, wire, broken>>

\* The close callback of the pipe's socket runs on_destroy_.
HandleClosed ==
    /\ end["server"] = "closing"
    /\ end' = [end EXCEPT !["server"] = "gone"]
    /\ UNCHANGED <<over, ending, sendVars, recvVars, wire, broken>>

-----------------------------------------------------------------------------

Next ==
    \/ \E e \in Ends :
          \/ RecvCb(e) \/ RecvTruncated(e) \/ StreamOpenCb(e)
          \/ OversizedHeader(e) \/ OnStreamData(e)
          \/ OnStreamClose(e) \/ OwnerDestroy(e)
    \/ RecvError \/ HandleClosed

Spec == Init /\ [][Next]_vars

-----------------------------------------------------------------------------
(* Properties                                                              *)

\* However the stream cuts it up, each application gets the datagrams the
\* other end accepted, whole and in order, a dropped one does not disturb the
\* next, and on a stream that stays up none is missing
\* (udp_pipe.cpp:67-115, client.cpp:374-379, server.cpp:287-297).
FramesIntact ==
    \A e \in Ends :
       /\ IsPrefix(delivered[e], accepted[Other(e)])
       /\ /\ end[e] = "live" /\ ~ending /\ ~broken[Other(e)]
          /\ wire[Other(e)] = <<>> /\ pending[Other(e)] = <<>>
          => delivered[e] = accepted[Other(e)] /\ buffer[e] = <<>>
=============================================================================
