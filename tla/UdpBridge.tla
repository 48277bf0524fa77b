----------------------------- MODULE UdpBridge ------------------------------
(***************************************************************************)
(* One UDP work connection, both ends of it: the loop of                   *)
(* handle_udp_work_conn in rfrps and udp_bridge in rfrpc.  Each end takes  *)
(* datagrams from its side (the session's queue, the local socket), writes *)
(* a batch of them as length-prefixed frames with one write_all, and       *)
(* parses what it reads with UdpFrameBuf.                                  *)
(*                                                                         *)
(* Both loops are a select over the two directions, so a read_batch that   *)
(* waits is dropped when the other branch is taken, and while the body of  *)
(* a branch awaits its write nothing else of the loop runs, the stop token *)
(* included.  A direction of the connection holds at most Room bytes; a    *)
(* byte is a digit of base Base, and a length prefix has HeaderLen of      *)
(* them, the most significant first.  UdpProxy has the tables around it.   *)
(***************************************************************************)
EXTENDS Naturals, Sequences, SequencesExt

CONSTANTS
    Datagram,       \* the payloads: sequences of bytes
    Base,           \* 256
    HeaderLen,      \* 4
    MaxLen,         \* MAX_UDP_PACKET_SIZE
    Batch,          \* end -> UDP_WRITE_BATCH of the server, UDP_RECV_BATCH of the client
    ReadBatch,      \* UDP_READ_BATCH
    Room,           \* bytes that the connection buffers in one direction
    MaxTaken        \* bound: end -> datagrams it takes from its side

End == {"server", "client"}

Byte == 0..(Base - 1)

\* What is left of n when its last k digits are cut off, for each k.
Shifted(n) ==
    LET left[k \in 0..HeaderLen] == IF k = 0 THEN n ELSE left[k - 1] \div Base
    IN left

ASSUME BridgeAssumption ==
    /\ Base \in Nat \ {0, 1} /\ HeaderLen \in Nat \ {0} /\ MaxLen \in Nat
    /\ Datagram \subseteq Seq(Byte)
    /\ \A d \in Datagram : Len(d) <= MaxLen
    /\ Batch \in [End -> Nat \ {0}] /\ ReadBatch \in Nat \ {0} /\ Room \in Nat \ {0}
    /\ MaxTaken \in [End -> Nat]

\* The length of a datagram fits in the prefix, a u32.
ASSUME HeaderAssumption == \A n \in 0..MaxLen : Shifted(n)[HeaderLen] = 0

Other(e) == IF e = "server" THEN "client" ELSE "server"

VARIABLES
    pc,             \* end -> where its loop is
    taken,          \* end -> datagrams it has taken from its side
    wbuf,           \* end -> what write_all has still to write
    pipe,           \* end -> bytes on their way from it
    rbuf,           \* end -> UdpFrameBuf.buf
    down,           \* end -> datagrams of the current read_batch
    passed,         \* end -> datagrams read_batch has handed to its loop
    stop            \* the stop token of the proxy

vars == <<pc, taken, wbuf, pipe, rbuf, down, passed, stop>>

Init ==
    /\ pc = [e \in End |-> "select"]
    /\ taken = [e \in End |-> <<>>]
    /\ wbuf = [e \in End |-> <<>>]
    /\ pipe = [e \in End |-> <<>>]
    /\ rbuf = [e \in End |-> <<>>]
    /\ down = [e \in End |-> <<>>]
    /\ passed = [e \in End |-> <<>>]
    /\ stop = FALSE

-----------------------------------------------------------------------------
\* util/udp.rs

\* u32::to_be_bytes and from_be_bytes
ToBytes(n) == [k \in 1..HeaderLen |-> Shifted(n)[HeaderLen - k] % Base]

Values(b) ==
    LET value[k \in 0..Len(b)] == IF k = 0 THEN 0 ELSE value[k - 1] * Base + b[k]
    IN value

FromBytes(b) == Values(b)[Len(b)]

Frame(d) == ToBytes(Len(d)) \o d

\* append_udp_frame for each datagram of a batch, into one buffer
Appended(b) ==
    LET buf[k \in 0..Len(b)] == IF k = 0 THEN <<>> ELSE buf[k - 1] \o Frame(b[k])
    IN buf

Frames(b) == Appended(b)[Len(b)]

Header(buf) == SubSeq(buf, 1, HeaderLen)
TooLarge(buf) == Len(buf) >= HeaderLen /\ FromBytes(Header(buf)) > MaxLen
FrameLen(buf) == HeaderLen + FromBytes(Header(buf))

\* A whole frame is there, not only its length.
HasFrame(buf) == Len(buf) >= HeaderLen /\ Len(buf) >= FrameLen(buf)

\* One turn of the inner loop of read_batch: split a frame off, if there is one.
SplitFrame(s) ==
    IF ~HasFrame(s.rest) THEN s
    ELSE [out  |-> Append(s.out, SubSeq(s.rest, HeaderLen + 1, FrameLen(s.rest))),
          rest |-> SubSeq(s.rest, FrameLen(s.rest) + 1, Len(s.rest))]

Turns(buf) ==
    LET turn[n \in 0..ReadBatch] ==
          IF n = 0 THEN [out |-> <<>>, rest |-> buf] ELSE SplitFrame(turn[n - 1])
    IN turn

\* The inner loop: up to ReadBatch datagrams, and the bytes left over.
Parse(buf) == Turns(buf)[ReadBatch]

WaitForAll(out) == Len(out) = ReadBatch

\* read_batch returns as soon as it has one datagram.
Returns(out) == out # <<>>

-----------------------------------------------------------------------------
Goto(e, label) == pc' = [pc EXCEPT ![e] = label]

\* The datagrams of a batch, taken in one wake-up.
Batches(e) ==
    {b \in BoundedSeq(Datagram, Batch[e]) :
        b # <<>> /\ Len(taken[e]) + Len(b) <= MaxTaken[e]}

FreshBuffer(e) == <<>>

\* The buffer lives outside the loop: bytes of a read_batch that is dropped stay in it.
AfterDrop(e) == rbuf[e]

\* The branch of the own side: recv_many, or recv and try_recv.  The read_batch that
\* was waiting is dropped, and the next one begins with an empty batch.
TakeBatch(e) ==
    /\ pc[e] = "select"
    /\ \E b \in Batches(e) :
         /\ taken' = [taken EXCEPT ![e] = @ \o b]
         /\ wbuf' = [wbuf EXCEPT ![e] = Frames(b)]
    /\ down' = [down EXCEPT ![e] = <<>>]
    /\ rbuf' = [rbuf EXCEPT ![e] = AfterDrop(e)]
    /\ Goto(e, "writing")
    /\ UNCHANGED <<pipe, passed, stop>>

\* write_all, as far as there is room
WriteSome(e) ==
    /\ pc[e] = "writing" /\ pc[Other(e)] # "ended"
    /\ \E n \in 1..Len(wbuf[e]) :
         /\ Len(pipe[e]) + n <= Room
         /\ pipe' = [pipe EXCEPT ![e] = @ \o SubSeq(wbuf[e], 1, n)]
         /\ wbuf' = [wbuf EXCEPT ![e] = SubSeq(@, n + 1, Len(@))]
    /\ IF wbuf'[e] = <<>> THEN Goto(e, "select") ELSE UNCHANGED pc
    /\ UNCHANGED <<taken, rbuf, down, passed, stop>>

\* The other end is gone: the write fails and the loop is left.
WriteFails(e) ==
    /\ pc[e] = "writing" /\ pc[Other(e)] = "ended"
    /\ wbuf' = [wbuf EXCEPT ![e] = <<>>]
    /\ Goto(e, "ended")
    /\ UNCHANGED <<taken, pipe, rbuf, down, passed, stop>>

\* read_batch with n more bytes; it goes on waiting if that makes no datagram.
ReadStep(e, n) ==
    LET parsed == Parse(rbuf[e] \o SubSeq(pipe[Other(e)], 1, n)) IN
    /\ pipe' = [pipe EXCEPT ![Other(e)] = SubSeq(@, n + 1, Len(@))]
    /\ rbuf' = [rbuf EXCEPT ![e] = parsed.rest]
    /\ down' = [down EXCEPT ![e] = @ \o parsed.out]
    /\ IF Returns(down'[e])
         THEN /\ passed' = [passed EXCEPT ![e] = @ \o down'[e]]
              /\ Goto(e, "deliver")
         ELSE UNCHANGED <<pc, passed>>
    /\ UNCHANGED <<taken, wbuf, stop>>

\* The branch of the connection: frames left from the last read come first.
Read(e) ==
    /\ pc[e] = "select" /\ ~TooLarge(rbuf[e])
    /\ IF HasFrame(rbuf[e])
         THEN ReadStep(e, 0)
         ELSE \E n \in 1..Len(pipe[Other(e)]) : ReadStep(e, n)

\* A length above the maximum, or the end of the stream, between frames or inside one
ReadEnds(e) ==
    /\ pc[e] = "select"
    /\ \/ TooLarge(rbuf[e])
       \/ ~HasFrame(rbuf[e]) /\ pipe[Other(e)] = <<>> /\ pc[Other(e)] = "ended"
    /\ Goto(e, "ended")
    /\ UNCHANGED <<taken, wbuf, pipe, rbuf, down, passed, stop>>

\* forward_to_client, or the sends to the local socket; neither stops the loop when
\* it fails.
Deliver(e) ==
    /\ pc[e] = "deliver"
    /\ down' = [down EXCEPT ![e] = <<>>]
    /\ Goto(e, "select")
    /\ UNCHANGED <<taken, wbuf, pipe, rbuf, passed, stop>>

NotSeen == FALSE

Seen == stop

\* The server's third branch
StopSeen ==
    /\ pc["server"] = "select" /\ Seen
    /\ Goto("server", "ended")
    /\ UNCHANGED <<taken, wbuf, pipe, rbuf, down, passed, stop>>

\* cleanup of the control session
Cancel ==
    /\ ~stop
    /\ stop' = TRUE
    /\ UNCHANGED <<pc, taken, wbuf, pipe, rbuf, down, passed>>

\* An error on a side's own socket ends its loop.
SideFails(e) ==
    /\ e = "client" /\ pc[e] = "select"
    /\ Goto(e, "ended")
    /\ UNCHANGED <<taken, wbuf, pipe, rbuf, down, passed, stop>>

EndNext(e) == WriteSome(e) \/ WriteFails(e) \/ Read(e) \/ ReadEnds(e) \/ Deliver(e)

Next ==
    \/ \E e \in End : TakeBatch(e) \/ EndNext(e) \/ SideFails(e)
    \/ StopSeen \/ Cancel

Spec == Init /\ [][Next]_vars

\* Both loops run.  select takes a branch that stays ready, so a read that is ready
\* again and again is made, and so is the stop.  Nothing is owed by the users, the
\* local service and the control session.
FairSpec ==
    /\ Spec
    /\ \A e \in End : WF_vars(WriteSome(e) \/ WriteFails(e)) /\ WF_vars(Deliver(e))
    /\ \A e \in End : SF_vars(Read(e)) /\ SF_vars(ReadEnds(e))
    /\ SF_vars(StopSeen)

-----------------------------------------------------------------------------
\* Properties

TypeOK ==
    /\ pc \in [End -> {"select", "writing", "deliver", "ended"}]
    /\ taken \in [End -> Seq(Datagram)]
    /\ wbuf \in [End -> Seq(Byte)]
    /\ pipe \in [End -> Seq(Byte)] /\ \A e \in End : Len(pipe[e]) <= Room
    /\ rbuf \in [End -> Seq(Byte)]
    /\ down \in [End -> Seq(Seq(Byte))]
    /\ passed \in [End -> Seq(Seq(Byte))]
    /\ stop \in BOOLEAN

\* The datagrams that come out at one end are the ones that went in at the other, in
\* order, none lost, split, merged or made up, the empty ones too, however the bytes
\* are cut up and whichever branch a waiting read is dropped for
\* (util/udp.rs:146-195, udp.rs:400-436, workconn.rs:178-236).
FramesIntact == \A e \in End : IsPrefix(passed[e], taken[Other(e)])

\* Bytes in flight are whole frames behind what the reader has buffered: nothing an end
\* has taken is forgotten while both loops run.
NothingForgotten ==
    \A e \in End :
        pc["server"] # "ended" /\ pc["client"] # "ended" =>
            rbuf[Other(e)] \o pipe[e] \o wbuf[e]
              = Frames(SubSeq(taken[e], Len(passed[Other(e)]) + 1, Len(taken[e])))

\* What an end takes reaches the other end, or a loop ends.
Delivered ==
    \A e \in End :
        (Len(taken[e]) > Len(passed[Other(e)]))
            ~> (Len(taken[e]) = Len(passed[Other(e)]) \/ \E f \in End : pc[f] = "ended")

\* Once the control session is cleaned up the work connection ends, and with it the
\* last reference to the proxy and its UDP port (udp.rs:429-434, control.rs:470).
StopReleases == stop ~> pc["server"] = "ended"

=============================================================================
