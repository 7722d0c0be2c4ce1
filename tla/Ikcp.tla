-------------------------------- MODULE Ikcp --------------------------------
(***************************************************************************)
(* The control block of the KCP protocol (kcp/ikcp.c) and what its calls   *)
(* do to it: ikcp_send(), ikcp_recv(), ikcp_input() and the ikcp_flush()   *)
(* that ikcp_update() makes.  A module without variables: Kcp and KcpLayer *)
(* hold the control blocks.                                                *)
(*                                                                         *)
(* The lists that the code keeps sorted by sequence number (snd_buf,       *)
(* rcv_buf) are functions from sequence numbers; time is left to the       *)
(* caller, who says which retransmission timers and whether the probe      *)
(* timer have expired; congestion control is off (nocwnd = 1, as KcpLayer  *)
(* sets it), and stream mode, which nothing turns on, is left out.         *)
(***************************************************************************)
EXTENDS Integers, Sequences, SequencesExt, FiniteSetsExt, Functions

CONSTANTS
  SndWnd,     \* snd_wnd, in segments
  RcvWnd,     \* IKCP_WND_RCV: rcv_wnd, and the peer's until it says otherwise
  Resent,     \* fastresend: a segment overtaken so often is sent again
  FastLimit,  \* fastlimit: ... at most so many times
  Mtu,        \* what a datagram holds, in the units of SegmentSize
  DataSize    \* the size of a segment with data; a bare header has size 1

ASSUME WindowAssumption ==
  /\ SndWnd \in Nat \ {0}
  /\ RcvWnd \in Nat \ {0, 1}
ASSUME ResendAssumption == Resent \in Nat \ {0} /\ FastLimit \in Nat
ASSUME SizeAssumption ==
  /\ Mtu \in Nat /\ DataSize \in Nat
  /\ 1 <= DataSize /\ DataSize <= Mtu

\* ikcp_create().  The field probing stands for probe_wait /= 0, and probe
\* is the set of the flags IKCP_ASK_SEND ("ask") and IKCP_ASK_TELL ("tell").
Create ==
  [snd_una |-> 0, snd_nxt |-> 0, rcv_nxt |-> 0, rmt_wnd |-> RcvWnd,
   probe |-> {}, probing |-> FALSE, snd_queue |-> <<>>, snd_buf |-> <<>>,
   rcv_buf |-> <<>>, rcv_queue |-> <<>>, acklist |-> <<>>]

-----------------------------------------------------------------------------
\* The calls of the application.

\* Seeded fault: every segment is the last one of its message.
UnnumberedFragments(msg, count) == [i \in 1..count |-> [msg |-> msg, frg |-> 0]]

\* A message of so many segments; frg counts down to 0, the last one.
Fragments(msg, count) ==
  [i \in 1..count |-> [msg |-> msg, frg |-> count - i]]

\* The test that makes ikcp_send() return -2.
Acceptable(count) == count < RcvWnd

\* ikcp_send()
Send(cb, msg, count) ==
  IF Acceptable(count)
  THEN [cb EXCEPT !.snd_queue = @ \o Fragments(msg, count)]
  ELSE cb

\* ikcp_peeksize() >= 0: the first message has arrived as a whole.
Receivable(cb) ==
  /\ cb.rcv_queue # <<>>
  /\ Len(cb.rcv_queue) >= Head(cb.rcv_queue).frg + 1

\* Seeded fault: rcv_queue takes more than the window.
MovableBeyondWindow(cb) ==
  Max({n \in 0..Cardinality(DOMAIN cb.rcv_buf) :
         \A i \in 0..(n - 1) : cb.rcv_nxt + i \in DOMAIN cb.rcv_buf})

\* How many segments in sequence can move from rcv_buf to rcv_queue.
Movable(cb) ==
  Max({n \in 0..(RcvWnd - Len(cb.rcv_queue)) :
         \A i \in 0..(n - 1) : cb.rcv_nxt + i \in DOMAIN cb.rcv_buf})

\* The loop at the end of ikcp_recv() and of ikcp_parse_data().
MoveAvailable(cb) ==
  LET n == Movable(cb)
  IN [cb EXCEPT
        !.rcv_queue = @ \o [i \in 1..n |-> cb.rcv_buf[cb.rcv_nxt + i - 1]],
        !.rcv_buf = Restrict(@, DOMAIN @ \ (cb.rcv_nxt..(cb.rcv_nxt + n - 1))),
        !.rcv_nxt = @ + n]

\* The segments of the first message: up to one with frg = 0.
FirstMessage(cb) ==
  SubSeq(cb.rcv_queue, 1,
         Min({i \in DOMAIN cb.rcv_queue : cb.rcv_queue[i].frg = 0}))

\* ikcp_recv() when Receivable(cb); it gives FirstMessage(cb) to the caller.
Recv(cb) ==
  LET n == Len(FirstMessage(cb))
      c == MoveAvailable([cb EXCEPT !.rcv_queue = SubSeq(@, n + 1, Len(@))])
  IN IF Len(cb.rcv_queue) >= RcvWnd /\ Len(c.rcv_queue) < RcvWnd
     THEN [c EXCEPT !.probe = @ \cup {"tell"}]
     ELSE c

-----------------------------------------------------------------------------
\* ikcp_input(), segment by segment.

\* ikcp_shrink_buf()
ShrinkBuf(cb) ==
  [cb EXCEPT !.snd_una = IF DOMAIN cb.snd_buf = {} THEN cb.snd_nxt
                         ELSE Min(DOMAIN cb.snd_buf)]

\* ikcp_parse_una() and the ikcp_shrink_buf() that follows it
ParseUna(cb, una) ==
  ShrinkBuf([cb EXCEPT
               !.snd_buf = Restrict(@, {sn \in DOMAIN @ : sn >= una})])

\* ikcp_parse_ack() and the ikcp_shrink_buf() that follows it
ParseAck(cb, sn) ==
  ShrinkBuf([cb EXCEPT !.snd_buf = Restrict(@, DOMAIN @ \ {sn})])

\* ikcp_parse_fastack(): the segments that were overtaken by an acked one.
ParseFastack(cb, maxack) ==
  IF maxack < cb.snd_una \/ maxack >= cb.snd_nxt THEN cb
  ELSE [cb EXCEPT !.snd_buf =
          [sn \in DOMAIN cb.snd_buf |->
             IF sn < maxack
             THEN [cb.snd_buf[sn] EXCEPT !.fastack = Min({@ + 1, Resent})]
             ELSE cb.snd_buf[sn]]]

\* rcv_buf with one more segment, at its place.
Insert(buf, seg) ==
  [sn \in DOMAIN buf \cup {seg.sn} |->
     IF sn = seg.sn THEN [msg |-> seg.msg, frg |-> seg.frg] ELSE buf[sn]]

\* Seeded fault: a segment that comes while rcv_queue is full is dropped.
ParseDataUnlessFull(cb, seg) ==
  IF Len(cb.rcv_queue) >= RcvWnd \/ seg.sn \in DOMAIN cb.rcv_buf
  THEN MoveAvailable(cb)
  ELSE MoveAvailable([cb EXCEPT !.rcv_buf = Insert(@, seg)])

\* ikcp_parse_data() of a segment that is not below rcv_nxt.
ParseData(cb, seg) ==
  MoveAvailable(
    IF seg.sn \in DOMAIN cb.rcv_buf THEN cb
    ELSE [cb EXCEPT !.rcv_buf = Insert(@, seg)])

\* A data segment: acknowledged when it is inside the window or below it.
InputPush(cb, seg) ==
  IF seg.sn >= cb.rcv_nxt + RcvWnd THEN cb
  ELSE LET c == [cb EXCEPT !.acklist = Append(@, seg.sn)]
       IN IF seg.sn >= cb.rcv_nxt THEN ParseData(c, seg) ELSE c

\* The body of the loop of ikcp_input().
InputSegment(cb, seg) ==
  LET c == ParseUna([cb EXCEPT !.rmt_wnd = seg.wnd], seg.una)
  IN CASE seg.cmd = "ack"  -> ParseAck(c, seg.sn)
       [] seg.cmd = "push" -> InputPush(c, seg)
       [] seg.cmd = "wask" -> [c EXCEPT !.probe = @ \cup {"tell"}]
       [] seg.cmd = "wins" -> c

\* ikcp_input() of a datagram: a sequence of segments.
Input(cb, datagram) ==
  LET after[i \in 0..Len(datagram)] ==
        IF i = 0 THEN cb ELSE InputSegment(after[i - 1], datagram[i])
      c == after[Len(datagram)]
      acked == {seg.sn : seg \in {s \in Range(datagram) : s.cmd = "ack"}}
  IN IF acked = {} THEN c ELSE ParseFastack(c, Max(acked))

-----------------------------------------------------------------------------
\* ikcp_flush(), given what the timers say.

\* ikcp_wnd_unused()
WndUnused(cb) == Max({0, RcvWnd - Len(cb.rcv_queue)})

\* Seeded fault: nobody asks.
ProbeSilently(cb, probeExpired) ==
  [cb EXCEPT !.probing = (cb.rmt_wnd = 0)]

\* The zero window probe: the first flush that finds the peer's window
\* closed starts the timer, each expiration asks once.
Probe(cb, probeExpired) ==
  IF cb.rmt_wnd # 0 THEN [cb EXCEPT !.probing = FALSE]
  ELSE [cb EXCEPT !.probing = TRUE,
                  !.probe = IF cb.probing /\ probeExpired
                            THEN @ \cup {"ask"} ELSE @]

\* How many segments the windows let move from snd_queue to snd_buf.
Sendable(cb) ==
  LET room == cb.snd_una + Min({SndWnd, cb.rmt_wnd}) - cb.snd_nxt
  IN Max({0, Min({room, Len(cb.snd_queue)})})

\* The loop that moves them and numbers them.
MoveToSend(cb) ==
  LET n == Sendable(cb)
      new == cb.snd_nxt..(cb.snd_nxt + n - 1)
  IN [cb EXCEPT
        !.snd_buf = [sn \in DOMAIN @ \cup new |->
                       IF sn \in new
                       THEN [msg |-> cb.snd_queue[sn - cb.snd_nxt + 1].msg,
                             frg |-> cb.snd_queue[sn - cb.snd_nxt + 1].frg,
                             xmit |-> 0, fastack |-> 0]
                       ELSE @[sn]],
        !.snd_queue = SubSeq(@, n + 1, Len(@)),
        !.snd_nxt = @ + n]

\* The third case of the loop over snd_buf.
FastResend(seg) ==
  seg.fastack >= Resent /\ (seg.xmit <= FastLimit \/ FastLimit = 0)

\* Seeded fault: the retransmission timer is not looked at.
NeedSendOnce(cb, expired) ==
  {sn \in DOMAIN cb.snd_buf : cb.snd_buf[sn].xmit = 0 \/ FastResend(cb.snd_buf[sn])}

\* needsend of the segments in snd_buf.
NeedSend(cb, expired) ==
  {sn \in DOMAIN cb.snd_buf :
     cb.snd_buf[sn].xmit = 0 \/ sn \in expired \/ FastResend(cb.snd_buf[sn])}

\* One transmission: xmit is counted as far as FastLimit tells values apart.
Transmit(seg, isExpired) ==
  [seg EXCEPT
     !.xmit = Min({@ + 1, FastLimit + 1}),
     !.fastack = IF seg.xmit > 0 /\ ~isExpired THEN 0 ELSE @]

SegmentSize(seg) == IF seg.cmd = "push" THEN DataSize ELSE 1

DatagramSize(datagram) ==
  LET size[i \in 0..Len(datagram)] ==
        IF i = 0 THEN 0 ELSE size[i - 1] + SegmentSize(datagram[i])
  IN size[Len(datagram)]

\* Segments go into the buffer until the next one would exceed the mtu.
PackSegment(out, seg) ==
  IF out # <<>> /\ DatagramSize(Last(out)) + SegmentSize(seg) <= Mtu
  THEN Append(Front(out), Append(Last(out), seg))
  ELSE Append(out, <<seg>>)

Pack(segments) ==
  LET out[i \in 0..Len(segments)] ==
        IF i = 0 THEN <<>> ELSE PackSegment(out[i - 1], segments[i])
  IN out[Len(segments)]

\* The loop over snd_buf: the segments of sns, in order.
Pushes(cb, sns) ==
  LET push(sn) == [cmd |-> "push", wnd |-> WndUnused(cb), una |-> cb.rcv_nxt, sn |-> sn,
                   msg |-> cb.snd_buf[sn].msg, frg |-> cb.snd_buf[sn].frg]
      below[sn \in 0..cb.snd_nxt] ==
        IF sn = 0 THEN <<>>
        ELSE IF sn - 1 \in sns THEN Append(below[sn - 1], push(sn - 1)) ELSE below[sn - 1]
  IN below[cb.snd_nxt]

\* What goes out: acknowledgements, window commands, data.
Outgoing(cb, probe, sns) ==
  LET wnd == WndUnused(cb)
      una == cb.rcv_nxt
      command(c) == [cmd |-> c, wnd |-> wnd, una |-> una]
  IN [i \in DOMAIN cb.acklist |->
        [cmd |-> "ack", wnd |-> wnd, una |-> una, sn |-> cb.acklist[i]]]
     \o (IF "ask" \in probe THEN <<command("wask")>> ELSE <<>>)
     \o (IF "tell" \in probe THEN <<command("wins")>> ELSE <<>>)
     \o Pushes(cb, sns)

\* ikcp_flush(): the control block it leaves and the datagrams it outputs.
Flush(cb, expired, probeExpired) ==
  LET p == Probe(cb, probeExpired)
      c == MoveToSend(p)
      sns == NeedSend(c, expired)
  IN [cb |-> [c EXCEPT
                !.acklist = <<>>, !.probe = {},
                !.snd_buf = [sn \in DOMAIN @ |->
                               IF sn \in sns
                               THEN Transmit(@[sn], sn \in expired)
                               ELSE @[sn]]],
      out |-> Pack(Outgoing(c, p.probe, sns))]

\* The segments whose retransmission timer runs.
Running(cb) == {sn \in DOMAIN cb.snd_buf : cb.snd_buf[sn].xmit > 0}

=============================================================================
