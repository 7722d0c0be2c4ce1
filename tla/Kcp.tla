-------------------------------- MODULE Kcp ---------------------------------
(***************************************************************************)
(* Two KCP control blocks (kcp/ikcp.c, module Ikcp) over UDP: one end      *)
(* sends messages, the other receives them, and both call ikcp_update()    *)
(* repeatedly, as the comment above it demands.  The network loses,        *)
(* duplicates and delays datagrams, MaxFaults times.                       *)
(*                                                                         *)
(* Bounds: MaxSegments data segments are ever sent, NetCapacity datagrams  *)
(* are on their way to an end, MaxAcks acknowledgements wait for a flush.  *)
(***************************************************************************)
EXTENDS Ikcp

CONSTANTS
  Lengths,      \* the lengths of the messages, in segments
  MaxSegments, MaxFaults, NetCapacity, MaxAcks

ASSUME BoundsAssumption ==
  /\ Lengths \subseteq Nat \ {0}
  /\ MaxSegments \in Nat
  /\ MaxFaults \in Nat
  /\ NetCapacity \in Nat
  /\ MaxAcks \in Nat

VARIABLES
  cb,         \* cb[e]: the control block of end e
  net,        \* net[e]: the datagrams on their way to e
  sent,       \* the messages ikcp_send() accepted at the sending end
  delivered,  \* what ikcp_recv() returned at the receiving end
  faults      \* how often the network failed so far

vars == <<cb, net, sent, delivered, faults>>

Ends == {"sender", "receiver"}
Peer(e) == IF e = "sender" THEN "receiver" ELSE "sender"

Init ==
  /\ cb = [e \in Ends |-> Create]
  /\ net = [e \in Ends |-> <<>>]
  /\ sent = <<>>
  /\ delivered = <<>>
  /\ faults = 0

-----------------------------------------------------------------------------
\* The segments that ikcp_send() accepted: those with a number and those without.
Segments == cb["sender"].snd_nxt + Len(cb["sender"].snd_queue)

\* The application sends a message of so many segments; one that is too long
\* is refused.
SendMessage(count) ==
  /\ Segments + count <= MaxSegments
  /\ cb' = [cb EXCEPT !["sender"] = Send(@, Len(sent) + 1, count)]
  /\ sent' = IF Acceptable(count)
             THEN Append(sent, Fragments(Len(sent) + 1, count)) ELSE sent
  /\ UNCHANGED <<net, delivered, faults>>

\* The application takes a message.
RecvMessage ==
  /\ Receivable(cb["receiver"])
  /\ cb' = [cb EXCEPT !["receiver"] = Recv(@)]
  /\ delivered' = Append(delivered, FirstMessage(cb["receiver"]))
  /\ UNCHANGED <<net, sent, faults>>

\* ikcp_update() that flushes, when the timers of the segments in expired,
\* and the probe timer if probeExpired, have run out.
Update(e, expired, probeExpired) ==
  LET flushed == Flush(cb[e], expired, probeExpired)
  IN /\ Len(net[Peer(e)]) + Len(flushed.out) <= NetCapacity
     /\ cb' = [cb EXCEPT ![e] = flushed.cb]
     /\ net' = [net EXCEPT ![Peer(e)] = @ \o flushed.out]
     /\ UNCHANGED <<sent, delivered, faults>>

\* Some call of ikcp_update(): any of the timers that run may have expired.
Updates(e, Call(_, _, _)) ==
  \E expired \in SUBSET Running(cb[e]), probeExpired \in {FALSE, cb[e].probing} :
    Call(e, expired, probeExpired)

\* A datagram arrives.
CanReceive(e) == net[e] # <<>> /\ Len(cb[e].acklist) < MaxAcks

Receive(e) ==
  /\ CanReceive(e)
  /\ cb' = [cb EXCEPT ![e] = Input(@, Head(net[e]))]
  /\ net' = [net EXCEPT ![e] = Tail(@)]
  /\ UNCHANGED <<sent, delivered, faults>>

\* What UDP may do to the i-th datagram on its way to e.
Lose(e, i) == net' = [net EXCEPT ![e] = RemoveAt(@, i)]

Duplicate(e, i) ==
  /\ Len(net[e]) < NetCapacity
  /\ net' = [net EXCEPT ![e] = Append(@, @[i])]

Delay(e, i) ==
  /\ i < Len(net[e])
  /\ net' = [net EXCEPT ![e] = Append(RemoveAt(@, i), @[i])]

Fault ==
  /\ faults < MaxFaults
  /\ faults' = faults + 1
  /\ \E e \in Ends : \E i \in DOMAIN net[e] :
       Lose(e, i) \/ Duplicate(e, i) \/ Delay(e, i)
  /\ UNCHANGED <<cb, sent, delivered>>

Next ==
  \/ \E count \in Lengths : SendMessage(count)
  \/ RecvMessage
  \/ \E e \in Ends : Receive(e) \/ Updates(e, Update)
  \/ Fault

Spec == Init /\ [][Next]_vars

-----------------------------------------------------------------------------
\* Fairness: the application takes its messages, UDP delivers what it neither
\* lost nor delayed, and ikcp_update() is called repeatedly, which sooner or
\* later finds each timer that runs expired.  []<>~P \/ []<><<A>>_vars
\* is WF_vars(A), with ENABLED <<A>>_vars written out as P.

UpdateChanges(e, expired, probeExpired) ==
  LET flushed == Flush(cb[e], expired, probeExpired)
  IN /\ Len(net[Peer(e)]) + Len(flushed.out) <= NetCapacity
     /\ flushed.cb # cb[e] \/ flushed.out # <<>>

\* A call that finds segment sn expired, and one that finds the probe timer so.
Expires(sn, Call(_, _, _)) ==
  \E expired \in SUBSET Running(cb["sender"]),
     probeExpired \in {FALSE, cb["sender"].probing} :
    sn \in expired /\ Call("sender", expired, probeExpired)

ProbeExpires(Call(_, _, _)) ==
  /\ cb["sender"].probing
  /\ \E expired \in SUBSET Running(cb["sender"]) :
       Call("sender", expired, TRUE)

FairSpec ==
  /\ Spec
  /\ []<>~Receivable(cb["receiver"]) \/ []<><<RecvMessage>>_vars
  /\ \A e \in Ends :
       /\ []<>~CanReceive(e) \/ []<><<Receive(e)>>_vars
       /\ []<>~Updates(e, UpdateChanges) \/ []<><<Updates(e, Update)>>_vars
  /\ \A sn \in 0..(MaxSegments - 1) :
       []<>~Expires(sn, UpdateChanges) \/ []<><<Expires(sn, Update)>>_vars
  /\ []<>~ProbeExpires(UpdateChanges) \/ []<><<ProbeExpires(Update)>>_vars

-----------------------------------------------------------------------------
Stream == INSTANCE MessageStream WITH
  Message <- UNION {{Fragments(m, count) : m \in 1..MaxSegments} :
                      count \in 1..(RcvWnd - 1)}

\* Whatever the network does, the receiver gets the messages whole, once each
\* and in the order of ikcp_send().
ImplementsStream == Stream!Spec

\* A segment leaves snd_buf only when the peer holds it: what was acknowledged
\* is never lost (ikcp_input() acknowledges before it stores).
AckedIsHeld ==
  LET s == cb["sender"]
      r == cb["receiver"]
  IN \A sn \in 0..(s.snd_nxt - 1) :
       sn \in DOMAIN s.snd_buf \/ sn < r.rcv_nxt \/ sn \in DOMAIN r.rcv_buf

IsBlock(b) ==
  /\ {b.snd_una, b.snd_nxt, b.rcv_nxt} \subseteq 0..MaxSegments
  /\ b.rmt_wnd \in 0..RcvWnd /\ b.probing \in BOOLEAN
  /\ b.probe \subseteq {"ask", "tell"}
  /\ DOMAIN b.snd_buf \subseteq b.snd_una..(b.snd_nxt - 1)
  /\ Len(b.acklist) < MaxAcks + Mtu

\* Type correctness, and the windows as ranges although an end learns late of
\* the other's: the receiver never holds more than it offered, the sender has at
\* most snd_wnd segments in flight, and no datagram is longer than mtu.
WindowsKept ==
  LET s == cb["sender"]
      r == cb["receiver"]
  IN /\ \A e \in Ends :
          /\ IsBlock(cb[e])
          /\ \A d \in Range(net[e]) : DatagramSize(d) \in 1..Mtu
     /\ Len(r.rcv_queue) <= RcvWnd
     /\ DOMAIN r.rcv_buf \subseteq r.rcv_nxt..(r.rcv_nxt + RcvWnd - 1)
     /\ s.snd_nxt - s.snd_una <= SndWnd
     /\ r.rcv_nxt <= s.snd_nxt

\* Every message that was accepted is delivered although datagrams are lost
\* and the window closes: retransmission, zero window probes and the window
\* updates of ikcp_recv() together leave nobody waiting.
Delivered ==
  \A i \in 1..MaxSegments : (Len(sent) >= i) ~> (Len(delivered) >= i)
=============================================================================
