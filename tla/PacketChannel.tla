--------------------------- MODULE PacketChannel ---------------------------
(***************************************************************************)
(* What the data path of the simple_linker switch promises, whatever its  *)
(* buffers and threads: a channel from receive to transmit that keeps    *)
(* the packets in flight in arrival order, sends the oldest one, and may *)
(* drop any one of them (the ingress tables may set the drop port).      *)
(* Nothing is sent twice, sent out of order, or lost without a drop, and *)
(* while packets are in flight one of them eventually leaves.             *)
(***************************************************************************)
EXTENDS Sequences, SequencesExt

CONSTANT Packets

VARIABLES
  arrived,  \* the packets taken in, in arrival order
  q,        \* the packets in flight, oldest first
  out,      \* the packets sent, in sending order
  gone      \* the packets dropped

chVars == <<arrived, q, out, gone>>

ChInit ==
  /\ arrived = <<>>
  /\ q = <<>>
  /\ out = <<>>
  /\ gone = {}

\* A new packet comes in behind the ones in flight.
Arrive(pk) ==
  /\ pk \in Packets \ Range(arrived)
  /\ arrived' = Append(arrived, pk)
  /\ q' = Append(q, pk)
  /\ UNCHANGED <<out, gone>>

\* The oldest packet in flight is sent.
Send ==
  /\ q # <<>>
  /\ out' = Append(out, Head(q))
  /\ q' = Tail(q)
  /\ UNCHANGED <<arrived, gone>>

\* The k-th packet in flight is dropped.
Drop(k) ==
  /\ k \in 1..Len(q)
  /\ gone' = gone \cup {q[k]}
  /\ q' = RemoveAt(q, k)
  /\ UNCHANGED <<arrived, out>>

Leave == Send \/ \E k \in 1..Len(q) : Drop(k)

ChNext == (\E pk \in Packets : Arrive(pk)) \/ Leave

\* Arrivals come from outside; a packet in flight is not held forever.
ChSpec == ChInit /\ [][ChNext]_chVars /\ WF_chVars(Leave)

=============================================================================
