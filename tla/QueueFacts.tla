------------------------------- MODULE QueueFacts -------------------------------
(****************************************************************************)
(* What Append, Head and Tail do to a queue, element by element: the watch  *)
(* of an object is one (Store appends, Deliver takes the head).             *)
(****************************************************************************)
EXTENDS Naturals, Sequences, TLAPS

LEMMA AppendFacts ==
  ASSUME NEW S, NEW q \in Seq(S), NEW v \in S
  PROVE  /\ Len(q) \in Nat
         /\ Append(q, v) # <<>>
         /\ Len(Append(q, v)) = Len(q) + 1
         /\ Append(q, v)[Len(q) + 1] = v
         /\ \A i \in 1..Len(q) : Append(q, v)[i] = q[i]
OBVIOUS

LEMMA TailFacts ==
  ASSUME NEW S, NEW q \in Seq(S), q # <<>>
  PROVE  /\ Head(q) = q[1] /\ 1 \in 1..Len(q)
         /\ Len(Tail(q)) = Len(q) - 1 /\ Len(q) \in Nat
         /\ \A i \in 1..Len(Tail(q)) : i + 1 \in 1..Len(q) /\ Tail(q)[i] = q[i + 1]
         /\ Tail(q) # <<>> => Tail(q)[Len(Tail(q))] = q[Len(q)]
         /\ Tail(q) = <<>> => Head(q) = q[Len(q)]
<1>1. /\ Len(q) \in Nat /\ Len(q) # 0
      /\ Head(q) = q[1]
      /\ Len(Tail(q)) = Len(q) - 1
  OBVIOUS
<1>2. \A i \in 1..Len(Tail(q)) : i + 1 \in 1..Len(q) /\ Tail(q)[i] = q[i + 1]
  OBVIOUS
<1>3. Tail(q) # <<>> => Tail(q)[Len(Tail(q))] = q[Len(q)]
  <2>1. SUFFICES ASSUME Tail(q) # <<>> PROVE Tail(q)[Len(Tail(q))] = q[Len(q)]
    OBVIOUS
  <2>2. Tail(q) \in Seq(S)
    OBVIOUS
  <2>3. Len(Tail(q)) \in 1..Len(Tail(q))
    BY <2>1, <2>2
  <2> QED
    BY <1>1, <1>2, <2>3
<1>4. Tail(q) = <<>> => Head(q) = q[Len(q)]
  <2>1. Len(<<>>) = 0
    OBVIOUS
  <2>2. Tail(q) = <<>> => Len(Tail(q)) = 0
    BY <2>1, Zenon
  <2>3. \A n \in Nat : n - 1 = 0 => n = 1
    OBVIOUS
  <2> QED
    BY <1>1, <2>2, <2>3, Zenon
<1> QED
  BY <1>1, <1>2, <1>3, <1>4
================================================================================
