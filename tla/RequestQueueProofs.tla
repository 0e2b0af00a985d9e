------------------------- MODULE RequestQueueProofs -------------------------
(***************************************************************************)
(* The two stacks of RequestQueue implement the queue of Fifo, for every   *)
(* set of items and every length.                                          *)
(***************************************************************************)
EXTENDS RequestQueue, TLAPS

(* What Reverse is at a position. *)
LEMMA ReverseSeq ==
    ASSUME NEW S, NEW s \in Seq(S)
    PROVE  /\ Reverse(s) \in Seq(S)
           /\ Len(Reverse(s)) = Len(s)
           /\ \A i \in 1 .. Len(s) : Reverse(s)[i] = s[Len(s) - i + 1]
BY DEF Reverse

(* What the concatenation of two sequences is at a position. *)
LEMMA ConcatSeq ==
    ASSUME NEW S, NEW s \in Seq(S), NEW r \in Seq(S)
    PROVE  /\ s \o r \in Seq(S)
           /\ Len(s \o r) = Len(s) + Len(r)
           /\ \A i \in 1 .. Len(s) + Len(r) :
                (s \o r)[i] = IF i <= Len(s) THEN s[i] ELSE r[i - Len(s)]
OBVIOUS

(* Two sequences with the same elements in the same places are equal. *)
LEMMA SeqEqual ==
    ASSUME NEW S, NEW s \in Seq(S), NEW r \in Seq(S), Len(s) = Len(r),
           \A i \in 1 .. Len(s) : s[i] = r[i]
    PROVE  s = r
OBVIOUS

(* Reversing a sequence brings its head to the end. *)
LEMMA ReverseCons ==
    ASSUME NEW S, NEW x \in S, NEW s \in Seq(S)
    PROVE  Reverse(<<x>> \o s) = Append(Reverse(s), x)
<1> DEFINE c == <<x>> \o s
<1>1. /\ <<x>> \in Seq(S) /\ Len(<<x>>) = 1 /\ <<x>>[1] = x
  OBVIOUS
<1>2. /\ c \in Seq(S) /\ Len(c) = 1 + Len(s)
      /\ \A i \in 1 .. 1 + Len(s) : c[i] = IF i <= 1 THEN x ELSE s[i - 1]
  BY <1>1, ConcatSeq
<1> HIDE DEF c
<1>3. /\ Reverse(c) \in Seq(S) /\ Len(Reverse(c)) = 1 + Len(s)
      /\ \A i \in 1 .. 1 + Len(s) : Reverse(c)[i] = c[1 + Len(s) - i + 1]
  BY <1>2, ReverseSeq
<1>4. /\ Reverse(s) \in Seq(S) /\ Len(Reverse(s)) = Len(s)
      /\ \A i \in 1 .. Len(s) : Reverse(s)[i] = s[Len(s) - i + 1]
  BY ReverseSeq
<1>5. /\ Append(Reverse(s), x) \in Seq(S) /\ Len(Append(Reverse(s), x)) = Len(s) + 1
      /\ \A i \in 1 .. Len(s) + 1 :
            Append(Reverse(s), x)[i] = IF i <= Len(s) THEN Reverse(s)[i] ELSE x
  BY <1>4
<1>6. ASSUME NEW i \in 1 .. 1 + Len(s)
      PROVE  Reverse(c)[i] = Append(Reverse(s), x)[i]
  <2>1. CASE i = 1 + Len(s)  BY <2>1, <1>2, <1>3, <1>5
  <2>2. CASE i \in 1 .. Len(s)
    <3>1. Reverse(c)[i] = s[Len(s) - i + 1]
      <4>1. 1 + Len(s) - i + 1 \in 2 .. 1 + Len(s)  BY <2>2
      <4>2. c[1 + Len(s) - i + 1] = s[1 + Len(s) - i + 1 - 1]  BY <4>1, <1>2
      <4>3. 1 + Len(s) - i + 1 - 1 = Len(s) - i + 1  BY <2>2
      <4> QED  BY <4>2, <4>3, <1>3
    <3> QED  BY <3>1, <2>2, <1>4, <1>5
  <2>3. i = 1 + Len(s) \/ i \in 1 .. Len(s)
    <3>1. Len(s) \in Nat  OBVIOUS
    <3> QED  BY <3>1
  <2> QED  BY <2>1, <2>2, <2>3, Zenon
<1>7. Len(Reverse(c)) = Len(Append(Reverse(s), x)) /\ Len(Reverse(c)) = 1 + Len(s)
  <2>1. Len(s) \in Nat  OBVIOUS
  <2> QED  BY <2>1, <1>3, <1>5
<1>8. Reverse(c) = Append(Reverse(s), x)
  <2> DEFINE u == Reverse(c)
             v == Append(Reverse(s), x)
  <2>1. u \in Seq(S) /\ v \in Seq(S) /\ Len(u) = Len(v) /\ \A i \in 1 .. Len(u) : u[i] = v[i]
    BY <1>3, <1>5, <1>6, <1>7
  <2> HIDE DEF u, v
  <2>2. u = v  BY <2>1, SeqEqual
  <2> QED  BY <2>2 DEF u, v
<1> QED  BY <1>8 DEF c

(* The two stacks hold items. *)
StacksType == stackIn \in Seq(Items) /\ stackOut \in Seq(Items)

(* They do so in every state. *)
LEMMA StacksTypeHolds == Spec => []StacksType
<1>1. Init => StacksType
  BY DEF Init, StacksType
<1>2. StacksType /\ [Next]_stacks => StacksType'
  <2> SUFFICES ASSUME StacksType, [Next]_stacks
               PROVE  StacksType'
    OBVIOUS
  <2>1. ASSUME NEW x \in Items, Enqueue(x)
        PROVE  StacksType'
    <3>1. <<x>> \in Seq(Items)  OBVIOUS
    <3> QED  BY <2>1, <3>1, ConcatSeq DEF Enqueue, StacksType
  <2>2. ASSUME NEW x \in Items, Dequeue(x)
        PROVE  StacksType'
    <3>1. Reverse(stackIn) \in Seq(Items) /\ Len(Reverse(stackIn)) = Len(stackIn)
      BY ReverseSeq DEF StacksType
    <3>2. CASE stackOut = <<>>
      <4>1. stackOut' = Tail(Reverse(stackIn)) /\ stackIn' = <<>> /\ stackIn # <<>>
        BY <2>2, <3>2 DEF Dequeue, IsEmpty
      <4>2. Reverse(stackIn) # <<>>
        BY <3>1, <4>1 DEF StacksType
      <4> QED  BY <3>1, <4>1, <4>2 DEF StacksType
    <3>3. CASE stackOut # <<>>
      <4>1. stackOut' = Tail(stackOut) /\ stackIn' = stackIn
        BY <2>2, <3>3 DEF Dequeue
      <4> QED  BY <4>1, <3>3 DEF StacksType
    <3> QED  BY <3>2, <3>3
  <2>3. CASE UNCHANGED stacks
    BY <2>3 DEF stacks, StacksType
  <2> QED  BY <2>1, <2>2, <2>3 DEF Next
<1> QED  BY <1>1, <1>2, PTL DEF Spec

-----------------------------------------------------------------------------
(* An item enqueued is the last of the contents. *)
LEMMA EnqueueAppends ==
    ASSUME StacksType, NEW x \in Items, Enqueue(x)
    PROVE  Contents' = Append(Contents, x)
<1> DEFINE r == Reverse(stackIn)
<1>1. r \in Seq(Items)
  BY ReverseSeq DEF StacksType
<1>2. Contents' = stackOut \o Append(r, x)
  BY ReverseCons DEF Enqueue, Contents, StacksType
<1> DEFINE w == Append(r, x)
<1> HIDE DEF r
<1>3. /\ w \in Seq(Items) /\ Len(w) = Len(r) + 1
      /\ \A i \in 1 .. Len(r) : w[i] = r[i]
      /\ w[Len(r) + 1] = x
  BY <1>1
<1> HIDE DEF w
<1>4. stackOut \o w = Append(stackOut \o r, x)
  <2> DEFINE u == stackOut \o w
             q == stackOut \o r
             v == Append(q, x)
  <2>1. /\ u \in Seq(Items) /\ Len(u) = Len(stackOut) + Len(w)
        /\ \A i \in 1 .. Len(stackOut) + Len(w) :
            u[i] = IF i <= Len(stackOut) THEN stackOut[i] ELSE w[i - Len(stackOut)]
    BY <1>3, ConcatSeq DEF StacksType
  <2>2. /\ q \in Seq(Items) /\ Len(q) = Len(stackOut) + Len(r)
        /\ \A i \in 1 .. Len(stackOut) + Len(r) :
            q[i] = IF i <= Len(stackOut) THEN stackOut[i] ELSE r[i - Len(stackOut)]
    BY <1>1, ConcatSeq DEF StacksType
  <2> HIDE DEF u, q
  <2>3. /\ v \in Seq(Items) /\ Len(v) = Len(q) + 1
        /\ \A i \in 1 .. Len(q) : v[i] = q[i]
        /\ v[Len(q) + 1] = x
    BY <2>2
  <2> HIDE DEF v
  <2>4. Len(stackOut) \in Nat /\ Len(r) \in Nat
    BY <1>1 DEF StacksType
  <2>5. ASSUME NEW i \in 1 .. Len(u)
        PROVE  u[i] = v[i]
    <3>1. i \in 1 .. Len(stackOut) + Len(r) + 1 /\ Len(w) = Len(r) + 1
      BY <1>3, <2>1, <2>4
    <3>2. u[i] = IF i <= Len(stackOut) THEN stackOut[i] ELSE w[i - Len(stackOut)]
      BY <3>1, <2>1, <2>4
    <3>3. CASE i \in 1 .. Len(stackOut) + Len(r)
      <4>1. v[i] = IF i <= Len(stackOut) THEN stackOut[i] ELSE r[i - Len(stackOut)]
        BY <3>3, <2>2, <2>3
      <4>2. ~(i <= Len(stackOut)) => w[i - Len(stackOut)] = r[i - Len(stackOut)]
        <5>1. ~(i <= Len(stackOut)) => i - Len(stackOut) \in 1 .. Len(r)
          BY <3>3, <2>4
        <5> QED  BY <5>1, <1>3
      <4> QED  BY <4>1, <4>2, <3>2
    <3>4. CASE i = Len(stackOut) + Len(r) + 1
      <4>1. i - Len(stackOut) = Len(r) + 1 /\ ~(i <= Len(stackOut))
        BY <3>4, <2>4
      <4>2. u[i] = x
        BY <4>1, <3>2, <1>3
      <4>3. i = Len(q) + 1
        BY <3>4, <2>2
      <4> QED  BY <4>2, <4>3, <2>3
    <3>5. i \in 1 .. Len(stackOut) + Len(r) \/ i = Len(stackOut) + Len(r) + 1
      BY <3>1, <2>4
    <3> QED  BY <3>3, <3>4, <3>5, Zenon
  <2>6. Len(u) = Len(v)  BY <1>3, <2>1, <2>2, <2>3, <2>4
  <2>7. u = v  BY <2>1, <2>3, <2>5, <2>6, SeqEqual
  <2> QED  BY <2>7 DEF u, q, v
<1> QED  BY <1>2, <1>4 DEF Contents, r, w

(* An item dequeued is the first of the contents. *)
LEMMA DequeueTakesHead ==
    ASSUME StacksType, NEW x \in Items, Dequeue(x)
    PROVE  Contents # <<>> /\ x = Head(Contents) /\ Contents' = Tail(Contents)
<1> DEFINE r == Reverse(stackIn)
<1>1. r \in Seq(Items) /\ Len(r) = Len(stackIn)
  BY ReverseSeq DEF StacksType
<1>2. Reverse(<<>>) = <<>>
  BY DEF Reverse
<1>3. CASE stackOut = <<>>
  <2>1. x = Head(r) /\ stackOut' = Tail(r) /\ stackIn' = <<>> /\ stackIn # <<>>
    BY <1>3 DEF Dequeue, IsEmpty
  <2>2. r # <<>>
    BY <1>1, <2>1 DEF StacksType
  <2>3. Contents = r
    <3>1. Contents = <<>> \o r  BY <1>3 DEF Contents
    <3> QED  BY <3>1, <1>1
  <2>4. Contents' = Tail(r)
    <3>1. Contents' = Tail(r) \o <<>>  BY <2>1, <1>2 DEF Contents
    <3>2. Tail(r) \in Seq(Items)  BY <1>1, <2>2
    <3> QED  BY <3>1, <3>2
  <2> QED  BY <2>1, <2>2, <2>3, <2>4
<1>4. CASE stackOut # <<>>
  <2>1. x = Head(stackOut) /\ stackOut' = Tail(stackOut) /\ stackIn' = stackIn
    BY <1>4 DEF Dequeue
  <2>2. Contents = stackOut \o r /\ Contents' = Tail(stackOut) \o r
    BY <2>1 DEF Contents
  <2> HIDE DEF r
  <2>3. /\ stackOut \o r # <<>> /\ Head(stackOut \o r) = Head(stackOut)
        /\ Tail(stackOut \o r) = Tail(stackOut) \o r
    BY <1>1, <1>4 DEF StacksType
  <2> QED  BY <2>1, <2>2, <2>3
<1> QED  BY <1>3, <1>4

-----------------------------------------------------------------------------
(* A step of the stacks is a step of the queue or changes nothing in it. *)
LEMMA StepImplements ==
    ASSUME StacksType, [Next]_stacks
    PROVE  [FifoQueue!Next]_Contents
<1>1. ASSUME NEW x \in Items, Enqueue(x)
      PROVE  FifoQueue!Next
  BY <1>1, EnqueueAppends DEF FifoQueue!Next, FifoQueue!Enqueue
<1>2. ASSUME NEW x \in Items, Dequeue(x)
      PROVE  FifoQueue!Next
  BY <1>2, DequeueTakesHead DEF FifoQueue!Next, FifoQueue!Dequeue
<1>3. CASE UNCHANGED stacks
  BY <1>3 DEF stacks, Contents
<1> QED  BY <1>1, <1>2, <1>3 DEF Next

(* queue.c keeps a queue in two stacks, and its users cannot tell: what    *)
(* goes through them leaves once and in the order in which it came.        *)
THEOREM TwoStacksImplementFifo == Spec => ImplementsFifo
<1>1. Init => FifoQueue!Init
  <2>1. Reverse(<<>>) = <<>>  BY DEF Reverse
  <2> QED  BY <2>1 DEF Init, FifoQueue!Init, Contents
<1>2. StacksType /\ [Next]_stacks => [FifoQueue!Next]_Contents
  BY StepImplements
<1> QED  BY <1>1, <1>2, StacksTypeHolds, PTL DEF Spec, ImplementsFifo, FifoQueue!Spec

=============================================================================
