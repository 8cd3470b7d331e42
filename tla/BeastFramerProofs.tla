------------------------- MODULE BeastFramerProofs --------------------------
(***************************************************************************)
(* Proofs about BeastFramer, for every byte, frame type, body length and   *)
(* stream: however a stream is cut into reads, the frames are those of the *)
(* stream as a whole; a reader of a frame undoes its writer; a cut frame   *)
(* costs nothing but itself; and nothing but a start waits in the buffer.  *)
(*                                                                         *)
(* The invariant (Contained) speaks of what is still to come: for every    *)
(* continuation z, the frames of stream \o z are those in out, followed    *)
(* by those of buf \o z.  So a read changes nothing, and a step of the     *)
(* loop has to be compared with the scan of the buffer only.               *)
(*                                                                         *)
(* The framer walks over a body with an index, the reference asks which    *)
(* encoding is a prefix; the two meet in WalkPasses (what the walk has     *)
(* passed was encoded) and EncodedWalk (what was encoded it passes).  The  *)
(* recursive functions of the model are given their equations first, by a  *)
(* recursion lemma that needs no operator as a parameter: induction is     *)
(* over sets of numbers, from the well-foundedness of finite sets.         *)
(***************************************************************************)
EXTENDS BeastFramer, FiniteSetTheorems, WellFoundedInduction, SequenceTheorems, TLAPS

-----------------------------------------------------------------------------
(* Induction, for sets of numbers: that finite sets are well-founded under *)
(* inclusion gives a least number, and this the rest.                      *)
LEMMA Least ==
  ASSUME NEW T, T \subseteq Nat, T # {}
  PROVE  \E n \in T : \A m \in T : n <= m
PROOF
  <1> DEFINE Below(n) == 0..(n - 1)
             U == {Below(n) : n \in T}
  <1>1. U \subseteq FiniteSubsetsOf(Nat)
    <2> SUFFICES ASSUME NEW n \in T PROVE Below(n) \in FiniteSubsetsOf(Nat)
      OBVIOUS
    <2>1. IsFiniteSet(0..(n - 1))
      BY FS_Interval
    <2> QED
      BY <2>1 DEF FiniteSubsetsOf
  <1>2. U # {}
    OBVIOUS
  <1>3. IsWellFoundedOn(StrictSubsetOrdering(Nat), FiniteSubsetsOf(Nat))
    BY FS_StrictSubsetOrderingWellFounded
  <1> HIDE DEF U
  <1>4. PICK x \in U : \A y \in U : ~ (<<y, x>> \in StrictSubsetOrdering(Nat))
    BY <1>1, <1>2, <1>3, WFMin, Zenon
  <1>5. PICK n \in T : x = Below(n)
    BY <1>4 DEF U
  <1>6. ASSUME NEW m \in T PROVE n <= m
    <2> SUFFICES ASSUME m < n PROVE FALSE
      BY <1>6
    <2>1. Below(m) \in U /\ <<Below(m), x>> \notin StrictSubsetOrdering(Nat)
      BY <1>4 DEF U
    <2>2. Below(m) \subseteq Below(n) /\ m \in Below(n) /\ m \notin Below(m)
      BY <1>5, <1>6
    <2>3. Below(m) \in SUBSET Nat /\ Below(n) \in SUBSET Nat
      OBVIOUS
    <2> HIDE DEF Below
    <2>4. <<Below(m), x>> \in StrictSubsetOrdering(Nat)
      BY <2>2, <2>3, <1>5 DEF StrictSubsetOrdering
    <2> QED
      BY <2>1, <2>4
  <1> QED
    BY <1>6

LEMMA Induction ==
  ASSUME NEW T, 0 \in T, \A n \in Nat : n \in T => n + 1 \in T
  PROVE  Nat \subseteq T
PROOF
  <1> DEFINE U == Nat \ T
  <1> SUFFICES ASSUME U # {} PROVE FALSE
    OBVIOUS
  <1>1. U \subseteq Nat
    OBVIOUS
  <1> HIDE DEF U
  <1>2. PICK n \in U : \A m \in U : n <= m
    BY <1>1, Least
  <1> USE DEF U
  <1>3. n - 1 \in Nat /\ n - 1 \in T
    BY <1>2
  <1> QED
    BY <1>2, <1>3

(* What holds of every element of a smaller rank first holds of all.       *)
LEMMA RankInduction ==
  ASSUME NEW D, NEW rank \in [D -> Nat], NEW T,
         \A d \in D : (\A e \in D : rank[e] < rank[d] => e \in T) => d \in T
  PROVE  D \subseteq T
PROOF
  <1> DEFINE U == {rank[d] : d \in D \ T}
  <1> SUFFICES ASSUME D \ T # {} PROVE FALSE
    OBVIOUS
  <1>1. U \subseteq Nat /\ U # {}
    OBVIOUS
  <1> HIDE DEF U
  <1>2. PICK n \in U : \A m \in U : n <= m
    BY <1>1, Least
  <1>3. PICK d \in D \ T : n = rank[d]
    BY <1>2 DEF U
  <1>4. ASSUME NEW e \in D, rank[e] < rank[d], e \notin T PROVE FALSE
    <2>1. rank[e] \in U
      BY <1>4 DEF U
    <2> QED
      BY <1>1, <1>2, <1>3, <1>4, <2>1
  <1> QED
    BY <1>3, <1>4

-----------------------------------------------------------------------------
(* A function may be defined by recursion on a rank: step is a table of    *)
(* what is made of the value at the point before.                          *)
Recurses(f, D, Stop, base, pred, step) ==
  \A d \in D : f[d] = IF d \in Stop THEN base[d] ELSE step[<<d, f[pred[d]]>>]

LEMMA Recursion ==
  ASSUME NEW D, NEW V, NEW Stop,
         NEW base \in [D -> V], NEW pred \in [D -> D], NEW step \in [D \X V -> V],
         NEW rank \in [D -> Nat],
         \A d \in D \ Stop : rank[pred[d]] < rank[d]
  PROVE  \E f \in [D -> V] : Recurses(f, D, Stop, base, pred, step)
PROOF
  <1> DEFINE Part(n) == {d \in D : rank[d] < n}
             Sol(n) == {g \in [Part(n) -> V] : Recurses(g, Part(n), Stop, base, pred, step)}
             Same == {d \in D : \A n, m \in Nat : \A g \in Sol(n), h \in Sol(m) :
                        d \in Part(n) /\ d \in Part(m) => g[d] = h[d]}
             Has == {n \in Nat : Sol(n) # {}}
  <1>1. \A n \in Nat : \A d \in Part(n) : d \in Stop \/ pred[d] \in Part(n)
    OBVIOUS
  <1>2. D \subseteq Same
    <2>1. ASSUME NEW d \in D, \A e \in D : rank[e] < rank[d] => e \in Same
          PROVE  d \in Same
      <3> SUFFICES ASSUME NEW n \in Nat, NEW m \in Nat, NEW g \in Sol(n), NEW h \in Sol(m),
                          d \in Part(n), d \in Part(m)
                   PROVE  g[d] = h[d]
        OBVIOUS
      <3>1. CASE d \in Stop
        BY <3>1 DEF Recurses
      <3>2. CASE d \notin Stop
        <4>1. pred[d] \in Part(n) /\ pred[d] \in Part(m)
          BY <1>1, <3>2
        <4>2. pred[d] \in Same
          BY <2>1, <3>2
        <4>3. g[pred[d]] = h[pred[d]]
          <5> DEFINE e == pred[d]
          <5> HIDE DEF e, Sol, Part
          <5>1. e \in Same /\ e \in Part(n) /\ e \in Part(m)
            BY <4>1, <4>2 DEF e
          <5>2. g[e] = h[e]
            BY <5>1
          <5> QED
            BY <5>2 DEF e
        <4> QED
          BY <3>2, <4>3 DEF Recurses
      <3> QED
        BY <3>1, <3>2
    <2> HIDE DEF Same
    <2> QED
      BY <2>1, RankInduction
  <1>3. Nat \subseteq Has
    <2>1. 0 \in Has
      <3>1. Part(0) = {}
        OBVIOUS
      <3>2. [d \in Part(0) |-> d] \in Sol(0)
        BY <3>1 DEF Recurses
      <3> QED
        BY <3>2
    <2>2. ASSUME NEW n \in Nat, n \in Has
          PROVE  n + 1 \in Has
      <3>1. PICK g : g \in Sol(n)
        BY <2>2
      <3> DEFINE h == [d \in Part(n + 1) |->
                         IF d \in Stop THEN base[d] ELSE step[<<d, g[pred[d]]>>]]
      <3>2. \A d \in Part(n + 1) : d \in Stop \/ pred[d] \in Part(n)
        OBVIOUS
      <3>3. \A d \in Part(n) : h[d] = g[d] /\ d \in Part(n + 1)
        BY <3>1 DEF Recurses
      <3>4. h \in [Part(n + 1) -> V]
        <4> SUFFICES ASSUME NEW d \in Part(n + 1)
                     PROVE  (IF d \in Stop THEN base[d] ELSE step[<<d, g[pred[d]]>>]) \in V
          OBVIOUS
        <4>1. g \in [Part(n) -> V] /\ d \in D
          BY <3>1
        <4> HIDE DEF Part
        <4>2. CASE d \in Stop
          BY <4>1, <4>2
        <4>3. CASE d \notin Stop
          <5>1. g[pred[d]] \in V
            BY <3>2, <4>1, <4>3
          <5>2. <<d, g[pred[d]]>> \in D \X V
            BY <4>1, <5>1
          <5>3. step[<<d, g[pred[d]]>>] \in V
            BY <5>2
          <5> QED
            BY <4>3, <5>3
        <4> QED
          BY <4>2, <4>3
      <3>5. ASSUME NEW d \in Part(n + 1)
            PROVE  h[d] = IF d \in Stop THEN base[d] ELSE step[<<d, h[pred[d]]>>]
        <4>1. CASE d \in Stop
          BY <4>1
        <4>2. CASE d \notin Stop
          <5>1. h[pred[d]] = g[pred[d]]
            BY <3>2, <3>3, <4>2
          <5> QED
            BY <4>2, <5>1
        <4> QED
          BY <4>1, <4>2
      <3> HIDE DEF h
      <3>6. h \in Sol(n + 1)
        BY <3>4, <3>5 DEF Recurses
      <3> HIDE DEF Sol
      <3> QED
        BY <3>6
    <2> HIDE DEF Has
    <2> QED
      BY <2>1, <2>2, Induction
  <1> DEFINE sol == [n \in Nat |-> CHOOSE g : g \in Sol(n)]
             f == [d \in D |-> sol[rank[d] + 1][d]]
  <1>4. \A n \in Nat : sol[n] \in Sol(n)
    BY <1>3
  <1> HIDE DEF sol
  <1>5. \A d \in D : d \in Part(rank[d] + 1) /\ rank[d] + 1 \in Nat
    OBVIOUS
  <1>6. f \in [D -> V]
    BY <1>4, <1>5
  <1>7. ASSUME NEW d \in D
        PROVE  f[d] = IF d \in Stop THEN base[d] ELSE step[<<d, f[pred[d]]>>]
    <2> DEFINE g == sol[rank[d] + 1]
    <2>1. g \in Sol(rank[d] + 1) /\ f[d] = g[d]
      BY <1>4, <1>5
    <2>2. g[d] = IF d \in Stop THEN base[d] ELSE step[<<d, g[pred[d]]>>]
      BY <1>5, <2>1 DEF Recurses
    <2>3. ASSUME d \notin Stop PROVE f[pred[d]] = g[pred[d]]
      <3> DEFINE e == pred[d]
                 h == sol[rank[e] + 1]
      <3>1. e \in D /\ e \in Part(rank[d] + 1) /\ e \in Part(rank[e] + 1) /\ f[e] = h[e]
        BY <2>3, <1>1, <1>5
      <3>2. h \in Sol(rank[e] + 1)
        BY <1>4, <1>5, <3>1
      <3>3. e \in Same
        BY <1>2, <3>1
      <3>4. rank[d] + 1 \in Nat /\ rank[e] + 1 \in Nat
        BY <1>5, <3>1
      <3> HIDE DEF e, h, g, f, Sol, Part
      <3>5. h[e] = g[e]
        BY <2>1, <3>1, <3>2, <3>3, <3>4
      <3> QED
        BY <3>1, <3>5 DEF e
    <2> QED
      BY <2>1, <2>2, <2>3
  <1> HIDE DEF f
  <1> QED
    BY <1>6, <1>7 DEF Recurses

(* The same for a loop that counts its turns.                              *)
Loops(f, D, a, step) == \A k \in D : f[k] = IF k = 0 THEN a ELSE step[<<k, f[k - 1]>>]

LEMMA Looping ==
  ASSUME NEW D, D \subseteq Nat, \A k \in D : k # 0 => k - 1 \in D,
         NEW V, NEW a \in V, NEW step \in [D \X V -> V]
  PROVE  \E f \in [D -> V] : Loops(f, D, a, step)
PROOF
  <1> DEFINE base == [k \in D |-> a]
             pred == [k \in D |-> IF k = 0 THEN k ELSE k - 1]
             rank == [k \in D |-> k]
  <1>1. base \in [D -> V] /\ pred \in [D -> D] /\ rank \in [D -> Nat]
    OBVIOUS
  <1>2. \A k \in D \ {0} : rank[pred[k]] < rank[k]
    OBVIOUS
  <1>3. \A k \in D : base[k] = a /\ (k # 0 => pred[k] = k - 1)
    OBVIOUS
  <1> HIDE DEF base, pred, rank
  <1>4. PICK f \in [D -> V] : Recurses(f, D, {0}, base, pred, step)
    BY <1>1, <1>2, Recursion
  <1>5. \A k \in D : f[k] = IF k = 0 THEN a ELSE step[<<k, f[k - 1]>>]
    BY <1>3, <1>4 DEF Recurses
  <1> QED
    BY <1>5 DEF Loops

-----------------------------------------------------------------------------
(* The walk over a body.                                                   *)
Ends == [is : {"whole", "more", "cut"}, at : Nat]

LEMMA OnwardType ==
  \A b, end : end \in Ends => Onward(b, end) \in Ends
PROOF
  BY DEF Onward, Ends

LEMMA WalkDef ==
  \A b : /\ Walk(b) \in [Nat -> Ends]
         /\ Walk(b)[0] = [is |-> "whole", at |-> 3]
         /\ \A k \in Nat : Walk(b)[k + 1] = Onward(b, Walk(b)[k])
PROOF
  <1> SUFFICES ASSUME NEW b
               PROVE  /\ Walk(b) \in [Nat -> Ends]
                      /\ Walk(b)[0] = [is |-> "whole", at |-> 3]
                      /\ \A k \in Nat : Walk(b)[k + 1] = Onward(b, Walk(b)[k])
    OBVIOUS
  <1> DEFINE first == [is |-> "whole", at |-> 3]
             step == [p \in Nat \X Ends |-> Onward(b, p[2])]
             W(w) == w = [k \in Nat |-> IF k = 0 THEN first ELSE Onward(b, w[k - 1])]
  <1>1. first \in Ends
    BY DEF Ends
  <1>2. step \in [Nat \X Ends -> Ends]
    BY OnwardType
  <1>3. \A k \in Nat : \A e \in Ends : step[<<k, e>>] = Onward(b, e)
    OBVIOUS
  <1> HIDE DEF step, first
  <1>4. PICK f \in [Nat -> Ends] : Loops(f, Nat, first, step)
    <2>1. \A k \in Nat : k # 0 => k - 1 \in Nat
      OBVIOUS
    <2> QED
      BY <1>1, <1>2, <2>1, Looping
  <1>5. \A k \in Nat : k # 0 => f[k - 1] \in Ends
    BY <1>4
  <1>6. W(f)
    <2>1. \A k \in Nat : f[k] = IF k = 0 THEN first ELSE Onward(b, f[k - 1])
      BY <1>3, <1>4, <1>5 DEF Loops
    <2> QED
      BY <2>1, <1>4
  <1>7. Walk(b) = CHOOSE w : W(w)
    BY DEF Walk, first
  <1>8. W(Walk(b))
    <2> HIDE DEF W
    <2> QED
      BY <1>6, <1>7
  <1> DEFINE w == Walk(b)
             T == {k \in Nat : w[k] \in Ends}
  <1> HIDE DEF w
  <1>9. \A k \in Nat : w[k] = IF k = 0 THEN first ELSE Onward(b, w[k - 1])
    BY <1>8 DEF w
  <1>10. w[0] = first /\ \A k \in Nat : w[k + 1] = Onward(b, w[k])
    BY <1>9
  <1>11. Nat \subseteq T
    <2>1. 0 \in T
      BY <1>1, <1>10
    <2>2. \A k \in Nat : k \in T => k + 1 \in T
      BY <1>10, OnwardType
    <2> HIDE DEF T
    <2> QED
      BY <2>1, <2>2, Induction
  <1>12. w \in [Nat -> Ends]
    BY <1>8, <1>11 DEF w
  <1> QED
    BY <1>10, <1>12 DEF w, first

-----------------------------------------------------------------------------
(* The writer of a frame: its bytes after k bytes of the body.             *)
LEMMA DoubledBytes ==
  \A x \in Bytes : Doubled(x) \in Seq(Bytes) /\ Len(Doubled(x)) \in Nat /\ 1 <= Len(Doubled(x))
PROOF
  BY FramerAssumption DEF Doubled

LEMMA StartBytes ==
  \A t \in Bytes : <<Esc, t>> \in Seq(Bytes) /\ Len(<<Esc, t>>) = 2
PROOF
  BY FramerAssumption

LEMMA EncodedDef ==
  \A t \in Bytes : \A body \in Seq(Bytes) :
    /\ Encoded(t, body) \in [0..Len(body) -> Seq(Bytes)]
    /\ Encoded(t, body)[0] = <<Esc, t>>
    /\ \A k \in 1..Len(body) : Encoded(t, body)[k] = Encoded(t, body)[k - 1] \o Doubled(body[k])
PROOF
  <1> SUFFICES ASSUME NEW t \in Bytes, NEW body \in Seq(Bytes)
               PROVE  /\ Encoded(t, body) \in [0..Len(body) -> Seq(Bytes)]
                      /\ Encoded(t, body)[0] = <<Esc, t>>
                      /\ \A k \in 1..Len(body) :
                           Encoded(t, body)[k] = Encoded(t, body)[k - 1] \o Doubled(body[k])
    OBVIOUS
  <1> DEFINE D == 0..Len(body)
             first == <<Esc, t>>
             V == Seq(Bytes)
             step == [p \in D \X V |-> IF p[1] = 0 THEN <<>> ELSE p[2] \o Doubled(body[p[1]])]
             W(w) == w = [k \in D |-> IF k = 0 THEN first ELSE w[k - 1] \o Doubled(body[k])]
  <1>1. first \in V
    BY StartBytes
  <1>2. \A k \in D : k # 0 => body[k] \in Bytes /\ Doubled(body[k]) \in V /\ k - 1 \in D
    <2>1. \A k \in D : k # 0 => body[k] \in Bytes /\ k - 1 \in D
      OBVIOUS
    <2> HIDE DEF D
    <2> QED
      BY <2>1, DoubledBytes
  <1>3. \A k \in D : \A e \in V : k # 0 => e \o Doubled(body[k]) \in V
    BY <1>2
  <1>4. step \in [D \X V -> V]
    <2> SUFFICES ASSUME NEW k \in D, NEW e \in V
                 PROVE  (IF k = 0 THEN <<>> ELSE e \o Doubled(body[k])) \in V
      OBVIOUS
    <2> QED
      BY <1>3
  <1>5. \A k \in D : \A e \in V : k # 0 => step[<<k, e>>] = e \o Doubled(body[k])
    OBVIOUS
  <1>6. D \subseteq Nat /\ \A k \in D : k # 0 => k - 1 \in D
    OBVIOUS
  <1> HIDE DEF step, first, V
  <1>7. PICK f \in [D -> V] : Loops(f, D, first, step)
    BY <1>1, <1>4, <1>6, Looping
  <1>8. W(f)
    <2>1. \A k \in D : f[k] = IF k = 0 THEN first ELSE f[k - 1] \o Doubled(body[k])
      BY <1>5, <1>6, <1>7 DEF Loops
    <2> QED
      BY <2>1, <1>7
  <1>9. Encoded(t, body) = CHOOSE w : W(w)
    BY DEF Encoded, first
  <1>10. W(Encoded(t, body))
    <2> HIDE DEF W
    <2> QED
      BY <1>8, <1>9
  <1> DEFINE w == Encoded(t, body)
             T == {k \in Nat : k \in D => w[k] \in V}
  <1> HIDE DEF w
  <1>11. \A k \in D : w[k] = IF k = 0 THEN first ELSE w[k - 1] \o Doubled(body[k])
    BY <1>10 DEF w
  <1>12. Nat \subseteq T
    <2>1. 0 \in T
      BY <1>1, <1>11
    <2>2. ASSUME NEW k \in Nat, k \in T PROVE k + 1 \in T
      <3> SUFFICES ASSUME k + 1 \in D PROVE w[k + 1] \in V
        OBVIOUS
      <3>1. k \in D /\ (k + 1) - 1 = k /\ k + 1 # 0
        OBVIOUS
      <3>2. w[k + 1] = w[k] \o Doubled(body[k + 1])
        BY <1>11, <3>1
      <3>3. w[k] \in V
        BY <2>2, <3>1
      <3> QED
        BY <1>3, <3>1, <3>2, <3>3
    <2> HIDE DEF T
    <2> QED
      BY <2>1, <2>2, Induction
  <1>13. w \in [D -> V]
    <2>1. \A k \in D : w[k] \in V
      BY <1>12
    <2> QED
      BY <1>10, <2>1 DEF w
  <1>14. w[0] = first
    BY <1>11
  <1>15. \A k \in 1..Len(body) : w[k] = w[k - 1] \o Doubled(body[k])
    <2>1. \A k \in 1..Len(body) : k \in D /\ k # 0
      OBVIOUS
    <2> HIDE DEF D
    <2> QED
      BY <1>11, <2>1
  <1> QED
    BY <1>13, <1>14, <1>15 DEF w, first, V

(* The readers of a frame.                                                 *)
Reads == [at : Nat \ {0}, got : Seq(Bytes)]

LEMMA ReadTypes ==
  /\ Unread \in Reads
  /\ \A frame \in Seq(Bytes) : \A r \in Reads :
       /\ IdByte(frame, r) \in Reads
       /\ \A k \in Nat : MessageByte(frame, r, k) \in Reads
PROOF
  <1>1. Unread \in Reads
    BY DEF Unread, Reads
  <1>2. ASSUME NEW frame \in Seq(Bytes), NEW r \in Reads
        PROVE  IdByte(frame, r) \in Reads
    <2>1. CASE r.at > Len(frame)
      BY <1>2, <2>1 DEF IdByte
    <2>2. CASE ~(r.at > Len(frame))
      <3>1. r.at \in 1..Len(frame) /\ r.got \in Seq(Bytes)
        BY <1>2, <2>2 DEF Reads
      <3>2. frame[r.at] \in Bytes
        BY <3>1
      <3>3. Append(r.got, frame[r.at]) \in Seq(Bytes)
        BY <3>1, <3>2
      <3> QED
        BY <2>2, <3>1, <3>3 DEF IdByte, Reads
    <2> QED
      BY <2>1, <2>2
  <1>3. ASSUME NEW frame \in Seq(Bytes), NEW r \in Reads, NEW k \in Nat
        PROVE  MessageByte(frame, r, k) \in Reads
    <2> DEFINE i == IF r.at <= Len(frame) /\ frame[r.at] = Esc THEN r.at + 1 ELSE r.at
    <2>1. i \in Nat /\ i # 0 /\ r.got \in Seq(Bytes)
      BY <1>3 DEF Reads
    <2>2. MessageByte(frame, r, k) =
            IF i > Len(frame) THEN r
            ELSE [at |-> i + 1, got |-> IF k > Header THEN Append(r.got, frame[i]) ELSE r.got]
      BY DEF MessageByte
    <2> HIDE DEF i
    <2>3. CASE i > Len(frame)
      BY <1>3, <2>2, <2>3
    <2>4. CASE ~(i > Len(frame))
      <3>1. frame[i] \in Bytes
        BY <2>1, <2>4
      <3>2. Append(r.got, frame[i]) \in Seq(Bytes)
        BY <2>1, <3>1
      <3> QED
        BY <2>1, <2>2, <2>4, <3>2 DEF Reads
    <2> QED
      BY <2>3, <2>4
  <1> QED
    BY <1>1, <1>2, <1>3

LEMMA IdReadDef ==
  \A frame \in Seq(Bytes) :
    /\ IdRead(frame) \in [Nat -> Reads]
    /\ IdRead(frame)[0] = Unread
    /\ \A k \in Nat : IdRead(frame)[k + 1] = IdByte(frame, IdRead(frame)[k])
PROOF
  <1> SUFFICES ASSUME NEW frame \in Seq(Bytes)
               PROVE  /\ IdRead(frame) \in [Nat -> Reads]
                      /\ IdRead(frame)[0] = Unread
                      /\ \A k \in Nat : IdRead(frame)[k + 1] = IdByte(frame, IdRead(frame)[k])
    OBVIOUS
  <1> DEFINE step == [p \in Nat \X Reads |-> IdByte(frame, p[2])]
             W(w) == w = [k \in Nat |-> IF k = 0 THEN Unread ELSE IdByte(frame, w[k - 1])]
  <1>1. step \in [Nat \X Reads -> Reads]
    BY ReadTypes
  <1>2. \A k \in Nat : \A r \in Reads : step[<<k, r>>] = IdByte(frame, r)
    OBVIOUS
  <1> HIDE DEF step
  <1>3. PICK f \in [Nat -> Reads] : Loops(f, Nat, Unread, step)
    <2>1. \A k \in Nat : k # 0 => k - 1 \in Nat
      OBVIOUS
    <2> QED
      BY <1>1, <2>1, ReadTypes, Looping
  <1>4. \A k \in Nat : k # 0 => f[k - 1] \in Reads
    BY <1>3
  <1>5. W(f)
    <2>1. \A k \in Nat : f[k] = IF k = 0 THEN Unread ELSE IdByte(frame, f[k - 1])
      BY <1>2, <1>3, <1>4 DEF Loops
    <2> QED
      BY <2>1, <1>3
  <1>6. IdRead(frame) = CHOOSE w : W(w)
    BY DEF IdRead
  <1>7. W(IdRead(frame))
    <2> HIDE DEF W
    <2> QED
      BY <1>5, <1>6
  <1> DEFINE w == IdRead(frame)
             T == {k \in Nat : w[k] \in Reads}
  <1> HIDE DEF w
  <1>8. \A k \in Nat : w[k] = IF k = 0 THEN Unread ELSE IdByte(frame, w[k - 1])
    BY <1>7 DEF w
  <1>9. w[0] = Unread /\ \A k \in Nat : w[k + 1] = IdByte(frame, w[k])
    BY <1>8
  <1>10. Nat \subseteq T
    <2>1. 0 \in T
      BY <1>9, ReadTypes
    <2>2. ASSUME NEW k \in Nat, w[k] \in Reads PROVE w[k + 1] \in Reads
      <3>1. IdByte(frame, w[k]) \in Reads
        BY <2>2, ReadTypes
      <3> QED
        BY <1>9, <3>1
    <2>3. \A k \in Nat : k \in T => k + 1 \in T
      BY <2>2
    <2> HIDE DEF T
    <2> QED
      BY <2>1, <2>3, Induction
  <1>11. w \in [Nat -> Reads]
    BY <1>7, <1>10 DEF w
  <1> QED
    BY <1>9, <1>11 DEF w

LEMMA MessageReadDef ==
  \A frame \in Seq(Bytes) :
    /\ MessageRead(frame) \in [Nat -> Reads]
    /\ MessageRead(frame)[0] = Unread
    /\ \A k \in Nat : MessageRead(frame)[k + 1] = MessageByte(frame, MessageRead(frame)[k], k + 1)
PROOF
  <1> SUFFICES ASSUME NEW frame \in Seq(Bytes)
               PROVE  /\ MessageRead(frame) \in [Nat -> Reads]
                      /\ MessageRead(frame)[0] = Unread
                      /\ \A k \in Nat : MessageRead(frame)[k + 1]
                                          = MessageByte(frame, MessageRead(frame)[k], k + 1)
    OBVIOUS
  <1> DEFINE step == [p \in Nat \X Reads |-> MessageByte(frame, p[2], p[1])]
             W(w) == w = [k \in Nat |-> IF k = 0 THEN Unread ELSE MessageByte(frame, w[k - 1], k)]
  <1>1. step \in [Nat \X Reads -> Reads]
    BY ReadTypes
  <1>2. \A k \in Nat : \A r \in Reads : step[<<k, r>>] = MessageByte(frame, r, k)
    OBVIOUS
  <1> HIDE DEF step
  <1>3. PICK f \in [Nat -> Reads] : Loops(f, Nat, Unread, step)
    <2>1. \A k \in Nat : k # 0 => k - 1 \in Nat
      OBVIOUS
    <2> QED
      BY <1>1, <2>1, ReadTypes, Looping
  <1>4. \A k \in Nat : k # 0 => f[k - 1] \in Reads
    BY <1>3
  <1>5. W(f)
    <2>1. \A k \in Nat : f[k] = IF k = 0 THEN Unread ELSE MessageByte(frame, f[k - 1], k)
      BY <1>2, <1>3, <1>4 DEF Loops
    <2> QED
      BY <2>1, <1>3
  <1>6. MessageRead(frame) = CHOOSE w : W(w)
    BY DEF MessageRead
  <1>7. W(MessageRead(frame))
    <2> HIDE DEF W
    <2> QED
      BY <1>5, <1>6
  <1> DEFINE w == MessageRead(frame)
             T == {k \in Nat : w[k] \in Reads}
  <1> HIDE DEF w
  <1>8. \A k \in Nat : w[k] = IF k = 0 THEN Unread ELSE MessageByte(frame, w[k - 1], k)
    BY <1>7 DEF w
  <1>9. w[0] = Unread /\ \A k \in Nat : w[k + 1] = MessageByte(frame, w[k], k + 1)
    BY <1>8
  <1>10. Nat \subseteq T
    <2>1. 0 \in T
      BY <1>9, ReadTypes
    <2>2. ASSUME NEW k \in Nat, w[k] \in Reads PROVE w[k + 1] \in Reads
      <3>1. MessageByte(frame, w[k], k + 1) \in Reads
        <4>1. k + 1 \in Nat
          OBVIOUS
        <4> HIDE DEF T
        <4> QED
          BY <2>2, <4>1, ReadTypes
      <3> QED
        BY <1>9, <3>1
    <2>3. \A k \in Nat : k \in T => k + 1 \in T
      BY <2>2
    <2> HIDE DEF T
    <2> QED
      BY <2>1, <2>3, Induction
  <1>11. w \in [Nat -> Reads]
    BY <1>7, <1>10 DEF w
  <1> QED
    BY <1>9, <1>11 DEF w

-----------------------------------------------------------------------------
(* Prefixes, byte by byte.                                                 *)
LEMMA PrefixBytes ==
  \A s, u \in Seq(Bytes) :
    IsPrefix(s, u) <=> Len(s) <= Len(u) /\ \A i \in 1..Len(s) : s[i] = u[i]
PROOF
  <1> SUFFICES ASSUME NEW s \in Seq(Bytes), NEW u \in Seq(Bytes)
               PROVE  IsPrefix(s, u) <=> Len(s) <= Len(u) /\ \A i \in 1..Len(s) : s[i] = u[i]
    OBVIOUS
  <1>1. SubSeq(s, 1, Len(s)) = s
    OBVIOUS
  <1>2. ASSUME Len(s) <= Len(u)
        PROVE  /\ Len(SubSeq(u, 1, Len(s))) = Len(s)
               /\ \A i \in 1..Len(s) : SubSeq(u, 1, Len(s))[i] = u[i]
               /\ SubSeq(u, 1, Len(s)) \in Seq(Bytes)
    BY <1>2
  <1>3. ASSUME Len(s) <= Len(u), \A i \in 1..Len(s) : s[i] = u[i]
        PROVE  SubSeq(u, 1, Len(s)) = s
    BY <1>2, <1>3, SeqEqual
  <1> QED
    BY <1>1, <1>2, <1>3 DEF IsPrefix

LEMMA Tails ==
  \A s \in Seq(Bytes) : \A i \in 1..(Len(s) + 3) :
    /\ From(s, i) \in Seq(Bytes)
    /\ Len(From(s, i)) = IF i <= Len(s) THEN Len(s) + 1 - i ELSE 0
    /\ \A j \in 1..Len(From(s, i)) : From(s, i)[j] = s[i + j - 1]
PROOF
  BY DEF From

LEMMA EncodedGrows ==
  \A t \in Bytes : \A body \in Seq(Bytes) : \A k \in 0..Len(body) :
    /\ Encoded(t, body)[k] \in Seq(Bytes)
    /\ 2 + k <= Len(Encoded(t, body)[k])
    /\ Encoded(t, body)[k][1] = Esc /\ Encoded(t, body)[k][2] = t
    /\ \A j \in 0..k : IsPrefix(Encoded(t, body)[j], Encoded(t, body)[k])
PROOF
  <1> SUFFICES ASSUME NEW t \in Bytes, NEW body \in Seq(Bytes)
               PROVE  \A k \in 0..Len(body) :
                        /\ Encoded(t, body)[k] \in Seq(Bytes)
                        /\ 2 + k <= Len(Encoded(t, body)[k])
                        /\ Encoded(t, body)[k][1] = Esc /\ Encoded(t, body)[k][2] = t
                        /\ \A j \in 0..k : IsPrefix(Encoded(t, body)[j], Encoded(t, body)[k])
    OBVIOUS
  <1> DEFINE e == Encoded(t, body)
             Good(k) == /\ e[k] \in Seq(Bytes)
                        /\ 2 + k <= Len(e[k])
                        /\ e[k][1] = Esc /\ e[k][2] = t
                        /\ \A j \in 0..k : IsPrefix(e[j], e[k])
             T == {k \in Nat : k \in 0..Len(body) => Good(k)}
  <1> HIDE DEF e
  <1>1. /\ e \in [0..Len(body) -> Seq(Bytes)]
        /\ e[0] = <<Esc, t>>
        /\ \A k \in 1..Len(body) : e[k] = e[k - 1] \o Doubled(body[k])
    BY EncodedDef DEF e
  <1>2. \A k \in 0..Len(body) : IsPrefix(e[k], e[k])
    BY <1>1, PrefixBytes
  <1>3. 0 \in T
    <2>1. e[0] \in Seq(Bytes) /\ Len(e[0]) = 2 /\ e[0][1] = Esc /\ e[0][2] = t
      BY <1>1, StartBytes
    <2>2. \A j \in 0..0 : j = 0
      OBVIOUS
    <2>3. IsPrefix(e[0], e[0])
      BY <1>2
    <2> QED
      BY <2>1, <2>2, <2>3
  <1>4. ASSUME NEW k \in Nat, k + 1 \in 0..Len(body), Good(k)
        PROVE  Good(k + 1)
    <2> DEFINE d == Doubled(body[k + 1])
               p == e[k]
               q == e[k + 1]
    <2>1. q = p \o d
      <3>1. k + 1 \in 1..Len(body) /\ (k + 1) - 1 = k
        BY <1>4
      <3> QED
        BY <1>1, <3>1
    <2>2. d \in Seq(Bytes) /\ Len(d) \in Nat /\ 1 <= Len(d)
      <3>1. body[k + 1] \in Bytes
        BY <1>4
      <3> QED
        BY <3>1, DoubledBytes
    <2>3. p \in Seq(Bytes) /\ 2 + k <= Len(p) /\ p[1] = Esc /\ p[2] = t
      BY <1>4
    <2>4. /\ q \in Seq(Bytes)
          /\ Len(q) = Len(p) + Len(d)
          /\ \A i \in 1..Len(p) : q[i] = p[i]
      <3> HIDE DEF d, p, q
      <3> QED
        BY <2>1, <2>2, <2>3
    <2>5. \A j \in 0..k : IsPrefix(e[j], p) /\ e[j] \in Seq(Bytes)
      BY <1>1, <1>4
    <2>6. IsPrefix(e[k + 1], q)
      BY <1>2, <1>4
    <2> HIDE DEF d, p, q
    <2>10. Len(p) \in Nat /\ Len(d) \in Nat /\ 1 <= Len(d) /\ 1 \in 1..Len(p) /\ 2 \in 1..Len(p)
      <3>1. Len(p) \in Nat /\ Len(d) \in Nat
        BY <2>2, <2>3
      <3>2. 2 <= Len(p)
        BY <2>3, <3>1
      <3> QED
        BY <2>2, <3>1, <3>2
    <2>7. ASSUME NEW j \in 0..k PROVE IsPrefix(e[j], q)
      <3>1. IsPrefix(e[j], p) /\ e[j] \in Seq(Bytes)
        BY <2>5
      <3>2. Len(e[j]) <= Len(p) /\ \A i \in 1..Len(e[j]) : e[j][i] = p[i]
        BY <2>3, <3>1, PrefixBytes
      <3>3. \A i \in 1..Len(e[j]) : i \in 1..Len(p)
        BY <2>10, <3>1, <3>2
      <3>4. Len(e[j]) <= Len(q) /\ \A i \in 1..Len(e[j]) : e[j][i] = q[i]
        BY <2>4, <2>10, <3>1, <3>2, <3>3
      <3> QED
        BY <2>4, <3>1, <3>4, PrefixBytes
    <2>8. \A j \in 0..(k + 1) : IsPrefix(e[j], q)
      <3>1. \A j \in 0..(k + 1) : j \in 0..k \/ j = k + 1
        OBVIOUS
      <3> QED
        BY <2>6, <2>7, <3>1
    <2>9. 2 + (k + 1) <= Len(q) /\ q[1] = Esc /\ q[2] = t
      BY <2>3, <2>4, <2>10
    <2> QED
      BY <2>4, <2>8, <2>9 DEF q
  <1>5. Nat \subseteq T
    <2>1. ASSUME NEW k \in Nat, k \in T PROVE k + 1 \in T
      <3>1. k + 1 \in 0..Len(body) => k \in 0..Len(body)
        OBVIOUS
      <3> HIDE DEF Good
      <3> QED
        BY <1>4, <2>1, <3>1
    <2> HIDE DEF T
    <2> QED
      BY <1>3, <2>1, Induction
  <1> QED
    BY <1>5 DEF e

LEMMA BodyBytes ==
  \A t \in Types : \A body \in Bodies(t) :
    t \in Bytes /\ BodyLen[t] \in Nat /\ BodyLen[t] > 0 /\ body \in Seq(Bytes) /\ Len(body) = BodyLen[t]
PROOF
  BY FramerAssumption DEF Bodies

(* What a frame is.                                                        *)
LEMMA FrameKinds ==
  ASSUME NEW f \in AllFrames
  PROVE  \E t \in Types :
           \/ t \in Types \ Raw /\ \E body \in Bodies(t) : f = Encode(t, body)
           \/ t \in Raw /\ \E body \in Bodies(t) : f = <<Esc, t>> \o body
PROOF
  <1>1. CASE f \in EscapedFrames
    <2>1. PICK t \in Types \ Raw : f \in {Encode(t, body) : body \in Bodies(t)}
      BY <1>1 DEF EscapedFrames
    <2>2. \E body \in Bodies(t) : f = Encode(t, body)
      BY <2>1
    <2> QED
      BY <2>2
  <1>2. CASE f \in RawFrames
    <2>1. PICK t \in Raw : f \in {<<Esc, t>> \o body : body \in Bodies(t)}
      BY <1>2 DEF RawFrames
    <2>2. \E body \in Bodies(t) : f = <<Esc, t>> \o body
      BY <2>1
    <2>3. t \in Types
      BY FramerAssumption
    <2> QED
      BY <2>2, <2>3
  <1> QED
    BY <1>1, <1>2 DEF AllFrames

LEMMA FrameShape ==
  \A f \in AllFrames :
    f \in Seq(Bytes) /\ 3 <= Len(f) /\ f[1] = Esc /\ f[2] \in Types
PROOF
  <1>1. ASSUME NEW t \in Types, NEW body \in Bodies(t)
        PROVE  /\ Encode(t, body) \in Seq(Bytes) /\ 3 <= Len(Encode(t, body))
               /\ Encode(t, body)[1] = Esc /\ Encode(t, body)[2] = t
    <2>1. t \in Bytes /\ body \in Seq(Bytes) /\ Len(body) \in 0..Len(body) /\ Len(body) > 0
      BY BodyBytes
    <2> DEFINE e == Encoded(t, body)[Len(body)]
    <2>2. e \in Seq(Bytes) /\ 2 + Len(body) <= Len(e) /\ e[1] = Esc /\ e[2] = t
      BY <2>1, EncodedGrows
    <2>3. Encode(t, body) = e
      BY DEF Encode
    <2> HIDE DEF e
    <2> QED
      BY <2>1, <2>2, <2>3
  <1>2. ASSUME NEW t \in Types, NEW body \in Bodies(t)
        PROVE  /\ <<Esc, t>> \o body \in Seq(Bytes) /\ 3 <= Len(<<Esc, t>> \o body)
               /\ (<<Esc, t>> \o body)[1] = Esc /\ (<<Esc, t>> \o body)[2] = t
    <2>1. <<Esc, t>> \in Seq(Bytes) /\ Len(<<Esc, t>>) = 2
      BY BodyBytes, StartBytes
    <2>2. body \in Seq(Bytes) /\ Len(body) > 0
      BY BodyBytes
    <2> QED
      BY <2>1, <2>2
  <1>3. ASSUME NEW f \in AllFrames
        PROVE  f \in Seq(Bytes) /\ 3 <= Len(f) /\ f[1] = Esc /\ f[2] \in Types
    <2>1. PICK t \in Types : \E body \in Bodies(t) : f = Encode(t, body) \/ f = <<Esc, t>> \o body
      BY FrameKinds
    <2>2. PICK body \in Bodies(t) : f = Encode(t, body) \/ f = <<Esc, t>> \o body
      BY <2>1
    <2>3. CASE f = Encode(t, body)
      BY <1>1, <2>3
    <2>4. CASE f = <<Esc, t>> \o body
      BY <1>2, <2>4
    <2> QED
      BY <2>2, <2>3, <2>4
  <1> QED
    BY <1>3

-----------------------------------------------------------------------------
(* The scan of a whole stream.                                             *)
Found(s, i) == CHOOSE f \in FramesAt(s, i) : TRUE
Starting(s, i) == i <= Len(s) /\ s[i] = Esc
Waiting(s, i) == Starting(s, i) /\ FramesAt(s, i) = {} /\ i < Len(s) /\ s[i + 1] \in Raw
Resume(s, i) ==
  IF ~Starting(s, i) THEN i + 1
  ELSE IF FramesAt(s, i) # {} THEN i + Len(Found(s, i)) ELSE i + 2

LEMMA FoundFits ==
  \A s \in Seq(Bytes) : \A i \in 1..Len(s) :
    FramesAt(s, i) # {} =>
      /\ Found(s, i) \in AllFrames /\ IsPrefix(Found(s, i), From(s, i))
      /\ 3 <= Len(Found(s, i)) /\ Len(Found(s, i)) \in Nat
      /\ i + Len(Found(s, i)) <= Len(s) + 1
PROOF
  <1> SUFFICES ASSUME NEW s \in Seq(Bytes), NEW i \in 1..Len(s), FramesAt(s, i) # {}
               PROVE  /\ Found(s, i) \in AllFrames /\ IsPrefix(Found(s, i), From(s, i))
                      /\ 3 <= Len(Found(s, i)) /\ Len(Found(s, i)) \in Nat
                      /\ i + Len(Found(s, i)) <= Len(s) + 1
    OBVIOUS
  <1> DEFINE f == Found(s, i)
             u == From(s, i)
  <1>1. f \in FramesAt(s, i)
    BY DEF Found
  <1>2. f \in AllFrames /\ IsPrefix(f, u)
    BY <1>1 DEF FramesAt
  <1>3. u \in Seq(Bytes) /\ Len(u) = Len(s) + 1 - i
    BY Tails
  <1> HIDE DEF f, u
  <1>4. f \in Seq(Bytes) /\ 3 <= Len(f) /\ Len(f) \in Nat
    BY <1>2, FrameShape
  <1>5. Len(f) <= Len(u)
    BY <1>2, <1>3, <1>4, PrefixBytes
  <1>6. i + Len(f) <= Len(s) + 1
    BY <1>3, <1>4, <1>5
  <1> QED
    BY <1>2, <1>4, <1>6 DEF f, u

LEMMA ResumeAhead ==
  \A s \in Seq(Bytes) : \A i \in 1..Len(s) :
    Resume(s, i) \in 1..(Len(s) + 2) /\ i < Resume(s, i)
PROOF
  <1> SUFFICES ASSUME NEW s \in Seq(Bytes), NEW i \in 1..Len(s)
               PROVE  Resume(s, i) \in 1..(Len(s) + 2) /\ i < Resume(s, i)
    OBVIOUS
  <1>1. CASE Starting(s, i) /\ FramesAt(s, i) # {}
    <2>1. Resume(s, i) = i + Len(Found(s, i))
      BY <1>1 DEF Resume
    <2>2. /\ 3 <= Len(Found(s, i)) /\ Len(Found(s, i)) \in Nat
          /\ i + Len(Found(s, i)) <= Len(s) + 1
      BY <1>1, FoundFits
    <2> QED
      BY <2>1, <2>2
  <1>2. CASE ~(Starting(s, i) /\ FramesAt(s, i) # {})
    BY <1>2 DEF Resume
  <1> QED
    BY <1>1, <1>2

LEMMA ScanDef ==
  \A s \in Seq(Bytes) :
    /\ Scan(s) \in [1..(Len(s) + 2) -> Seq(AllFrames)]
    /\ \A i \in 1..(Len(s) + 2) :
         Scan(s)[i] = IF i > Len(s) \/ Waiting(s, i) THEN <<>>
                      ELSE IF Starting(s, i) /\ FramesAt(s, i) # {}
                           THEN <<Found(s, i)>> \o Scan(s)[Resume(s, i)]
                      ELSE Scan(s)[Resume(s, i)]
PROOF
  <1> SUFFICES ASSUME NEW s \in Seq(Bytes)
               PROVE  /\ Scan(s) \in [1..(Len(s) + 2) -> Seq(AllFrames)]
                      /\ \A i \in 1..(Len(s) + 2) :
                           Scan(s)[i] = IF i > Len(s) \/ Waiting(s, i) THEN <<>>
                                        ELSE IF Starting(s, i) /\ FramesAt(s, i) # {}
                                             THEN <<Found(s, i)>> \o Scan(s)[Resume(s, i)]
                                        ELSE Scan(s)[Resume(s, i)]
    OBVIOUS
  <1> DEFINE D == 1..(Len(s) + 2)
             V == Seq(AllFrames)
             Stop == {i \in D : i > Len(s) \/ Waiting(s, i)}
             base == [i \in D |-> <<>>]
             pred == [i \in D |-> IF i \in Stop THEN i ELSE Resume(s, i)]
             rank == [i \in D |-> Len(s) + 2 - i]
             Takes(i) == i \notin Stop /\ Starting(s, i) /\ FramesAt(s, i) # {}
             step == [p \in D \X V |-> IF Takes(p[1]) THEN <<Found(s, p[1])>> \o p[2] ELSE p[2]]
             W(w) == w = [i \in D |->
                            IF i > Len(s) THEN <<>>
                            ELSE IF s[i] # Esc THEN w[i + 1]
                            ELSE IF FramesAt(s, i) # {}
                                 THEN LET f == CHOOSE f \in FramesAt(s, i) : TRUE
                                      IN <<f>> \o w[i + Len(f)]
                            ELSE IF i < Len(s) /\ s[i + 1] \in Raw THEN <<>>
                            ELSE w[i + 2]]
             By(w, i) == IF i \in Stop THEN <<>>
                         ELSE IF Takes(i) THEN <<Found(s, i)>> \o w[Resume(s, i)]
                         ELSE w[Resume(s, i)]
  <1>1. \A i \in D \ Stop : i \in 1..Len(s)
    OBVIOUS
  <1>2. \A i \in D \ Stop : Resume(s, i) \in D /\ i < Resume(s, i)
    BY <1>1, ResumeAhead
  <1>3. base \in [D -> V] /\ pred \in [D -> D] /\ rank \in [D -> Nat]
    <2>1. <<>> \in V
      OBVIOUS
    <2>2. pred \in [D -> D]
      BY <1>2
    <2>3. rank \in [D -> Nat]
      OBVIOUS
    <2> HIDE DEF V
    <2> QED
      BY <2>1, <2>2, <2>3
  <1>4. \A i \in D \ Stop : rank[pred[i]] < rank[i]
    BY <1>2
  <1>5. step \in [D \X V -> V]
    <2> SUFFICES ASSUME NEW i \in D, NEW v \in V
                 PROVE  (IF Takes(i) THEN <<Found(s, i)>> \o v ELSE v) \in V
      OBVIOUS
    <2>1. ASSUME Takes(i) PROVE Found(s, i) \in AllFrames
      BY <1>1, <2>1, FoundFits
    <2>2. ASSUME Takes(i) PROVE <<Found(s, i)>> \o v \in V
      BY <2>1, <2>2
    <2> QED
      BY <2>2
  <1>6. \A i \in D : \A v \in V : step[<<i, v>>] = IF Takes(i) THEN <<Found(s, i)>> \o v ELSE v
    OBVIOUS
  <1>7. \A i \in D : base[i] = <<>> /\ (i \notin Stop => pred[i] = Resume(s, i))
    OBVIOUS
  <1>8. ASSUME NEW w
        PROVE  W(w) <=> w = [i \in D |-> By(w, i)]
    <2> SUFFICES ASSUME NEW i \in D
                 PROVE  (IF i > Len(s) THEN <<>>
                         ELSE IF s[i] # Esc THEN w[i + 1]
                         ELSE IF FramesAt(s, i) # {}
                              THEN LET f == CHOOSE f \in FramesAt(s, i) : TRUE
                                   IN <<f>> \o w[i + Len(f)]
                         ELSE IF i < Len(s) /\ s[i + 1] \in Raw THEN <<>>
                         ELSE w[i + 2]) = By(w, i)
      OBVIOUS
    <2>1. CASE i > Len(s)
      BY <2>1
    <2>2. CASE i <= Len(s) /\ s[i] # Esc
      <3>1. ~Starting(s, i) /\ i \notin Stop /\ Resume(s, i) = i + 1
        BY <2>2 DEF Starting, Waiting, Resume
      <3> QED
        BY <2>2, <3>1
    <2>3. CASE i <= Len(s) /\ s[i] = Esc /\ FramesAt(s, i) # {}
      <3>1. Starting(s, i) /\ i \notin Stop /\ Resume(s, i) = i + Len(Found(s, i))
        BY <2>3 DEF Starting, Waiting, Resume
      <3>2. Takes(i)
        BY <2>3, <3>1
      <3> QED
        BY <2>3, <3>1, <3>2 DEF Found
    <2>4. CASE i <= Len(s) /\ s[i] = Esc /\ FramesAt(s, i) = {} /\ i < Len(s) /\ s[i + 1] \in Raw
      <3>1. i \in Stop
        BY <2>4 DEF Starting, Waiting
      <3> QED
        BY <2>4, <3>1
    <2>5. CASE i <= Len(s) /\ s[i] = Esc /\ FramesAt(s, i) = {} /\ ~(i < Len(s) /\ s[i + 1] \in Raw)
      <3>1. i \notin Stop /\ Resume(s, i) = i + 2 /\ ~Takes(i)
        BY <2>5 DEF Starting, Waiting, Resume
      <3> QED
        BY <2>5, <3>1
    <2>6. Len(s) \in Nat /\ i \in Nat
      OBVIOUS
    <2>7. i > Len(s) \/ i <= Len(s)
      BY <2>6
    <2> QED
      BY <2>1, <2>2, <2>3, <2>4, <2>5, <2>7, Zenon
  <1>9. \A i \in D : i > Len(s) \/ Waiting(s, i) <=> i \in Stop
    OBVIOUS
  <1>10. \A i \in D \ Stop : Takes(i) <=> Starting(s, i) /\ FramesAt(s, i) # {}
    OBVIOUS
  <1> HIDE DEF base, pred, rank, step, V, Takes, Stop, W, D
  <1>11. PICK f \in [D -> V] : Recurses(f, D, Stop, base, pred, step)
    BY <1>3, <1>4, <1>5, Recursion
  <1>12. W(f)
    <2>1. ASSUME NEW i \in D PROVE f[i] = By(f, i)
      <3>1. CASE i \in Stop
        BY <1>7, <1>11, <3>1 DEF Recurses
      <3>2. CASE i \notin Stop
        <4> DEFINE v == f[Resume(s, i)]
        <4>1. v \in V
          BY <1>2, <1>11, <3>2
        <4>2. f[i] = step[<<i, v>>]
          BY <1>7, <1>11, <3>2 DEF Recurses
        <4>3. step[<<i, v>>] = IF Takes(i) THEN <<Found(s, i)>> \o v ELSE v
          <5> HIDE DEF v
          <5> QED
            BY <1>6, <4>1
        <4> QED
          BY <3>2, <4>2, <4>3
      <3> QED
        BY <3>1, <3>2
    <2>2. f = [i \in D |-> By(f, i)]
      BY <1>11, <2>1
    <2> QED
      BY <1>8, <2>2
  <1>13. Scan(s) = CHOOSE w : W(w)
    BY DEF Scan, W, D
  <1>14. W(Scan(s))
    BY <1>12, <1>13
  <1> DEFINE w == Scan(s)
  <1> HIDE DEF w
  <1>15. w = [i \in D |-> By(w, i)]
    BY <1>8, <1>14 DEF w
  <1>16. \A i \in D : w[i] = By(w, i)
    BY <1>15
  <1> DEFINE T == {i \in D : w[i] \in V}
  <1>17. D \subseteq T
    <2>1. ASSUME NEW i \in D, \A j \in D : rank[j] < rank[i] => j \in T
          PROVE  i \in T
      <3>1. CASE i \in Stop
        BY <1>3, <1>7, <1>16, <3>1
      <3>2. CASE i \notin Stop
        <4>1. Resume(s, i) \in D /\ w[Resume(s, i)] \in V
          BY <1>2, <1>4, <1>7, <2>1, <3>2
        <4>2. w[i] = step[<<i, w[Resume(s, i)]>>]
          BY <1>6, <1>16, <3>2, <4>1
        <4> QED
          BY <1>5, <4>1, <4>2
      <3> QED
        BY <3>1, <3>2
    <2> HIDE DEF T
    <2> QED
      BY <1>3, <2>1, RankInduction
  <1>18. w \in [D -> V]
    BY <1>15, <1>17
  <1>19. \A i \in D : w[i] = IF i > Len(s) \/ Waiting(s, i) THEN <<>>
                             ELSE IF Starting(s, i) /\ FramesAt(s, i) # {}
                                  THEN <<Found(s, i)>> \o w[Resume(s, i)]
                             ELSE w[Resume(s, i)]
    BY <1>9, <1>10, <1>16
  <1> QED
    BY <1>18, <1>19 DEF w, D, V

(* What lies before a point does not matter to the scan from there on.     *)
LEMMA TailFrom ==
  \A s \in Seq(Bytes) : \A d \in 0..Len(s) :
    /\ From(s, d + 1) \in Seq(Bytes) /\ Len(From(s, d + 1)) = Len(s) - d
    /\ \A j \in 1..Len(From(s, d + 1)) : From(s, d + 1)[j] = s[(d + 1) + j - 1]
PROOF
  <1> SUFFICES ASSUME NEW s \in Seq(Bytes), NEW d \in 0..Len(s)
               PROVE  /\ From(s, d + 1) \in Seq(Bytes) /\ Len(From(s, d + 1)) = Len(s) - d
                      /\ \A j \in 1..Len(From(s, d + 1)) : From(s, d + 1)[j] = s[(d + 1) + j - 1]
    OBVIOUS
  <1> DEFINE i == d + 1
  <1>1. i \in 1..(Len(s) + 3)
    OBVIOUS
  <1>2. (IF i <= Len(s) THEN Len(s) + 1 - i ELSE 0) = Len(s) - d
    OBVIOUS
  <1> HIDE DEF i
  <1>3. /\ From(s, i) \in Seq(Bytes)
        /\ Len(From(s, i)) = IF i <= Len(s) THEN Len(s) + 1 - i ELSE 0
        /\ \A j \in 1..Len(From(s, i)) : From(s, i)[j] = s[i + j - 1]
    BY <1>1, Tails
  <1> QED
    BY <1>2, <1>3 DEF i

LEMMA TailOfTail ==
  \A s \in Seq(Bytes) : \A d \in 0..Len(s) : \A i \in 1..(Len(s) - d + 2) :
    From(From(s, d + 1), i) = From(s, d + i)
PROOF
  <1> SUFFICES ASSUME NEW s \in Seq(Bytes), NEW d \in 0..Len(s), NEW i \in 1..(Len(s) - d + 2)
               PROVE  From(From(s, d + 1), i) = From(s, d + i)
    OBVIOUS
  <1> DEFINE u == From(s, d + 1)
  <1>1. /\ u \in Seq(Bytes) /\ Len(u) = Len(s) - d
        /\ \A j \in 1..Len(u) : u[j] = s[(d + 1) + j - 1]
    BY TailFrom
  <1>2. i \in 1..(Len(u) + 3) /\ d + i \in 1..(Len(s) + 3)
    BY <1>1
  <1> HIDE DEF u
  <1>3. /\ From(u, i) \in Seq(Bytes)
        /\ Len(From(u, i)) = IF i <= Len(u) THEN Len(u) + 1 - i ELSE 0
        /\ \A j \in 1..Len(From(u, i)) : From(u, i)[j] = u[i + j - 1]
    BY <1>1, <1>2, Tails
  <1>4. /\ From(s, d + i) \in Seq(Bytes)
        /\ Len(From(s, d + i)) = IF d + i <= Len(s) THEN Len(s) + 1 - (d + i) ELSE 0
        /\ \A j \in 1..Len(From(s, d + i)) : From(s, d + i)[j] = s[(d + i) + j - 1]
    BY <1>2, Tails
  <1> DEFINE a == From(u, i)
             b == From(s, d + i)
  <1>5. Len(a) = Len(b)
    BY <1>1, <1>3, <1>4
  <1>6. ASSUME NEW j \in 1..Len(a) PROVE a[j] = b[j]
    <2>1. i + j - 1 \in 1..Len(u)
      BY <1>1, <1>3
    <2>2. a[j] = u[i + j - 1] /\ b[j] = s[(d + i) + j - 1]
      BY <1>3, <1>4, <1>5
    <2>3. u[i + j - 1] = s[(d + 1) + (i + j - 1) - 1]
      BY <1>1, <2>1
    <2>4. (d + 1) + (i + j - 1) - 1 = (d + i) + j - 1
      OBVIOUS
    <2> QED
      BY <2>2, <2>3, <2>4
  <1>7. a \in Seq(Bytes) /\ b \in Seq(Bytes)
    BY <1>3, <1>4
  <1> HIDE DEF a, b
  <1>8. a = b
    BY <1>5, <1>6, <1>7, SeqEqual
  <1> QED
    BY <1>8 DEF a, b, u

LEMMA ScanOfTail ==
  \A s \in Seq(Bytes) : \A d \in 0..Len(s) : \A i \in 1..(Len(s) - d + 2) :
    Scan(From(s, d + 1))[i] = Scan(s)[d + i]
PROOF
  <1> SUFFICES ASSUME NEW s \in Seq(Bytes), NEW d \in 0..Len(s)
               PROVE  \A i \in 1..(Len(s) - d + 2) : Scan(From(s, d + 1))[i] = Scan(s)[d + i]
    OBVIOUS
  <1> DEFINE u == From(s, d + 1)
             D == 1..(Len(s) - d + 2)
             rank == [i \in D |-> Len(s) - d + 2 - i]
             T == {i \in D : Scan(u)[i] = Scan(s)[d + i]}
  <1>1. /\ u \in Seq(Bytes) /\ Len(u) = Len(s) - d
        /\ \A j \in 1..Len(u) : u[j] = s[d + j]
    <2>2. /\ u \in Seq(Bytes) /\ Len(u) = Len(s) - d
          /\ \A j \in 1..Len(u) : u[j] = s[(d + 1) + j - 1]
      BY TailFrom
    <2>3. \A j \in 1..Len(u) : (d + 1) + j - 1 = d + j
      BY <2>2
    <2> QED
      BY <2>2, <2>3
  <1>2. \A i \in D : From(u, i) = From(s, d + i)
    BY TailOfTail
  <1> HIDE DEF u
  <1>3. ASSUME NEW i \in D
        PROVE  /\ Starting(u, i) <=> Starting(s, d + i)
               /\ FramesAt(u, i) = FramesAt(s, d + i)
               /\ Found(u, i) = Found(s, d + i)
               /\ Waiting(u, i) <=> Waiting(s, d + i)
               /\ i > Len(u) <=> d + i > Len(s)
    <2>1. i > Len(u) <=> d + i > Len(s)
      BY <1>1
    <2>2. FramesAt(u, i) = FramesAt(s, d + i)
      BY <1>2 DEF FramesAt
    <2>3. Found(u, i) = Found(s, d + i)
      BY <2>2 DEF Found
    <2>4. i <= Len(u) <=> d + i <= Len(s)
      BY <1>1
    <2>5. i < Len(u) <=> d + i < Len(s)
      BY <1>1
    <2>6. i <= Len(u) => u[i] = s[d + i]
      BY <1>1
    <2>7. i < Len(u) => u[i + 1] = s[(d + i) + 1]
      <3>1. ASSUME i < Len(u) PROVE i + 1 \in 1..Len(u) /\ d + (i + 1) = (d + i) + 1
        BY <1>1, <3>1
      <3> QED
        BY <1>1, <3>1
    <2>8. Starting(u, i) <=> Starting(s, d + i)
      BY <2>4, <2>6 DEF Starting
    <2>9. Waiting(u, i) <=> Waiting(s, d + i)
      BY <2>2, <2>5, <2>7, <2>8 DEF Waiting
    <2> QED
      BY <2>1, <2>2, <2>3, <2>8, <2>9
  <1>4. ASSUME NEW i \in D, i <= Len(u)
        PROVE  /\ Resume(s, d + i) = d + Resume(u, i)
               /\ Resume(u, i) \in D /\ i < Resume(u, i)
    <2>1. i \in 1..Len(u)
      BY <1>1, <1>4
    <2>2. Resume(u, i) \in D /\ i < Resume(u, i)
      BY <1>1, <2>1, ResumeAhead
    <2>3. CASE ~Starting(u, i)
      <3>1. Resume(u, i) = i + 1 /\ Resume(s, d + i) = (d + i) + 1
        BY <1>3, <2>3 DEF Resume
      <3> QED
        BY <2>2, <3>1
    <2>4. CASE Starting(u, i) /\ FramesAt(u, i) # {}
      <3>1. Resume(u, i) = i + Len(Found(u, i)) /\ Resume(s, d + i) = (d + i) + Len(Found(u, i))
        BY <1>3, <2>4 DEF Resume
      <3>2. Len(Found(u, i)) \in Nat
        BY <1>1, <2>1, <2>4, FoundFits
      <3> QED
        BY <2>2, <3>1, <3>2
    <2>5. CASE Starting(u, i) /\ FramesAt(u, i) = {}
      <3>1. Resume(u, i) = i + 2 /\ Resume(s, d + i) = (d + i) + 2
        BY <1>3, <2>5 DEF Resume
      <3> QED
        BY <2>2, <3>1
    <2> QED
      BY <2>3, <2>4, <2>5
  <1>5. rank \in [D -> Nat]
    OBVIOUS
  <1>6. D \subseteq T
    <2>1. ASSUME NEW i \in D, \A j \in D : rank[j] < rank[i] => j \in T
          PROVE  i \in T
      <3>1. d + i \in 1..(Len(s) + 2) /\ i \in 1..(Len(u) + 2)
        BY <1>1
      <3>2. Scan(u)[i] = IF i > Len(u) \/ Waiting(u, i) THEN <<>>
                         ELSE IF Starting(u, i) /\ FramesAt(u, i) # {}
                              THEN <<Found(u, i)>> \o Scan(u)[Resume(u, i)]
                         ELSE Scan(u)[Resume(u, i)]
        BY <1>1, <3>1, ScanDef
      <3>3. Scan(s)[d + i] = IF d + i > Len(s) \/ Waiting(s, d + i) THEN <<>>
                             ELSE IF Starting(s, d + i) /\ FramesAt(s, d + i) # {}
                                  THEN <<Found(s, d + i)>> \o Scan(s)[Resume(s, d + i)]
                             ELSE Scan(s)[Resume(s, d + i)]
        BY <3>1, ScanDef
      <3>4. CASE i > Len(u)
        BY <1>3, <3>2, <3>3, <3>4
      <3>5. CASE i <= Len(u)
        <4>1. Resume(s, d + i) = d + Resume(u, i) /\ Resume(u, i) \in D /\ i < Resume(u, i)
          BY <1>4, <3>5
        <4>2. rank[Resume(u, i)] < rank[i]
          BY <4>1
        <4>3. Scan(u)[Resume(u, i)] = Scan(s)[Resume(s, d + i)]
          BY <2>1, <4>1, <4>2
        <4> QED
          BY <1>3, <3>2, <3>3, <4>3
      <3> QED
        BY <1>1, <3>4, <3>5
    <2> HIDE DEF T, D, rank
    <2> QED
      BY <1>5, <2>1, RankInduction
  <1> QED
    BY <1>6 DEF u

LEMMA Joined ==
  \A p, d \in Seq(Bytes) :
    /\ p \o d \in Seq(Bytes) /\ Len(p) \in Nat /\ Len(d) \in Nat
    /\ Len(p \o d) = Len(p) + Len(d)
    /\ \A i \in 1..Len(p) : (p \o d)[i] = p[i]
    /\ \A i \in 1..Len(d) : (p \o d)[Len(p) + i] = d[i]
PROOF
  OBVIOUS

(* A body that is longer by a byte.                                        *)
LEMMA Grown ==
  \A body \in Seq(Bytes) : \A x \in Bytes :
    /\ Append(body, x) \in Seq(Bytes) /\ Len(Append(body, x)) = Len(body) + 1
    /\ Append(body, x)[Len(body) + 1] = x
    /\ \A i \in 1..Len(body) : Append(body, x)[i] = body[i]
PROOF
  OBVIOUS

LEMMA EncodedGrown ==
  ASSUME NEW t \in Bytes, NEW body \in Seq(Bytes), NEW x \in Bytes
  PROVE  \A k \in 0..Len(body) : Encoded(t, Append(body, x))[k] = Encoded(t, body)[k]
PROOF
  <1> DEFINE more == Append(body, x)
             e == Encoded(t, body)
             g == Encoded(t, more)
             T == {k \in Nat : k <= Len(body) => g[k] = e[k]}
  <1>1. /\ more \in Seq(Bytes) /\ Len(more) = Len(body) + 1
        /\ \A i \in 1..Len(body) : more[i] = body[i]
    BY Grown
  <1> HIDE DEF more
  <1>2. e[0] = <<Esc, t>> /\ \A k \in 1..Len(body) : e[k] = e[k - 1] \o Doubled(body[k])
    BY EncodedDef
  <1>3. g[0] = <<Esc, t>> /\ \A k \in 1..Len(more) : g[k] = g[k - 1] \o Doubled(more[k])
    BY <1>1, EncodedDef
  <1> HIDE DEF e, g
  <1>4. Len(body) \in Nat
    OBVIOUS
  <1>5. ASSUME NEW k \in Nat, k \in T PROVE k + 1 \in T
    <2> SUFFICES ASSUME k + 1 <= Len(body) PROVE g[k + 1] = e[k + 1]
      OBVIOUS
    <2>1. k + 1 \in 1..Len(body) /\ k + 1 \in 1..Len(more) /\ (k + 1) - 1 = k /\ k <= Len(body)
      BY <1>1, <1>4
    <2>2. e[k + 1] = e[k] \o Doubled(body[k + 1])
      BY <1>2, <2>1
    <2>3. g[k + 1] = g[k] \o Doubled(more[k + 1])
      BY <1>3, <2>1
    <2> QED
      BY <1>1, <1>5, <2>1, <2>2, <2>3
  <1>6. 0 \in T
    BY <1>2, <1>3
  <1>7. Nat \subseteq T
    <2> HIDE DEF T
    <2> QED
      BY <1>5, <1>6, Induction
  <1> QED
    BY <1>4, <1>7 DEF more, e, g

LEMMA EncodeGrown ==
  ASSUME NEW t \in Bytes, NEW body \in Seq(Bytes), NEW x \in Bytes
  PROVE  Encode(t, Append(body, x)) = Encode(t, body) \o Doubled(x)
PROOF
  <1> DEFINE more == Append(body, x)
             n == Len(body)
  <1>1. more \in Seq(Bytes) /\ Len(more) = n + 1 /\ more[n + 1] = x /\ n \in Nat
    BY Grown
  <1>2. Encoded(t, more)[n] = Encoded(t, body)[n]
    <2>1. n \in 0..Len(body)
      OBVIOUS
    <2> QED
      BY <2>1, EncodedGrown
  <1> HIDE DEF more
  <1>3. Encoded(t, more)[n + 1] = Encoded(t, more)[n] \o Doubled(x)
    <2>1. n + 1 \in 1..Len(more) /\ (n + 1) - 1 = n
      BY <1>1
    <2> HIDE DEF n
    <2>2. Encoded(t, more)[n + 1] = Encoded(t, more)[(n + 1) - 1] \o Doubled(more[n + 1])
      BY <1>1, <2>1, EncodedDef
    <2> QED
      BY <1>1, <2>1, <2>2
  <1>4. Encode(t, more) = Encoded(t, more)[n + 1] /\ Encode(t, body) = Encoded(t, body)[n]
    BY <1>1 DEF Encode
  <1> QED
    BY <1>2, <1>3, <1>4 DEF more

LEMMA EncodeNothing == \A t \in Bytes : Encode(t, <<>>) = <<Esc, t>>
PROOF
  <1>1. <<>> \in Seq(Bytes) /\ Len(<<>>) = 0
    OBVIOUS
  <1> QED
    BY <1>1, EncodedDef DEF Encode

LEMMA EncodeBytes ==
  \A t \in Bytes : \A body \in Seq(Bytes) :
    /\ Encode(t, body) \in Seq(Bytes) /\ 2 + Len(body) <= Len(Encode(t, body))
    /\ Encode(t, body)[1] = Esc /\ Encode(t, body)[2] = t
PROOF
  <1> SUFFICES ASSUME NEW t \in Bytes, NEW body \in Seq(Bytes)
               PROVE  /\ Encode(t, body) \in Seq(Bytes) /\ 2 + Len(body) <= Len(Encode(t, body))
                      /\ Encode(t, body)[1] = Esc /\ Encode(t, body)[2] = t
    OBVIOUS
  <1>1. Len(body) \in 0..Len(body)
    OBVIOUS
  <1> QED
    BY <1>1, EncodedGrows DEF Encode

(* Where the next byte of a body stands in a frame.                        *)
LEMMA EncodedNext ==
  ASSUME NEW t \in Bytes, NEW body \in Seq(Bytes), NEW k \in Nat, k < Len(body),
         NEW s \in Seq(Bytes), IsPrefix(Encode(t, body), s), NEW at, at = Len(Encoded(t, body)[k]) + 1
  PROVE  /\ at \in Nat /\ 3 <= at /\ at <= Len(s)
         /\ body[k + 1] # Esc => s[at] = body[k + 1] /\ Len(Encoded(t, body)[k + 1]) + 1 = at + 1
         /\ body[k + 1] = Esc => /\ at + 1 <= Len(s) /\ s[at] = Esc /\ s[at + 1] = Esc
                                 /\ Len(Encoded(t, body)[k + 1]) + 1 = at + 2
PROOF
  <1> DEFINE p == Encoded(t, body)[k]
             q == Encoded(t, body)[k + 1]
             d == Doubled(body[k + 1])
             e == Encode(t, body)
             x == body[k + 1]
  <1>1. k \in 0..Len(body) /\ k + 1 \in 0..Len(body) /\ k + 1 \in 1..Len(body) /\ (k + 1) - 1 = k
        /\ Len(body) \in 0..Len(body)
    OBVIOUS
  <1>2. x \in Bytes
    BY <1>1
  <1>3. q = p \o d
    BY <1>1, EncodedDef
  <1>4. p \in Seq(Bytes) /\ 2 + k <= Len(p) /\ q \in Seq(Bytes)
    BY <1>1, EncodedGrows
  <1>5. IsPrefix(q, e) /\ e \in Seq(Bytes)
    BY <1>1, EncodedGrows DEF Encode
  <1>6. d \in Seq(Bytes)
    BY <1>2, DoubledBytes
  <1>7. d = IF x = Esc THEN <<Esc, Esc>> ELSE <<x>>
    BY DEF Doubled
  <1> HIDE DEF p, q, d, e, x
  <1>8. Len(q) <= Len(e) /\ \A i \in 1..Len(q) : q[i] = e[i]
    BY <1>4, <1>5, PrefixBytes
  <1>9. Len(e) <= Len(s) /\ \A i \in 1..Len(e) : e[i] = s[i]
    BY <1>5, PrefixBytes DEF e
  <1>10. Len(q) \in Nat /\ Len(e) \in Nat /\ Len(s) \in Nat /\ Len(p) \in Nat
    BY <1>4, <1>5
  <1>11. Len(q) <= Len(s) /\ \A i \in 1..Len(q) : q[i] = s[i]
    <2>1. \A i \in 1..Len(q) : i \in 1..Len(e)
      BY <1>8, <1>10
    <2> QED
      BY <1>8, <1>9, <1>10, <2>1
  <1>12. at = Len(p) + 1
    BY DEF p
  <1>13. /\ Len(q) = Len(p) + Len(d) /\ Len(d) \in Nat
         /\ \A i \in 1..Len(d) : q[Len(p) + i] = d[i]
    BY <1>3, <1>4, <1>6, Joined
  <1>14. at \in Nat /\ 3 <= at
    BY <1>4, <1>10, <1>12
  <1>15. CASE x # Esc
    <2>1. Len(d) = 1 /\ d[1] = x
      BY <1>7, <1>15
    <2>2. q[Len(p) + 1] = x /\ Len(p) + 1 \in 1..Len(q) /\ Len(q) + 1 = at + 1
      BY <1>10, <1>12, <1>13, <2>1
    <2>3. s[at] = x /\ at <= Len(s)
      <3>1. at \in 1..Len(q) /\ q[at] = x
        BY <1>12, <2>2
      <3>2. s[at] = x
        BY <1>11, <3>1
      <3> QED
        BY <1>10, <1>11, <3>1, <3>2
    <2> QED
      BY <1>15, <1>14, <2>2, <2>3 DEF q, x
  <1>16. CASE x = Esc
    <2>1. Len(d) = 2 /\ d[1] = Esc /\ d[2] = Esc
      BY <1>7, <1>16
    <2>2. /\ q[Len(p) + 1] = Esc /\ Len(p) + 1 \in 1..Len(q) /\ Len(q) + 1 = at + 2
          /\ q[Len(p) + 2] = Esc /\ Len(p) + 2 \in 1..Len(q) /\ at + 1 = Len(p) + 2
      BY <1>10, <1>12, <1>13, <2>1
    <2>3. s[at] = Esc /\ s[at + 1] = Esc /\ at + 1 <= Len(s)
      BY <1>10, <1>11, <1>12, <2>2
    <2> QED
      BY <1>10, <1>16, <1>14, <2>2, <2>3 DEF q, x
  <1> QED
    BY <1>15, <1>16

(* What a turn of the walk makes of the next byte.                         *)
End(is, at) == [is |-> is, at |-> at]
LEMMA OnwardCases ==
  ASSUME NEW s \in Seq(Bytes), NEW at \in Nat \ {0}
  PROVE  /\ at > Len(s) => Onward(s, End("whole", at)) = End("more", at)
         /\ at = Len(s) /\ s[at] = Esc => Onward(s, End("whole", at)) = End("more", at)
         /\ at <= Len(s) /\ s[at] # Esc => Onward(s, End("whole", at)) = End("whole", at + 1)
         /\ at < Len(s) /\ s[at] = Esc =>
              IF s[at + 1] = Esc THEN Onward(s, End("whole", at)) = End("whole", at + 2)
              ELSE Onward(s, End("whole", at)) = End("cut", at)
PROOF
  <1>1. Onward(s, End("whole", at)) =
          IF at > Len(s) \/ (at = Len(s) /\ s[at] = Esc) THEN End("more", at)
          ELSE IF s[at] # Esc THEN End("whole", at + 1)
          ELSE IF s[at + 1] = Esc THEN End("whole", at + 2)
          ELSE End("cut", at)
    BY DEF Onward, End
  <1>2. Len(s) \in Nat
    OBVIOUS
  <1> QED
    BY <1>1, <1>2

LEMMA FirstEnd ==
  \A t \in Bytes : \A body \in Seq(Bytes) : Len(Encoded(t, body)[0]) + 1 = 3
PROOF
  <1> SUFFICES ASSUME NEW t \in Bytes, NEW body \in Seq(Bytes)
               PROVE  Len(Encoded(t, body)[0]) + 1 = 3
    OBVIOUS
  <1>1. Encoded(t, body)[0] = <<Esc, t>>
    BY EncodedDef
  <1>2. Len(<<Esc, t>>) = 2
    BY StartBytes
  <1> QED
    BY <1>1, <1>2

(* Where the walk and the readers are after k bytes of what was encoded.   *)
LEMMA EncodedWalk ==
  ASSUME NEW t \in Bytes, NEW body \in Seq(Bytes),
         NEW s \in Seq(Bytes), IsPrefix(Encode(t, body), s)
  PROVE  \A k \in 0..Len(body) :
           Walk(s)[k] = End("whole", Len(Encoded(t, body)[k]) + 1)
PROOF
  <1> DEFINE end(k) == End("whole", Len(Encoded(t, body)[k]) + 1)
             w == Walk(s)
             T == {k \in Nat : k <= Len(body) => w[k] = end(k)}
  <1>1. w[0] = [is |-> "whole", at |-> 3] /\ \A k \in Nat : w[k + 1] = Onward(s, w[k])
    BY WalkDef
  <1>2. end(0) = [is |-> "whole", at |-> 3]
    BY FirstEnd DEF End
  <1> HIDE DEF w
  <1>3. ASSUME NEW k \in Nat, k \in T PROVE k + 1 \in T
    <2> SUFFICES ASSUME k + 1 <= Len(body) PROVE w[k + 1] = end(k + 1)
      OBVIOUS
    <2> DEFINE at == Len(Encoded(t, body)[k]) + 1
               to == Len(Encoded(t, body)[k + 1]) + 1
    <2>1. k < Len(body) /\ k <= Len(body)
      OBVIOUS
    <2>2. /\ at \in Nat /\ 3 <= at /\ at <= Len(s)
          /\ body[k + 1] # Esc => s[at] = body[k + 1] /\ to = at + 1
          /\ body[k + 1] = Esc => at + 1 <= Len(s) /\ s[at] = Esc /\ s[at + 1] = Esc /\ to = at + 2
      BY <2>1, EncodedNext, SMTT(40)
    <2>3. w[k] = End("whole", at)
      BY <1>3, <2>1
    <2>4. end(k + 1) = End("whole", to)
      OBVIOUS
    <2> HIDE DEF at, to, end, T
    <2>5. w[k + 1] = Onward(s, End("whole", at))
      BY <1>1, <2>3
    <2>6. Len(s) \in Nat /\ at \in Nat \ {0}
      BY <2>2
    <2>7. CASE body[k + 1] # Esc
      <3>1. at <= Len(s) /\ s[at] # Esc
        BY <2>2, <2>7
      <3>2. Onward(s, End("whole", at)) = End("whole", at + 1)
        BY <2>6, <3>1, OnwardCases
      <3> QED
        BY <2>2, <2>4, <2>5, <2>7, <3>2
    <2>8. CASE body[k + 1] = Esc
      <3>1. at < Len(s) /\ s[at] = Esc /\ s[at + 1] = Esc
        BY <2>2, <2>6, <2>8
      <3>2. Onward(s, End("whole", at)) = End("whole", at + 2)
        BY <2>6, <3>1, OnwardCases
      <3> QED
        BY <2>2, <2>4, <2>5, <2>8, <3>2
    <2> QED
      BY <2>7, <2>8
  <1>4. Nat \subseteq T
    <2>1. 0 \in T
      BY <1>1, <1>2
    <2> HIDE DEF T
    <2> QED
      BY <1>3, <2>1, Induction
  <1> QED
    BY <1>4 DEF w

(* The first k bytes of a body, and those of them after the first n.       *)
LEMMA FirstBytes ==
  \A body \in Seq(Bytes) : \A k \in 0..Len(body) :
    /\ UpTo(body, k) \in Seq(Bytes) /\ Len(UpTo(body, k)) = k
    /\ \A i \in 1..k : UpTo(body, k)[i] = body[i]
PROOF
  BY DEF UpTo

LEMMA NextByte ==
  \A body \in Seq(Bytes) : \A k \in 0..(Len(body) - 1) :
    UpTo(body, k + 1) = Append(UpTo(body, k), body[k + 1])
PROOF
  <1> SUFFICES ASSUME NEW body \in Seq(Bytes), NEW k \in 0..(Len(body) - 1)
               PROVE  UpTo(body, k + 1) = Append(UpTo(body, k), body[k + 1])
    OBVIOUS
  <1> DEFINE p == UpTo(body, k)
             q == UpTo(body, k + 1)
             x == body[k + 1]
  <1>1. k \in 0..Len(body) /\ k + 1 \in 0..Len(body) /\ x \in Bytes
    OBVIOUS
  <1>2. p \in Seq(Bytes) /\ Len(p) = k /\ \A i \in 1..k : p[i] = body[i]
    BY <1>1, FirstBytes
  <1>3. q \in Seq(Bytes) /\ Len(q) = k + 1 /\ \A i \in 1..(k + 1) : q[i] = body[i]
    BY <1>1, FirstBytes
  <1> HIDE DEF p, q
  <1>4. /\ Append(p, x) \in Seq(Bytes) /\ Len(Append(p, x)) = k + 1
        /\ Append(p, x)[k + 1] = x /\ \A i \in 1..k : Append(p, x)[i] = p[i]
    BY <1>1, <1>2, Grown
  <1>5. \A i \in 1..(k + 1) : i \in 1..k \/ i = k + 1
    OBVIOUS
  <1>6. \A i \in 1..Len(q) : q[i] = Append(p, x)[i]
    BY <1>2, <1>3, <1>4, <1>5
  <1>7. q = Append(p, x)
    BY <1>3, <1>4, <1>6, SeqEqual
  <1> QED
    BY <1>7 DEF p, q

LEMMA EncodedIdRead ==
  ASSUME NEW t \in Bytes, NEW body \in Seq(Bytes),
         NEW s \in Seq(Bytes), IsPrefix(Encode(t, body), s)
  PROVE  \A k \in 0..Len(body) :
           IdRead(s)[k] = [at |-> Len(Encoded(t, body)[k]) + 1, got |-> UpTo(body, k)]
PROOF
  <1> DEFINE end(k) == [at |-> Len(Encoded(t, body)[k]) + 1, got |-> UpTo(body, k)]
             w == IdRead(s)
             T == {k \in Nat : k <= Len(body) => w[k] = end(k)}
  <1>1. w[0] = Unread /\ \A k \in Nat : w[k + 1] = IdByte(s, w[k])
    BY IdReadDef
  <1>2. end(0) = Unread
    <2>1. Len(Encoded(t, body)[0]) + 1 = 3
      BY FirstEnd
    <2>2. UpTo(body, 0) = <<>>
      BY DEF UpTo
    <2> QED
      BY <2>1, <2>2 DEF Unread
  <1> HIDE DEF w
  <1>3. ASSUME NEW k \in Nat, k \in T PROVE k + 1 \in T
    <2> SUFFICES ASSUME k + 1 <= Len(body) PROVE w[k + 1] = end(k + 1)
      OBVIOUS
    <2> DEFINE at == Len(Encoded(t, body)[k]) + 1
               to == Len(Encoded(t, body)[k + 1]) + 1
    <2>1. k < Len(body) /\ k <= Len(body) /\ k \in 0..(Len(body) - 1)
      OBVIOUS
    <2>2. /\ at \in Nat /\ 3 <= at /\ at <= Len(s)
          /\ body[k + 1] # Esc => s[at] = body[k + 1] /\ to = at + 1
          /\ body[k + 1] = Esc => at + 1 <= Len(s) /\ s[at] = Esc /\ s[at + 1] = Esc /\ to = at + 2
      BY <2>1, EncodedNext, SMTT(40)
    <2>3. UpTo(body, k + 1) = Append(UpTo(body, k), body[k + 1])
      BY <2>1, NextByte
    <2> DEFINE r == [at |-> at, got |-> UpTo(body, k)]
    <2>4. w[k] = r
      BY <1>3, <2>1
    <2>5. end(k + 1) = [at |-> to, got |-> Append(UpTo(body, k), body[k + 1])]
      BY <2>3
    <2> HIDE DEF at, to, end, T
    <2>6. w[k + 1] = IdByte(s, r)
      BY <1>1, <2>4
    <2>7. Len(s) \in Nat
      OBVIOUS
    <2>8. CASE body[k + 1] # Esc
      <3>1. IdByte(s, r) = [at |-> at + 1, got |-> Append(UpTo(body, k), s[at])]
        <4>1. ~(r.at > Len(s)) /\ s[r.at] # Esc
          BY <2>2, <2>7, <2>8
        <4> QED
          BY <4>1 DEF IdByte
      <3> QED
        BY <2>2, <2>5, <2>6, <2>8, <3>1
    <2>9. CASE body[k + 1] = Esc
      <3>1. IdByte(s, r) = [at |-> at + 2, got |-> Append(UpTo(body, k), s[at])]
        <4>1. ~(r.at > Len(s)) /\ s[r.at] = Esc
          BY <2>2, <2>7, <2>9
        <4> QED
          BY <4>1 DEF IdByte
      <3> QED
        BY <2>2, <2>5, <2>6, <2>9, <3>1
    <2> QED
      BY <2>8, <2>9
  <1>4. Nat \subseteq T
    <2>1. 0 \in T
      BY <1>1, <1>2
    <2> HIDE DEF T
    <2> QED
      BY <1>3, <2>1, Induction
  <1> QED
    BY <1>4 DEF w

LEMMA NextByteAfter ==
  \A body \in Seq(Bytes) : \A k \in 0..(Len(body) - 1) : \A m \in Nat :
    SubSeq(body, m + 1, k + 1) =
      IF k + 1 > m THEN Append(SubSeq(body, m + 1, k), body[k + 1]) ELSE SubSeq(body, m + 1, k)
PROOF
  <1> SUFFICES ASSUME NEW body \in Seq(Bytes), NEW k \in 0..(Len(body) - 1), NEW m \in Nat
               PROVE  SubSeq(body, m + 1, k + 1) =
                        IF k + 1 > m THEN Append(SubSeq(body, m + 1, k), body[k + 1])
                        ELSE SubSeq(body, m + 1, k)
    OBVIOUS
  <1> DEFINE p == SubSeq(body, m + 1, k)
             q == SubSeq(body, m + 1, k + 1)
             x == body[k + 1]
  <1>1. CASE k + 1 > m
    <2>1. p \in Seq(Bytes) /\ Len(p) = k - m /\ \A i \in 1..(k - m) : p[i] = body[m + i]
      BY <1>1
    <2>2. q \in Seq(Bytes) /\ Len(q) = k + 1 - m /\ \A i \in 1..(k + 1 - m) : q[i] = body[m + i]
      BY <1>1
    <2>3. x \in Bytes /\ k - m \in Nat
      BY <1>1
    <2> HIDE DEF p, q
    <2>4. /\ Append(p, x) \in Seq(Bytes) /\ Len(Append(p, x)) = (k - m) + 1
          /\ Append(p, x)[(k - m) + 1] = x /\ \A i \in 1..(k - m) : Append(p, x)[i] = p[i]
      BY <2>1, <2>3, Grown
    <2>5. ASSUME NEW i \in 1..Len(q) PROVE q[i] = Append(p, x)[i]
      <3>1. CASE i = (k - m) + 1
        <4>1. m + i = k + 1
          BY <3>1
        <4>2. q[i] = body[m + i]
          BY <2>2, <2>5
        <4>3. q[i] = x
          BY <4>1, <4>2
        <4> QED
          BY <2>4, <3>1, <4>3
      <3>2. CASE i \in 1..(k - m)
        BY <2>1, <2>2, <2>4, <3>2
      <3>3. i = (k - m) + 1 \/ i \in 1..(k - m)
        BY <2>2, <2>3
      <3> QED
        BY <3>1, <3>2, <3>3
    <2>6. Len(q) = Len(Append(p, x))
      BY <2>2, <2>3, <2>4
    <2>7. q = Append(p, x)
      BY <2>2, <2>4, <2>5, <2>6, SeqEqual
    <2> QED
      BY <1>1, <2>7 DEF p, q
  <1>2. CASE ~(k + 1 > m)
    <2>1. p = <<>> /\ q = <<>>
      BY <1>2
    <2> QED
      BY <1>2, <2>1
  <1> QED
    BY <1>1, <1>2

LEMMA EncodedMessageRead ==
  ASSUME NEW t \in Bytes, NEW body \in Seq(Bytes),
         NEW s \in Seq(Bytes), IsPrefix(Encode(t, body), s)
  PROVE  \A k \in 0..Len(body) :
           MessageRead(s)[k]
             = [at |-> Len(Encoded(t, body)[k]) + 1, got |-> SubSeq(body, Header + 1, k)]
PROOF
  <1> DEFINE end(k) == [at |-> Len(Encoded(t, body)[k]) + 1, got |-> SubSeq(body, Header + 1, k)]
             w == MessageRead(s)
             T == {k \in Nat : k <= Len(body) => w[k] = end(k)}
  <1>1. w[0] = Unread /\ \A k \in Nat : w[k + 1] = MessageByte(s, w[k], k + 1)
    BY MessageReadDef
  <1>2. end(0) = Unread
    <2>1. Len(Encoded(t, body)[0]) + 1 = 3
      BY FirstEnd
    <2>2. SubSeq(body, Header + 1, 0) = <<>>
      BY FramerAssumption
    <2> QED
      BY <2>1, <2>2 DEF Unread
  <1> HIDE DEF w
  <1>3. ASSUME NEW k \in Nat, k \in T PROVE k + 1 \in T
    <2> SUFFICES ASSUME k + 1 <= Len(body) PROVE w[k + 1] = end(k + 1)
      OBVIOUS
    <2> DEFINE at == Len(Encoded(t, body)[k]) + 1
               to == Len(Encoded(t, body)[k + 1]) + 1
               p == SubSeq(body, Header + 1, k)
               r == [at |-> at, got |-> p]
    <2>1. k < Len(body) /\ k <= Len(body) /\ k \in 0..(Len(body) - 1)
      OBVIOUS
    <2>2. /\ at \in Nat /\ 3 <= at /\ at <= Len(s)
          /\ body[k + 1] # Esc => s[at] = body[k + 1] /\ to = at + 1
          /\ body[k + 1] = Esc => at + 1 <= Len(s) /\ s[at] = Esc /\ s[at + 1] = Esc /\ to = at + 2
      BY <2>1, EncodedNext, SMTT(40)
    <2>3. SubSeq(body, Header + 1, k + 1) = IF k + 1 > Header THEN Append(p, body[k + 1]) ELSE p
      BY <2>1, FramerAssumption, NextByteAfter
    <2>4. w[k] = r
      BY <1>3, <2>1
    <2>5. end(k + 1) = [at |-> to, got |-> IF k + 1 > Header THEN Append(p, body[k + 1]) ELSE p]
      BY <2>3
    <2> HIDE DEF at, to, end, T, p
    <2>6. w[k + 1] = MessageByte(s, r, k + 1)
      BY <1>1, <2>4
    <2>7. Len(s) \in Nat
      OBVIOUS
    <2>8. CASE body[k + 1] # Esc
      <3>1. MessageByte(s, r, k + 1)
              = [at |-> at + 1, got |-> IF k + 1 > Header THEN Append(p, s[at]) ELSE p]
        <4>1. ~(at > Len(s)) /\ ~(r.at <= Len(s) /\ s[r.at] = Esc) /\ r.at = at /\ r.got = p
          BY <2>2, <2>7, <2>8
        <4> QED
          BY <4>1 DEF MessageByte
      <3> QED
        BY <2>2, <2>5, <2>6, <2>8, <3>1
    <2>9. CASE body[k + 1] = Esc
      <3>1. MessageByte(s, r, k + 1)
              = [at |-> (at + 1) + 1, got |-> IF k + 1 > Header THEN Append(p, s[at + 1]) ELSE p]
        <4>1. ~(at + 1 > Len(s)) /\ r.at <= Len(s) /\ s[r.at] = Esc /\ r.at = at /\ r.got = p
          BY <2>2, <2>7, <2>9
        <4> QED
          BY <4>1 DEF MessageByte
      <3>2. to = (at + 1) + 1
        BY <2>2, <2>9
      <3> QED
        BY <2>2, <2>5, <2>6, <2>9, <3>1, <3>2
    <2> QED
      BY <2>8, <2>9
  <1>4. Nat \subseteq T
    <2>1. 0 \in T
      BY <1>1, <1>2
    <2> HIDE DEF T
    <2> QED
      BY <1>3, <2>1, Induction
  <1> QED
    BY <1>4 DEF w

(* The readers undo the writer.                                            *)
LEMMA ReadersAgree ==
  ASSUME NEW t \in Types, NEW body \in Bodies(t)
  PROVE  /\ Unescaped(Encode(t, body)) = body
         /\ Payload(Encode(t, body)) = From(body, Header + 1)
PROOF
  <1> DEFINE f == Encode(t, body)
  <1>1. t \in Bytes /\ body \in Seq(Bytes) /\ Len(body) = BodyLen[t]
    BY BodyBytes
  <1>2. f \in Seq(Bytes) /\ f[2] = t
    BY <1>1, EncodeBytes
  <1>3. IsPrefix(Encode(t, body), f)
    BY <1>2, PrefixBytes
  <1> HIDE DEF f
  <1>4. Len(body) \in 0..Len(body)
    BY <1>1
  <1> DEFINE n == Len(body)
             at == Len(Encoded(t, body)[n]) + 1
             p == SubSeq(body, Header + 1, n)
  <1>5. IdRead(f)[n] = [at |-> at, got |-> UpTo(body, n)]
    BY <1>1, <1>2, <1>3, <1>4, EncodedIdRead
  <1>6. MessageRead(f)[n] = [at |-> at, got |-> p]
    BY <1>1, <1>2, <1>3, <1>4, EncodedMessageRead
  <1>7. UpTo(body, n) = body
    BY <1>1 DEF UpTo
  <1> HIDE DEF at
  <1>8. Unescaped(f) = IdRead(f)[n].got /\ Payload(f) = MessageRead(f)[n].got
    BY <1>1, <1>2 DEF Unescaped, Payload
  <1> HIDE DEF n, p
  <1>9. Unescaped(f) = body
    BY <1>5, <1>7, <1>8
  <1>10. Payload(f) = p
    BY <1>6, <1>8
  <1> QED
    BY <1>9, <1>10 DEF f, n, p, From

(* Where the walk may end.                                                 *)
Stopped(s, e) ==
  /\ e.is = "more" => e.at = Len(s) + 1 \/ (e.at = Len(s) /\ s[e.at] = Esc)
  /\ e.is = "cut" => e.at < Len(s) /\ s[e.at] = Esc /\ s[e.at + 1] # Esc
Sound(s, e) == e \in Ends /\ e.at \in 3..(Len(s) + 1) /\ Stopped(s, e)

LEMMA EndIs == \A e \in Ends : e = End(e.is, e.at)
PROOF
  BY DEF Ends, End

LEMMA EndParts ==
  \A at : /\ End("whole", at).is = "whole" /\ End("more", at).is = "more" /\ End("cut", at).is = "cut"
          /\ End("whole", at).at = at /\ End("more", at).at = at /\ End("cut", at).at = at
          /\ at \in Nat => /\ End("whole", at) \in Ends /\ End("more", at) \in Ends
                           /\ End("cut", at) \in Ends
PROOF
  BY DEF End, Ends

LEMMA OnwardStays == \A s, e : e.is # "whole" => Onward(s, e) = e
PROOF
  BY DEF Onward

LEMMA OnwardSound ==
  ASSUME NEW s \in Seq(Bytes), NEW e, Sound(s, e)
  PROVE  Sound(s, Onward(s, e))
PROOF
  <1>1. CASE e.is # "whole"
    BY <1>1, OnwardStays
  <1>2. CASE e.is = "whole"
    <2> DEFINE at == e.at
               o == Onward(s, End("whole", at))
    <2>1. e = End("whole", at)
      BY <1>2, EndIs DEF Sound
    <2>2. at \in Nat \ {0} /\ at \in 3..(Len(s) + 1) /\ Len(s) \in Nat
      BY DEF Sound
    <2> HIDE DEF at, o
    <2>3. CASE at > Len(s)
      <3>1. o = End("more", at) /\ at = Len(s) + 1
        BY <2>2, <2>3, OnwardCases DEF o
      <3> QED
        BY <2>1, <2>2, <3>1, EndParts DEF Sound, Stopped, o
    <2>4. CASE at = Len(s) /\ s[at] = Esc
      <3>1. o = End("more", at)
        BY <2>2, <2>4, OnwardCases DEF o
      <3> QED
        BY <2>1, <2>2, <2>4, <3>1, EndParts DEF Sound, Stopped, o
    <2>5. CASE at <= Len(s) /\ s[at] # Esc
      <3>1. o = End("whole", at + 1) /\ at + 1 \in 3..(Len(s) + 1) /\ at + 1 \in Nat
        BY <2>2, <2>5, OnwardCases DEF o
      <3> QED
        BY <2>1, <3>1, EndParts DEF Sound, Stopped, o
    <2>6. CASE at < Len(s) /\ s[at] = Esc /\ s[at + 1] = Esc
      <3>1. o = End("whole", at + 2) /\ at + 2 \in 3..(Len(s) + 1) /\ at + 2 \in Nat
        BY <2>2, <2>6, OnwardCases DEF o
      <3> QED
        BY <2>1, <3>1, EndParts DEF Sound, Stopped, o
    <2>7. CASE at < Len(s) /\ s[at] = Esc /\ s[at + 1] # Esc
      <3>1. o = End("cut", at)
        BY <2>2, <2>7, OnwardCases DEF o
      <3> QED
        BY <2>1, <2>2, <2>7, <3>1, EndParts DEF Sound, Stopped, o
    <2>8. at > Len(s) \/ at = Len(s) \/ at < Len(s)
      BY <2>2
    <2>9. at = Len(s) => at <= Len(s)
      BY <2>2
    <2>10. at < Len(s) => at <= Len(s)
      BY <2>2
    <2> QED
      BY <2>3, <2>4, <2>5, <2>6, <2>7, <2>8, <2>9, <2>10, Zenon
  <1> QED
    BY <1>1, <1>2

LEMMA WalkSound ==
  ASSUME NEW s \in Seq(Bytes), 2 <= Len(s)
  PROVE  \A k \in Nat : Sound(s, Walk(s)[k])
PROOF
  <1> DEFINE w == Walk(s)
             T == {k \in Nat : Sound(s, w[k])}
  <1>1. w[0] = End("whole", 3) /\ \A k \in Nat : w[k + 1] = Onward(s, w[k])
    BY WalkDef DEF End
  <1> HIDE DEF w
  <1>2. 0 \in T
    <2>1. 3 \in 3..(Len(s) + 1)
      OBVIOUS
    <2>2. Sound(s, End("whole", 3))
      BY <2>1, EndParts DEF Sound, Stopped
    <2> QED
      BY <1>1, <2>2
  <1>3. \A k \in Nat : k \in T => k + 1 \in T
    BY <1>1, OnwardSound
  <1>4. Nat \subseteq T
    <2> HIDE DEF T
    <2> QED
      BY <1>2, <1>3, Induction
  <1> QED
    BY <1>4 DEF w

(* A walk that has ended does not change, nor does it end anywhere else    *)
(* when more bytes come, unless it waits for them.                         *)
LEMMA OnwardLocal ==
  ASSUME NEW s \in Seq(Bytes), NEW z \in Seq(Bytes), NEW e \in Ends, e.at >= 3,
         Onward(s, e).is # "more"
  PROVE  Onward(s \o z, e) = Onward(s, e)
PROOF
  <1>1. CASE e.is # "whole"
    BY <1>1, OnwardStays
  <1>2. CASE e.is = "whole"
    <2> DEFINE at == e.at
               x == s \o z
    <2>1. e = End("whole", at) /\ at \in Nat \ {0}
      BY <1>2, EndIs DEF Ends
    <2>2. /\ x \in Seq(Bytes) /\ Len(s) \in Nat /\ Len(x) \in Nat /\ Len(s) <= Len(x)
          /\ \A i \in 1..Len(s) : x[i] = s[i]
      BY Joined
    <2> HIDE DEF at, x
    <2>3. at <= Len(s) /\ ~(at = Len(s) /\ s[at] = Esc)
      <3>1. Onward(s, End("whole", at)) # End("more", at)
        BY <2>1, EndParts
      <3>2. ~(at > Len(s)) /\ ~(at = Len(s) /\ s[at] = Esc)
        BY <2>1, <3>1, OnwardCases
      <3> QED
        BY <2>1, <2>2, <3>2
    <2>4. at <= Len(x) /\ x[at] = s[at]
      BY <2>1, <2>2, <2>3
    <2>5. CASE s[at] # Esc
      BY <2>1, <2>3, <2>4, <2>5, <2>2, OnwardCases DEF x
    <2>6. CASE s[at] = Esc
      <3>1. at < Len(s) /\ at < Len(x) /\ x[at + 1] = s[at + 1]
        BY <2>1, <2>2, <2>3, <2>6
      <3>2. CASE s[at + 1] = Esc
        <4>1. Onward(s, End("whole", at)) = End("whole", at + 2)
          BY <2>1, <2>6, <3>1, <3>2, OnwardCases
        <4>2. Onward(x, End("whole", at)) = End("whole", at + 2)
          BY <2>1, <2>2, <2>4, <2>6, <3>1, <3>2, OnwardCases
        <4> QED
          BY <2>1, <4>1, <4>2 DEF x
      <3>3. CASE s[at + 1] # Esc
        <4>1. Onward(s, End("whole", at)) = End("cut", at)
          BY <2>1, <2>6, <3>1, <3>3, OnwardCases
        <4>2. Onward(x, End("whole", at)) = End("cut", at)
          BY <2>1, <2>2, <2>4, <2>6, <3>1, <3>3, OnwardCases
        <4> QED
          BY <2>1, <4>1, <4>2 DEF x
      <3> QED
        BY <3>2, <3>3
    <2> QED
      BY <2>5, <2>6
  <1> QED
    BY <1>1, <1>2

LEMMA WalkLocal ==
  ASSUME NEW s \in Seq(Bytes), NEW z \in Seq(Bytes), 2 <= Len(s)
  PROVE  \A k \in Nat : Walk(s)[k].is # "more" => Walk(s \o z)[k] = Walk(s)[k]
PROOF
  <1> DEFINE w == Walk(s)
             v == Walk(s \o z)
             T == {k \in Nat : w[k].is # "more" => v[k] = w[k]}
  <1>1. w[0] = End("whole", 3) /\ \A k \in Nat : w[k + 1] = Onward(s, w[k])
    BY WalkDef DEF End
  <1>2. v[0] = End("whole", 3) /\ \A k \in Nat : v[k + 1] = Onward(s \o z, v[k])
    BY WalkDef DEF End
  <1>3. \A k \in Nat : w[k] \in Ends /\ w[k].at >= 3
    <2>1. \A k \in Nat : Sound(s, w[k])
      BY WalkSound
    <2> HIDE DEF w
    <2> QED
      BY <2>1 DEF Sound
  <1> HIDE DEF w, v
  <1>4. ASSUME NEW k \in Nat, k \in T PROVE k + 1 \in T
    <2> SUFFICES ASSUME w[k + 1].is # "more" PROVE v[k + 1] = w[k + 1]
      OBVIOUS
    <2>1. w[k].is # "more"
      BY <1>1, OnwardStays
    <2>2. v[k] = w[k]
      BY <1>4, <2>1
    <2>3. Onward(s, w[k]).is # "more"
      BY <1>1
    <2>4. Onward(s \o z, w[k]) = Onward(s, w[k])
      BY <1>3, <2>3, OnwardLocal
    <2> QED
      BY <1>1, <1>2, <2>2, <2>4
  <1>5. Nat \subseteq T
    <2>1. 0 \in T
      BY <1>1, <1>2
    <2> HIDE DEF T
    <2> QED
      BY <1>4, <2>1, Induction
  <1> QED
    BY <1>5 DEF w, v

(* What the walk has passed was encoded, and what it waits in the middle   *)
(* of is the start of something encoded.                                   *)
Passed(s, t, k, at) ==
  \E body \in Seq(Bytes) :
    /\ Len(body) = k /\ Len(Encode(t, body)) + 1 = at
    /\ \A i \in 1..Len(Encode(t, body)) : Encode(t, body)[i] = s[i]
Awaited(s, t, k) ==
  \E body \in Seq(Bytes) :
    /\ Len(body) = k /\ Len(s) < Len(Encode(t, body))
    /\ \A i \in 1..Len(s) : Encode(t, body)[i] = s[i]

LEMMA EncodeLonger ==
  ASSUME NEW t \in Bytes, NEW body \in Seq(Bytes), NEW x \in Bytes
  PROVE  LET e == Encode(t, body)
             g == Encode(t, Append(body, x))
         IN /\ e \in Seq(Bytes) /\ g \in Seq(Bytes)
            /\ Len(e) \in Nat /\ Len(g) \in Nat
            /\ \A i \in 1..Len(e) : g[i] = e[i]
            /\ x # Esc => Len(g) = Len(e) + 1 /\ g[Len(e) + 1] = x
            /\ x = Esc => Len(g) = Len(e) + 2 /\ g[Len(e) + 1] = Esc /\ g[Len(e) + 2] = Esc
PROOF
  <1> DEFINE e == Encode(t, body)
             g == Encode(t, Append(body, x))
             d == Doubled(x)
  <1>1. e \in Seq(Bytes) /\ d \in Seq(Bytes)
    BY EncodeBytes, DoubledBytes
  <1>2. g = e \o d
    BY EncodeGrown
  <1>3. d = IF x = Esc THEN <<Esc, Esc>> ELSE <<x>>
    BY DEF Doubled
  <1> HIDE DEF e, g, d
  <1>4. /\ g \in Seq(Bytes) /\ Len(e) \in Nat /\ Len(d) \in Nat /\ Len(g) = Len(e) + Len(d)
        /\ \A i \in 1..Len(e) : g[i] = e[i]
        /\ \A i \in 1..Len(d) : g[Len(e) + i] = d[i]
    BY <1>1, <1>2, Joined
  <1>5. ASSUME x # Esc PROVE Len(g) = Len(e) + 1 /\ g[Len(e) + 1] = x
    <2>1. Len(d) = 1 /\ d[1] = x
      BY <1>3, <1>5
    <2>2. 1 \in 1..Len(d)
      BY <2>1
    <2> QED
      BY <1>4, <2>1, <2>2
  <1>6. ASSUME x = Esc PROVE Len(g) = Len(e) + 2 /\ g[Len(e) + 1] = Esc /\ g[Len(e) + 2] = Esc
    <2>1. Len(d) = 2 /\ d[1] = Esc /\ d[2] = Esc
      BY <1>3, <1>6
    <2>2. 1 \in 1..Len(d) /\ 2 \in 1..Len(d)
      BY <2>1
    <2> QED
      BY <1>4, <2>1, <2>2
  <1>7. Len(g) \in Nat
    BY <1>4
  <1> QED
    BY <1>1, <1>4, <1>5, <1>6, <1>7 DEF e, g

LEMMA PassedOn ==
  ASSUME NEW s \in Seq(Bytes), NEW t \in Bytes, NEW k \in Nat, NEW at \in Nat, at >= 3,
         Passed(s, t, k, at)
  PROVE  /\ at <= Len(s) /\ s[at] # Esc => Passed(s, t, k + 1, at + 1)
         /\ at < Len(s) /\ s[at] = Esc /\ s[at + 1] = Esc => Passed(s, t, k + 1, at + 2)
         /\ at = Len(s) + 1 => Awaited(s, t, k + 1)
         /\ at = Len(s) /\ s[at] = Esc => Awaited(s, t, k + 1)
PROOF
  <1>1. PICK body \in Seq(Bytes) :
          /\ Len(body) = k /\ Len(Encode(t, body)) + 1 = at
          /\ \A i \in 1..Len(Encode(t, body)) : Encode(t, body)[i] = s[i]
    BY DEF Passed
  <1> DEFINE e == Encode(t, body)
             n == Len(e)
  <1>2. e \in Seq(Bytes) /\ n \in Nat /\ n + 1 = at /\ \A i \in 1..n : e[i] = s[i]
    BY <1>1, EncodeBytes
  <1>3. Len(s) \in Nat
    OBVIOUS
  <1> HIDE DEF e, n
  <1>4. CASE at <= Len(s) /\ s[at] # Esc
    <2> DEFINE x == s[at]
               more == Append(body, x)
               g == Encode(t, more)
    <2>1. x \in Bytes
      BY <1>4
    <2>2. more \in Seq(Bytes) /\ Len(more) = k + 1
      BY <1>1, <2>1, Grown
    <2>3. /\ Len(g) = n + 1 /\ g[n + 1] = x
          /\ \A i \in 1..n : g[i] = e[i]
      BY <1>4, <2>1, EncodeLonger DEF e, n
    <2> HIDE DEF more, g
    <2>4. ASSUME NEW i \in 1..Len(g) PROVE g[i] = s[i]
      <3>1. i \in 1..n \/ i = n + 1
        BY <1>2, <2>3
      <3> QED
        BY <1>2, <2>3, <3>1
    <2>5. Len(g) + 1 = at + 1
      BY <1>2, <2>3
    <2>6. Passed(s, t, k + 1, at + 1)
      BY <2>2, <2>4, <2>5 DEF Passed, g
    <2> QED
      BY <1>3, <1>4, <2>6
  <1>5. CASE at < Len(s) /\ s[at] = Esc /\ s[at + 1] = Esc
    <2> DEFINE more == Append(body, Esc)
               g == Encode(t, more)
    <2>1. Esc \in Bytes
      BY FramerAssumption
    <2>2. more \in Seq(Bytes) /\ Len(more) = k + 1
      BY <1>1, <2>1, Grown
    <2>3. /\ Len(g) = n + 2 /\ g[n + 1] = Esc /\ g[n + 2] = Esc
          /\ \A i \in 1..n : g[i] = e[i]
      BY <2>1, EncodeLonger DEF e, n
    <2> HIDE DEF more, g
    <2>4. ASSUME NEW i \in 1..Len(g) PROVE g[i] = s[i]
      <3>1. i \in 1..n \/ i = n + 1 \/ i = n + 2
        BY <1>2, <2>3
      <3>2. n + 1 = at /\ n + 2 = at + 1
        BY <1>2
      <3> QED
        BY <1>2, <1>5, <2>3, <3>1, <3>2
    <2>5. Len(g) + 1 = at + 2
      BY <1>2, <2>3
    <2>6. Passed(s, t, k + 1, at + 2)
      BY <2>2, <2>4, <2>5 DEF Passed, g
    <2> QED
      BY <1>3, <1>5, <2>6
  <1>6. CASE at = Len(s) + 1 \/ (at = Len(s) /\ s[at] = Esc)
    <2> DEFINE more == Append(body, Esc)
               g == Encode(t, more)
    <2>1. Esc \in Bytes
      BY FramerAssumption
    <2>2. more \in Seq(Bytes) /\ Len(more) = k + 1
      BY <1>1, <2>1, Grown
    <2>3. /\ Len(g) = n + 2 /\ g[n + 1] = Esc /\ g[n + 2] = Esc
          /\ \A i \in 1..n : g[i] = e[i]
      BY <2>1, EncodeLonger DEF e, n
    <2> HIDE DEF more, g
    <2>4. ASSUME NEW i \in 1..Len(s) PROVE g[i] = s[i]
      <3>1. CASE at = Len(s) + 1
        <4>1. i \in 1..n
          BY <1>2, <1>3, <3>1
        <4> QED
          BY <1>2, <2>3, <4>1
      <3>2. CASE at = Len(s) /\ s[at] = Esc
        <4>1. i \in 1..n \/ (i = n + 1 /\ i = at)
          BY <1>2, <1>3, <3>2
        <4> QED
          BY <1>2, <2>3, <3>2, <4>1
      <3> QED
        BY <1>6, <3>1, <3>2
    <2>5. Len(s) < Len(g)
      BY <1>2, <1>3, <1>6, <2>3
    <2>6. Awaited(s, t, k + 1)
      BY <2>2, <2>4, <2>5 DEF Awaited, g
    <2> QED
      BY <1>3, <1>6, <2>6
  <1> QED
    BY <1>3, <1>4, <1>5, <1>6

LEMMA AwaitedOn ==
  ASSUME NEW s \in Seq(Bytes), NEW t \in Bytes, NEW k \in Nat, Awaited(s, t, k)
  PROVE  Awaited(s, t, k + 1)
PROOF
  <1>1. PICK body \in Seq(Bytes) :
          /\ Len(body) = k /\ Len(s) < Len(Encode(t, body))
          /\ \A i \in 1..Len(s) : Encode(t, body)[i] = s[i]
    BY DEF Awaited
  <1> DEFINE e == Encode(t, body)
             more == Append(body, Esc)
             g == Encode(t, more)
  <1>2. Esc \in Bytes
    BY FramerAssumption
  <1>3. more \in Seq(Bytes) /\ Len(more) = k + 1
    BY <1>1, <1>2, Grown
  <1>4. /\ Len(g) = Len(e) + 2 /\ Len(e) \in Nat
        /\ \A i \in 1..Len(e) : g[i] = e[i]
    BY <1>2, EncodeLonger
  <1>5. Len(s) < Len(e) /\ \A i \in 1..Len(s) : e[i] = s[i]
    BY <1>1
  <1>6. Len(s) \in Nat
    OBVIOUS
  <1> HIDE DEF e, more, g
  <1>7. Len(s) < Len(g)
    BY <1>4, <1>5, <1>6
  <1>8. \A i \in 1..Len(s) : g[i] = s[i]
    BY <1>4, <1>5, <1>6
  <1> QED
    BY <1>3, <1>7, <1>8 DEF Awaited, g

LEMMA WalkPasses ==
  ASSUME NEW s \in Seq(Bytes), 2 <= Len(s), s[1] = Esc
  PROVE  \A k \in Nat :
           /\ Walk(s)[k].is = "whole" => Passed(s, s[2], k, Walk(s)[k].at)
           /\ Walk(s)[k].is = "more" => Awaited(s, s[2], k)
PROOF
  <1> DEFINE w == Walk(s)
             t == s[2]
             P(k) == /\ w[k].is = "whole" => Passed(s, t, k, w[k].at)
                     /\ w[k].is = "more" => Awaited(s, t, k)
             T == {k \in Nat : P(k)}
  <1>1. w[0] = End("whole", 3) /\ \A k \in Nat : w[k + 1] = Onward(s, w[k])
    BY WalkDef DEF End
  <1>2. \A k \in Nat : Sound(s, w[k])
    BY WalkSound
  <1>3. t \in Bytes /\ Len(s) \in Nat
    BY Joined
  <1> HIDE DEF w
  <1>4. 0 \in T
    <2> DEFINE none == <<>>
               e == Encode(t, none)
               q == <<Esc, t>>
    <2>1. none \in Seq(Bytes) /\ Len(none) = 0
      OBVIOUS
    <2>2. e = q
      BY <1>3, EncodeNothing
    <2>3. Len(q) = 2 /\ q[1] = Esc /\ q[2] = t
      BY <1>3, StartBytes
    <2>4. \A i \in 1..2 : i = 1 \/ i = 2
      OBVIOUS
    <2> HIDE DEF none, e, q
    <2>5. Len(e) + 1 = 3 /\ \A i \in 1..Len(e) : e[i] = s[i]
      BY <2>2, <2>3, <2>4
    <2>6. Passed(s, t, 0, 3)
      BY <2>1, <2>5 DEF Passed, e
    <2> QED
      BY <1>1, <2>6, EndParts
  <1>5. ASSUME NEW k \in Nat, P(k) PROVE P(k + 1)
    <2>1. CASE w[k].is = "cut"
      <3>1. w[k + 1] = w[k]
        BY <1>1, <2>1, OnwardStays
      <3> QED
        BY <2>1, <3>1
    <2>2. CASE w[k].is = "more"
      <3>1. w[k + 1] = w[k]
        BY <1>1, <2>2, OnwardStays
      <3>2. Awaited(s, t, k + 1)
        BY <1>3, <1>5, <2>2, AwaitedOn
      <3> QED
        BY <2>2, <3>1, <3>2
    <2>3. CASE w[k].is = "whole"
      <3> DEFINE at == w[k].at
      <3>1. w[k] = End("whole", at) /\ at \in Nat \ {0} /\ at \in 3..(Len(s) + 1)
        BY <1>2, <2>3, EndIs DEF Sound, Ends
      <3> HIDE DEF at
      <3>2. Passed(s, t, k, at)
        BY <1>5, <2>3 DEF at
      <3>3. /\ at <= Len(s) /\ s[at] # Esc => Passed(s, t, k + 1, at + 1)
            /\ at < Len(s) /\ s[at] = Esc /\ s[at + 1] = Esc => Passed(s, t, k + 1, at + 2)
            /\ at = Len(s) + 1 => Awaited(s, t, k + 1)
            /\ at = Len(s) /\ s[at] = Esc => Awaited(s, t, k + 1)
        BY <1>3, <3>1, <3>2, PassedOn
      <3>4. w[k + 1] = Onward(s, End("whole", at))
        BY <1>1, <3>1
      <3>5. CASE at > Len(s)
        <4>1. w[k + 1] = End("more", at) /\ at = Len(s) + 1
          BY <1>3, <3>1, <3>4, <3>5, OnwardCases
        <4> QED
          BY <3>3, <4>1, EndParts
      <3>6. CASE at = Len(s) /\ s[at] = Esc
        <4>1. w[k + 1] = End("more", at)
          BY <3>1, <3>4, <3>6, OnwardCases
        <4> QED
          BY <3>3, <3>6, <4>1, EndParts
      <3>7. CASE at <= Len(s) /\ s[at] # Esc
        <4>1. w[k + 1] = End("whole", at + 1)
          BY <3>1, <3>4, <3>7, OnwardCases
        <4> QED
          BY <3>3, <3>7, <4>1, EndParts
      <3>8. CASE at < Len(s) /\ s[at] = Esc /\ s[at + 1] = Esc
        <4>1. w[k + 1] = End("whole", at + 2)
          BY <3>1, <3>4, <3>8, OnwardCases
        <4> QED
          BY <3>3, <3>8, <4>1, EndParts
      <3>9. CASE at < Len(s) /\ s[at] = Esc /\ s[at + 1] # Esc
        <4>1. w[k + 1] = End("cut", at)
          BY <3>1, <3>4, <3>9, OnwardCases
        <4> QED
          BY <4>1, EndParts
      <3>10. at > Len(s) \/ at = Len(s) \/ at < Len(s)
        BY <1>3, <3>1
      <3>11. (at = Len(s) => at <= Len(s)) /\ (at < Len(s) => at <= Len(s))
        BY <1>3, <3>1
      <3> QED
        BY <3>5, <3>6, <3>7, <3>8, <3>9, <3>10, <3>11, Zenon
    <2>4. w[k].is \in {"whole", "more", "cut"}
      BY <1>2 DEF Sound, Ends
    <2> QED
      BY <2>1, <2>2, <2>3, <2>4
  <1>6. Nat \subseteq T
    <2> HIDE DEF P
    <2>1. \A k \in Nat : k \in T => k + 1 \in T
      BY <1>5
    <2> HIDE DEF T
    <2> QED
      BY <1>4, <2>1, Induction
  <1> QED
    BY <1>6 DEF w

-----------------------------------------------------------------------------
(* What next_frame finds at an escape and a type is what the reference     *)
(* finds: the one whole frame that starts there, or none.                  *)
LEMMA EscapedFound ==
  ASSUME NEW s \in Seq(Bytes), 2 <= Len(s), s[1] = Esc, s[2] \in Types \ Raw,
         FrameEnd(s).is = "whole"
  PROVE  /\ UpTo(s, FrameEnd(s).at - 1) \in AllFrames
         /\ FrameEnd(s).at - 1 \in 1..Len(s)
PROOF
  <1> DEFINE t == s[2]
             n == BodyLen[t]
             at == Walk(s)[n].at
             f == UpTo(s, at - 1)
  <1>1. n \in Nat /\ t \in Types \ Raw /\ t \in Bytes
    BY FramerAssumption
  <1>2. FrameEnd(s) = Walk(s)[n]
    BY <1>1 DEF FrameEnd, BodyEnd
  <1>3. Sound(s, Walk(s)[n])
    BY <1>1, WalkSound
  <1>4. at - 1 \in 1..Len(s) /\ at \in Nat
    BY <1>3 DEF Sound
  <1>5. Passed(s, t, n, at)
    BY <1>1, <1>2, WalkPasses
  <1> HIDE DEF at
  <1>6. PICK body \in Seq(Bytes) :
          /\ Len(body) = n /\ Len(Encode(t, body)) + 1 = at
          /\ \A i \in 1..Len(Encode(t, body)) : Encode(t, body)[i] = s[i]
    BY <1>5 DEF Passed
  <1>7. body \in Bodies(t)
    BY <1>6 DEF Bodies
  <1> HIDE DEF n, t
  <1>8. f = Encode(t, body)
    <2> DEFINE e == Encode(t, body)
    <2>1. e \in Seq(Bytes)
      BY <1>1, EncodeBytes
    <2>2. Len(e) + 1 = at /\ \A i \in 1..Len(e) : e[i] = s[i]
      BY <1>6
    <2> HIDE DEF e
    <2>3. Len(e) = at - 1 /\ at - 1 \in 0..Len(s)
      BY <1>4, <2>1, <2>2
    <2>4. f \in Seq(Bytes) /\ Len(f) = at - 1 /\ \A i \in 1..(at - 1) : f[i] = s[i]
      BY <2>3, FirstBytes
    <2> HIDE DEF f
    <2> QED
      BY <2>1, <2>2, <2>3, <2>4, SeqEqual DEF e
  <1>9. f \in AllFrames
    BY <1>1, <1>7, <1>8 DEF AllFrames, EscapedFrames
  <1>10. FrameEnd(s).at = at
    BY <1>2 DEF at
  <1> QED
    BY <1>4, <1>9, <1>10

LEMMA AfterType ==
  \A s \in Seq(Bytes) : \A n \in Nat : 2 + n <= Len(s) =>
    /\ SubSeq(s, 3, 2 + n) \in Seq(Bytes) /\ Len(SubSeq(s, 3, 2 + n)) = n
    /\ \A i \in 1..n : SubSeq(s, 3, 2 + n)[i] = s[2 + i]
PROOF
  OBVIOUS

LEMMA AsIsBytes ==
  ASSUME NEW t \in Bytes, NEW body \in Seq(Bytes)
  PROVE  /\ <<Esc, t>> \o body \in Seq(Bytes) /\ Len(<<Esc, t>> \o body) = 2 + Len(body)
         /\ (<<Esc, t>> \o body)[1] = Esc /\ (<<Esc, t>> \o body)[2] = t
         /\ \A i \in 1..Len(body) : (<<Esc, t>> \o body)[2 + i] = body[i]
PROOF
  <1> DEFINE q == <<Esc, t>>
  <1>1. q \in Seq(Bytes) /\ Len(q) = 2 /\ q[1] = Esc /\ q[2] = t
    BY StartBytes
  <1> HIDE DEF q
  <1>2. /\ q \o body \in Seq(Bytes)
        /\ Len(q \o body) = Len(q) + Len(body)
        /\ \A i \in 1..Len(q) : (q \o body)[i] = q[i]
        /\ \A i \in 1..Len(body) : (q \o body)[Len(q) + i] = body[i]
    BY <1>1, Joined
  <1>3. 1 \in 1..Len(q) /\ 2 \in 1..Len(q)
    BY <1>1
  <1>4. (q \o body)[1] = Esc /\ (q \o body)[2] = t
    BY <1>1, <1>2, <1>3
  <1> QED
    BY <1>1, <1>2, <1>4 DEF q

LEMMA RawFound ==
  ASSUME NEW s \in Seq(Bytes), 2 <= Len(s), s[1] = Esc, s[2] \in Raw,
         FrameEnd(s).is = "whole"
  PROVE  /\ UpTo(s, FrameEnd(s).at - 1) \in AllFrames
         /\ FrameEnd(s).at - 1 \in 1..Len(s)
PROOF
  <1> DEFINE t == s[2]
             n == BodyLen[t]
             f == UpTo(s, 2 + n)
             body == SubSeq(s, 3, 2 + n)
  <1>1. n \in Nat /\ t \in Raw /\ t \in Types /\ t \in Bytes
    BY FramerAssumption
  <1>2. FrameEnd(s) = [is |-> IF Len(s) < 2 + n THEN "more" ELSE "whole", at |-> 3 + n]
    BY <1>1 DEF FrameEnd, RawEnd
  <1>3. Len(s) \in Nat
    OBVIOUS
  <1>4. 2 + n <= Len(s)
    BY <1>1, <1>2, <1>3
  <1>5. FrameEnd(s).at - 1 = 2 + n
    BY <1>1, <1>2
  <1> HIDE DEF n, t
  <1>6. 2 + n \in 0..Len(s) /\ 2 + n \in 1..Len(s)
    BY <1>1, <1>3, <1>4
  <1>7. f \in Seq(Bytes) /\ Len(f) = 2 + n /\ \A i \in 1..(2 + n) : f[i] = s[i]
    BY <1>6, FirstBytes
  <1>8. body \in Seq(Bytes) /\ Len(body) = n /\ \A i \in 1..n : body[i] = s[2 + i]
    BY <1>1, <1>4, AfterType
  <1>9. body \in Bodies(t)
    <2> HIDE DEF body
    <2>1. body \in [1..n -> Bytes]
      BY <1>8
    <2> QED
      BY <2>1 DEF Bodies, n
  <1>10. s[1] = Esc /\ s[2] = t
    BY DEF t
  <1>11. f = <<Esc, t>> \o body
    <2> DEFINE g == <<Esc, t>> \o body
    <2>1. /\ g \in Seq(Bytes) /\ Len(g) = 2 + n /\ g[1] = Esc /\ g[2] = t
          /\ \A i \in 1..n : g[2 + i] = body[i]
      BY <1>1, <1>8, AsIsBytes
    <2> HIDE DEF g, body, f
    <2>2. ASSUME NEW i \in 1..(2 + n) PROVE f[i] = g[i]
      <3>1. CASE i = 1 \/ i = 2
        BY <1>7, <1>10, <2>1, <2>2, <3>1
      <3>2. CASE i > 2
        <4> DEFINE j == i - 2
        <4>1. j \in 1..n /\ 2 + j = i
          BY <1>1, <2>2, <3>2
        <4> HIDE DEF j
        <4>2. g[2 + j] = body[j] /\ body[j] = s[2 + j]
          BY <1>8, <2>1, <4>1
        <4>3. g[i] = s[i]
          BY <4>1, <4>2
        <4> QED
          BY <1>7, <2>2, <4>3
      <3> QED
        BY <2>2, <3>1, <3>2
    <2>3. f = g
      BY <1>7, <2>1, <2>2, SeqEqual
    <2> QED
      BY <2>3 DEF g
  <1>12. f \in AllFrames
    <2> HIDE DEF f, body
    <2>1. <<Esc, t>> \o body \in RawFrames
      BY <1>1, <1>9 DEF RawFrames
    <2> QED
      BY <1>11, <2>1 DEF AllFrames
  <1> DEFINE m == FrameEnd(s).at - 1
  <1>13. m = 2 + n
    BY <1>5
  <1> HIDE DEF m
  <1>14. UpTo(s, m) \in AllFrames /\ m \in 1..Len(s)
    BY <1>6, <1>12, <1>13
  <1> QED
    BY <1>14 DEF m

LEMMA FrameEnds ==
  ASSUME NEW s \in Seq(Bytes), NEW f \in AllFrames, IsPrefix(f, s)
  PROVE  /\ 2 <= Len(s) /\ s[1] = Esc /\ s[2] \in Types /\ s[2] = f[2]
         /\ FrameEnd(s).is = "whole" /\ FrameEnd(s).at = Len(f) + 1
         /\ f = UpTo(s, Len(f))
PROOF
  <1>1. f \in Seq(Bytes) /\ 3 <= Len(f) /\ f[1] = Esc /\ f[2] \in Types
    BY FrameShape
  <1>2. Len(f) \in Nat /\ Len(s) \in Nat
    BY <1>1
  <1>3. Len(f) <= Len(s) /\ \A i \in 1..Len(f) : f[i] = s[i]
    BY <1>1, PrefixBytes
  <1>4. 2 <= Len(s) /\ s[1] = Esc /\ s[2] = f[2]
    BY <1>1, <1>2, <1>3
  <1>5. f = UpTo(s, Len(f))
    <2> DEFINE g == UpTo(s, Len(f))
    <2>1. Len(f) \in 0..Len(s)
      BY <1>2, <1>3
    <2>2. g \in Seq(Bytes) /\ Len(g) = Len(f) /\ \A i \in 1..Len(f) : g[i] = s[i]
      BY <2>1, FirstBytes
    <2> HIDE DEF g
    <2>3. f = g
      BY <1>1, <1>3, <2>2, SeqEqual
    <2> QED
      BY <2>3 DEF g
  <1>6. FrameEnd(s).is = "whole" /\ FrameEnd(s).at = Len(f) + 1
    <2>1. PICK t \in Types : \/ t \in Types \ Raw /\ \E body \in Bodies(t) : f = Encode(t, body)
                             \/ t \in Raw /\ \E body \in Bodies(t) : f = <<Esc, t>> \o body
      BY FrameKinds
    <2>2. CASE t \in Types \ Raw /\ \E body \in Bodies(t) : f = Encode(t, body)
      <3>1. PICK body \in Bodies(t) : f = Encode(t, body)
        BY <2>2
      <3>2. t \in Bytes /\ body \in Seq(Bytes) /\ Len(body) = BodyLen[t]
        BY BodyBytes
      <3>3. s[2] = t
        BY <1>4, <3>1, <3>2, EncodeBytes
      <3>4. Len(body) \in 0..Len(body)
        BY <3>2
      <3>5. Walk(s)[Len(body)] = End("whole", Len(Encoded(t, body)[Len(body)]) + 1)
        BY <3>1, <3>2, <3>4, EncodedWalk
      <3>6. FrameEnd(s) = Walk(s)[Len(body)]
        BY <2>2, <3>2, <3>3 DEF FrameEnd, BodyEnd
      <3>7. f = Encoded(t, body)[Len(body)]
        BY <3>1 DEF Encode
      <3> QED
        BY <3>5, <3>6, <3>7, EndParts
    <2>3. CASE t \in Raw /\ \E body \in Bodies(t) : f = <<Esc, t>> \o body
      <3>1. PICK body \in Bodies(t) : f = <<Esc, t>> \o body
        BY <2>3
      <3>2. t \in Bytes /\ body \in Seq(Bytes) /\ Len(body) = BodyLen[t] /\ BodyLen[t] \in Nat
        BY BodyBytes
      <3> DEFINE n == BodyLen[t]
      <3>5. Len(f) = 2 + n /\ f[2] = t
        BY <3>1, <3>2, AsIsBytes
      <3> HIDE DEF n
      <3>6. FrameEnd(s) = [is |-> IF Len(s) < 2 + n THEN "more" ELSE "whole", at |-> 3 + n]
        BY <1>4, <2>3, <3>5 DEF FrameEnd, RawEnd, n
      <3>7. ~(Len(s) < 2 + n) /\ n \in Nat
        BY <1>2, <1>3, <3>2, <3>5 DEF n
      <3>8. FrameEnd(s) = [is |-> "whole", at |-> 3 + n]
        BY <3>6, <3>7
      <3> QED
        BY <3>5, <3>7, <3>8
    <2> QED
      BY <2>1, <2>2, <2>3
  <1> QED
    BY <1>1, <1>4, <1>5, <1>6

LEMMA FramesAtStart ==
  ASSUME NEW s \in Seq(Bytes), 2 <= Len(s), s[1] = Esc, s[2] \in Types
  PROVE  FramesAt(s, 1) = IF FrameEnd(s).is = "whole" THEN {UpTo(s, FrameEnd(s).at - 1)} ELSE {}
PROOF
  <1>1. From(s, 1) = s
    BY DEF From
  <1>2. \A f : f \in FramesAt(s, 1) <=> f \in AllFrames /\ IsPrefix(f, s)
    BY <1>1 DEF FramesAt
  <1>3. ASSUME NEW f \in FramesAt(s, 1)
        PROVE  FrameEnd(s).is = "whole" /\ f = UpTo(s, FrameEnd(s).at - 1)
    <2>1. f \in AllFrames /\ IsPrefix(f, s) /\ f \in Seq(Bytes)
      BY <1>2, FrameShape
    <2>2. FrameEnd(s).is = "whole" /\ FrameEnd(s).at = Len(f) + 1 /\ f = UpTo(s, Len(f))
      BY <2>1, FrameEnds
    <2>3. FrameEnd(s).at - 1 = Len(f)
      BY <2>1, <2>2
    <2> QED
      BY <2>2, <2>3
  <1>4. ASSUME FrameEnd(s).is = "whole"
        PROVE  UpTo(s, FrameEnd(s).at - 1) \in FramesAt(s, 1)
    <2> DEFINE n == FrameEnd(s).at - 1
    <2>1. UpTo(s, n) \in AllFrames /\ n \in 1..Len(s)
      BY <1>4, EscapedFound, RawFound
    <2> HIDE DEF n
    <2>2. n \in 0..Len(s)
      BY <2>1
    <2>3. UpTo(s, n) \in Seq(Bytes) /\ Len(UpTo(s, n)) = n /\ \A i \in 1..n : UpTo(s, n)[i] = s[i]
      BY <2>2, FirstBytes
    <2>4. IsPrefix(UpTo(s, n), s)
      BY <2>2, <2>3, PrefixBytes
    <2> QED
      BY <1>2, <2>1, <2>4 DEF n
  <1> QED
    BY <1>3, <1>4

-----------------------------------------------------------------------------
(* How the scan goes on.                                                   *)
LEMMA FrameAtBytes ==
  ASSUME NEW s \in Seq(Bytes), NEW i \in 1..Len(s), NEW f \in FramesAt(s, i)
  PROVE  /\ f \in AllFrames /\ f \in Seq(Bytes) /\ 3 <= Len(f) /\ i + Len(f) <= Len(s) + 1
         /\ \A j \in 1..Len(f) : s[i + j - 1] = f[j]
         /\ s[i] = Esc /\ i + 1 <= Len(s) /\ s[i + 1] = f[2] /\ f[2] \in Types
PROOF
  <1> DEFINE u == From(s, i)
  <1>1. f \in AllFrames /\ IsPrefix(f, u)
    BY DEF FramesAt
  <1>2. f \in Seq(Bytes) /\ 3 <= Len(f) /\ f[1] = Esc /\ f[2] \in Types
    BY <1>1, FrameShape
  <1>3. /\ u \in Seq(Bytes) /\ Len(u) = Len(s) + 1 - i
        /\ \A j \in 1..Len(u) : u[j] = s[i + j - 1]
    BY Tails
  <1> HIDE DEF u
  <1>4. Len(f) <= Len(u) /\ \A j \in 1..Len(f) : f[j] = u[j]
    BY <1>1, <1>2, <1>3, PrefixBytes
  <1>5. Len(f) \in Nat /\ Len(u) \in Nat /\ Len(s) \in Nat
    BY <1>2, <1>3
  <1>6. \A j \in 1..Len(f) : s[i + j - 1] = f[j]
    BY <1>3, <1>4, <1>5
  <1>7. 1 \in 1..Len(f) /\ 2 \in 1..Len(f) /\ i + 1 - 1 = i /\ i + 2 - 1 = i + 1
    BY <1>2, <1>5
  <1>8. s[i] = Esc /\ s[i + 1] = f[2]
    BY <1>2, <1>6, <1>7
  <1>9. i + Len(f) <= Len(s) + 1 /\ i + 1 <= Len(s)
    BY <1>2, <1>3, <1>4, <1>5
  <1> QED
    BY <1>1, <1>2, <1>6, <1>8, <1>9

LEMMA ScanPastEnd ==
  \A s \in Seq(Bytes) : Scan(s)[Len(s) + 1] = <<>> /\ Scan(s)[Len(s) + 2] = <<>>
PROOF
  <1> SUFFICES ASSUME NEW s \in Seq(Bytes)
               PROVE  Scan(s)[Len(s) + 1] = <<>> /\ Scan(s)[Len(s) + 2] = <<>>
    OBVIOUS
  <1>1. ASSUME NEW i \in 1..(Len(s) + 2), i > Len(s) PROVE Scan(s)[i] = <<>>
    BY <1>1, ScanDef
  <1>2. /\ Len(s) + 1 \in 1..(Len(s) + 2) /\ Len(s) + 1 > Len(s)
        /\ Len(s) + 2 \in 1..(Len(s) + 2) /\ Len(s) + 2 > Len(s)
    OBVIOUS
  <1> QED
    BY <1>1, <1>2

LEMMA ScanOn ==
  ASSUME NEW s \in Seq(Bytes), NEW i \in 1..Len(s)
  PROVE  /\ s[i] # Esc => Scan(s)[i] = Scan(s)[i + 1]
         /\ s[i] = Esc /\ FramesAt(s, i) = {} /\ ~(i < Len(s) /\ s[i + 1] \in Raw) =>
              Scan(s)[i] = Scan(s)[i + 2]
         /\ s[i] = Esc /\ FramesAt(s, i) = {} /\ i < Len(s) /\ s[i + 1] \in Raw =>
              Scan(s)[i] = <<>>
PROOF
  <1>1. Scan(s)[i] = IF i > Len(s) \/ Waiting(s, i) THEN <<>>
                     ELSE IF Starting(s, i) /\ FramesAt(s, i) # {}
                          THEN <<Found(s, i)>> \o Scan(s)[Resume(s, i)]
                     ELSE Scan(s)[Resume(s, i)]
    BY ScanDef
  <1>2. ~(i > Len(s)) /\ i <= Len(s)
    OBVIOUS
  <1>3. CASE s[i] # Esc
    <2>1. ~Starting(s, i) /\ ~Waiting(s, i) /\ Resume(s, i) = i + 1
      BY <1>3 DEF Starting, Waiting, Resume
    <2> QED
      BY <1>1, <1>2, <1>3, <2>1
  <1>4. CASE s[i] = Esc /\ FramesAt(s, i) = {} /\ ~(i < Len(s) /\ s[i + 1] \in Raw)
    <2>1. Starting(s, i) /\ ~Waiting(s, i) /\ Resume(s, i) = i + 2
      BY <1>2, <1>4 DEF Starting, Waiting, Resume
    <2> QED
      BY <1>1, <1>2, <1>4, <2>1
  <1>5. CASE s[i] = Esc /\ FramesAt(s, i) = {} /\ i < Len(s) /\ s[i + 1] \in Raw
    <2>1. Waiting(s, i)
      BY <1>2, <1>5 DEF Starting, Waiting
    <2> QED
      BY <1>1, <1>5, <2>1
  <1> QED
    BY <1>3, <1>4, <1>5

LEMMA ScanFrame ==
  ASSUME NEW s \in Seq(Bytes), NEW i \in 1..Len(s), FramesAt(s, i) # {}
  PROVE  /\ Found(s, i) \in FramesAt(s, i)
         /\ Scan(s)[i] = <<Found(s, i)>> \o Scan(s)[i + Len(Found(s, i))]
PROOF
  <1>1. Scan(s)[i] = IF i > Len(s) \/ Waiting(s, i) THEN <<>>
                     ELSE IF Starting(s, i) /\ FramesAt(s, i) # {}
                          THEN <<Found(s, i)>> \o Scan(s)[Resume(s, i)]
                     ELSE Scan(s)[Resume(s, i)]
    BY ScanDef
  <1>2. ~(i > Len(s)) /\ i <= Len(s)
    OBVIOUS
  <1>3. Found(s, i) \in FramesAt(s, i)
    BY DEF Found
  <1>4. s[i] = Esc
    BY <1>3, FrameAtBytes
  <1>5. Starting(s, i) /\ ~Waiting(s, i) /\ Resume(s, i) = i + Len(Found(s, i))
    BY <1>2, <1>4 DEF Starting, Waiting, Resume
  <1> QED
    BY <1>1, <1>2, <1>3, <1>5

LEMMA NoFrameAt ==
  ASSUME NEW s \in Seq(Bytes), NEW i \in 1..Len(s), i = Len(s) \/ s[i + 1] \notin Types
  PROVE  FramesAt(s, i) = {}
PROOF
  <1>1. ASSUME NEW f \in FramesAt(s, i) PROVE FALSE
    BY <1>1, FrameAtBytes
  <1> QED
    BY <1>1

LEMMA TailReference ==
  \A s \in Seq(Bytes) : \A i \in 1..(Len(s) + 1) : Reference(From(s, i)) = Scan(s)[i]
PROOF
  <1> SUFFICES ASSUME NEW s \in Seq(Bytes), NEW i \in 1..(Len(s) + 1)
               PROVE  Reference(From(s, i)) = Scan(s)[i]
    OBVIOUS
  <1> DEFINE d == i - 1
  <1>1. d \in 0..Len(s) /\ d + 1 = i /\ 1 \in 1..(Len(s) - d + 2)
    OBVIOUS
  <1> HIDE DEF d
  <1>2. Scan(From(s, d + 1))[1] = Scan(s)[d + 1]
    BY <1>1, ScanOfTail
  <1> QED
    BY <1>1, <1>2 DEF Reference

LEMMA TailAppended ==
  ASSUME NEW s \in Seq(Bytes), NEW z \in Seq(Bytes), NEW i \in 1..(Len(s) + 1)
  PROVE  From(s \o z, i) = From(s, i) \o z
PROOF
  <1> DEFINE x == s \o z
             u == From(s, i)
             v == From(x, i)
             d == i - 1
  <1>1. /\ x \in Seq(Bytes) /\ Len(s) \in Nat /\ Len(z) \in Nat /\ Len(x) = Len(s) + Len(z)
        /\ \A j \in 1..Len(s) : x[j] = s[j]
        /\ \A j \in 1..Len(z) : x[Len(s) + j] = z[j]
    BY Joined
  <1> HIDE DEF x
  <1>2. d \in 0..Len(s) /\ d \in 0..Len(x) /\ d + 1 = i /\ d \in Nat
    BY <1>1
  <1>3. u \in Seq(Bytes) /\ Len(u) = Len(s) - d /\ \A j \in 1..Len(u) : u[j] = s[i + j - 1]
    <2> HIDE DEF d
    <2>1. /\ From(s, d + 1) \in Seq(Bytes) /\ Len(From(s, d + 1)) = Len(s) - d
          /\ \A j \in 1..Len(From(s, d + 1)) : From(s, d + 1)[j] = s[(d + 1) + j - 1]
      BY <1>2, TailFrom
    <2> QED
      BY <1>2, <2>1
  <1>4. v \in Seq(Bytes) /\ Len(v) = Len(x) - d /\ \A j \in 1..Len(v) : v[j] = x[i + j - 1]
    <2> HIDE DEF d
    <2>1. /\ From(x, d + 1) \in Seq(Bytes) /\ Len(From(x, d + 1)) = Len(x) - d
          /\ \A j \in 1..Len(From(x, d + 1)) : From(x, d + 1)[j] = x[(d + 1) + j - 1]
      BY <1>1, <1>2, TailFrom
    <2> QED
      BY <1>2, <2>1
  <1> HIDE DEF u, v, d
  <1>5. /\ u \o z \in Seq(Bytes) /\ Len(u \o z) = Len(u) + Len(z)
        /\ \A j \in 1..Len(u) : (u \o z)[j] = u[j]
        /\ \A j \in 1..Len(z) : (u \o z)[Len(u) + j] = z[j]
    BY <1>3, Joined
  <1>6. ASSUME NEW j \in 1..Len(v) PROVE v[j] = (u \o z)[j]
    <2>1. CASE j <= Len(u)
      <3>1. j \in 1..Len(u) /\ i + j - 1 \in 1..Len(s)
        BY <1>1, <1>2, <1>3, <1>6, <2>1
      <3> QED
        BY <1>1, <1>3, <1>4, <1>5, <1>6, <3>1
    <2>2. CASE ~(j <= Len(u))
      <3> DEFINE m == j - Len(u)
      <3>1. m \in 1..Len(z) /\ Len(u) + m = j /\ Len(s) + m = i + j - 1
        BY <1>1, <1>2, <1>3, <1>4, <1>6, <2>2
      <3> HIDE DEF m
      <3>2. (u \o z)[Len(u) + m] = z[m] /\ x[Len(s) + m] = z[m]
        BY <1>1, <1>5, <3>1
      <3>3. v[j] = x[i + j - 1]
        BY <1>4, <1>6
      <3> QED
        BY <3>1, <3>2, <3>3
    <2> QED
      BY <2>1, <2>2
  <1>7. Len(v) = Len(u \o z)
    BY <1>1, <1>2, <1>3, <1>4, <1>5
  <1>8. v = u \o z
    BY <1>4, <1>5, <1>6, <1>7, SeqEqual
  <1> QED
    BY <1>8 DEF u, v, x

LEMMA JunkSkipped ==
  ASSUME NEW s \in Seq(Bytes), NEW i \in 1..(Len(s) + 1), \A j \in 1..(i - 1) : s[j] # Esc
  PROVE  Reference(s) = Scan(s)[i]
PROOF
  <1> DEFINE T == {n \in Nat : n < i => Scan(s)[1] = Scan(s)[n + 1]}
  <1>1. 0 \in T
    OBVIOUS
  <1>2. ASSUME NEW n \in Nat, n \in T PROVE n + 1 \in T
    <2> SUFFICES ASSUME n + 1 < i PROVE Scan(s)[1] = Scan(s)[(n + 1) + 1]
      OBVIOUS
    <2>1. n < i /\ n + 1 \in 1..Len(s) /\ n + 1 \in 1..(i - 1)
      OBVIOUS
    <2>2. Scan(s)[n + 1] = Scan(s)[(n + 1) + 1]
      BY <2>1, ScanOn
    <2> QED
      BY <1>2, <2>1, <2>2
  <1>3. Nat \subseteq T
    <2> HIDE DEF T
    <2> QED
      BY <1>1, <1>2, Induction
  <1>4. i - 1 \in Nat /\ i - 1 < i /\ (i - 1) + 1 = i
    OBVIOUS
  <1>5. Scan(s)[1] = Scan(s)[i]
    BY <1>3, <1>4
  <1> QED
    BY <1>5 DEF Reference

LEMMA BodySkipped ==
  ASSUME NEW s \in Seq(Bytes), 2 <= Len(s), s[1] = Esc, s[2] \in Types \ Raw,
         FrameEnd(s).is # "whole"
  PROVE  \A k \in Nat : Reference(s) = Scan(s)[Walk(s)[k].at]
PROOF
  <1> DEFINE w == Walk(s)
             T == {k \in Nat : Scan(s)[1] = Scan(s)[w[k].at]}
  <1>1. w[0] = End("whole", 3) /\ \A k \in Nat : w[k + 1] = Onward(s, w[k])
    BY WalkDef DEF End
  <1>2. \A k \in Nat : Sound(s, w[k])
    BY WalkSound
  <1>3. Len(s) \in Nat
    OBVIOUS
  <1> HIDE DEF w
  <1>4. 0 \in T
    <2>1. FramesAt(s, 1) = {}
      BY FramesAtStart
    <2>2. 1 \in 1..Len(s)
      BY <1>3
    <2>3. 1 + 1 = 2 /\ 1 + 2 = 3
      OBVIOUS
    <2>4. Scan(s)[1] = Scan(s)[3]
      BY <2>1, <2>2, <2>3, ScanOn
    <2>5. w[0].at = 3
      BY <1>1, EndParts
    <2> QED
      BY <2>4, <2>5
  <1>5. ASSUME NEW k \in Nat, k \in T PROVE k + 1 \in T
    <2> DEFINE at == w[k].at
    <2>0. Scan(s)[1] = Scan(s)[at]
      BY <1>5
    <2>1. CASE w[k].is # "whole"
      <3>1. w[k + 1] = w[k]
        BY <1>1, <2>1, OnwardStays
      <3> QED
        BY <1>5, <3>1
    <2>2. CASE w[k].is = "whole"
      <3>1. w[k] = End("whole", at) /\ at \in Nat \ {0} /\ at \in 3..(Len(s) + 1)
        BY <1>2, <2>2, EndIs DEF Sound, Ends
      <3> HIDE DEF at
      <3>2. w[k + 1] = Onward(s, End("whole", at))
        BY <1>1, <3>1
      <3> SUFFICES Scan(s)[at] = Scan(s)[w[k + 1].at]
        BY <2>0
      <3>3. CASE at > Len(s) \/ (at = Len(s) /\ s[at] = Esc)
        <4>1. w[k + 1] = End("more", at)
          BY <3>1, <3>2, <3>3, OnwardCases
        <4> QED
          BY <4>1, EndParts
      <3>4. CASE at <= Len(s) /\ s[at] # Esc
        <4>1. w[k + 1] = End("whole", at + 1)
          BY <3>1, <3>2, <3>4, OnwardCases
        <4>2. at \in 1..Len(s)
          BY <1>3, <3>1, <3>4
        <4>3. Scan(s)[at] = Scan(s)[at + 1]
          BY <3>4, <4>2, ScanOn
        <4> QED
          BY <4>1, <4>3, EndParts
      <3>5. CASE at < Len(s) /\ s[at] = Esc /\ s[at + 1] = Esc
        <4>1. w[k + 1] = End("whole", at + 2)
          BY <3>1, <3>2, <3>5, OnwardCases
        <4>2. at \in 1..Len(s)
          BY <1>3, <3>1, <3>5
        <4>3. s[at + 1] \notin Types /\ s[at + 1] \notin Raw
          BY <3>5, FramerAssumption
        <4>4. FramesAt(s, at) = {}
          BY <4>2, <4>3, NoFrameAt
        <4>5. Scan(s)[at] = Scan(s)[at + 2]
          BY <3>5, <4>2, <4>3, <4>4, ScanOn
        <4> QED
          BY <4>1, <4>5, EndParts
      <3>6. CASE at < Len(s) /\ s[at] = Esc /\ s[at + 1] # Esc
        <4>1. w[k + 1] = End("cut", at)
          BY <3>1, <3>2, <3>6, OnwardCases
        <4> QED
          BY <4>1, EndParts
      <3>7. at > Len(s) \/ at = Len(s) \/ at < Len(s)
        BY <1>3, <3>1
      <3>8. (at = Len(s) => at <= Len(s)) /\ (at < Len(s) => at <= Len(s))
        BY <1>3, <3>1
      <3> QED
        BY <3>3, <3>4, <3>5, <3>6, <3>7, <3>8, Zenon
    <2> QED
      BY <2>1, <2>2
  <1>6. Nat \subseteq T
    <2> HIDE DEF T
    <2> QED
      BY <1>4, <1>5, Induction
  <1> QED
    BY <1>6 DEF w, Reference

(* Nothing more is found while the buffer waits.                           *)
LEMMA NothingWaits ==
  ASSUME NEW s \in Seq(Bytes)
  PROVE  /\ (\A i \in 1..Len(s) : s[i] # Esc) => Reference(s) = <<>>
         /\ Len(s) = 1 => Reference(s) = <<>>
         /\ 2 <= Len(s) /\ s[1] = Esc /\ s[2] \in Types /\ FrameEnd(s).is = "more" =>
              Reference(s) = <<>>
PROOF
  <1>1. Len(s) \in Nat /\ Scan(s)[Len(s) + 1] = <<>> /\ Scan(s)[Len(s) + 2] = <<>>
    BY ScanPastEnd
  <1>2. ASSUME \A i \in 1..Len(s) : s[i] # Esc PROVE Reference(s) = <<>>
    <2> DEFINE n == Len(s) + 1
    <2>1. n \in 1..(Len(s) + 1) /\ \A j \in 1..(n - 1) : s[j] # Esc
      BY <1>2
    <2> HIDE DEF n
    <2>2. Reference(s) = Scan(s)[n]
      BY <2>1, JunkSkipped
    <2> QED
      BY <1>1, <2>2 DEF n
  <1>3. ASSUME Len(s) = 1 PROVE Reference(s) = <<>>
    <2>1. 1 \in 1..Len(s) /\ 1 = Len(s) /\ Len(s) + 1 = 1 + 1 /\ Len(s) + 2 = 1 + 2
      BY <1>3
    <2>2. FramesAt(s, 1) = {}
      BY <2>1, NoFrameAt
    <2>3. ~(1 < Len(s))
      BY <1>3
    <2>4. Scan(s)[1] = Scan(s)[1 + 1] \/ Scan(s)[1] = Scan(s)[1 + 2]
      BY <2>1, <2>2, <2>3, ScanOn
    <2> QED
      BY <1>1, <2>1, <2>4 DEF Reference
  <1>4. ASSUME 2 <= Len(s), s[1] = Esc, s[2] \in Types, FrameEnd(s).is = "more"
        PROVE  Reference(s) = <<>>
    <2>1. FramesAt(s, 1) = {}
      BY <1>4, FramesAtStart
    <2>2. 1 \in 1..Len(s) /\ 1 < Len(s) /\ 1 + 1 = 2
      BY <1>1, <1>4
    <2>3. CASE s[2] \in Raw
      BY <1>4, <2>1, <2>2, <2>3, ScanOn DEF Reference
    <2>4. CASE s[2] \notin Raw
      <3> DEFINE n == BodyLen[s[2]]
                 at == Walk(s)[n].at
      <3>1. n \in Nat
        BY <1>4, FramerAssumption
      <3>2. FrameEnd(s) = Walk(s)[n]
        BY <2>4 DEF FrameEnd, BodyEnd
      <3>3. Sound(s, Walk(s)[n]) /\ Walk(s)[n].is = "more"
        BY <1>4, <3>1, <3>2, WalkSound
      <3>4. Reference(s) = Scan(s)[at]
        BY <1>4, <2>4, <3>1, BodySkipped
      <3> HIDE DEF n
      <3>5. at = Len(s) + 1 \/ (at = Len(s) /\ s[at] = Esc)
        BY <3>3 DEF Sound, Stopped
      <3> HIDE DEF at
      <3>6. CASE at = Len(s) + 1
        BY <1>1, <3>4, <3>6
      <3>7. CASE at = Len(s) /\ s[at] = Esc
        <4>1. at \in 1..Len(s) /\ ~(at < Len(s)) /\ at + 2 = Len(s) + 2
          BY <1>1, <1>4, <3>7
        <4>2. FramesAt(s, at) = {}
          BY <3>7, <4>1, NoFrameAt
        <4>3. Scan(s)[at] = Scan(s)[at + 2]
          BY <3>7, <4>1, <4>2, ScanOn
        <4> QED
          BY <1>1, <3>4, <4>1, <4>3
      <3> QED
        BY <3>5, <3>6, <3>7
    <2> QED
      BY <2>3, <2>4
  <1> QED
    BY <1>2, <1>3, <1>4

-----------------------------------------------------------------------------
(* What the steps do to the frames of the stream: z is what is to come.    *)
LEMMA FrameEndLocal ==
  ASSUME NEW b \in Seq(Bytes), NEW z \in Seq(Bytes), 2 <= Len(b), b[2] \in Types,
         FrameEnd(b).is # "more"
  PROVE  FrameEnd(b \o z) = FrameEnd(b) /\ (b \o z)[1] = b[1] /\ (b \o z)[2] = b[2]
         /\ Len(b) <= Len(b \o z) /\ b \o z \in Seq(Bytes)
PROOF
  <1> DEFINE x == b \o z
             n == BodyLen[b[2]]
  <1>1. /\ x \in Seq(Bytes) /\ Len(b) \in Nat /\ Len(z) \in Nat /\ Len(x) = Len(b) + Len(z)
        /\ \A j \in 1..Len(b) : x[j] = b[j]
    BY Joined
  <1> HIDE DEF x
  <1>2. Len(x) \in Nat /\ Len(b) <= Len(x) /\ 1 \in 1..Len(b) /\ 2 \in 1..Len(b)
    BY <1>1
  <1>3. x[1] = b[1] /\ x[2] = b[2]
    BY <1>1, <1>2
  <1>4. n \in Nat
    BY FramerAssumption
  <1>5. CASE b[2] \in Raw
    <2>1. FrameEnd(b) = RawEnd(b, n) /\ FrameEnd(x) = RawEnd(x, n)
      BY <1>3, <1>5 DEF FrameEnd
    <2> HIDE DEF n
    <2>2. ~(Len(b) < 2 + n)
      BY <2>1 DEF RawEnd
    <2>3. ~(Len(x) < 2 + n)
      BY <1>1, <1>2, <1>4, <2>2
    <2>4. FrameEnd(x) = FrameEnd(b)
      BY <2>1, <2>2, <2>3 DEF RawEnd
    <2> QED
      BY <1>1, <1>2, <1>3, <2>4 DEF x
  <1>6. CASE b[2] \notin Raw
    <2>1. FrameEnd(b) = Walk(b)[n] /\ FrameEnd(x) = Walk(x)[n]
      BY <1>3, <1>6 DEF FrameEnd, BodyEnd
    <2>2. Walk(x)[n] = Walk(b)[n]
      BY <1>4, <2>1, WalkLocal DEF x
    <2> QED
      BY <1>1, <1>2, <1>3, <2>1, <2>2 DEF x
  <1> QED
    BY <1>5, <1>6

LEMMA ReferenceFrom ==
  ASSUME NEW s \in Seq(Bytes), NEW z \in Seq(Bytes), NEW i \in 1..(Len(s) + 1)
  PROVE  Scan(s \o z)[i] = Reference(From(s, i) \o z)
PROOF
  <1> DEFINE x == s \o z
  <1>1. x \in Seq(Bytes) /\ Len(s) \in Nat /\ Len(z) \in Nat /\ Len(x) = Len(s) + Len(z)
    BY Joined
  <1>2. From(x, i) = From(s, i) \o z
    BY TailAppended
  <1> HIDE DEF x
  <1>3. i \in 1..(Len(x) + 1)
    BY <1>1
  <1>4. Reference(From(x, i)) = Scan(x)[i]
    BY <1>1, <1>3, TailReference
  <1> QED
    BY <1>2, <1>4 DEF x

LEMMA SkipJunk ==
  ASSUME NEW s \in Seq(Bytes), NEW z \in Seq(Bytes), NEW i \in 1..Len(s),
         \A j \in 1..(i - 1) : s[j] # Esc
  PROVE  Reference(s \o z) = Reference(From(s, i) \o z)
PROOF
  <1> DEFINE x == s \o z
  <1>1. /\ x \in Seq(Bytes) /\ Len(s) \in Nat /\ Len(z) \in Nat /\ Len(x) = Len(s) + Len(z)
        /\ \A j \in 1..Len(s) : x[j] = s[j]
    BY Joined
  <1> HIDE DEF x
  <1>2. i \in 1..(Len(x) + 1) /\ \A j \in 1..(i - 1) : x[j] # Esc
    BY <1>1
  <1>3. Reference(x) = Scan(x)[i]
    BY <1>1, <1>2, JunkSkipped
  <1>4. i \in 1..(Len(s) + 1)
    BY <1>1
  <1>5. Scan(x)[i] = Reference(From(s, i) \o z)
    BY <1>4, ReferenceFrom DEF x
  <1> QED
    BY <1>3, <1>5 DEF x

LEMMA SkipUnknown ==
  ASSUME NEW b \in Seq(Bytes), NEW z \in Seq(Bytes),
         2 <= Len(b), b[1] = Esc, b[2] \notin Types
  PROVE  Reference(b \o z) = Reference(From(b, 3) \o z)
PROOF
  <1> DEFINE x == b \o z
  <1>1. /\ x \in Seq(Bytes) /\ Len(b) \in Nat /\ Len(z) \in Nat /\ Len(x) = Len(b) + Len(z)
        /\ \A j \in 1..Len(b) : x[j] = b[j]
    BY Joined
  <1> HIDE DEF x
  <1>2. 1 \in 1..Len(b) /\ 2 \in 1..Len(b) /\ 1 \in 1..Len(x) /\ 1 + 1 = 2 /\ 1 + 2 = 3
        /\ 3 \in 1..(Len(b) + 1)
    BY <1>1
  <1>3. x[1] = Esc /\ x[1 + 1] \notin Types /\ x[1 + 1] \notin Raw
    <2>1. x[1] = b[1] /\ x[2] = b[2]
      BY <1>1, <1>2
    <2>2. Raw \subseteq Types
      BY FramerAssumption
    <2>3. x[2] \notin Types
      BY <2>1
    <2> QED
      BY <1>2, <2>1, <2>2, <2>3
  <1>4. FramesAt(x, 1) = {}
    BY <1>1, <1>2, <1>3, NoFrameAt
  <1>5. Scan(x)[1] = Scan(x)[3]
    <2> DEFINE i == 1
    <2>1. i \in 1..Len(x) /\ x[i] = Esc /\ x[i + 1] \notin Raw /\ FramesAt(x, i) = {} /\ i + 2 = 3
      BY <1>2, <1>3, <1>4
    <2> HIDE DEF i
    <2>2. Scan(x)[i] = Scan(x)[i + 2]
      BY <1>1, <2>1, ScanOn
    <2> QED
      BY <2>1, <2>2 DEF i
  <1>6. Scan(x)[3] = Reference(From(b, 3) \o z)
    BY <1>2, ReferenceFrom DEF x
  <1> QED
    BY <1>5, <1>6 DEF x, Reference

LEMMA TakeFrame ==
  ASSUME NEW b \in Seq(Bytes), NEW z \in Seq(Bytes),
         2 <= Len(b), b[1] = Esc, b[2] \in Types, FrameEnd(b).is = "whole"
  PROVE  /\ UpTo(b, FrameEnd(b).at - 1) \in AllFrames
         /\ FrameEnd(b).at \in 1..(Len(b) + 1)
         /\ Reference(b \o z) = <<UpTo(b, FrameEnd(b).at - 1)>> \o Reference(From(b, FrameEnd(b).at) \o z)
PROOF
  <1> DEFINE x == b \o z
             at == FrameEnd(b).at
             f == UpTo(b, at - 1)
  <1>1. FrameEnd(x) = FrameEnd(b) /\ x[1] = Esc /\ x[2] \in Types /\ Len(b) <= Len(x)
        /\ x \in Seq(Bytes)
    BY FrameEndLocal
  <1>2. f \in AllFrames /\ at - 1 \in 1..Len(b)
    BY EscapedFound, RawFound
  <1>3. FrameEnd(b) \in Ends
    <2>1. BodyLen[b[2]] \in Nat
      BY FramerAssumption
    <2>2. CASE b[2] \in Raw
      <3> DEFINE n == BodyLen[b[2]]
      <3>1. FrameEnd(b) = [is |-> IF Len(b) < 2 + n THEN "more" ELSE "whole", at |-> 3 + n]
        BY <2>2 DEF FrameEnd, RawEnd
      <3> HIDE DEF n
      <3>2. n \in Nat
        BY <2>1 DEF n
      <3> QED
        BY <3>1, <3>2 DEF Ends
    <2>3. CASE b[2] \notin Raw
      BY <2>1, <2>3, WalkDef DEF FrameEnd, BodyEnd
    <2> QED
      BY <2>2, <2>3
  <1>4. at \in Nat
    BY <1>3 DEF Ends
  <1>5. Len(b) \in Nat /\ Len(x) \in Nat
    BY <1>1
  <1>6. UpTo(x, FrameEnd(x).at - 1) = f
    <2> DEFINE n == at - 1
               g == UpTo(x, n)
    <2>1. n \in 0..Len(b) /\ n \in 0..Len(x)
      <3> HIDE DEF at
      <3> QED
        BY <1>1, <1>2, <1>5
    <2> HIDE DEF n
    <2>2. UpTo(b, n) \in Seq(Bytes) /\ Len(UpTo(b, n)) = n /\ \A j \in 1..n : UpTo(b, n)[j] = b[j]
      BY <2>1, FirstBytes
    <2>3. g \in Seq(Bytes) /\ Len(g) = n /\ \A j \in 1..n : g[j] = x[j]
      BY <1>1, <2>1, FirstBytes
    <2>4. \A j \in 1..Len(b) : x[j] = b[j]
      BY Joined
    <2> HIDE DEF g, x
    <2>5. \A j \in 1..n : g[j] = UpTo(b, n)[j]
      BY <1>5, <2>1, <2>2, <2>3, <2>4
    <2>6. g = UpTo(b, n)
      BY <2>2, <2>3, <2>5, SeqEqual
    <2> QED
      BY <1>1, <2>6 DEF n, g
  <1> HIDE DEF x
  <1>7. FramesAt(x, 1) = {f}
    <2>1. 2 <= Len(x)
      BY <1>1, <1>5
    <2> QED
      BY <1>1, <1>6, <2>1, FramesAtStart
  <1>8. Len(f) = at - 1
    <2> HIDE DEF at
    <2>1. at - 1 \in 0..Len(b)
      BY <1>2
    <2> QED
      BY <2>1, FirstBytes
  <1>9. Found(x, 1) = f
    BY <1>7 DEF Found
  <1>10. Scan(x)[1] = <<f>> \o Scan(x)[1 + Len(f)]
    <2>1. 1 \in 1..Len(x)
      BY <1>1, <1>5
    <2>2. FramesAt(x, 1) # {}
      BY <1>7
    <2> HIDE DEF f
    <2> QED
      BY <1>1, <1>9, <2>1, <2>2, ScanFrame
  <1> HIDE DEF f, at
  <1>11. 1 + Len(f) = at /\ at \in 1..(Len(b) + 1)
    BY <1>2, <1>4, <1>5, <1>8
  <1>12. Scan(x)[at] = Reference(From(b, at) \o z)
    BY <1>11, ReferenceFrom DEF x
  <1> QED
    BY <1>2, <1>10, <1>11, <1>12 DEF x, f, at, Reference

LEMMA CutFrame ==
  ASSUME NEW b \in Seq(Bytes), NEW z \in Seq(Bytes),
         2 <= Len(b), b[1] = Esc, b[2] \in Types, FrameEnd(b).is = "cut"
  PROVE  /\ FrameEnd(b).at \in 1..(Len(b) + 1)
         /\ Reference(b \o z) = Reference(From(b, FrameEnd(b).at) \o z)
PROOF
  <1> DEFINE x == b \o z
             n == BodyLen[b[2]]
             at == FrameEnd(b).at
  <1>1. FrameEnd(x) = FrameEnd(b) /\ x[1] = Esc /\ x[2] = b[2] /\ Len(b) <= Len(x)
        /\ x \in Seq(Bytes)
    BY FrameEndLocal
  <1>2. b[2] \notin Raw
    BY DEF FrameEnd, RawEnd
  <1>3. n \in Nat
    BY FramerAssumption
  <1>4. FrameEnd(b) = Walk(b)[n] /\ FrameEnd(x) = Walk(x)[n]
    BY <1>1, <1>2 DEF FrameEnd, BodyEnd
  <1>5. Sound(b, FrameEnd(b))
    BY <1>3, <1>4, WalkSound
  <1>6. Len(b) \in Nat /\ Len(x) \in Nat
    BY <1>1
  <1>7. at \in 1..(Len(b) + 1)
    BY <1>5, <1>6 DEF Sound
  <1> HIDE DEF x
  <1>8. 2 <= Len(x) /\ x[2] \in Types \ Raw /\ FrameEnd(x).is # "whole"
    BY <1>1, <1>2, <1>6
  <1>9. Reference(x) = Scan(x)[Walk(x)[n].at]
    BY <1>1, <1>3, <1>8, BodySkipped
  <1>10. Walk(x)[n].at = at
    BY <1>1, <1>4
  <1> HIDE DEF at
  <1>11. Scan(x)[at] = Reference(From(b, at) \o z)
    BY <1>7, ReferenceFrom DEF x
  <1> QED
    BY <1>7, <1>9, <1>10, <1>11 DEF x, at

-----------------------------------------------------------------------------
(* The steps of the framer.  What it has read is what is in out and what   *)
(* the buffer will still give, whatever comes: z.  Between reads nothing   *)
(* can be given yet.                                                       *)
Contained ==
  /\ buf \in Seq(Bytes) /\ stream \in Seq(Bytes) /\ out \in Seq(AllFrames) /\ busy \in BOOLEAN
  /\ \A z \in Seq(Bytes) : Reference(stream \o z) = out \o Reference(buf \o z)

Clean(b) == \A i \in 1..Len(b) : b[i] # Esc
Begun(b) == 2 <= Len(b) /\ b[1] = Esc /\ b[2] \in Types /\ FrameEnd(b).is = "more"
Waits == ~busy => Clean(buf) \/ buf = <<Esc>> \/ Begun(buf)

LEMMA StartFirst ==
  ASSUME buf \in Seq(Bytes)
  PROVE  /\ Start \in 0..Len(buf)
         /\ Start = 0 => Clean(buf)
         /\ Start > 0 => buf[Start] = Esc /\ \A j \in 1..(Start - 1) : buf[j] # Esc
PROOF
  <1> DEFINE I == {i \in 1..Len(buf) : buf[i] = Esc}
             m == CHOOSE x \in I : \A y \in I : x <= y
  <1>1. Start = IF I # {} THEN m ELSE 0
    BY DEF Start, SelectInSeq, Min
  <1>2. I \subseteq Nat
    OBVIOUS
  <1>3. CASE I = {}
    BY <1>1, <1>3 DEF Clean
  <1>4. CASE I # {}
    <2>1. \E x \in I : \A y \in I : x <= y
      <3> HIDE DEF I
      <3> QED
        BY <1>2, <1>4, Least
    <2>2. m \in I /\ \A y \in I : m <= y
      <3> HIDE DEF I
      <3> QED
        BY <2>1
    <2>3. Start = m
      BY <1>1, <1>4
    <2> HIDE DEF m
    <2>4. m \in 1..Len(buf) /\ buf[m] = Esc
      BY <2>2
    <2>5. ASSUME NEW j \in 1..(m - 1) PROVE buf[j] # Esc
      <3>1. j \in 1..Len(buf) /\ ~(m <= j)
        BY <2>4, <2>5
      <3> QED
        BY <2>2, <3>1
    <2> QED
      BY <2>3, <2>4, <2>5
  <1> QED
    BY <1>3, <1>4

(* The buffer from its first escape on.                                    *)
LEMMA FromStart ==
  ASSUME buf \in Seq(Bytes), Start > 0
  PROVE  LET b == From(buf, Start)
         IN /\ b \in Seq(Bytes) /\ Len(b) = Len(buf) + 1 - Start /\ b[1] = Esc
            /\ 1 <= Len(b) /\ Len(b) \in Nat
            /\ Start < Len(buf) => 2 <= Len(b) /\ b[2] = buf[Start + 1]
            /\ \A z \in Seq(Bytes) : Reference(buf \o z) = Reference(b \o z)
PROOF
  <1> DEFINE b == From(buf, Start)
             i == Start
  <1>1. i \in 1..Len(buf) /\ buf[i] = Esc /\ \A j \in 1..(i - 1) : buf[j] # Esc
    BY StartFirst
  <1> HIDE DEF i
  <1>2. /\ b \in Seq(Bytes) /\ Len(b) = Len(buf) + 1 - i
        /\ \A j \in 1..Len(b) : b[j] = buf[i + j - 1]
    <2>1. i \in 1..(Len(buf) + 3) /\ i <= Len(buf)
      BY <1>1
    <2> QED
      BY <2>1, Tails DEF i
  <1> HIDE DEF b
  <1>3. Len(b) \in Nat /\ 1 <= Len(b) /\ 1 \in 1..Len(b) /\ i + 1 - 1 = i
    BY <1>1, <1>2
  <1>4. b[1] = Esc
    BY <1>1, <1>2, <1>3
  <1>5. ASSUME i < Len(buf) PROVE 2 <= Len(b) /\ b[2] = buf[i + 1]
    <2>1. 2 \in 1..Len(b) /\ i + 2 - 1 = i + 1
      BY <1>1, <1>2, <1>5
    <2> QED
      BY <1>2, <2>1
  <1>6. ASSUME NEW z \in Seq(Bytes) PROVE Reference(buf \o z) = Reference(b \o z)
    BY <1>1, SkipJunk DEF b, i
  <1> QED
    BY <1>2, <1>3, <1>4, <1>5, <1>6 DEF b, i

LEMMA ReferenceType == \A s \in Seq(Bytes) : Reference(s) \in Seq(AllFrames)
PROOF
  <1> SUFFICES ASSUME NEW s \in Seq(Bytes) PROVE Reference(s) \in Seq(AllFrames)
    OBVIOUS
  <1>1. 1 \in 1..(Len(s) + 2)
    OBVIOUS
  <1> QED
    BY <1>1, ScanDef DEF Reference

(* Sequences of anything.                                                  *)
LEMMA Added ==
  ASSUME NEW S, NEW a \in Seq(S), NEW x \in S
  PROVE  Append(a, x) = a \o <<x>> /\ <<x>> \in Seq(S) /\ Append(a, x) \in Seq(S)
PROOF
  OBVIOUS

LEMMA ThreeStreams ==
  \A a, b, c \in Seq(Bytes) : (a \o b) \o c = a \o (b \o c)
PROOF
  BY ConcatAssociative

LEMMA ThreeOuts ==
  \A a, b, c \in Seq(AllFrames) : (a \o b) \o c = a \o (b \o c)
PROOF
  <1> DEFINE S == AllFrames
  <1> HIDE DEF S
  <1>1. \A a, b, c \in Seq(S) : (a \o b) \o c = a \o (b \o c)
    BY ConcatAssociative
  <1> QED
    BY <1>1 DEF S

LEMMA ContainedInit ==
  Init => Contained /\ Waits
PROOF
  <1> SUFFICES ASSUME Init PROVE Contained /\ Waits
    OBVIOUS
  <1>1. buf = <<>> /\ stream = <<>> /\ out = <<>> /\ busy = FALSE
    BY DEF Init
  <1>2. buf \in Seq(Bytes) /\ stream \in Seq(Bytes) /\ out \in Seq(AllFrames)
    BY <1>1
  <1>3. ASSUME NEW z \in Seq(Bytes) PROVE Reference(stream \o z) = out \o Reference(buf \o z)
    <2>1. Reference(z) \in Seq(AllFrames)
      BY ReferenceType
    <2>2. <<>> \o z = z /\ <<>> \o Reference(z) = Reference(z)
      BY <2>1, ConcatEmptySeq
    <2> QED
      BY <1>1, <2>2
  <1>4. Clean(buf)
    BY <1>1 DEF Clean
  <1> QED
    BY <1>1, <1>2, <1>3, <1>4 DEF Contained, Waits

LEMMA ContainedPush ==
  ASSUME Contained, NEW piece \in Pieces, Push(piece)
  PROVE  Contained' /\ Waits'
PROOF
  <1>1. buf' = buf \o piece /\ stream' = stream \o piece /\ busy' = TRUE /\ out' = out
    BY DEF Push
  <1>2. piece \in Seq(Bytes)
    BY DEF Pieces
  <1>3. buf \in Seq(Bytes) /\ stream \in Seq(Bytes) /\ out \in Seq(AllFrames)
    BY DEF Contained
  <1>4. buf' \in Seq(Bytes) /\ stream' \in Seq(Bytes) /\ out' \in Seq(AllFrames)
    BY <1>1, <1>2, <1>3, Joined
  <1>5. ASSUME NEW z \in Seq(Bytes) PROVE Reference(stream' \o z) = out' \o Reference(buf' \o z)
    <2>1. stream' \o z = stream \o (piece \o z) /\ buf' \o z = buf \o (piece \o z)
      <3>1. (stream \o piece) \o z = stream \o (piece \o z)
        BY <1>2, <1>3, ThreeStreams
      <3>2. (buf \o piece) \o z = buf \o (piece \o z)
        BY <1>2, <1>3, ThreeStreams
      <3> QED
        BY <1>1, <3>1, <3>2
    <2>2. piece \o z \in Seq(Bytes)
      BY <1>2, Joined
    <2>3. Reference(stream \o (piece \o z)) = out \o Reference(buf \o (piece \o z))
      BY <2>2 DEF Contained
    <2> QED
      BY <1>1, <2>1, <2>3
  <1> QED
    BY <1>1, <1>4, <1>5 DEF Contained, Waits

(* A step that gives no frame and drops bytes that give none.              *)
LEMMA ContainedDrop ==
  ASSUME Contained, NEW b \in Seq(Bytes), buf' = b, stream' = stream, out' = out, busy' \in BOOLEAN,
         \A z \in Seq(Bytes) : Reference(buf \o z) = Reference(b \o z)
  PROVE  Contained'
PROOF
  BY DEF Contained

LEMMA ContainedNextFrame ==
  ASSUME Contained, NextFrame
  PROVE  Contained' /\ Waits'
PROOF
  <1>0. /\ buf \in Seq(Bytes) /\ stream \in Seq(Bytes) /\ out \in Seq(AllFrames) /\ busy
        /\ \A z \in Seq(Bytes) : Reference(stream \o z) = out \o Reference(buf \o z)
    BY DEF Contained, NextFrame
  <1> DEFINE b == From(buf, Start)
  <1>1. Start \in 0..Len(buf) /\ (Start = 0 => Clean(buf)) /\ Len(buf) \in Nat
    BY <1>0, StartFirst
  <1>2. ASSUME Start > 0
        PROVE  /\ b \in Seq(Bytes) /\ Len(b) = Len(buf) + 1 - Start /\ b[1] = Esc
               /\ 1 <= Len(b) /\ Len(b) \in Nat
               /\ Start < Len(buf) => 2 <= Len(b) /\ b[2] = buf[Start + 1]
               /\ \A z \in Seq(Bytes) : Reference(buf \o z) = Reference(b \o z)
    BY <1>0, <1>2, FromStart
  <1>3. ASSUME TypeAt(Start)
        PROVE  Start > 0 /\ 2 <= Len(b) /\ b[2] \in Types
    BY <1>2, <1>3 DEF TypeAt
  <1> HIDE DEF b
  <1>4. CASE NoEscape
    <2>1. buf' = buf /\ stream' = stream /\ out' = out /\ busy' = FALSE /\ Clean(buf)
      BY <1>1, <1>4 DEF NoEscape
    <2> QED
      BY <2>1 DEF Contained, Waits
  <1>5. CASE LoneEscape
    <2>1. Start > 0 /\ Start = Len(buf) /\ buf' = b /\ stream' = stream /\ out' = out /\ busy' = FALSE
      BY <1>5 DEF LoneEscape, b
    <2>2. Contained'
      BY <1>2, <2>1, ContainedDrop
    <2>3. b = <<Esc>>
      <3>1. Len(b) = 1 /\ b[1] = Esc /\ b \in Seq(Bytes)
        BY <1>1, <1>2, <2>1
      <3> QED
        BY <3>1
    <2> QED
      BY <2>1, <2>2, <2>3 DEF Waits
  <1>6. CASE UnknownType
    <2> DEFINE c == From(b, 3)
    <2>1. /\ Start > 0 /\ Start < Len(buf) /\ ~TypeAt(Start) /\ buf' = From(buf, Start + 2)
          /\ stream' = stream /\ out' = out /\ busy' = busy
      BY <1>6 DEF UnknownType
    <2>2. 2 <= Len(b) /\ b[2] \notin Types
      BY <1>2, <2>1 DEF TypeAt
    <2>3. From(buf, Start + 2) = c
      <3> DEFINE d == Start - 1
      <3>1. d \in 0..Len(buf) /\ 3 \in 1..(Len(buf) - d + 2) /\ d + 1 = Start /\ d + 3 = Start + 2
        BY <1>1, <2>1
      <3> HIDE DEF d
      <3>2. From(From(buf, d + 1), 3) = From(buf, d + 3)
        BY <1>0, <3>1, TailOfTail
      <3> QED
        BY <3>1, <3>2 DEF b
    <2>4. c \in Seq(Bytes)
      <3>1. 3 \in 1..(Len(b) + 3)
        BY <1>2, <2>1
      <3> QED
        BY <1>2, <2>1, <3>1, Tails
    <2>5. \A z \in Seq(Bytes) : Reference(buf \o z) = Reference(c \o z)
      BY <1>2, <2>1, <2>2, SkipUnknown
    <2> HIDE DEF c
    <2>6. Contained'
      BY <1>0, <2>1, <2>3, <2>4, <2>5, ContainedDrop
    <2> QED
      BY <1>0, <2>1, <2>6 DEF Waits
  <1>7. CASE WholeFrame
    <2> DEFINE at == FrameEnd(b).at
               f == UpTo(b, at - 1)
               c == From(b, at)
    <2>1. /\ TypeAt(Start) /\ FrameEnd(b).is = "whole" /\ out' = Append(out, f) /\ buf' = c
          /\ stream' = stream /\ busy' = busy
      BY <1>7 DEF WholeFrame, b
    <2>2. b \in Seq(Bytes) /\ 2 <= Len(b) /\ b[1] = Esc /\ b[2] \in Types /\ Len(b) \in Nat
      BY <1>2, <1>3, <2>1
    <2>3. f \in AllFrames /\ at \in 1..(Len(b) + 1)
          /\ \A z \in Seq(Bytes) : Reference(b \o z) = <<f>> \o Reference(c \o z)
      <3>1. ASSUME NEW z \in Seq(Bytes)
            PROVE  f \in AllFrames /\ at \in 1..(Len(b) + 1)
                   /\ Reference(b \o z) = <<f>> \o Reference(c \o z)
        BY <2>1, <2>2, TakeFrame
      <3>2. <<>> \in Seq(Bytes)
        OBVIOUS
      <3> HIDE DEF f, at, c
      <3> QED
        BY <3>1, <3>2
    <2>4. c \in Seq(Bytes)
      <3>1. at \in 1..(Len(b) + 3)
        BY <2>2, <2>3
      <3> HIDE DEF at
      <3> QED
        BY <2>2, <3>1, Tails
    <2> HIDE DEF f, at, c
    <2>5. Append(out, f) = out \o <<f>> /\ <<f>> \in Seq(AllFrames) /\ out' \in Seq(AllFrames)
      BY <1>0, <2>1, <2>3, Added
    <2>6. ASSUME NEW z \in Seq(Bytes) PROVE Reference(stream \o z) = out' \o Reference(c \o z)
      <3> DEFINE r == Reference(c \o z)
      <3>1. c \o z \in Seq(Bytes)
        BY <2>4, Joined
      <3>2. r \in Seq(AllFrames)
        BY <3>1, ReferenceType
      <3>3. Reference(stream \o z) = out \o (<<f>> \o r)
        BY <1>0, <1>2, <1>3, <2>1, <2>3
      <3>4. (out \o <<f>>) \o r = out \o (<<f>> \o r)
        <4> HIDE DEF r
        <4> QED
          BY <1>0, <2>5, <3>2, ThreeOuts
      <3> QED
        BY <2>1, <2>5, <3>3, <3>4
    <2>7. Contained'
      BY <1>0, <2>1, <2>4, <2>5, <2>6 DEF Contained
    <2> QED
      BY <1>0, <2>1, <2>7 DEF Waits
  <1>8. CASE NeedsMore
    <2>1. /\ TypeAt(Start) /\ FrameEnd(b).is = "more" /\ buf' = b
          /\ stream' = stream /\ out' = out /\ busy' = FALSE
      BY <1>8 DEF NeedsMore, b
    <2>2. Begun(b)
      BY <1>2, <1>3, <2>1 DEF Begun
    <2>3. Contained'
      BY <1>2, <1>3, <2>1, ContainedDrop
    <2> QED
      BY <2>1, <2>2, <2>3 DEF Waits
  <1>9. CASE Truncated
    <2> DEFINE at == FrameEnd(b).at
               c == From(b, at)
    <2>1. /\ TypeAt(Start) /\ FrameEnd(b).is = "cut" /\ buf' = c
          /\ stream' = stream /\ out' = out /\ busy' = busy
      BY <1>9 DEF Truncated, b
    <2>2. b \in Seq(Bytes) /\ 2 <= Len(b) /\ b[1] = Esc /\ b[2] \in Types /\ Len(b) \in Nat
      BY <1>2, <1>3, <2>1
    <2>3. at \in 1..(Len(b) + 1) /\ \A z \in Seq(Bytes) : Reference(b \o z) = Reference(c \o z)
      <3>1. ASSUME NEW z \in Seq(Bytes)
            PROVE  at \in 1..(Len(b) + 1) /\ Reference(b \o z) = Reference(c \o z)
        BY <2>1, <2>2, CutFrame
      <3>2. <<>> \in Seq(Bytes)
        OBVIOUS
      <3> HIDE DEF at, c
      <3> QED
        BY <3>1, <3>2
    <2>4. c \in Seq(Bytes)
      <3>1. at \in 1..(Len(b) + 3)
        BY <2>2, <2>3
      <3> HIDE DEF at
      <3> QED
        BY <2>2, <3>1, Tails
    <2>5. \A z \in Seq(Bytes) : Reference(buf \o z) = Reference(c \o z)
      BY <1>2, <1>3, <2>1, <2>3
    <2> HIDE DEF at, c
    <2>6. Contained'
      BY <1>0, <2>1, <2>4, <2>5, ContainedDrop
    <2> QED
      BY <1>0, <2>1, <2>6 DEF Waits
  <1> QED
    BY <1>4, <1>5, <1>6, <1>7, <1>8, <1>9 DEF NextFrame

LEMMA ContainedStep ==
  ASSUME Contained, Waits, [Next]_vars
  PROVE  Contained' /\ Waits'
PROOF
  <1>1. CASE \E piece \in Pieces : Push(piece)
    BY <1>1, ContainedPush
  <1>2. CASE NextFrame
    BY <1>2, ContainedNextFrame
  <1>3. CASE UNCHANGED vars
    BY <1>3 DEF vars, Contained, Waits
  <1> QED
    BY <1>1, <1>2, <1>3 DEF Next

LEMMA AlwaysContained == Spec => [](Contained /\ Waits)
PROOF
  <1>1. Contained /\ Waits /\ [Next]_vars => (Contained /\ Waits)'
    BY ContainedStep
  <1> QED
    BY <1>1, ContainedInit, PTL DEF Spec

(* What the buffer waits with is the start of a frame.                     *)
LEMMA SomeFrame == \E f : f \in AllFrames
PROOF
  <1>1. PICK t : t \in Types
    BY FramerAssumption
  <1> DEFINE body == [i \in 1..BodyLen[t] |-> Esc]
  <1>2. body \in Bodies(t)
    BY FramerAssumption DEF Bodies
  <1> HIDE DEF body
  <1>3. CASE t \in Raw
    <2>1. <<Esc, t>> \o body \in RawFrames
      BY <1>2, <1>3 DEF RawFrames
    <2> QED
      BY <2>1 DEF AllFrames
  <1>4. CASE t \notin Raw
    <2>1. Encode(t, body) \in EscapedFrames
      BY <1>1, <1>2, <1>4 DEF EscapedFrames
    <2> QED
      BY <2>1 DEF AllFrames
  <1> QED
    BY <1>3, <1>4

LEMMA BegunIsStart ==
  ASSUME NEW b \in Seq(Bytes), Begun(b)
  PROVE  \E f \in AllFrames : Len(b) < Len(f) /\ \A j \in 1..Len(b) : f[j] = b[j]
PROOF
  <1> DEFINE t == b[2]
             n == BodyLen[t]
  <1>1. 2 <= Len(b) /\ b[1] = Esc /\ t \in Types /\ FrameEnd(b).is = "more"
    BY DEF Begun
  <1>2. n \in Nat /\ t \in Bytes /\ Len(b) \in Nat
    BY <1>1, FramerAssumption
  <1>3. CASE t \notin Raw
    <2>1. FrameEnd(b) = Walk(b)[n]
      BY <1>3 DEF FrameEnd, BodyEnd
    <2>2. Awaited(b, t, n)
      BY <1>1, <1>2, <2>1, WalkPasses
    <2> HIDE DEF n
    <2>3. PICK body \in Seq(Bytes) :
            /\ Len(body) = n /\ Len(b) < Len(Encode(t, body))
            /\ \A i \in 1..Len(b) : Encode(t, body)[i] = b[i]
      BY <2>2 DEF Awaited
    <2>4. body \in Bodies(t)
      BY <2>3 DEF Bodies, n
    <2> HIDE DEF t
    <2>5. Encode(t, body) \in EscapedFrames
      BY <1>1, <1>3, <2>4 DEF EscapedFrames
    <2> QED
      BY <2>3, <2>5 DEF AllFrames
  <1>4. CASE t \in Raw
    <2>1. FrameEnd(b) = [is |-> IF Len(b) < 2 + n THEN "more" ELSE "whole", at |-> 3 + n]
      BY <1>4 DEF FrameEnd, RawEnd
    <2> HIDE DEF n
    <2>2. Len(b) < 2 + n
      BY <1>1, <2>1
    <2> DEFINE body == [i \in 1..n |-> IF 2 + i <= Len(b) THEN b[2 + i] ELSE Esc]
               f == <<Esc, t>> \o body
    <2>3. ASSUME NEW i \in 1..n
          PROVE  (IF 2 + i <= Len(b) THEN b[2 + i] ELSE Esc) \in Bytes
      <3>1. CASE 2 + i <= Len(b)
        <4>1. 2 + i \in 1..Len(b)
          BY <1>2, <3>1
        <4> QED
          BY <3>1, <4>1
      <3>2. CASE ~(2 + i <= Len(b))
        BY <3>2, FramerAssumption
      <3> QED
        BY <3>1, <3>2
    <2>4. /\ body \in [1..n -> Bytes]
          /\ \A i \in 1..n : 2 + i <= Len(b) => body[i] = b[2 + i]
      BY <2>3
    <2> HIDE DEF body
    <2>5. body \in Bodies(t)
      BY <2>4 DEF Bodies, n
    <2>6. body \in Seq(Bytes) /\ Len(body) = n
      BY <1>2, <2>4
    <2> HIDE DEF t
    <2>7. /\ f \in Seq(Bytes) /\ Len(f) = 2 + n /\ f[1] = Esc /\ f[2] = t
          /\ \A i \in 1..n : f[2 + i] = body[i]
      BY <1>2, <2>6, AsIsBytes
    <2>8. f \in AllFrames
      <3>1. f \in RawFrames
        BY <1>4, <2>5 DEF RawFrames
      <3> QED
        BY <3>1 DEF AllFrames
    <2> HIDE DEF f
    <2>9. ASSUME NEW j \in 1..Len(b) PROVE f[j] = b[j]
      <3>1. CASE j = 1 \/ j = 2
        BY <1>1, <2>7, <3>1 DEF t
      <3>2. CASE j > 2
        <4> DEFINE i == j - 2
        <4>1. i \in 1..n /\ 2 + i = j /\ 2 + i <= Len(b)
          BY <1>2, <2>2, <2>9, <3>2
        <4> HIDE DEF i
        <4>2. f[2 + i] = body[i] /\ body[i] = b[2 + i]
          BY <2>4, <2>7, <4>1
        <4> QED
          BY <4>1, <4>2
      <3> QED
        BY <2>9, <3>1, <3>2
    <2>10. Len(b) < Len(f)
      BY <2>2, <2>7
    <2> QED
      BY <2>8, <2>9, <2>10
  <1> QED
    BY <1>3, <1>4

(* However the stream is cut into reads, the frames that have been         *)
(* returned when feed stops asking are those of the stream as a whole, of  *)
(* any length and with any frame types (beast.rs:67-112,                   *)
(* ingest.rs:121-126).                                                     *)
THEOREM AnyChunks == Spec => []ChunksDoNotMatter
PROOF
  <1>1. Contained /\ Waits => ChunksDoNotMatter
    <2> SUFFICES ASSUME Contained, Waits, ~busy PROVE out = Reference(stream)
      BY DEF ChunksDoNotMatter
    <2>1. buf \in Seq(Bytes) /\ stream \in Seq(Bytes) /\ out \in Seq(AllFrames)
      BY DEF Contained
    <2> DEFINE none == <<>>
    <2>2. none \in Seq(Bytes) /\ buf \o none = buf /\ stream \o none = stream
      BY <2>1, ConcatEmptySeq
    <2> HIDE DEF none
    <2>3. Reference(stream) = out \o Reference(buf)
      BY <2>2 DEF Contained
    <2>4. Reference(buf) = <<>>
      <3>1. CASE Clean(buf)
        BY <2>1, <3>1, NothingWaits DEF Clean
      <3>2. CASE buf = <<Esc>>
        <4>1. Len(buf) = 1
          BY <3>2
        <4> QED
          BY <2>1, <4>1, NothingWaits
      <3>3. CASE Begun(buf)
        BY <2>1, <3>3, NothingWaits DEF Begun
      <3> QED
        BY <3>1, <3>2, <3>3 DEF Waits
    <2>5. out \o <<>> = out
      BY <2>1, ConcatEmptySeq
    <2> QED
      BY <2>3, <2>4, <2>5
  <1> QED
    BY <1>1, AlwaysContained, PTL

(* Every frame that is returned is one that the encoder writes, and what   *)
(* the readers make of it is what was encoded (beast.rs:131-152,           *)
(* ingest.rs:365-384).                                                     *)
THEOREM EveryFrameDecodesBack == Spec => []DecodesBack
PROOF
  <1>1. Contained => DecodesBack
    <2> SUFFICES ASSUME Contained, NEW i \in DOMAIN out, out[i][2] \notin Raw
                 PROVE  /\ Len(Unescaped(out[i])) = BodyLen[out[i][2]]
                        /\ Encode(out[i][2], Unescaped(out[i])) = out[i]
                        /\ out[i][2] \in Messages =>
                             Payload(out[i]) = From(Unescaped(out[i]), Header + 1)
      BY DEF DecodesBack
    <2> DEFINE f == out[i]
    <2>1. f \in AllFrames
      <3>1. out \in Seq(AllFrames)
        BY DEF Contained
      <3> QED
        BY <3>1
    <2> HIDE DEF f
    <2>2. f[2] \notin Raw
      BY DEF f
    <2>3. PICK t \in Types : \/ t \in Types \ Raw /\ \E body \in Bodies(t) : f = Encode(t, body)
                             \/ t \in Raw /\ \E body \in Bodies(t) : f = <<Esc, t>> \o body
      BY <2>1, FrameKinds
    <2>4. PICK body \in Bodies(t) : f = Encode(t, body)
      <3>1. ASSUME NEW body \in Bodies(t), f = <<Esc, t>> \o body PROVE f[2] = t
        BY <3>1, BodyBytes, AsIsBytes
      <3> QED
        BY <2>2, <2>3, <3>1
    <2>5. f[2] = t /\ Len(body) = BodyLen[t]
      BY <2>4, BodyBytes, EncodeBytes
    <2>6. Unescaped(f) = body /\ Payload(f) = From(body, Header + 1)
      BY <2>4, ReadersAgree
    <2>7. /\ Len(Unescaped(f)) = BodyLen[f[2]]
          /\ Encode(f[2], Unescaped(f)) = f
          /\ Payload(f) = From(Unescaped(f), Header + 1)
      BY <2>4, <2>5, <2>6
    <2> QED
      BY <2>7 DEF f
  <1> QED
    BY <1>1, AlwaysContained, PTL

(* Between reads the buffer holds no escape, or the start of a frame from  *)
(* its first byte on (beast.rs:76-117).                                    *)
THEOREM OnlyAStart == Spec => []OnlyAStartIsKept
PROOF
  <1>1. Contained /\ Waits => OnlyAStartIsKept
    <2> SUFFICES ASSUME Contained, Waits, ~busy, NEW i \in DOMAIN buf, buf[i] = Esc
                 PROVE  \E f \in AllFrames : IsPrefix(buf, f) /\ buf # f
      BY DEF OnlyAStartIsKept
    <2>1. buf \in Seq(Bytes) /\ Len(buf) \in Nat /\ i \in 1..Len(buf)
      BY DEF Contained
    <2>2. ~Clean(buf)
      BY <2>1 DEF Clean
    <2>3. ASSUME NEW f \in AllFrames, Len(buf) < Len(f), \A j \in 1..Len(buf) : f[j] = buf[j]
          PROVE  IsPrefix(buf, f) /\ buf # f
      <3>1. f \in Seq(Bytes) /\ Len(f) \in Nat
        BY FrameShape
      <3>2. Len(buf) <= Len(f) /\ \A j \in 1..Len(buf) : buf[j] = f[j]
        BY <2>1, <2>3, <3>1
      <3>3. buf # f
        BY <2>1, <2>3, <3>1
      <3> QED
        BY <2>1, <3>1, <3>2, <3>3, PrefixBytes
    <2>4. CASE buf = <<Esc>>
      <3>1. PICK f : f \in AllFrames
        BY SomeFrame
      <3>2. f \in Seq(Bytes) /\ 3 <= Len(f) /\ Len(f) \in Nat /\ f[1] = Esc
        BY <3>1, FrameShape
      <3>3. Len(buf) = 1 /\ buf[1] = Esc
        BY <2>4
      <3>4. Len(buf) < Len(f) /\ \A j \in 1..Len(buf) : f[j] = buf[j]
        BY <3>2, <3>3
      <3> QED
        BY <2>3, <3>1, <3>4
    <2>5. CASE Begun(buf)
      <3>1. \E f \in AllFrames : Len(buf) < Len(f) /\ \A j \in 1..Len(buf) : f[j] = buf[j]
        BY <2>1, <2>5, BegunIsStart
      <3> QED
        BY <2>3, <3>1
    <2> QED
      BY <2>2, <2>4, <2>5 DEF Waits
  <1> QED
    BY <1>1, AlwaysContained, PTL

-----------------------------------------------------------------------------
(* The scan is never thrown off: it cannot step over the point p where a   *)
(* frame starts, as long as an odd number of escapes before it does not    *)
(* hide that one.                                                          *)
OddEscapes(s, i, p) == i < p /\ (\A j \in i..(p - 1) : s[j] = Esc) /\ (p - i) % 2 = 1
Aligned(s, i, p) == i \in 1..p /\ ~OddEscapes(s, i, p)
Fair(s, p) ==
  /\ \A k \in 1..(p - 1) : (k = 1 \/ s[k - 1] # Esc) => ~OddEscapes(s, k, p)
  /\ \A i \in (1..(p - 1)) \ {1} : s[i - 1] = Esc => s[i] \notin Raw

LEMMA AlignedOn ==
  ASSUME NEW s \in Seq(Bytes), NEW p \in 1..Len(s), Fair(s, p), NEW i \in 1..(p - 1),
         Aligned(s, i, p)
  PROVE  /\ s[i] # Esc => Aligned(s, i + 1, p)
         /\ s[i] = Esc => i + 1 < p /\ Aligned(s, i + 2, p)
PROOF
  <1>1. p \in Nat /\ i \in Nat /\ i < p /\ 1 <= i
    OBVIOUS
  <1>2. ASSUME s[i] # Esc, OddEscapes(s, i + 1, p) PROVE FALSE
    <2>1. i + 1 \in 1..(p - 1) /\ (i + 1) - 1 = i
      BY <1>1, <1>2 DEF OddEscapes
    <2> QED
      BY <1>2, <2>1 DEF Fair
  <1>3. ASSUME s[i] = Esc PROVE i + 1 < p
    <2>1. CASE i + 1 = p
      <3>1. p - i = 1 /\ \A j \in i..(p - 1) : j = i
        BY <1>1, <2>1
      <3>2. (p - i) % 2 = 1
        BY <3>1
      <3>3. OddEscapes(s, i, p)
        BY <1>1, <1>3, <3>1, <3>2 DEF OddEscapes
      <3> QED
        BY <3>3 DEF Aligned
    <2> QED
      BY <1>1, <2>1
  <1>4. ASSUME s[i] = Esc, OddEscapes(s, i + 2, p) PROVE FALSE
    <2>1. i + 2 \in 1..(p - 1) /\ (i + 2) - 1 = i + 1
      BY <1>1, <1>4 DEF OddEscapes
    <2>2. CASE s[i + 1] # Esc
      BY <1>4, <2>1, <2>2 DEF Fair
    <2>3. CASE s[i + 1] = Esc
      <3>1. \A j \in i..(p - 1) : j = i \/ j = i + 1 \/ j \in (i + 2)..(p - 1)
        BY <1>1
      <3>2. \A j \in i..(p - 1) : s[j] = Esc
        BY <1>4, <2>3, <3>1 DEF OddEscapes
      <3>3. (p - (i + 2)) % 2 = 1
        BY <1>4 DEF OddEscapes
      <3>4. (p - i) % 2 = 1
        BY <1>1, <3>3
      <3>5. OddEscapes(s, i, p)
        BY <1>1, <3>2, <3>4 DEF OddEscapes
      <3> QED
        BY <3>5 DEF Aligned
    <2> QED
      BY <2>2, <2>3
  <1>5. i + 1 \in 1..p
    BY <1>1
  <1>6. s[i] = Esc => i + 2 \in 1..p
    BY <1>1, <1>3
  <1> QED
    BY <1>2, <1>3, <1>4, <1>5, <1>6 DEF Aligned

LEMMA WalkAligned ==
  ASSUME NEW s \in Seq(Bytes), NEW p \in 1..(Len(s) - 1), Fair(s, p),
         s[p] = Esc, s[p + 1] # Esc,
         NEW i \in 1..(p - 1), Aligned(s, i, p), s[i] = Esc
  PROVE  \A k \in Nat : Walk(From(s, i))[k].is = "whole" =>
                          Aligned(s, i - 1 + Walk(From(s, i))[k].at, p)
PROOF
  <1> DEFINE u == From(s, i)
             w == Walk(u)
             T == {k \in Nat : w[k].is = "whole" => Aligned(s, i - 1 + w[k].at, p)}
  <1>1. /\ u \in Seq(Bytes) /\ Len(u) = Len(s) + 1 - i
        /\ \A j \in 1..Len(u) : u[j] = s[i + j - 1]
    <2>1. i \in 1..(Len(s) + 3) /\ i <= Len(s)
      OBVIOUS
    <2> QED
      BY <2>1, Tails
  <1>2. Len(s) \in Nat /\ p \in Nat /\ i \in Nat /\ p \in 1..Len(s) /\ i < p /\ p < Len(s)
    OBVIOUS
  <1> HIDE DEF u
  <1>3. 2 <= Len(u) /\ Len(u) \in Nat
    BY <1>1, <1>2
  <1>4. w[0] = End("whole", 3) /\ \A k \in Nat : w[k + 1] = Onward(u, w[k])
    BY WalkDef DEF End
  <1>5. \A k \in Nat : Sound(u, w[k])
    BY <1>1, <1>3, WalkSound
  <1> HIDE DEF w
  <1>6. 0 \in T
    <2>1. Aligned(s, i + 2, p)
      BY <1>2, AlignedOn
    <2>2. w[0].at = 3 /\ i - 1 + 3 = i + 2
      BY <1>2, <1>4, EndParts
    <2> QED
      BY <2>1, <2>2
  <1>7. ASSUME NEW k \in Nat, k \in T PROVE k + 1 \in T
    <2> SUFFICES ASSUME w[k + 1].is = "whole" PROVE Aligned(s, i - 1 + w[k + 1].at, p)
      OBVIOUS
    <2> DEFINE at == w[k].at
               q == i - 1 + at
    <2>1. w[k].is = "whole"
      BY <1>4, OnwardStays
    <2>2. w[k] = End("whole", at) /\ at \in Nat \ {0} /\ at \in 3..(Len(u) + 1)
      BY <1>5, <2>1, EndIs DEF Sound, Ends
    <2>3. Aligned(s, q, p)
      BY <1>7, <2>1
    <2> HIDE DEF at
    <2>4. w[k + 1] = Onward(u, End("whole", at))
      BY <1>4, <2>2
    <2>5. q \in 1..p /\ q \in Nat
      BY <1>2, <2>3 DEF Aligned
    <2>6. at \in 1..Len(u) /\ at < Len(u) /\ at + 1 \in 1..Len(u)
      <3>1. at \in Nat /\ 3 <= at /\ Len(u) = Len(s) + 1 - i
        BY <1>1, <2>2
      <3>2. i - 1 + at <= p
        BY <2>5
      <3>3. at < Len(u)
        BY <1>2, <3>1, <3>2
      <3> QED
        BY <1>3, <3>1, <3>3
    <2>7. u[at] = s[q] /\ u[at + 1] = s[q + 1]
      <3>1. i + at - 1 = q /\ i + (at + 1) - 1 = q + 1
        <4>1. at \in Nat
          BY <2>2
        <4> QED
          BY <1>2, <4>1
      <3> HIDE DEF q
      <3> QED
        BY <1>1, <2>6, <3>1
    <2> DEFINE on == q + 1
               far == q + 2
    <2>8. on = i - 1 + (at + 1) /\ far = i - 1 + (at + 2)
      BY <1>2, <2>2
    <2>13. at <= Len(u)
      BY <1>3, <2>2, <2>6
    <2> HIDE DEF q
    <2>9. CASE q = p
      <3>1. u[at] = Esc /\ u[at + 1] # Esc
        BY <2>7, <2>9
      <3>2. w[k + 1] = End("cut", at)
        BY <1>1, <2>2, <2>4, <2>6, <3>1, OnwardCases
      <3> QED
        BY <3>2, EndParts
    <2>10. CASE q # p /\ s[q] # Esc
      <3>1. q \in 1..(p - 1)
        BY <1>2, <2>5, <2>10
      <3>2. Aligned(s, on, p)
        BY <1>2, <2>3, <2>10, <3>1, AlignedOn
      <3>3. w[k + 1] = End("whole", at + 1)
        BY <1>1, <2>2, <2>4, <2>7, <2>10, <2>13, OnwardCases
      <3> HIDE DEF on
      <3> QED
        BY <2>8, <3>2, <3>3, EndParts
    <2>11. CASE q # p /\ s[q] = Esc
      <3>1. q \in 1..(p - 1)
        BY <1>2, <2>5, <2>11
      <3>2. Aligned(s, far, p)
        BY <1>2, <2>3, <2>11, <3>1, AlignedOn
      <3>3. CASE u[at + 1] = Esc
        <4>1. w[k + 1] = End("whole", at + 2)
          BY <1>1, <2>2, <2>4, <2>6, <2>7, <2>11, <3>3, OnwardCases
        <4> HIDE DEF far
        <4> QED
          BY <2>8, <3>2, <4>1, EndParts
      <3>4. CASE u[at + 1] # Esc
        <4>1. w[k + 1] = End("cut", at)
          BY <1>1, <2>2, <2>4, <2>6, <2>7, <2>11, <3>4, OnwardCases
        <4> QED
          BY <4>1, EndParts
      <3> QED
        BY <3>3, <3>4
    <2> QED
      BY <2>9, <2>10, <2>11
  <1>8. Nat \subseteq T
    <2> HIDE DEF T
    <2> QED
      BY <1>6, <1>7, Induction
  <1> QED
    BY <1>8 DEF w, u

LEMMA FoundIs ==
  ASSUME NEW s \in Seq(Bytes), NEW i \in 1..Len(s), NEW f \in FramesAt(s, i)
  PROVE  /\ Found(s, i) = f
         /\ FrameEnd(From(s, i)).is = "whole" /\ FrameEnd(From(s, i)).at = Len(f) + 1
         /\ From(s, i)[2] = f[2]
PROOF
  <1> DEFINE u == From(s, i)
  <1>1. u \in Seq(Bytes)
    <2>1. i \in 1..(Len(s) + 3)
      OBVIOUS
    <2> QED
      BY <2>1, Tails
  <1>2. \A g \in FramesAt(s, i) : g \in AllFrames /\ IsPrefix(g, u) /\ g \in Seq(Bytes)
    BY FrameShape DEF FramesAt
  <1> HIDE DEF u
  <1>3. \A g \in FramesAt(s, i) :
          /\ FrameEnd(u).is = "whole" /\ FrameEnd(u).at = Len(g) + 1 /\ u[2] = g[2]
          /\ g = UpTo(u, Len(g)) /\ Len(g) \in Nat
    BY <1>1, <1>2, FrameEnds
  <1>4. ASSUME NEW g \in FramesAt(s, i) PROVE g = f
    <2>1. Len(g) + 1 = Len(f) + 1 /\ Len(g) \in Nat /\ Len(f) \in Nat
      BY <1>3
    <2>2. Len(g) = Len(f)
      BY <2>1
    <2> QED
      BY <1>3, <2>2
  <1>5. Found(s, i) = f
    BY <1>4 DEF Found
  <1> QED
    BY <1>3, <1>5 DEF u

EndsIn(x, f) == x \in Seq(AllFrames) /\ x # <<>> /\ Last(x) = f
LEMMA EndsInAfter ==
  ASSUME NEW f, NEW x, EndsIn(x, f), NEW g \in AllFrames
  PROVE  EndsIn(<<g>> \o x, f)
PROOF
  <1>1. x \in Seq(AllFrames) /\ x # <<>> /\ x[Len(x)] = f
    BY DEF EndsIn, Last
  <1>2. Len(x) \in Nat /\ Len(x) # 0
    BY <1>1
  <1> DEFINE y == <<g>> \o x
  <1>3. y \in Seq(AllFrames) /\ Len(y) = 1 + Len(x)
    BY <1>1
  <1>4. y[Len(y)] = x[Len(x)]
    BY <1>1, <1>2, <1>3
  <1> HIDE DEF y
  <1>5. y # <<>>
    BY <1>2, <1>3
  <1> QED
    BY <1>1, <1>3, <1>4, <1>5 DEF EndsIn, Last, y

LEMMA ResyncScan ==
  ASSUME NEW s \in Seq(Bytes), NEW f \in AllFrames, NEW p \in 1..Len(s),
         p + Len(f) = Len(s) + 1, \A j \in 1..Len(f) : s[p + j - 1] = f[j], Fair(s, p)
  PROVE  EndsIn(Reference(s), f)
PROOF
  <1> DEFINE D == 1..p
             rank == [i \in D |-> p - i]
             T == {i \in D : Aligned(s, i, p) => EndsIn(Scan(s)[i], f)}
  <1>1. /\ f \in Seq(Bytes) /\ 3 <= Len(f) /\ Len(f) \in Nat /\ f[1] = Esc /\ f[2] \in Types
        /\ Len(s) \in Nat /\ p \in Nat
    BY FrameShape
  <1>2. p \in 1..(Len(s) - 1) /\ p + 1 - 1 = p /\ p + 2 - 1 = p + 1 /\ 1 \in 1..Len(f) /\ 2 \in 1..Len(f)
    BY <1>1
  <1>3. s[p] = Esc /\ s[p + 1] # Esc
    <2>1. s[p] = f[1] /\ s[p + 1] = f[2]
      BY <1>2
    <2> QED
      BY <1>1, <2>1, FramerAssumption
  <1>4. EndsIn(Scan(s)[p], f)
    <2> DEFINE u == From(s, p)
    <2>1. /\ u \in Seq(Bytes) /\ Len(u) = Len(s) + 1 - p
          /\ \A j \in 1..Len(u) : u[j] = s[p + j - 1]
      <3>1. p \in 1..(Len(s) + 3) /\ p <= Len(s)
        BY <1>1
      <3> QED
        BY <3>1, Tails
    <2> HIDE DEF u
    <2>2. Len(f) <= Len(u) /\ \A j \in 1..Len(f) : j \in 1..Len(u)
      BY <1>1, <2>1
    <2>3. \A j \in 1..Len(f) : f[j] = u[j]
      BY <2>1, <2>2
    <2>4. f \in FramesAt(s, p)
      <3>1. IsPrefix(f, u)
        BY <1>1, <2>1, <2>2, <2>3, PrefixBytes
      <3> QED
        BY <3>1 DEF FramesAt, u
    <2>5. Found(s, p) = f
      BY <2>4, FoundIs
    <2>6. Scan(s)[p] = <<f>> \o Scan(s)[p + Len(f)]
      BY <2>4, <2>5, ScanFrame
    <2>7. Scan(s)[p + Len(f)] = <<>>
      BY ScanPastEnd
    <2>8. <<f>> \o <<>> = <<f>> /\ <<f>> \in Seq(AllFrames) /\ <<f>> # <<>> /\ Last(<<f>>) = f
      BY DEF Last
    <2> QED
      BY <2>6, <2>7, <2>8 DEF EndsIn
  <1>5. rank \in [D -> Nat]
    BY <1>1
  <1>6. ASSUME NEW i \in D, \A j \in D : rank[j] < rank[i] => j \in T
        PROVE  i \in T
    <2> SUFFICES ASSUME Aligned(s, i, p) PROVE EndsIn(Scan(s)[i], f)
      OBVIOUS
    <2>1. ASSUME NEW j \in Nat, i < j, Aligned(s, j, p) PROVE EndsIn(Scan(s)[j], f)
      <3>1. j \in D
        BY <2>1 DEF Aligned
      <3>2. rank[j] < rank[i]
        BY <1>1, <2>1, <3>1
      <3> QED
        BY <1>6, <2>1, <3>1, <3>2
    <2>2. CASE i = p
      BY <1>4, <2>2
    <2>3. CASE i # p
      <3>1. i \in 1..(p - 1) /\ i \in 1..Len(s) /\ i \in Nat /\ i < Len(s)
        BY <1>1, <2>3
      <3> HIDE DEF T, rank, D
      <3>2. CASE s[i] # Esc
        <4>1. Scan(s)[i] = Scan(s)[i + 1]
          BY <3>1, <3>2, ScanOn
        <4>2. Aligned(s, i + 1, p)
          BY <3>1, <3>2, AlignedOn
        <4>3. i + 1 \in Nat /\ i < i + 1
          BY <3>1
        <4> QED
          BY <2>1, <4>1, <4>2, <4>3
      <3>3. CASE s[i] = Esc
        <4>1. i + 1 < p /\ Aligned(s, i + 2, p)
          BY <3>1, <3>3, AlignedOn
        <4>2. s[i + 1] \notin Raw
          <5>1. i + 1 \in (1..(p - 1)) \ {1} /\ (i + 1) - 1 = i
            BY <1>1, <3>1, <4>1
          <5> QED
            BY <3>3, <5>1 DEF Fair
        <4>3. CASE FramesAt(s, i) = {}
          <5>1. Scan(s)[i] = Scan(s)[i + 2]
            BY <3>1, <3>3, <4>2, <4>3, ScanOn
          <5>2. i + 2 \in Nat /\ i < i + 2
            BY <3>1
          <5> QED
            BY <2>1, <4>1, <5>1, <5>2
        <4>4. CASE FramesAt(s, i) # {}
          <5> DEFINE g == Found(s, i)
                     u == From(s, i)
                     n == BodyLen[u[2]]
                     to == i + Len(g)
          <5>1. g \in FramesAt(s, i) /\ Scan(s)[i] = <<g>> \o Scan(s)[to]
            BY <3>1, <4>4, ScanFrame
          <5> HIDE DEF g
          <5>2. /\ g \in AllFrames /\ g \in Seq(Bytes) /\ 3 <= Len(g) /\ Len(g) \in Nat
                /\ s[i + 1] = g[2] /\ g[2] \in Types
            BY <3>1, <5>1, FrameAtBytes
          <5>3. FrameEnd(u).is = "whole" /\ FrameEnd(u).at = Len(g) + 1 /\ u[2] = g[2]
            BY <3>1, <5>1, FoundIs
          <5>4. n \in Nat /\ u[2] \notin Raw
            BY <4>2, <5>2, <5>3, FramerAssumption
          <5>5. FrameEnd(u) = Walk(u)[n]
            BY <5>4 DEF FrameEnd, BodyEnd
          <5> HIDE DEF n
          <5>6. Aligned(s, i - 1 + Walk(u)[n].at, p)
            BY <1>2, <1>3, <3>1, <3>3, <5>3, <5>4, <5>5, WalkAligned
          <5>7. i - 1 + (Len(g) + 1) = to /\ to \in Nat /\ i < to
            BY <3>1, <5>2
          <5> HIDE DEF to, u
          <5>8. Aligned(s, to, p)
            BY <5>3, <5>5, <5>6, <5>7
          <5>9. EndsIn(Scan(s)[to], f)
            BY <2>1, <5>7, <5>8
          <5> QED
            BY <5>1, <5>2, <5>9, EndsInAfter
        <4> QED
          BY <4>3, <4>4
      <3> QED
        BY <3>2, <3>3
    <2> QED
      BY <2>2, <2>3
  <1>7. D \subseteq T
    <2> HIDE DEF D, rank, T
    <2> QED
      BY <1>5, <1>6, RankInduction
  <1>8. Aligned(s, 1, p)
    <2>1. ASSUME OddEscapes(s, 1, p) PROVE FALSE
      <3>1. 1 \in 1..(p - 1)
        BY <1>1, <2>1 DEF OddEscapes
      <3> QED
        BY <2>1, <3>1 DEF Fair
    <2> QED
      BY <1>1, <2>1 DEF Aligned
  <1> QED
    BY <1>1, <1>7, <1>8 DEF Reference

LEMMA SuffixBytes ==
  ASSUME NEW f \in Seq(Bytes), NEW s \in Seq(Bytes), IsSuffix(f, s)
  PROVE  Len(f) <= Len(s) /\ \A j \in 1..Len(f) : s[Len(s) - Len(f) + j] = f[j]
PROOF
  <1>1. /\ Reverse(f) \in Seq(Bytes) /\ Len(Reverse(f)) = Len(f)
        /\ \A i \in 1..Len(f) : Reverse(f)[i] = f[Len(f) - i + 1]
    BY DEF Reverse
  <1>2. /\ Reverse(s) \in Seq(Bytes) /\ Len(Reverse(s)) = Len(s)
        /\ \A i \in 1..Len(s) : Reverse(s)[i] = s[Len(s) - i + 1]
    BY DEF Reverse
  <1> DEFINE rf == Reverse(f)
             rs == Reverse(s)
  <1>3. IsPrefix(rf, rs)
    BY DEF IsSuffix
  <1>4. Len(f) <= Len(s) /\ \A i \in 1..Len(f) : rf[i] = rs[i]
    BY <1>1, <1>2, <1>3, PrefixBytes
  <1> HIDE DEF rf, rs
  <1>5. ASSUME NEW j \in 1..Len(f) PROVE s[Len(s) - Len(f) + j] = f[j]
    <2> DEFINE i == Len(f) - j + 1
    <2>1. i \in 1..Len(f) /\ i \in 1..Len(s)
      BY <1>4
    <2>2. Len(f) - i + 1 = j /\ Len(s) - i + 1 = Len(s) - Len(f) + j
      BY <1>4
    <2> HIDE DEF i
    <2>3. rf[i] = f[Len(f) - i + 1] /\ rs[i] = s[Len(s) - i + 1]
      BY <1>1, <1>2, <2>1 DEF rf, rs
    <2> QED
      BY <1>4, <2>1, <2>2, <2>3
  <1> QED
    BY <1>4, <1>5

(* What comes before a frame at p does not swallow its escape byte.        *)
LEMMA FairBefore ==
  ASSUME NEW s \in Seq(Bytes), NEW p \in 1..Len(s),
         ~EndsInEscape(UpTo(s, p - 1)),
         \A i \in DOMAIN UpTo(s, p - 1) \ {1} :
           UpTo(s, p - 1)[i - 1] = Esc => UpTo(s, p - 1)[i] \notin Raw
  PROVE  Fair(s, p)
PROOF
  <1> DEFINE before == UpTo(s, p - 1)
  <1>1. Len(before) = p - 1 /\ DOMAIN before = 1..(p - 1)
    BY DEF UpTo
  <1>2. \A i \in 1..(p - 1) : before[i] = s[i]
    BY DEF UpTo
  <1> HIDE DEF before
  <1>3. ASSUME NEW i \in (1..(p - 1)) \ {1}, s[i - 1] = Esc PROVE s[i] \notin Raw
    <2>1. i - 1 \in 1..(p - 1)
      OBVIOUS
    <2>2. before[i - 1] = Esc /\ before[i] = s[i]
      BY <1>2, <1>3, <2>1
    <2>3. i \in DOMAIN before \ {1}
      BY <1>1
    <2>4. before[i] \notin Raw
      BY <2>2, <2>3 DEF before
    <2> QED
      BY <2>2, <2>4
  <1>4. ASSUME NEW k \in 1..(p - 1), k = 1 \/ s[k - 1] # Esc, OddEscapes(s, k, p)
        PROVE  FALSE
    <2>1. \A i \in k..(p - 1) : before[i] = Esc
      BY <1>2, <1>4 DEF OddEscapes
    <2>2. k = 1 \/ before[k - 1] # Esc
      <3>1. CASE k = 1
        BY <3>1
      <3>2. CASE k # 1
        <4>1. k - 1 \in 1..(p - 1)
          BY <3>2
        <4> QED
          BY <1>2, <1>4, <4>1
      <3> QED
        BY <3>1, <3>2
    <2>3. (p - 1 - k) % 2 = 0
      BY <1>4 DEF OddEscapes
    <2>4. EndsInEscape(before)
      <3> DEFINE n == Len(before)
      <3>1. n = p - 1
        BY <1>1
      <3> HIDE DEF n
      <3>2. \A i \in k..n : before[i] = Esc
        BY <2>1, <3>1
      <3>3. (n - k) % 2 = 0
        BY <2>3, <3>1
      <3>4. k \in DOMAIN before
        BY <1>1, <1>4
      <3> QED
        BY <2>2, <3>2, <3>3, <3>4, Zenon DEF EndsInEscape, n
    <2> QED
      BY <2>4 DEF before
  <1> QED
    BY <1>3, <1>4 DEF Fair

(* A whole frame is the last one that has been returned when its last byte *)
(* has been read, whatever junk and truncated frames came before it,       *)
(* unless they end in half an escape or hold the start of a raw frame: the *)
(* framer loses at most the frame that was cut (beast.rs:84-104).          *)
THEOREM ResyncsAfterAnything == Spec => []ResyncsAtNextFrame
PROOF
  <1>1. Contained /\ ChunksDoNotMatter => ResyncsAtNextFrame
    <2> SUFFICES ASSUME Contained, ChunksDoNotMatter, ~busy, NEW f \in AllFrames,
                        IsSuffix(f, stream),
                        ~EndsInEscape(UpTo(stream, Len(stream) - Len(f))),
                        \A i \in DOMAIN UpTo(stream, Len(stream) - Len(f)) \ {1} :
                          UpTo(stream, Len(stream) - Len(f))[i - 1] = Esc =>
                            UpTo(stream, Len(stream) - Len(f))[i] \notin Raw
                 PROVE  out # <<>> /\ Last(out) = f
      BY DEF ResyncsAtNextFrame
    <2>1. stream \in Seq(Bytes) /\ out = Reference(stream)
      BY DEF Contained, ChunksDoNotMatter
    <2>3. f \in Seq(Bytes) /\ 1 <= Len(f)
      BY FrameShape
    <2>4. Len(f) <= Len(stream) /\ \A j \in 1..Len(f) : stream[Len(stream) - Len(f) + j] = f[j]
      BY <2>1, <2>3, SuffixBytes
    <2> DEFINE p == Len(stream) - Len(f) + 1
    <2>5. p \in 1..Len(stream) /\ p + Len(f) = Len(stream) + 1 /\ Len(stream) - Len(f) = p - 1
      BY <2>1, <2>3, <2>4
    <2>6. ASSUME NEW j \in 1..Len(f) PROVE stream[p + j - 1] = f[j]
      <3>1. p + j - 1 = Len(stream) - Len(f) + j
        BY <2>1, <2>3, <2>4
      <3> QED
        BY <2>4, <3>1
    <2> HIDE DEF p
    <2>7. Fair(stream, p)
      BY <2>1, <2>5, FairBefore
    <2>8. EndsIn(Reference(stream), f)
      BY <2>1, <2>5, <2>6, <2>7, ResyncScan
    <2> QED
      BY <2>1, <2>8 DEF EndsIn
  <1> QED
    BY <1>1, AlwaysContained, AnyChunks, PTL

-----------------------------------------------------------------------------
(* A body without an escape, before the start of the next frame: the walk  *)
(* takes it byte by byte.                                                  *)
LEMMA WalkPlain ==
  ASSUME NEW s \in Seq(Bytes), NEW n \in Nat, 2 + n <= Len(s),
         \A j \in 1..n : s[2 + j] # Esc
  PROVE  Walk(s)[n] = [is |-> "whole", at |-> 3 + n]
PROOF
  <1> DEFINE T == {k \in Nat : k <= n => Walk(s)[k] = End("whole", 3 + k)}
  <1>1. 0 \in T
    BY WalkDef DEF End
  <1>2. ASSUME NEW k \in Nat, k \in T PROVE k + 1 \in T
    <2> SUFFICES ASSUME k + 1 <= n PROVE Walk(s)[k + 1] = End("whole", 3 + (k + 1))
      OBVIOUS
    <2>1. Walk(s)[k] = End("whole", 3 + k)
      BY <1>2
    <2>2. Walk(s)[k + 1] = Onward(s, End("whole", 3 + k))
      BY <2>1, WalkDef
    <2>3. s[3 + k] # Esc /\ 3 + k <= Len(s)
      <3>1. k + 1 \in 1..n /\ 2 + (k + 1) = 3 + k
        OBVIOUS
      <3> QED
        BY <3>1
    <2>4. ~(3 + k > Len(s) \/ (3 + k = Len(s) /\ s[3 + k] = Esc))
      BY <2>3
    <2>5. Onward(s, End("whole", 3 + k)) = End("whole", (3 + k) + 1)
      BY <2>3, <2>4 DEF Onward, End
    <2>6. (3 + k) + 1 = 3 + (k + 1)
      OBVIOUS
    <2> QED
      BY <2>2, <2>5, <2>6
  <1> HIDE DEF T
  <1>3. Nat \subseteq T
    BY <1>1, <1>2, Induction
  <1> QED
    BY <1>3 DEF T, End

LEMMA SentAsIs ==
  ASSUME NEW t \in Types, NEW body \in Bodies(t), NEW following \in Types
  PROVE  PlainArrives(t, body, following)
PROOF
  <1> DEFINE n == BodyLen[t]
             f == AsIs(t, body)
             next == <<Esc, following>>
             s == f \o next
  <1> SUFFICES ASSUME t \notin Raw, \A i \in DOMAIN body : body[i] # Esc
               PROVE  FrameEnd(s) = [is |-> "whole", at |-> Len(f) + 1]
    BY DEF PlainArrives, Framed
  <1>1. n \in Nat /\ body \in Seq(Bytes) /\ Len(body) = n /\ DOMAIN body = 1..n
    BY FramerAssumption DEF Bodies
  <1>2. /\ f \in Seq(Bytes) /\ Len(f) = 2 + n /\ f[1] = Esc /\ f[2] = t
        /\ \A i \in 1..n : f[2 + i] = body[i]
    BY <1>1, AsIsBytes, FramerAssumption DEF AsIs
  <1>3. next \in Seq(Bytes)
    BY FramerAssumption
  <1> HIDE DEF f, next, n
  <1>4. /\ s \in Seq(Bytes) /\ Len(s) >= 2 + n
        /\ \A i \in 1..(2 + n) : s[i] = f[i]
    BY <1>1, <1>2, <1>3
  <1> HIDE DEF s
  <1>5. s[2] = t
    <2>1. 2 \in 1..(2 + n)
      BY <1>1
    <2> QED
      BY <1>2, <1>4, <2>1
  <1>6. ASSUME NEW i \in 1..n PROVE s[2 + i] = body[i]
    <2>1. 2 + i \in 1..(2 + n)
      BY <1>1
    <2> QED
      BY <1>2, <1>4, <2>1
  <1>7. FrameEnd(s) = Walk(s)[n]
    BY <1>5 DEF FrameEnd, BodyEnd, n
  <1>8. Walk(s)[n] = [is |-> "whole", at |-> 3 + n]
    <2>1. \A j \in 1..n : s[2 + j] # Esc
      BY <1>1, <1>6
    <2>2. 2 + n <= Len(s)
      BY <1>1, <1>4
    <2> QED
      BY <1>1, <1>4, <2>1, <2>2, WalkPlain
  <1>9. Len(f) + 1 = 3 + n
    BY <1>1, <1>2
  <1> QED
    BY <1>7, <1>8, <1>9
=============================================================================
