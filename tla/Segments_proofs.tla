---------------------------- MODULE Segments_proofs ----------------------------
(***************************************************************************)
(* What the folds over segments compute, for sequences of any length.      *)
(***************************************************************************)
EXTENDS Segments, RepetitionGuard, SequenceTheorems, FiniteSetTheorems,
        WellFoundedInduction, TLAPS

(* Induction.  The well-foundedness of the numbers is applied to a set,    *)
(* the set of the numbers of which something holds.                        *)
LEMMA Least ==
  ASSUME NEW T \in SUBSET Nat, T # {}
  PROVE  \E m \in T : \A n \in T : m <= n
<1> DEFINE R == OpToRel(<, Nat)
<1>1. PICK m \in T : \A n \in T : <<n, m>> \notin R
  <2> HIDE DEF R
  <2>1. IsWellFoundedOn(R, Nat)
    BY NatLessThanWellFounded DEF R
  <2> QED BY <2>1, WFMin
<1>2. \A n \in T : ~(n < m)
  BY <1>1 DEF OpToRel
<1> QED BY <1>2

(* What holds of 0 and of the successor of every number it holds of holds  *)
(* of every number.                                                        *)
LEMMA Induction ==
  ASSUME NEW S, 0 \in S, \A n \in Nat : n \in S => n + 1 \in S
  PROVE  \A n \in Nat : n \in S
<1> SUFFICES ASSUME NEW n \in Nat, n \notin S PROVE FALSE
  OBVIOUS
<1>1. PICK m \in Nat \ S : \A k \in Nat \ S : m <= k
  BY Least
<1>2. m # 0 /\ m - 1 \in Nat
  OBVIOUS
<1>3. m - 1 \in S
  BY <1>1, <1>2
<1> QED BY <1>2, <1>3

(* The same up to a number N.                                              *)
LEMMA Climb ==
  ASSUME NEW N \in Nat, NEW S, 0 \in S, \A n \in 0..N-1 : n \in S => n + 1 \in S
  PROVE  \A n \in 0..N : n \in S
<1> DEFINE T == S \cup {k \in Nat : k > N}
<1>1. 0 \in T
  OBVIOUS
<1>2. \A n \in Nat : n \in T => n + 1 \in T
  OBVIOUS
<1>3. \A n \in Nat : n \in T
  <2> HIDE DEF T
  <2> QED BY <1>1, <1>2, Induction, Zenon
<1> QED BY <1>3

(* What starts in D and stays in D stays there up to N.                    *)
LEMMA Staying ==
  ASSUME NEW N \in Nat, NEW D, NEW g, DOMAIN g = 0..N, g = [n \in DOMAIN g |-> g[n]],
         g[0] \in D, \A n \in 1..N : g[n-1] \in D => g[n] \in D
  PROVE  g \in [0..N -> D]
<1> DEFINE S == {n \in 0..N : g[n] \in D}
<1>1. 0 \in S
  OBVIOUS
<1>2. ASSUME NEW n \in 0..N-1, n \in S PROVE n + 1 \in S
  <2>1. n + 1 \in 1..N /\ (n + 1) - 1 = n
    OBVIOUS
  <2> QED BY <2>1, <1>2
<1>3. \A n \in 0..N : n \in S
  <2> HIDE DEF S
  <2> QED BY <1>1, <1>2, Climb, Zenon
<1> QED BY <1>3

-----------------------------------------------------------------------------
(* The greatest of some numbers up to N, and of all of them.               *)
LEMMA MaxIs ==
  ASSUME NEW N \in Nat, NEW s \in SUBSET (1..N), s # {}
  PROVE  Max(s) \in s /\ \A n \in s : n <= Max(s)
<1> DEFINE T == {k \in Nat : \A n \in s : n <= k}
<1>1. T \in SUBSET Nat /\ N \in T
  OBVIOUS
<1>2. PICK m \in T : \A k \in T : m <= k
  BY <1>1, Least
<1>3. m \in s
  <2> SUFFICES ASSUME m \notin s PROVE FALSE
    OBVIOUS
  <2>1. PICK n \in s : TRUE
    OBVIOUS
  <2>2. m - 1 \in T
    BY <2>1
  <2> QED BY <1>2, <2>2
<1>4. \E x \in s : \A y \in s : x >= y
  BY <1>3
<1> QED BY <1>4 DEF Max

(* The numbers up to n have n as their greatest; without it they are the   *)
(* numbers up to n - 1.                                                    *)
LEMMA Uppermost ==
  ASSUME NEW N \in Nat, NEW n \in 1..N
  PROVE  /\ 1..n \in SUBSET (1..N) /\ 1..n # {}
         /\ Max(1..n) = n /\ (1..n) \ {n} = 1..n-1
<1>1. 1..n \in SUBSET (1..N) /\ n \in 1..n
  OBVIOUS
<1>2. Max(1..n) \in 1..n /\ \A k \in 1..n : k <= Max(1..n)
  BY <1>1, MaxIs
<1> QED BY <1>1, <1>2

(* A step leads from a value of D to a value of D for each of N elements;  *)
(* a folding takes the elements of a set in their order.                   *)
Steps(N, D) == [1..N -> [D -> D]]

Folding(h, N, D, base, step) ==
  /\ h \in [SUBSET (1..N) -> D]
  /\ h[{}] = base
  /\ \A s \in SUBSET (1..N) :
       s # {} => h[s] = step[Max(s)][h[s \ {Max(s)}]]

(* There is a folding of every step and every base.                        *)
LEMMA FoldingExists ==
  ASSUME NEW N \in Nat, NEW D, NEW base \in D, NEW step \in Steps(N, D)
  PROVE  \E h : Folding(h, N, D, base, step)
<1> DEFINE S == {k \in 0..N : \E h : Folding(h, k, D, base, step)}
<1> USE DEF Steps
<1>1. 0 \in S
  <2>1. SUBSET (1..0) = {{}}
    OBVIOUS
  <2>2. Folding([s \in SUBSET (1..0) |-> base], 0, D, base, step)
    BY <2>1 DEF Folding
  <2> QED BY <2>2
<1>2. ASSUME NEW k \in 0..N-1, k \in S PROVE k + 1 \in S
  <2> DEFINE n == k + 1
  <2>1. PICK h : Folding(h, k, D, base, step)
    BY <1>2
  <2> DEFINE g == [s \in SUBSET (1..n) |->
                     IF n \in s THEN step[n][h[s \ {n}]] ELSE h[s]]
  <2>2. \A s \in SUBSET (1..n) : /\ s \ {n} \in SUBSET (1..k)
                                 /\ n \notin s => s \in SUBSET (1..k) /\ s \ {n} = s
    OBVIOUS
  <2>3. n \in 1..N /\ n \in Nat
    OBVIOUS
  <2>4. ASSUME NEW s \in SUBSET (1..n) PROVE g[s] \in D
    BY <2>1, <2>2, <2>3, <2>4 DEF Folding
  <2>5. g[{}] = base
    BY <2>1 DEF Folding
  <2>6. ASSUME NEW s \in SUBSET (1..n), s # {}
        PROVE  g[s] = step[Max(s)][g[s \ {Max(s)}]]
    <3> DEFINE m == Max(s)
    <3>1. m \in s /\ \A i \in s : i <= m
      BY <2>3, <2>6, MaxIs
    <3>2. CASE n \in s
      <4>1. m = n
        <5>1. m \in 1..n /\ n <= m
          BY <3>1, <3>2
        <5> HIDE DEF m
        <5> QED BY <5>1, <2>3
      <4>2. s \ {m} \in SUBSET (1..n) /\ n \notin s \ {m}
        BY <4>1
      <4>3. g[s \ {m}] = h[s \ {n}]
        BY <4>1, <4>2
      <4> QED BY <3>2, <4>1, <4>3
    <3>3. CASE n \notin s
      <4>1. s \in SUBSET (1..k) /\ s \ {m} \in SUBSET (1..k) /\ s \ {m} \in SUBSET (1..n)
        BY <2>2, <3>3
      <4>2. h[s] = step[m][h[s \ {m}]]
        BY <2>1, <2>6, <4>1 DEF Folding
      <4>3. g[s] = h[s] /\ g[s \ {m}] = h[s \ {m}]
        BY <3>3, <4>1
      <4> QED BY <4>2, <4>3
    <3> QED BY <3>2, <3>3
  <2>7. Folding(g, n, D, base, step)
    <3>1. g \in [SUBSET (1..n) -> D]
      BY <2>4
    <3> HIDE DEF g, n
    <3> QED BY <3>1, <2>5, <2>6 DEF Folding
  <2> QED BY <2>3, <2>7
<1>3. \A k \in 0..N : k \in S
  <2> HIDE DEF S
  <2> QED BY <1>1, <1>2, Climb, Zenon
<1> QED BY <1>3

(* What a folding has reached after each element.                          *)
Course(f, N, D, base, step, last) ==
  /\ f \in [0..N -> D]
  /\ f[0] = base /\ f[N] = last
  /\ \A n \in 1..N : f[n-1] \in D /\ f[n] = step[n][f[n-1]]

(* Enough of a folding's equation to follow it; nothing is said of values  *)
(* outside D.                                                              *)
Unfolded(iter, N, D, base, step) ==
  /\ iter[{}] = base
  /\ \A s \in SUBSET (1..N) : s # {} /\ iter[s \ {Max(s)}] \in D
       => iter[s] = step[Max(s)][iter[s \ {Max(s)}]]

(* A folding reaches its value element by element.                         *)
LEMMA CourseExists ==
  ASSUME NEW N \in Nat, NEW D, NEW base \in D, NEW step \in Steps(N, D),
         NEW iter, Unfolded(iter, N, D, base, step),
         NEW last, last = iter[1..N]
  PROVE  \E f : Course(f, N, D, base, step, last)
<1> DEFINE f == [n \in 0..N |-> iter[1..n]]
<1>1. f[0] = base
  <2>1. 0 \in 0..N /\ 1..0 = {}
    OBVIOUS
  <2> QED BY <2>1 DEF Unfolded
<1>2. ASSUME NEW n \in 1..N, f[n-1] \in D
      PROVE  f[n] = step[n][f[n-1]] /\ f[n] \in D
  <2>1. /\ 1..n \in SUBSET (1..N) /\ 1..n # {}
        /\ Max(1..n) = n /\ (1..n) \ {n} = 1..n-1
    BY Uppermost
  <2>2. f[n] = iter[1..n] /\ f[n-1] = iter[1..n-1]
    OBVIOUS
  <2> HIDE DEF f
  <2>3. f[n] = step[n][f[n-1]]
    BY <1>2, <2>1, <2>2 DEF Unfolded
  <2> QED BY <1>2, <2>3 DEF Steps
<1>3. DOMAIN f = 0..N /\ f = [n \in DOMAIN f |-> f[n]] /\ f[N] = iter[1..N]
  OBVIOUS
<1> HIDE DEF f
<1>4. f \in [0..N -> D]
  BY <1>1, <1>2, <1>3, Staying, Zenon
<1>5. \A n \in 1..N : f[n-1] \in D /\ f[n] = step[n][f[n-1]]
  <2> SUFFICES ASSUME NEW n \in 1..N PROVE f[n-1] \in D /\ f[n] = step[n][f[n-1]]
    OBVIOUS
  <2>1. f[n-1] \in D
    BY <1>4
  <2> QED BY <1>2, <2>1
<1> QED BY <1>1, <1>3, <1>4, <1>5 DEF Course

-----------------------------------------------------------------------------
(* Each fold of Segments and RepetitionGuard, element by element.          *)

(* A segment that carries a speaker: Text is a set of characters, Who one  *)
(* of labels.                                                              *)
Piece(Text, Who) ==
  [start : Nat, end : Nat, text : Seq(Text), words : BOOLEAN, speaker : Who]

(* Max of two numbers, as a condition.                                     *)
LEMMA MaxOfTwo ==
  ASSUME NEW a \in Int, NEW b \in Int
  PROVE  Max({a, b}) = IF a >= b THEN a ELSE b
BY DEF Max

(* Firsts, of any values.                                                  *)
LEMMA FirstsCourse ==
  ASSUME NEW X, NEW seq \in Seq(X)
  PROVE  \E f \in [0..Len(seq) -> Seq(X)] :
           /\ f[0] = <<>> /\ f[Len(seq)] = Firsts(seq)
           /\ \A n \in 1..Len(seq) : f[n] = Noted(f[n-1], seq[n])
<1> DEFINE N == Len(seq)
           D == Seq(X)
           e == <<>>
           step == [n \in 1..N |-> [d \in D |-> Noted(d, seq[n])]]
           unfolds(h) == h = [s \in SUBSET (1..N) |->
             IF s = {} THEN e ELSE Noted(h[s \ {Max(s)}], seq[Max(s)])]
           iter == CHOOSE h : unfolds(h)
<1>1. N \in Nat /\ DOMAIN seq = 1..N /\ \A n \in 1..N : seq[n] \in X
  OBVIOUS
<1>2. e \in D
  OBVIOUS
<1>3. ASSUME NEW d \in D, NEW x \in X PROVE Noted(d, x) \in D
  BY <1>3 DEF Noted
<1>4. Firsts(seq) = iter[1..N]
  BY <1>1, Zenon DEF Firsts, Noted, FoldLeft, MapThenFoldSet
<1>5. step \in Steps(N, D)
  BY <1>1, <1>3 DEF Steps
<1>6. ASSUME NEW n \in 1..N, NEW d \in D PROVE step[n][d] = Noted(d, seq[n])
  OBVIOUS
<1> HIDE DEF N, D, e, step, iter
<1>7. PICK h : Folding(h, N, D, e, step)
  BY <1>1, <1>2, <1>5, FoldingExists, Zenon
<1>8. unfolds(h)
  <2>1. ASSUME NEW s \in SUBSET (1..N), s # {}
        PROVE  h[s] = Noted(h[s \ {Max(s)}], seq[Max(s)])
    <3>1. Max(s) \in 1..N
      BY <1>1, <2>1, MaxIs
    <3>2. h[s \ {Max(s)}] \in D /\ h[s] = step[Max(s)][h[s \ {Max(s)}]]
      BY <1>7, <2>1 DEF Folding
    <3> QED BY <1>6, <3>1, <3>2, Zenon
  <2> QED BY <1>7, <2>1 DEF Folding
<1>9. unfolds(iter)
  <2> HIDE DEF unfolds
  <2> QED BY <1>8, Zenon DEF iter
<1>10. Unfolded(iter, N, D, e, step)
  <2>1. ASSUME NEW s \in SUBSET (1..N), s # {}, iter[s \ {Max(s)}] \in D
        PROVE  iter[s] = step[Max(s)][iter[s \ {Max(s)}]]
    <3>1. Max(s) \in 1..N
      BY <1>1, <2>1, MaxIs
    <3>2. iter[s] = Noted(iter[s \ {Max(s)}], seq[Max(s)])
      BY <1>9, <2>1
    <3> QED BY <1>6, <2>1, <3>1, <3>2, Zenon
  <2>2. iter[{}] = e
    BY <1>9
  <2> HIDE DEF unfolds
  <2> QED BY <2>1, <2>2 DEF Unfolded
<1>11. PICK f : Course(f, N, D, e, step, Firsts(seq))
  <2> HIDE DEF unfolds
  <2> QED BY <1>1, <1>2, <1>4, <1>5, <1>10, CourseExists, Zenon
<1>12. \A n \in 1..N : f[n] = Noted(f[n-1], seq[n])
  BY <1>6, <1>11 DEF Course
<1>13. f \in [0..N -> D] /\ f[0] = e /\ f[N] = Firsts(seq)
  BY <1>11 DEF Course
<1> HIDE DEF unfolds
<1> QED BY <1>12, <1>13, Zenon DEF N, D, e

(* DedupShort, of any values.                                              *)
LEMMA DedupCourse ==
  ASSUME NEW X, NEW segs \in Seq(X)
  PROVE  \E f \in [0..Len(segs) -> Seq(X)] :
           /\ f[0] = <<>> /\ f[Len(segs)] = DedupShort(segs)
           /\ \A n \in 1..Len(segs) : f[n] = Kept(f[n-1], segs[n])
<1> DEFINE N == Len(segs)
           D == Seq(X)
           e == <<>>
           step == [n \in 1..N |-> [d \in D |-> Kept(d, segs[n])]]
           unfolds(h) == h = [s \in SUBSET (1..N) |->
             IF s = {} THEN e ELSE Kept(h[s \ {Max(s)}], segs[Max(s)])]
           iter == CHOOSE h : unfolds(h)
<1>1. N \in Nat /\ DOMAIN segs = 1..N /\ \A n \in 1..N : segs[n] \in X
  OBVIOUS
<1>2. e \in D
  OBVIOUS
<1>3. ASSUME NEW d \in D, NEW x \in X PROVE Kept(d, x) \in D
  BY <1>3 DEF Kept
<1>4. DedupShort(segs) = iter[1..N]
  BY <1>1, Zenon DEF DedupShort, FoldLeft, MapThenFoldSet
<1>5. step \in Steps(N, D)
  BY <1>1, <1>3 DEF Steps
<1>6. ASSUME NEW n \in 1..N, NEW d \in D PROVE step[n][d] = Kept(d, segs[n])
  OBVIOUS
<1> HIDE DEF N, D, e, step, iter
<1>7. PICK h : Folding(h, N, D, e, step)
  BY <1>1, <1>2, <1>5, FoldingExists, Zenon
<1>8. unfolds(h)
  <2>1. ASSUME NEW s \in SUBSET (1..N), s # {}
        PROVE  h[s] = Kept(h[s \ {Max(s)}], segs[Max(s)])
    <3>1. Max(s) \in 1..N
      BY <1>1, <2>1, MaxIs
    <3>2. h[s \ {Max(s)}] \in D /\ h[s] = step[Max(s)][h[s \ {Max(s)}]]
      BY <1>7, <2>1 DEF Folding
    <3> QED BY <1>6, <3>1, <3>2, Zenon
  <2> QED BY <1>7, <2>1 DEF Folding
<1>9. unfolds(iter)
  <2> HIDE DEF unfolds
  <2> QED BY <1>8, Zenon DEF iter
<1>10. Unfolded(iter, N, D, e, step)
  <2>1. ASSUME NEW s \in SUBSET (1..N), s # {}, iter[s \ {Max(s)}] \in D
        PROVE  iter[s] = step[Max(s)][iter[s \ {Max(s)}]]
    <3>1. Max(s) \in 1..N
      BY <1>1, <2>1, MaxIs
    <3>2. iter[s] = Kept(iter[s \ {Max(s)}], segs[Max(s)])
      BY <1>9, <2>1
    <3> QED BY <1>6, <2>1, <3>1, <3>2, Zenon
  <2>2. iter[{}] = e
    BY <1>9
  <2> HIDE DEF unfolds
  <2> QED BY <2>1, <2>2 DEF Unfolded
<1>11. PICK f : Course(f, N, D, e, step, DedupShort(segs))
  <2> HIDE DEF unfolds
  <2> QED BY <1>1, <1>2, <1>4, <1>5, <1>10, CourseExists, Zenon
<1>12. \A n \in 1..N : f[n] = Kept(f[n-1], segs[n])
  BY <1>6, <1>11 DEF Course
<1>13. f \in [0..N -> D] /\ f[0] = e /\ f[N] = DedupShort(segs)
  BY <1>11 DEF Course
<1> HIDE DEF unfolds
<1> QED BY <1>12, <1>13, Zenon DEF N, D, e

(* All but the last, and the last.                                         *)
LEMMA FrontIs ==
  ASSUME NEW X, NEW d \in Seq(X), d # <<>>
  PROVE  /\ Front(d) \in Seq(X) /\ Len(Front(d)) = Len(d) - 1
         /\ \A k \in 1..Len(d)-1 : Front(d)[k] = d[k]
         /\ Last(d) = d[Len(d)] /\ Last(d) \in X
         /\ d = Append(Front(d), Last(d))
<1> DEFINE n == Len(d)
<1>1. n \in Nat \ {0} /\ \A k \in 1..n : d[k] \in X
  OBVIOUS
<1>2. /\ Front(d) \in Seq(X)
      /\ Len(Front(d)) = IF 1 <= n - 1 THEN (n - 1) - 1 + 1 ELSE 0
      /\ \A k \in 1..(n-1)-1+1 : Front(d)[k] = d[1 + k - 1]
  <2> HIDE DEF n
  <2> QED BY <1>1, SubSeqProperties DEF Front, n
<1>3. Len(Front(d)) = n - 1
  <2> HIDE DEF n
  <2> QED BY <1>1, <1>2
<1>4. \A k \in 1..n-1 : Front(d)[k] = d[k]
  BY <1>1, <1>2
<1>5. Last(d) = d[n] /\ Last(d) \in X
  BY <1>1 DEF Last
<1>6. d = Append(Front(d), Last(d))
  BY <1>1, <1>2, <1>3, <1>4, <1>5
<1> QED BY <1>2, <1>3, <1>4, <1>5, <1>6

(* The last of the segments takes another in, the way it is written in     *)
(* Python and the way it is written in Rust.                               *)
LEMMA JoinedIs ==
  ASSUME NEW Text, NEW Who, NEW d \in Seq(Piece(Text, Who)), NEW x \in Piece(Text, Who)
  PROVE  Joined(d, x) \in Seq(Piece(Text, Who)) /\ KernelJoined(d, x) = Joined(d, x)
<1> DEFINE P == Piece(Text, Who)
           n == Len(d)
           last == d[n]
           m == Merged(last, x)
<1>1. CASE d = <<>> \/ ~CanMerge(Last(d), x)
  BY <1>1 DEF Joined, KernelJoined, CanMerge, KernelCanMerge
<1>2. CASE d # <<>> /\ CanMerge(Last(d), x)
  <2>0. d \in Seq(P)
    OBVIOUS
  <2>1. n \in Nat \ {0} /\ last \in P /\ Last(d) = last
    BY <1>2 DEF Last
  <2>2. Max({last.end, x.end}) \in Nat
    <3>1. last.end \in Nat /\ x.end \in Nat
      BY <2>1 DEF Piece
    <3> HIDE DEF last
    <3> QED BY <3>1, MaxOfTwo
  <2>3. m \in P
    <3> DEFINE e == Max({last.end, x.end})
               t == last.text \o x.text
    <3>1. e \in Nat /\ t \in Seq(Text)
      BY <2>1, <2>2 DEF Piece
    <3>2. m = [last EXCEPT !.end = e, !.text = t]
      BY DEF Merged
    <3> HIDE DEF e, t, last, m
    <3> QED BY <2>1, <3>1, <3>2 DEF Piece
  <2>4. Joined(d, x) = Append(SubSeq(d, 1, n - 1), m)
    BY <1>2, <2>1 DEF Joined, Front
  <2>5. /\ SubSeq(d, 1, n - 1) \in Seq(P) /\ Len(SubSeq(d, 1, n - 1)) = n - 1
        /\ \A k \in 1..n-1 : SubSeq(d, 1, n - 1)[k] = d[k]
    <3> HIDE DEF P
    <3> QED BY <1>2, <2>0, FrontIs DEF Front
  <2>6. KernelJoined(d, x) = [d EXCEPT ![n] = m]
    <3>1. KernelJoined(d, x) = [d EXCEPT ![n].end  = Max({@, x.end}),
                                         ![n].text = @ \o x.text]
      BY <1>2 DEF KernelJoined, CanMerge, KernelCanMerge
    <3>2. n \in DOMAIN d
      BY <2>1
    <3> QED BY <2>1, <3>1, <3>2 DEF Merged, Piece
  <2>7. Append(SubSeq(d, 1, n - 1), m) = [d EXCEPT ![n] = m]
    <3> HIDE DEF P, m
    <3> QED BY <2>0, <2>1, <2>3, <2>5
  <2>8. [d EXCEPT ![n] = m] \in Seq(P)
    <3> HIDE DEF P, m
    <3> QED BY <2>0, <2>1, <2>3
  <2> QED BY <2>4, <2>6, <2>7, <2>8
<1> QED BY <1>1, <1>2

(* MergeAligned, and the kernel's.                                         *)
LEMMA MergeCourse ==
  ASSUME NEW Text, NEW Who, NEW segs \in Seq(Piece(Text, Who))
  PROVE  \E f \in [0..Len(segs) -> Seq(Piece(Text, Who))] :
           /\ f[0] = <<>> /\ f[Len(segs)] = MergeAligned(segs)
           /\ \A n \in 1..Len(segs) : f[n] = Joined(f[n-1], segs[n])
<1> DEFINE N == Len(segs)
           D == Seq(Piece(Text, Who))
           e == <<>>
           step == [n \in 1..N |-> [d \in D |-> Joined(d, segs[n])]]
           unfolds(h) == h = [s \in SUBSET (1..N) |->
             IF s = {} THEN e ELSE Joined(h[s \ {Max(s)}], segs[Max(s)])]
           iter == CHOOSE h : unfolds(h)
<1>1. N \in Nat /\ DOMAIN segs = 1..N /\ \A n \in 1..N : segs[n] \in Piece(Text, Who)
  OBVIOUS
<1>2. e \in D
  OBVIOUS
<1>3. ASSUME NEW d \in D, NEW x \in Piece(Text, Who) PROVE Joined(d, x) \in D
  BY <1>3, JoinedIs
<1>4. MergeAligned(segs) = iter[1..N]
  BY <1>1, Zenon DEF MergeAligned, FoldLeft, MapThenFoldSet
<1>5. step \in Steps(N, D)
  BY <1>1, <1>3 DEF Steps
<1>6. ASSUME NEW n \in 1..N, NEW d \in D PROVE step[n][d] = Joined(d, segs[n])
  OBVIOUS
<1> HIDE DEF N, D, e, step, iter
<1>7. PICK h : Folding(h, N, D, e, step)
  BY <1>1, <1>2, <1>5, FoldingExists, Zenon
<1>8. unfolds(h)
  <2>1. ASSUME NEW s \in SUBSET (1..N), s # {}
        PROVE  h[s] = Joined(h[s \ {Max(s)}], segs[Max(s)])
    <3>1. Max(s) \in 1..N
      BY <1>1, <2>1, MaxIs
    <3>2. h[s \ {Max(s)}] \in D /\ h[s] = step[Max(s)][h[s \ {Max(s)}]]
      BY <1>7, <2>1 DEF Folding
    <3> QED BY <1>6, <3>1, <3>2, Zenon
  <2> QED BY <1>7, <2>1 DEF Folding
<1>9. unfolds(iter)
  <2> HIDE DEF unfolds
  <2> QED BY <1>8, Zenon DEF iter
<1>10. Unfolded(iter, N, D, e, step)
  <2>1. ASSUME NEW s \in SUBSET (1..N), s # {}, iter[s \ {Max(s)}] \in D
        PROVE  iter[s] = step[Max(s)][iter[s \ {Max(s)}]]
    <3>1. Max(s) \in 1..N
      BY <1>1, <2>1, MaxIs
    <3>2. iter[s] = Joined(iter[s \ {Max(s)}], segs[Max(s)])
      BY <1>9, <2>1
    <3> QED BY <1>6, <2>1, <3>1, <3>2, Zenon
  <2>2. iter[{}] = e
    BY <1>9
  <2> HIDE DEF unfolds
  <2> QED BY <2>1, <2>2 DEF Unfolded
<1>11. PICK f : Course(f, N, D, e, step, MergeAligned(segs))
  <2> HIDE DEF unfolds
  <2> QED BY <1>1, <1>2, <1>4, <1>5, <1>10, CourseExists, Zenon
<1>12. \A n \in 1..N : f[n] = Joined(f[n-1], segs[n])
  BY <1>6, <1>11 DEF Course
<1>13. f \in [0..N -> D] /\ f[0] = e /\ f[N] = MergeAligned(segs)
  BY <1>11 DEF Course
<1> HIDE DEF unfolds
<1> QED BY <1>12, <1>13, Zenon DEF N, D, e

(* The kernel's MergeAligned.                                              *)
LEMMA KernelMergeCourse ==
  ASSUME NEW Text, NEW Who, NEW segs \in Seq(Piece(Text, Who))
  PROVE  \E f \in [0..Len(segs) -> Seq(Piece(Text, Who))] :
           /\ f[0] = <<>> /\ f[Len(segs)] = KernelMergeAligned(segs)
           /\ \A n \in 1..Len(segs) : f[n] = KernelJoined(f[n-1], segs[n])
<1> DEFINE N == Len(segs)
           D == Seq(Piece(Text, Who))
           e == <<>>
           step == [n \in 1..N |-> [d \in D |-> KernelJoined(d, segs[n])]]
           unfolds(h) == h = [s \in SUBSET (1..N) |->
             IF s = {} THEN e ELSE KernelJoined(h[s \ {Max(s)}], segs[Max(s)])]
           iter == CHOOSE h : unfolds(h)
<1>1. N \in Nat /\ DOMAIN segs = 1..N /\ \A n \in 1..N : segs[n] \in Piece(Text, Who)
  OBVIOUS
<1>2. e \in D
  OBVIOUS
<1>3. ASSUME NEW d \in D, NEW x \in Piece(Text, Who) PROVE KernelJoined(d, x) \in D
  BY <1>3, JoinedIs
<1>4. KernelMergeAligned(segs) = iter[1..N]
  BY <1>1, Zenon DEF KernelMergeAligned, FoldLeft, MapThenFoldSet
<1>5. step \in Steps(N, D)
  BY <1>1, <1>3 DEF Steps
<1>6. ASSUME NEW n \in 1..N, NEW d \in D PROVE step[n][d] = KernelJoined(d, segs[n])
  OBVIOUS
<1> HIDE DEF N, D, e, step, iter
<1>7. PICK h : Folding(h, N, D, e, step)
  BY <1>1, <1>2, <1>5, FoldingExists, Zenon
<1>8. unfolds(h)
  <2>1. ASSUME NEW s \in SUBSET (1..N), s # {}
        PROVE  h[s] = KernelJoined(h[s \ {Max(s)}], segs[Max(s)])
    <3>1. Max(s) \in 1..N
      BY <1>1, <2>1, MaxIs
    <3>2. h[s \ {Max(s)}] \in D /\ h[s] = step[Max(s)][h[s \ {Max(s)}]]
      BY <1>7, <2>1 DEF Folding
    <3> QED BY <1>6, <3>1, <3>2, Zenon
  <2> QED BY <1>7, <2>1 DEF Folding
<1>9. unfolds(iter)
  <2> HIDE DEF unfolds
  <2> QED BY <1>8, Zenon DEF iter
<1>10. Unfolded(iter, N, D, e, step)
  <2>1. ASSUME NEW s \in SUBSET (1..N), s # {}, iter[s \ {Max(s)}] \in D
        PROVE  iter[s] = step[Max(s)][iter[s \ {Max(s)}]]
    <3>1. Max(s) \in 1..N
      BY <1>1, <2>1, MaxIs
    <3>2. iter[s] = KernelJoined(iter[s \ {Max(s)}], segs[Max(s)])
      BY <1>9, <2>1
    <3> QED BY <1>6, <2>1, <3>1, <3>2, Zenon
  <2>2. iter[{}] = e
    BY <1>9
  <2> HIDE DEF unfolds
  <2> QED BY <2>1, <2>2 DEF Unfolded
<1>11. PICK f : Course(f, N, D, e, step, KernelMergeAligned(segs))
  <2> HIDE DEF unfolds
  <2> QED BY <1>1, <1>2, <1>4, <1>5, <1>10, CourseExists, Zenon
<1>12. \A n \in 1..N : f[n] = KernelJoined(f[n-1], segs[n])
  BY <1>6, <1>11 DEF Course
<1>13. f \in [0..N -> D] /\ f[0] = e /\ f[N] = KernelMergeAligned(segs)
  BY <1>11 DEF Course
<1> HIDE DEF unfolds
<1> QED BY <1>12, <1>13, Zenon DEF N, D, e

(* The group of a name takes a label in; f[n] is the groups of the first n *)
(* labels.                                                                 *)
Grouped(known, l, map) == [known EXCEPT ![BaseName(l, map)] = Append(@, l)]
Bases(labels, map)     == {BaseName(l, map) : l \in ToSet(labels)}

Grouping(f, X, labels, map) ==
  /\ f \in [0..Len(labels) -> [Bases(labels, map) -> Seq(X)]]
  /\ f[0] = [n \in Bases(labels, map) |-> <<>>]
  /\ f[Len(labels)] = KernelGroups(labels, map)
  /\ \A n \in 1..Len(labels) : f[n] = Grouped(f[n-1], labels[n], map)

(* KernelGroups, of any labels.                                            *)
LEMMA GroupsCourse ==
  ASSUME NEW X, NEW map, NEW labels \in Seq(X)
  PROVE  \E f : Grouping(f, X, labels, map)
<1> DEFINE N == Len(labels)
           D == [Bases(labels, map) -> Seq(X)]
           e == [n \in Bases(labels, map) |-> <<>>]
           step == [n \in 1..N |-> [d \in D |-> Grouped(d, labels[n], map)]]
           unfolds(h) == h = [s \in SUBSET (1..N) |->
             IF s = {} THEN e ELSE Grouped(h[s \ {Max(s)}], labels[Max(s)], map)]
           iter == CHOOSE h : unfolds(h)
<1>1. N \in Nat /\ DOMAIN labels = 1..N /\ \A n \in 1..N : labels[n] \in ToSet(labels)
  BY DEF ToSet
<1>2. e \in D
  OBVIOUS
<1>3. ASSUME NEW d \in D, NEW x \in ToSet(labels) PROVE Grouped(d, x, map) \in D
  BY <1>3 DEF Grouped, Bases, ToSet
<1>4. KernelGroups(labels, map) = iter[1..N]
  BY <1>1, Zenon DEF KernelGroups, Grouped, Bases, FoldLeft, MapThenFoldSet
<1>5. step \in Steps(N, D)
  BY <1>1, <1>3 DEF Steps
<1>6. ASSUME NEW n \in 1..N, NEW d \in D PROVE step[n][d] = Grouped(d, labels[n], map)
  OBVIOUS
<1> HIDE DEF N, D, e, step, iter
<1>7. PICK h : Folding(h, N, D, e, step)
  BY <1>1, <1>2, <1>5, FoldingExists, Zenon
<1>8. unfolds(h)
  <2>1. ASSUME NEW s \in SUBSET (1..N), s # {}
        PROVE  h[s] = Grouped(h[s \ {Max(s)}], labels[Max(s)], map)
    <3>1. Max(s) \in 1..N
      BY <1>1, <2>1, MaxIs
    <3>2. h[s \ {Max(s)}] \in D /\ h[s] = step[Max(s)][h[s \ {Max(s)}]]
      BY <1>7, <2>1 DEF Folding
    <3> QED BY <1>6, <3>1, <3>2, Zenon
  <2> QED BY <1>7, <2>1 DEF Folding
<1>9. unfolds(iter)
  <2> HIDE DEF unfolds
  <2> QED BY <1>8, Zenon DEF iter
<1>10. Unfolded(iter, N, D, e, step)
  <2>1. ASSUME NEW s \in SUBSET (1..N), s # {}, iter[s \ {Max(s)}] \in D
        PROVE  iter[s] = step[Max(s)][iter[s \ {Max(s)}]]
    <3>1. Max(s) \in 1..N
      BY <1>1, <2>1, MaxIs
    <3>2. iter[s] = Grouped(iter[s \ {Max(s)}], labels[Max(s)], map)
      BY <1>9, <2>1
    <3> QED BY <1>6, <2>1, <3>1, <3>2, Zenon
  <2>2. iter[{}] = e
    BY <1>9
  <2> HIDE DEF unfolds
  <2> QED BY <2>1, <2>2 DEF Unfolded
<1>11. PICK f : Course(f, N, D, e, step, KernelGroups(labels, map))
  <2> HIDE DEF unfolds
  <2> QED BY <1>1, <1>2, <1>4, <1>5, <1>10, CourseExists, Zenon
<1>12. \A n \in 1..N : f[n] = Grouped(f[n-1], labels[n], map)
  BY <1>6, <1>11 DEF Course
<1>13. f \in [0..N -> D] /\ f[0] = e /\ f[N] = KernelGroups(labels, map)
  BY <1>11 DEF Course
<1> HIDE DEF unfolds
<1> QED BY <1>12, <1>13, Zenon DEF Grouping, N, D, e

(* What the kernel collects.                                               *)
Collected(X, shown, map) ==
  [segments : Seq({ResultSegment(x, shown, map) : x \in X}),
   unique   : Seq({shown[x.speaker] : x \in X})]

(* A segment added leaves the segments and the names what they are.        *)
LEMMA KernelAddedIs ==
  ASSUME NEW X, NEW shown, NEW map, NEW x \in X, NEW d \in Collected(X, shown, map)
  PROVE  KernelAdded(d, x, shown, map) \in Collected(X, shown, map)
<1> DEFINE R == {ResultSegment(y, shown, map) : y \in X}
           V == {shown[y.speaker] : y \in X}
           r == ResultSegment(x, shown, map)
           v == shown[x.speaker]
<1>1. r \in R /\ v \in V
  OBVIOUS
<1>2. d.segments \in Seq(R) /\ d.unique \in Seq(V)
  BY DEF Collected
<1>3. Collected(X, shown, map) = [segments : Seq(R), unique : Seq(V)]
  BY DEF Collected
<1>4. KernelAdded(d, x, shown, map) = [segments |-> Append(d.segments, r), unique |-> Noted(d.unique, v)]
  BY DEF KernelAdded
<1> HIDE DEF R, V, r, v
<1>5. Append(d.segments, r) \in Seq(R) /\ Noted(d.unique, v) \in Seq(V)
  BY <1>1, <1>2 DEF Noted
<1> QED BY <1>3, <1>4, <1>5

Collecting(f, X, merged, shown, map) ==
  /\ f \in [0..Len(merged) -> Collected(X, shown, map)]
  /\ f[0] = [segments |-> <<>>, unique |-> <<>>]
  /\ f[Len(merged)] = KernelBuilt(merged, shown, map)
  /\ \A n \in 1..Len(merged) : f[n] = KernelAdded(f[n-1], merged[n], shown, map)

(* KernelBuilt.                                                            *)
LEMMA ResultCourse ==
  ASSUME NEW X, NEW map, NEW merged \in Seq(X), NEW shown
  PROVE  \E f : Collecting(f, X, merged, shown, map)
<1> DEFINE N == Len(merged)
           D == Collected(X, shown, map)
           e == [segments |-> <<>>, unique |-> <<>>]
           step == [n \in 1..N |-> [d \in D |-> KernelAdded(d, merged[n], shown, map)]]
           unfolds(h) == h = [s \in SUBSET (1..N) |->
             IF s = {} THEN e ELSE KernelAdded(h[s \ {Max(s)}], merged[Max(s)], shown, map)]
           iter == CHOOSE h : unfolds(h)
<1>1. N \in Nat /\ DOMAIN merged = 1..N /\ \A n \in 1..N : merged[n] \in X
  OBVIOUS
<1>2. e \in D
  BY DEF Collected
<1>3. ASSUME NEW d \in D, NEW x \in X PROVE KernelAdded(d, x, shown, map) \in D
  BY <1>3, KernelAddedIs
<1>4. KernelBuilt(merged, shown, map) = iter[1..N]
  BY <1>1, Zenon DEF KernelBuilt, FoldLeft, MapThenFoldSet
<1>5. step \in Steps(N, D)
  BY <1>1, <1>3 DEF Steps
<1>6. ASSUME NEW n \in 1..N, NEW d \in D PROVE step[n][d] = KernelAdded(d, merged[n], shown, map)
  OBVIOUS
<1> HIDE DEF N, D, e, step, iter
<1>7. PICK h : Folding(h, N, D, e, step)
  BY <1>1, <1>2, <1>5, FoldingExists, Zenon
<1>8. unfolds(h)
  <2>1. ASSUME NEW s \in SUBSET (1..N), s # {}
        PROVE  h[s] = KernelAdded(h[s \ {Max(s)}], merged[Max(s)], shown, map)
    <3>1. Max(s) \in 1..N
      BY <1>1, <2>1, MaxIs
    <3>2. h[s \ {Max(s)}] \in D /\ h[s] = step[Max(s)][h[s \ {Max(s)}]]
      BY <1>7, <2>1 DEF Folding
    <3> QED BY <1>6, <3>1, <3>2, Zenon
  <2> QED BY <1>7, <2>1 DEF Folding
<1>9. unfolds(iter)
  <2> HIDE DEF unfolds
  <2> QED BY <1>8, Zenon DEF iter
<1>10. Unfolded(iter, N, D, e, step)
  <2>1. ASSUME NEW s \in SUBSET (1..N), s # {}, iter[s \ {Max(s)}] \in D
        PROVE  iter[s] = step[Max(s)][iter[s \ {Max(s)}]]
    <3>1. Max(s) \in 1..N
      BY <1>1, <2>1, MaxIs
    <3>2. iter[s] = KernelAdded(iter[s \ {Max(s)}], merged[Max(s)], shown, map)
      BY <1>9, <2>1
    <3> QED BY <1>6, <2>1, <3>1, <3>2, Zenon
  <2>2. iter[{}] = e
    BY <1>9
  <2> HIDE DEF unfolds
  <2> QED BY <2>1, <2>2 DEF Unfolded
<1>11. PICK f : Course(f, N, D, e, step, KernelBuilt(merged, shown, map))
  <2> HIDE DEF unfolds
  <2> QED BY <1>1, <1>2, <1>4, <1>5, <1>10, CourseExists, Zenon
<1>12. \A n \in 1..N : f[n] = KernelAdded(f[n-1], merged[n], shown, map)
  BY <1>6, <1>11 DEF Course
<1>13. f \in [0..N -> D] /\ f[0] = e /\ f[N] = KernelBuilt(merged, shown, map)
  BY <1>11 DEF Course
<1> HIDE DEF unfolds
<1> QED BY <1>12, <1>13, Zenon DEF Collecting, N, D, e

(* Without, of any values.                                                 *)
Sparing(f, X, segs, removed) ==
  /\ f \in [0..Len(segs) -> Seq(X)]
  /\ f[0] = <<>> /\ f[Len(segs)] = Without(segs, removed)
  /\ \A n \in 1..Len(segs) : f[n] = Spared(f[n-1], segs, removed, n)

(* The removal of segments, element by element.                            *)
LEMMA WithoutCourse ==
  ASSUME NEW X, NEW segs \in Seq(X), NEW removed
  PROVE  \E f : Sparing(f, X, segs, removed)
<1> DEFINE ids == [i \in DOMAIN segs |-> i]
           N == Len(ids)
           D == Seq(X)
           e == <<>>
           step == [n \in 1..N |-> [d \in D |-> Spared(d, segs, removed, ids[n])]]
           unfolds(h) == h = [s \in SUBSET (1..N) |->
             IF s = {} THEN e ELSE Spared(h[s \ {Max(s)}], segs, removed, ids[Max(s)])]
           iter == CHOOSE h : unfolds(h)
<1>1. N \in Nat /\ DOMAIN ids = 1..N /\ \A n \in 1..N : ids[n] \in 1..Len(segs)
  OBVIOUS
<1>2. e \in D
  OBVIOUS
<1>3. ASSUME NEW d \in D, NEW x \in 1..Len(segs) PROVE Spared(d, segs, removed, x) \in D
  BY <1>3 DEF Spared
<1>4. Without(segs, removed) = iter[1..N]
  BY <1>1, Zenon DEF Without, FoldLeftDomain, FoldLeft, MapThenFoldSet
<1>5. step \in Steps(N, D)
  BY <1>1, <1>3 DEF Steps
<1>6. ASSUME NEW n \in 1..N, NEW d \in D PROVE step[n][d] = Spared(d, segs, removed, ids[n])
  OBVIOUS
<1>0. N = Len(segs) /\ \A n \in 1..N : ids[n] = n
  OBVIOUS
<1> HIDE DEF N, D, e, step, iter, ids
<1>7. PICK h : Folding(h, N, D, e, step)
  BY <1>1, <1>2, <1>5, FoldingExists, Zenon
<1>8. unfolds(h)
  <2>1. ASSUME NEW s \in SUBSET (1..N), s # {}
        PROVE  h[s] = Spared(h[s \ {Max(s)}], segs, removed, ids[Max(s)])
    <3>1. Max(s) \in 1..N
      BY <1>1, <2>1, MaxIs
    <3>2. h[s \ {Max(s)}] \in D /\ h[s] = step[Max(s)][h[s \ {Max(s)}]]
      BY <1>7, <2>1 DEF Folding
    <3> QED BY <1>6, <3>1, <3>2, Zenon
  <2> QED BY <1>7, <2>1 DEF Folding
<1>9. unfolds(iter)
  <2> HIDE DEF unfolds
  <2> QED BY <1>8, Zenon DEF iter
<1>10. Unfolded(iter, N, D, e, step)
  <2>1. ASSUME NEW s \in SUBSET (1..N), s # {}, iter[s \ {Max(s)}] \in D
        PROVE  iter[s] = step[Max(s)][iter[s \ {Max(s)}]]
    <3>1. Max(s) \in 1..N
      BY <1>1, <2>1, MaxIs
    <3>2. iter[s] = Spared(iter[s \ {Max(s)}], segs, removed, ids[Max(s)])
      BY <1>9, <2>1
    <3> QED BY <1>6, <2>1, <3>1, <3>2, Zenon
  <2>2. iter[{}] = e
    BY <1>9
  <2> HIDE DEF unfolds
  <2> QED BY <2>1, <2>2 DEF Unfolded
<1>11. PICK f : Course(f, N, D, e, step, Without(segs, removed))
  <2> HIDE DEF unfolds
  <2> QED BY <1>1, <1>2, <1>4, <1>5, <1>10, CourseExists, Zenon
<1>12. \A n \in 1..N : f[n] = Spared(f[n-1], segs, removed, ids[n])
  BY <1>6, <1>11 DEF Course
<1>13. f \in [0..N -> D] /\ f[0] = e /\ f[N] = Without(segs, removed)
  BY <1>11 DEF Course
<1> HIDE DEF unfolds
<1> QED BY <1>0, <1>12, <1>13 DEF Sparing, D, e

(* What the guard's loop keeps between segments.                           *)
Scanning(segs) ==
  [run : Seq(1..Len(segs)), key : {NoKey} \cup {KeyOf(segs, i) : i \in 1..Len(segs)},
   removed : SUBSET (1..Len(segs))]

(* A step of the guard's loop leaves the run a sequence of indices and the *)
(* removed a set of them.                                                  *)
LEMMA RunStepIs ==
  ASSUME NEW X, NEW segs \in Seq(X), NEW acc \in Scanning(segs), NEW i \in 1..Len(segs)
  PROVE  /\ Judged(segs, acc) \in SUBSET (1..Len(segs))
         /\ RunStep(segs, acc, i) \in Scanning(segs)
<1> DEFINE N == Len(segs)
           K == {NoKey} \cup {KeyOf(segs, j) : j \in 1..N}
           J == Judged(segs, acc)
           k == KeyOf(segs, i)
<1>1. acc.run \in Seq(1..N) /\ acc.key \in K /\ acc.removed \in SUBSET (1..N)
  BY DEF Scanning
<1>2. ToSet(acc.run) \in SUBSET (1..N)
  <2> DEFINE r == acc.run
  <2>1. r \in Seq(1..N) /\ DOMAIN r = 1..Len(r)
    BY <1>1
  <2>2. \A j \in DOMAIN r : r[j] \in 1..N
    <3> DEFINE T == 1..N
    <3> HIDE DEF r, T
    <3> QED BY <2>1 DEF T
  <2> HIDE DEF r, N
  <2> QED BY <2>2 DEF ToSet, r
<1>3. J \in SUBSET (1..N)
  BY <1>1, <1>2 DEF Judged
<1>4. k \in K
  OBVIOUS
<1>5. RunStep(segs, acc, i) = IF k # NoKey /\ k = acc.key
                                THEN [acc EXCEPT !.run = Append(acc.run, i)]
                              ELSE [run |-> IF k = NoKey THEN <<>> ELSE <<i>>,
                                    key |-> k, removed |-> J]
  BY DEF RunStep
<1>6. Scanning(segs) = [run : Seq(1..N), key : K, removed : SUBSET (1..N)]
  BY DEF Scanning
<1>7. N \in Nat /\ i \in 1..N
  OBVIOUS
<1> HIDE DEF N, K, J, k
<1>8. Append(acc.run, i) \in Seq(1..N) /\ <<i>> \in Seq(1..N) /\ <<>> \in Seq(1..N)
  BY <1>1, <1>7
<1>9. RunStep(segs, acc, i) \in Scanning(segs)
  <2>1. CASE k # NoKey /\ k = acc.key
    BY <1>1, <1>5, <1>6, <1>8, <2>1
  <2>2. CASE ~(k # NoKey /\ k = acc.key)
    BY <1>3, <1>4, <1>5, <1>6, <1>8, <2>2
  <2> QED BY <2>1, <2>2
<1> QED BY <1>3, <1>9 DEF N, J

(* The guard's loop.                                                       *)
ScanningBy(f, segs) ==
  /\ f \in [0..Len(segs) -> Scanning(segs)]
  /\ f[0] = [run |-> <<>>, key |-> NoKey,
             removed |-> {i \in DOMAIN segs : SingleHallucination(segs[i])}]
  /\ f[Len(segs)] = Scanned(segs)
  /\ \A n \in 1..Len(segs) : f[n] = RunStep(segs, f[n-1], n)

(* The guard's loop, element by element.                                   *)
LEMMA ScanCourse ==
  ASSUME NEW X, NEW segs \in Seq(X)
  PROVE  \E f : ScanningBy(f, segs)
<1> DEFINE ids == [i \in DOMAIN segs |-> i]
           alone == {i \in DOMAIN segs : SingleHallucination(segs[i])}
           N == Len(ids)
           D == Scanning(segs)
           e == [run |-> <<>>, key |-> NoKey, removed |-> alone]
           step == [n \in 1..N |-> [d \in D |-> RunStep(segs, d, ids[n])]]
           unfolds(h) == h = [s \in SUBSET (1..N) |->
             IF s = {} THEN e ELSE RunStep(segs, h[s \ {Max(s)}], ids[Max(s)])]
           iter == CHOOSE h : unfolds(h)
<1>1. N \in Nat /\ DOMAIN ids = 1..N /\ \A n \in 1..N : ids[n] \in 1..Len(segs)
  OBVIOUS
<1>2. e \in D
  BY DEF Scanning
<1>3. ASSUME NEW d \in D, NEW x \in 1..Len(segs) PROVE RunStep(segs, d, x) \in D
  BY <1>3, RunStepIs
<1>4. Scanned(segs) = iter[1..N]
  BY <1>1, Zenon DEF Scanned, FoldLeftDomain, FoldLeft, MapThenFoldSet
<1>5. step \in Steps(N, D)
  BY <1>1, <1>3 DEF Steps
<1>6. ASSUME NEW n \in 1..N, NEW d \in D PROVE step[n][d] = RunStep(segs, d, ids[n])
  OBVIOUS
<1>0. N = Len(segs) /\ \A n \in 1..N : ids[n] = n
  OBVIOUS
<1> HIDE DEF N, D, e, step, iter, ids
<1>7. PICK h : Folding(h, N, D, e, step)
  BY <1>1, <1>2, <1>5, FoldingExists, Zenon
<1>8. unfolds(h)
  <2>1. ASSUME NEW s \in SUBSET (1..N), s # {}
        PROVE  h[s] = RunStep(segs, h[s \ {Max(s)}], ids[Max(s)])
    <3>1. Max(s) \in 1..N
      BY <1>1, <2>1, MaxIs
    <3>2. h[s \ {Max(s)}] \in D /\ h[s] = step[Max(s)][h[s \ {Max(s)}]]
      BY <1>7, <2>1 DEF Folding
    <3> QED BY <1>6, <3>1, <3>2, Zenon
  <2> QED BY <1>7, <2>1 DEF Folding
<1>9. unfolds(iter)
  <2> HIDE DEF unfolds
  <2> QED BY <1>8, Zenon DEF iter
<1>10. Unfolded(iter, N, D, e, step)
  <2>1. ASSUME NEW s \in SUBSET (1..N), s # {}, iter[s \ {Max(s)}] \in D
        PROVE  iter[s] = step[Max(s)][iter[s \ {Max(s)}]]
    <3>1. Max(s) \in 1..N
      BY <1>1, <2>1, MaxIs
    <3>2. iter[s] = RunStep(segs, iter[s \ {Max(s)}], ids[Max(s)])
      BY <1>9, <2>1
    <3> QED BY <1>6, <2>1, <3>1, <3>2, Zenon
  <2>2. iter[{}] = e
    BY <1>9
  <2> HIDE DEF unfolds
  <2> QED BY <2>1, <2>2 DEF Unfolded
<1>11. PICK f : Course(f, N, D, e, step, Scanned(segs))
  <2> HIDE DEF unfolds
  <2> QED BY <1>1, <1>2, <1>4, <1>5, <1>10, CourseExists, Zenon
<1>12. \A n \in 1..N : f[n] = RunStep(segs, f[n-1], ids[n])
  BY <1>6, <1>11 DEF Course
<1>13. f \in [0..N -> D] /\ f[0] = e /\ f[N] = Scanned(segs)
  BY <1>11 DEF Course
<1> HIDE DEF unfolds
<1> QED BY <1>0, <1>12, <1>13 DEF ScanningBy, D, e

(* FlattenSeq, the recursive function it is of included.                   *)
LEMMA FlattenCourse ==
  ASSUME NEW X, NEW seqs \in Seq(Seq(X))
  PROVE  \E f \in [0..Len(seqs) -> Seq(X)] :
           /\ f[0] = <<>> /\ f[Len(seqs)] = FlattenSeq(seqs)
           /\ \A n \in 1..Len(seqs) : f[n] = f[n-1] \o seqs[n]
<1> DEFINE N == Len(seqs)
           D == Seq(X)
           e == <<>>
           step == [n \in 1..N |-> [d \in D |-> d \o seqs[n]]]
           flat(g) == g = [i \in 1..N |-> IF i = 1 THEN seqs[i] ELSE g[i-1] \o seqs[i]]
           flatten == CHOOSE g : flat(g)
<1>1. N \in Nat /\ DOMAIN seqs = 1..N /\ \A n \in 1..N : seqs[n] \in D
  OBVIOUS
<1>2. e \in D /\ step \in Steps(N, D)
  BY <1>1 DEF Steps
<1>3. \A n \in 1..N : \A d \in D : step[n][d] = d \o seqs[n]
  OBVIOUS
<1>4. FlattenSeq(seqs) = IF N = 0 THEN seqs ELSE flatten[N]
  BY Zenon DEF FlattenSeq
<1> HIDE DEF N, e, step, flatten
<1>5. PICK h : Folding(h, N, D, e, step)
  <2> HIDE DEF D
  <2> QED BY <1>1, <1>2, FoldingExists, Zenon
<1>6. PICK f : Course(f, N, D, e, step, h[1..N])
  <2> DEFINE v == h[1..N]
  <2>1. Unfolded(h, N, D, e, step) /\ v = h[1..N]
    BY <1>5 DEF Folding, Unfolded
  <2> HIDE DEF D, v
  <2>2. \E f : Course(f, N, D, e, step, v)
    BY <1>1, <1>2, <2>1, CourseExists, Zenon
  <2> QED BY <2>2 DEF v
<1>7. f \in [0..N -> D] /\ f[0] = <<>> /\ \A n \in 1..N : f[n] = f[n-1] \o seqs[n]
  <2> HIDE DEF D
  <2> QED BY <1>3, <1>6 DEF Course, e
<1>8. CASE N = 0
  BY <1>1, <1>4, <1>7, <1>8 DEF N
<1>9. CASE N # 0
  <2> DEFINE g == [i \in 1..N |-> f[i]]
  <2>1. \A i \in 1..N : g[i] = IF i = 1 THEN seqs[i] ELSE g[i-1] \o seqs[i]
    <3> SUFFICES ASSUME NEW i \in 1..N
                 PROVE  g[i] = IF i = 1 THEN seqs[i] ELSE g[i-1] \o seqs[i]
      OBVIOUS
    <3>1. CASE i = 1
      <4>1. f[i-1] = <<>> /\ i - 1 = 0 /\ seqs[i] \in Seq(X)
        BY <1>1, <1>7, <3>1
      <4>2. f[i] = <<>> \o seqs[i]
        BY <1>7, <4>1
      <4> QED BY <3>1, <4>1, <4>2
    <3>2. CASE i # 1
      <4>1. i - 1 \in 1..N
        BY <1>1, <3>2
      <4> QED BY <1>7, <3>2, <4>1
    <3> QED BY <3>1, <3>2
  <2>2. flat(g)
    BY <2>1, Zenon
  <2>3. flat(flatten)
    <3> HIDE DEF flat, g
    <3> QED BY <2>2, Zenon DEF flatten
  <2> DEFINE S == {n \in 0..N : n = 0 \/ flatten[n] = f[n]}
  <2>4. 0 \in S
    BY <1>1
  <2>5. ASSUME NEW n \in 0..N-1, n \in S PROVE n + 1 \in S
    <3> DEFINE m == n + 1
    <3>1. m \in 1..N /\ m \in 0..N /\ m - 1 = n /\ (m = 1 => n = 0) /\ (m # 1 => n # 0)
      BY <1>1
    <3> HIDE DEF m
    <3>2. flatten[m] = IF m = 1 THEN seqs[m] ELSE flatten[n] \o seqs[m]
      BY <2>3, <3>1
    <3>3. f[m] = f[n] \o seqs[m] /\ seqs[m] \in Seq(X)
      BY <1>1, <1>7, <3>1
    <3>4. CASE m = 1
      <4>1. f[n] = <<>> /\ flatten[m] = seqs[m]
        BY <1>7, <3>1, <3>2, <3>4
      <4> QED BY <3>1, <3>3, <4>1
    <3>5. CASE m # 1
      <4>1. flatten[n] = f[n]
        BY <2>5, <3>1, <3>5
      <4>2. flatten[m] = f[m]
        BY <3>2, <3>3, <3>5, <4>1
      <4> QED BY <3>1, <4>2
    <3> QED BY <3>4, <3>5 DEF m
  <2>6. \A n \in 0..N : n \in S
    <3> HIDE DEF S
    <3> QED BY <1>1, <2>4, <2>5, Climb, Zenon
  <2>7. flatten[N] = f[N]
    BY <1>1, <1>9, <2>6
  <2> QED BY <1>4, <1>7, <1>9, <2>7 DEF N
<1> QED BY <1>8, <1>9

-----------------------------------------------------------------------------
(* What the kernel builds is what Python builds.                           *)

(* Merging is the same, and keeps segments segments.                       *)
LEMMA MergesAgree ==
  ASSUME NEW Text, NEW Who, NEW segs \in Seq(Piece(Text, Who))
  PROVE  /\ MergeAligned(segs) \in Seq(Piece(Text, Who))
         /\ KernelMergeAligned(segs) = MergeAligned(segs)
<1> DEFINE P == Piece(Text, Who)
           N == Len(segs)
<1>1. N \in Nat /\ \A n \in 1..N : segs[n] \in P
  OBVIOUS
<1>2. PICK f \in [0..N -> Seq(P)] :
        /\ f[0] = <<>> /\ f[N] = MergeAligned(segs)
        /\ \A n \in 1..N : f[n] = Joined(f[n-1], segs[n])
  BY MergeCourse, Zenon
<1>3. PICK g \in [0..N -> Seq(P)] :
        /\ g[0] = <<>> /\ g[N] = KernelMergeAligned(segs)
        /\ \A n \in 1..N : g[n] = KernelJoined(g[n-1], segs[n])
  BY KernelMergeCourse, Zenon
<1> DEFINE S == {n \in 0..N : f[n] = g[n]}
<1>4. 0 \in S
  BY <1>1, <1>2, <1>3
<1>5. ASSUME NEW n \in 0..N-1, n \in S PROVE n + 1 \in S
  <2> DEFINE m == n + 1
             d == f[n]
             x == segs[m]
  <2>1. m \in 1..N /\ m \in 0..N /\ m - 1 = n /\ n \in 0..N
    BY <1>1
  <2>2. d \in Seq(P) /\ x \in P /\ g[n] = d
    BY <1>1, <1>2, <1>5, <2>1
  <2> HIDE DEF m, N
  <2>3. f[m] = Joined(d, x) /\ g[m] = KernelJoined(d, x)
    BY <1>2, <1>3, <2>1, <2>2
  <2> HIDE DEF d, x
  <2>4. KernelJoined(d, x) = Joined(d, x)
    BY <2>2, JoinedIs
  <2> QED BY <2>1, <2>3, <2>4 DEF m
<1>6. \A n \in 0..N : n \in S
  <2> HIDE DEF S, N
  <2> QED BY <1>1, <1>4, <1>5, Climb, Zenon
<1>7. N \in 0..N
  BY <1>1
<1> HIDE DEF N
<1> QED BY <1>2, <1>3, <1>6, <1>7

(* Firsts keeps every value once.                                          *)
Once(seq) == \A i, j \in DOMAIN seq : seq[i] = seq[j] => i = j

(* Noting a value once more changes nothing; noting a new one keeps each   *)
(* value once.                                                             *)
LEMMA NotedIs ==
  ASSUME NEW X, NEW d \in Seq(X), NEW x \in X, Once(d)
  PROVE  Once(Noted(d, x)) /\ ToSet(Noted(d, x)) = ToSet(d) \cup {x}
<1> DEFINE n == Len(d)
<1>1. n \in Nat /\ DOMAIN d = 1..n
  OBVIOUS
<1>2. CASE Contains(d, x)
  <2>1. x \in ToSet(d)
    BY <1>1, <1>2 DEF Contains, ToSet
  <2> QED BY <1>2, <2>1 DEF Noted
<1>3. CASE ~Contains(d, x)
  <2> DEFINE a == Append(d, x)
  <2>1. /\ DOMAIN a = 1..(n+1) /\ a[n+1] = x /\ \A k \in 1..n : a[k] = d[k]
        /\ Noted(d, x) = a
    BY <1>3 DEF Noted
  <2>2. \A k \in 1..n : d[k] # x
    BY <1>3 DEF Contains
  <2>3. \A k : k \in 1..(n+1) <=> k \in 1..n \/ k = n + 1
    BY <1>1
  <2> HIDE DEF a, n
  <2>4. Once(a)
    BY <1>1, <2>1, <2>2, <2>3 DEF Once
  <2>5. ToSet(a) = ToSet(d) \cup {x}
    <3>1. \A y : y \in ToSet(a) <=> \E k \in 1..(n+1) : a[k] = y
      BY <2>1 DEF ToSet
    <3>2. \A y : y \in ToSet(d) <=> \E k \in 1..n : d[k] = y
      BY <1>1 DEF ToSet
    <3>3. \A y : y \in ToSet(a) <=> y \in ToSet(d) \/ y = x
      BY <2>1, <2>3, <3>1, <3>2
    <3> QED BY <3>3
  <2> QED BY <2>1, <2>4, <2>5
<1> QED BY <1>2, <1>3

(* Firsts keeps every value, each once.                                    *)
LEMMA FirstsIs ==
  ASSUME NEW X, NEW seq \in Seq(X)
  PROVE  /\ Firsts(seq) \in Seq(X)
         /\ Once(Firsts(seq)) /\ ToSet(Firsts(seq)) = ToSet(seq)
<1> DEFINE N == Len(seq)
           upTo(n) == {seq[k] : k \in 1..n}
<1>1. N \in Nat /\ (\A n \in 1..N : seq[n] \in X) /\ ToSet(seq) = upTo(N)
  BY DEF ToSet
<1>2. PICK f \in [0..N -> Seq(X)] :
        /\ f[0] = <<>> /\ f[N] = Firsts(seq)
        /\ \A n \in 1..N : f[n] = Noted(f[n-1], seq[n])
  BY FirstsCourse, Zenon
<1> DEFINE S == {n \in 0..N : Once(f[n]) /\ ToSet(f[n]) = upTo(n)}
<1>3. 0 \in S
  BY <1>1, <1>2 DEF Once, ToSet
<1>4. ASSUME NEW n \in 0..N-1, n \in S PROVE n + 1 \in S
  <2> DEFINE m == n + 1
             d == f[n]
             x == seq[m]
  <2>1. m \in 1..N /\ m \in 0..N /\ m - 1 = n /\ n \in 0..N
    BY <1>1
  <2>2. \A k : k \in 1..m <=> k \in 1..n \/ k = m
    OBVIOUS
  <2>3. upTo(m) = upTo(n) \cup {x}
    <3> HIDE DEF m
    <3> QED BY <2>2
  <2>4. d \in Seq(X) /\ x \in X /\ Once(d) /\ ToSet(d) = upTo(n)
    BY <1>1, <1>2, <1>4, <2>1
  <2>5. f[m] = Noted(d, x)
    <3> HIDE DEF m, N
    <3> QED BY <1>2, <2>1
  <2> HIDE DEF d, x, upTo, m
  <2>6. Once(Noted(d, x)) /\ ToSet(Noted(d, x)) = ToSet(d) \cup {x}
    BY <2>4, NotedIs
  <2> QED BY <2>1, <2>3, <2>4, <2>5, <2>6 DEF m
<1>5. \A n \in 0..N : n \in S
  <2> HIDE DEF S, N
  <2> QED BY <1>1, <1>3, <1>4, Climb, Zenon
<1>6. N \in 0..N
  BY <1>1
<1> HIDE DEF N, upTo
<1> QED BY <1>1, <1>2, <1>5, <1>6

(* Of the first n labels, how many go by the name b.                       *)
Sharing(labels, map, n, b) == {j \in 1..n : BaseName(labels[j], map) = b}
Count(labels, map, n, b)   == Cardinality(Sharing(labels, map, n, b))

(* The labels among the first n that go by one name, counted one by one.   *)
LEMMA CountIs ==
  ASSUME NEW labels, NEW map, NEW n \in Nat, NEW b
  PROVE  /\ IsFiniteSet(Sharing(labels, map, n, b))
         /\ Count(labels, map, n, b) \in 0..n
         /\ Count(labels, map, 0, b) = 0
         /\ Count(labels, map, n + 1, b) =
              IF BaseName(labels[n + 1], map) = b THEN Count(labels, map, n, b) + 1
              ELSE Count(labels, map, n, b)
<1> DEFINE A == Sharing(labels, map, n, b)
           B == Sharing(labels, map, n + 1, b)
<1>1. IsFiniteSet(1..n) /\ Cardinality(1..n) = n
  BY FS_Interval
<1>2. A \in SUBSET (1..n)
  BY DEF Sharing
<1>3. IsFiniteSet(A) /\ Cardinality(A) <= n
  BY <1>1, <1>2, FS_Subset
<1>4. Cardinality(A) \in Nat
  BY <1>3, FS_CardinalityType
<1>5. Sharing(labels, map, 0, b) = {}
  BY DEF Sharing
<1>6. Cardinality({}) = 0
  BY FS_EmptySet
<1>7. \A k : k \in 1..(n+1) <=> k \in 1..n \/ k = n + 1
  OBVIOUS
<1>8. CASE BaseName(labels[n + 1], map) = b
  <2>1. B = A \cup {n + 1} /\ n + 1 \notin A
    BY <1>7, <1>8 DEF Sharing
  <2>2. Cardinality(B) = Cardinality(A) + 1
    <3> HIDE DEF A, B
    <3> QED BY <1>3, <2>1, FS_AddElement
  <2> HIDE DEF A, B
  <2> QED BY <1>3, <1>4, <1>5, <1>6, <1>8, <2>2 DEF Count, A, B
<1>9. CASE BaseName(labels[n + 1], map) # b
  <2>1. B = A
    BY <1>7, <1>9 DEF Sharing
  <2> HIDE DEF A, B
  <2> QED BY <1>3, <1>4, <1>5, <1>6, <1>9, <2>1 DEF Count, A, B
<1> QED BY <1>8, <1>9

(* Each label that goes by a name comes after fewer of that name than the  *)
(* next.                                                                   *)
LEMMA CountGrows ==
  ASSUME NEW labels, NEW map, NEW i \in Nat, NEW j \in Nat, i < j, NEW b,
         BaseName(labels[j], map) = b
  PROVE  Count(labels, map, i, b) < Count(labels, map, j, b)
<1> DEFINE A == Sharing(labels, map, i, b)
           B == Sharing(labels, map, j, b)
           C == A \cup {j}
<1>1. IsFiniteSet(A) /\ IsFiniteSet(B) /\ Cardinality(A) \in Nat /\ Cardinality(B) \in Nat
  BY CountIs, FS_CardinalityType
<1>2. C \in SUBSET B /\ j \notin A
  BY DEF Sharing
<1> HIDE DEF A, B
<1>3. Cardinality(C) = Cardinality(A) + 1
  BY <1>1, <1>2, FS_AddElement
<1>4. Cardinality(C) <= Cardinality(B)
  <2> HIDE DEF C
  <2> QED BY <1>1, <1>2, FS_Subset
<1> HIDE DEF C
<1>5. Cardinality(A) < Cardinality(B)
  BY <1>1, <1>3, <1>4
<1> QED BY <1>5 DEF Count, A, B

(* The groups of the kernel hold the labels of a name in their order.      *)
InTurn(G, labels, map, i, b) ==
  /\ Count(labels, map, i, b) \in DOMAIN G
  /\ G[Count(labels, map, i, b)] = labels[i]
  /\ \A k \in DOMAIN G : \E j \in 1..Len(labels) :
       /\ BaseName(labels[j], map) = b
       /\ Count(labels, map, j, b) = k /\ G[k] = labels[j]

(* The kernel's group of a name holds the labels that go by it, in their   *)
(* turn.                                                                   *)
LEMMA GroupsAre ==
  ASSUME NEW X, NEW map, NEW labels \in Seq(X), NEW i \in 1..Len(labels)
  PROVE  InTurn(KernelGroups(labels, map)[BaseName(labels[i], map)],
                labels, map, i, BaseName(labels[i], map))
<1> DEFINE N == Len(labels)
           name(n) == BaseName(labels[n], map)
           B == {BaseName(l, map) : l \in ToSet(labels)}
           c(n, b) == Count(labels, map, n, b)
<1>1. N \in Nat /\ \A n \in 1..N : labels[n] \in X /\ name(n) \in B
  BY DEF ToSet
<1>2. PICK f : Grouping(f, X, labels, map)
  BY GroupsCourse, Zenon
<1>3. /\ f \in [0..N -> [B -> Seq(X)]]
       /\ f[0] = [n \in B |-> <<>>] /\ f[N] = KernelGroups(labels, map)
       /\ \A n \in 1..N : f[n] = Grouped(f[n-1], labels[n], map)
  BY <1>2, Zenon DEF Grouping, Bases
<1> DEFINE holds(n, b) ==
      /\ Len(f[n][b]) = c(n, b)
      /\ \A j \in 1..n : name(j) = b => /\ c(j, b) \in 1..c(n, b)
                                        /\ f[n][b][c(j, b)] = labels[j]
      /\ \A k \in 1..c(n, b) : \E j \in 1..n : name(j) = b /\ c(j, b) = k
    S == {n \in 0..N : \A b \in B : holds(n, b)}
<1>4. 0 \in S
  <2> SUFFICES ASSUME NEW b \in B PROVE holds(0, b)
    BY <1>1
  <2>1. c(0, b) = 0
    BY CountIs
  <2>2. f[0][b] = <<>>
    BY <1>3
  <2> HIDE DEF c, B
  <2> QED BY <2>1, <2>2
<1>5. ASSUME NEW n \in 0..N-1, n \in S PROVE n + 1 \in S
  <2> DEFINE m == n + 1
  <2>1. m \in 1..N /\ m \in 0..N /\ m - 1 = n /\ n \in 0..N /\ n \in Nat
        /\ \A k : k \in 1..m <=> k \in 1..n \/ k = m
    BY <1>1
  <2> SUFFICES ASSUME NEW b \in B PROVE holds(m, b)
    BY <2>1
  <2>2. c(n, b) \in 0..n /\ c(m, b) = IF name(m) = b THEN c(n, b) + 1 ELSE c(n, b)
    BY <2>1, CountIs
  <2>3. holds(n, b)
    BY <1>5
  <2> DEFINE G == f[n][b]
             H == f[m][b]
  <2>4. f[n] \in [B -> Seq(X)] /\ f[m] = Grouped(f[n], labels[m], map)
    <3> HIDE DEF m, N, B
    <3> QED BY <1>3, <2>1
  <2>5. G \in Seq(X) /\ H = IF name(m) = b THEN Append(G, labels[m]) ELSE G
    <3> HIDE DEF m, N, B
    <3> QED BY <2>4 DEF Grouped
  <2>6. labels[m] \in X
    BY <1>1, <2>1
  <2>7. /\ Len(G) = c(n, b)
        /\ \A j \in 1..n : name(j) = b => c(j, b) \in 1..c(n, b) /\ G[c(j, b)] = labels[j]
        /\ \A k \in 1..c(n, b) : \E j \in 1..n : name(j) = b /\ c(j, b) = k
    BY <2>3
  <2> HIDE DEF c, G, H, m, name, B, N
  <2>8. CASE name(m) = b
    <3>1. /\ Len(H) = c(m, b) /\ H[c(m, b)] = labels[m]
          /\ \A k \in 1..c(n, b) : H[k] = G[k]
      <4>1. /\ H = Append(G, labels[m]) /\ G \in Seq(X)
            /\ Len(G) = c(n, b) /\ c(m, b) = Len(G) + 1
        BY <2>2, <2>5, <2>7, <2>8
      <4>2. /\ Len(Append(G, labels[m])) = Len(G) + 1
            /\ Append(G, labels[m])[Len(G) + 1] = labels[m]
            /\ \A k \in 1..Len(G) : Append(G, labels[m])[k] = G[k]
        BY <2>6, <4>1
      <4> QED BY <4>1, <4>2
    <3>2. \A k : k \in 1..c(m, b) <=> k \in 1..c(n, b) \/ k = c(m, b)
      BY <2>2, <2>8
    <3>3. ASSUME NEW j \in 1..m, name(j) = b
          PROVE  c(j, b) \in 1..c(m, b) /\ H[c(j, b)] = labels[j]
      <4>1. CASE j = m
        <5>1. c(m, b) \in 1..c(m, b)
          BY <2>2, <2>8
        <5> QED BY <3>1, <4>1, <5>1
      <4>2. CASE j \in 1..n
        BY <2>7, <3>1, <3>2, <3>3, <4>2
      <4> QED BY <2>1, <4>1, <4>2
    <3>4. \A k \in 1..c(m, b) : \E j \in 1..m : name(j) = b /\ c(j, b) = k
      BY <2>1, <2>7, <2>8, <3>2
    <3> QED BY <3>1, <3>3, <3>4 DEF H
  <2>9. CASE name(m) # b
    <3>1. H = G /\ c(m, b) = c(n, b)
      BY <2>2, <2>5, <2>9
    <3>2. \A j \in 1..m : name(j) = b => c(j, b) \in 1..c(m, b) /\ H[c(j, b)] = labels[j]
      BY <2>1, <2>7, <2>9, <3>1
    <3>3. \A k \in 1..c(m, b) : \E j \in 1..m : name(j) = b /\ c(j, b) = k
      BY <2>1, <2>7, <3>1
    <3> QED BY <2>7, <3>1, <3>2, <3>3 DEF H
  <2> QED BY <2>8, <2>9
<1>6. \A n \in 0..N : n \in S
  <2> HIDE DEF S, N
  <2> QED BY <1>1, <1>4, <1>5, Climb, Zenon
<1> DEFINE b == name(i)
<1>7. b \in B /\ N \in 0..N
  BY <1>1
<1>8. holds(N, b)
  <2> HIDE DEF N, holds, B, b
  <2> QED BY <1>6, <1>7
<1> DEFINE G == KernelGroups(labels, map)[b]
<1>9. f[N][b] \in Seq(X) /\ f[N][b] = G
  <2> HIDE DEF N, B, b
  <2> QED BY <1>3, <1>7
<1>10. DOMAIN G = 1..c(N, b)
  <2> HIDE DEF N, c, b
  <2> QED BY <1>8, <1>9
<1>11. i \in 1..N /\ name(i) = b
  OBVIOUS
<1> HIDE DEF c, N, name, b, G
<1>12. /\ c(i, b) \in DOMAIN G /\ G[c(i, b)] = labels[i]
       /\ \A k \in DOMAIN G : \E j \in 1..N : name(j) = b /\ c(j, b) = k /\ G[k] = labels[j]
  BY <1>8, <1>9, <1>10, <1>11
<1> QED BY <1>12, Zenon DEF InTurn, c, N, name, b, G

(* The turn of a label among those that go by its name.                    *)
LEMMA Turns ==
  ASSUME NEW X, NEW map, NEW labels \in Seq(X), Once(labels), NEW i \in 1..Len(labels),
         NEW b, b = BaseName(labels[i], map), NEW t, t = Count(labels, map, i, b)
  PROVE  /\ t \in 1..Len(labels)
         /\ DisplayNames(labels, map)[labels[i]] = IF t = 1 THEN b ELSE Numbered[<<b, t>>]
<1> DEFINE N == Len(labels)
           at == CHOOSE j \in DOMAIN labels : labels[j] = labels[i]
<1>1. N \in Nat /\ DOMAIN labels = 1..N /\ i \in DOMAIN labels /\ i \in Nat
  OBVIOUS
<1>2. at = i
  <2> HIDE DEF N
  <2> QED BY <1>1 DEF Once
<1>3. t \in 0..i
  BY <1>1, CountIs
<1>4. t >= 1
  <2>1. 0 \in Nat /\ 0 < i /\ Count(labels, map, 0, b) = 0
    BY <1>1, CountIs
  <2>2. Count(labels, map, 0, b) < Count(labels, map, i, b)
    BY <1>1, <2>1, CountGrows
  <2> QED BY <1>3, <2>1, <2>2
<1>5. t \in 1..N
  <2> HIDE DEF N
  <2> QED BY <1>1, <1>3, <1>4
<1>6. DisplayNames(labels, map)[labels[i]] = IF t = 1 THEN b ELSE Numbered[<<b, t>>]
  <2>1. labels[i] \in ToSet(labels)
    BY <1>1 DEF ToSet
  <2>2. t = Cardinality({j \in 1..i : BaseName(labels[j], map) = BaseName(labels[i], map)})
    BY DEF Count, Sharing
  <2> DEFINE turn(k) == Cardinality({j \in 1..k :
                          BaseName(labels[j], map) = BaseName(labels[k], map)})
  <2>3. DisplayNames(labels, map)[labels[i]] =
          IF turn(at) = 1 THEN BaseName(labels[i], map)
          ELSE Numbered[<<BaseName(labels[i], map), turn(at)>>]
    BY <2>1, Zenon DEF DisplayNames
  <2>4. turn(i) = t
    BY <2>2
  <2> HIDE DEF at, turn
  <2> QED BY <1>2, <2>3, <2>4
<1> QED BY <1>5, <1>6

(* The kernel shows the labels under the names Python shows them under.    *)
LEMMA NamesAgree ==
  ASSUME NEW X, NEW map, NEW labels \in Seq(X), Once(labels)
  PROVE  KernelDisplayNames(labels, map) = DisplayNames(labels, map)
<1> DEFINE L == ToSet(labels)
           N == Len(labels)
           K == KernelDisplayNames(labels, map)
           D == DisplayNames(labels, map)
           place(l, b) == CHOOSE k \in DOMAIN KernelGroups(labels, map)[b] :
                            KernelGroups(labels, map)[b][k] = l
<1>1. N \in Nat /\ DOMAIN labels = 1..N
  OBVIOUS
<1>2. ASSUME NEW i \in 1..N PROVE K[labels[i]] = D[labels[i]]
  <2> DEFINE l == labels[i]
             b == BaseName(l, map)
             t == Count(labels, map, i, b)
             G == KernelGroups(labels, map)[b]
  <2>0. /\ l = labels[i] /\ b = BaseName(labels[i], map)
        /\ t = Count(labels, map, i, b) /\ G = KernelGroups(labels, map)[b]
    OBVIOUS
  <2> HIDE DEF l, b, t, G
  <2>1. /\ t \in DOMAIN G /\ G[t] = l
        /\ \A k \in DOMAIN G : \E j \in 1..N :
             BaseName(labels[j], map) = b /\ Count(labels, map, j, b) = k /\ G[k] = labels[j]
    <3>1. InTurn(KernelGroups(labels, map)[BaseName(labels[i], map)],
                 labels, map, i, BaseName(labels[i], map))
      BY <1>2, GroupsAre, Zenon
    <3>2. InTurn(G, labels, map, i, b)
      BY <2>0, <3>1
    <3> QED BY <2>0, <3>2, Zenon DEF InTurn
  <2>2. \A k \in DOMAIN G : G[k] = l => k = t
    <3> SUFFICES ASSUME NEW k \in DOMAIN G, G[k] = l PROVE k = t
      OBVIOUS
    <3>1. PICK j \in 1..N : Count(labels, map, j, b) = k /\ G[k] = labels[j]
      BY <2>1
    <3>2. j = i
      BY <1>1, <2>0, <3>1 DEF Once
    <3> QED BY <2>0, <3>1, <3>2
  <2>3. place(l, b) = t
    BY <2>0, <2>1, <2>2
  <2>4. D[l] = IF t = 1 THEN b ELSE Numbered[<<b, t>>]
    <3>1. DisplayNames(labels, map)[labels[i]] = IF t = 1 THEN b ELSE Numbered[<<b, t>>]
      BY <1>2, <2>0, Turns, SMT
    <3> QED BY <2>0, <3>1
  <2>5. l \in L
    BY <1>1, <2>0 DEF ToSet
  <2>6. K[l] = IF place(l, b) = 1 THEN b ELSE Numbered[<<b, place(l, b)>>]
    BY <2>5, Zenon DEF KernelDisplayNames, b
  <2> HIDE DEF place, K, D
  <2> QED BY <2>0, <2>3, <2>4, <2>6
<1>3. DOMAIN K = L /\ DOMAIN D = L /\ K = [l \in L |-> K[l]] /\ D = [l \in L |-> D[l]]
  <2>1. K = [l \in L |-> IF place(l, BaseName(l, map)) = 1 THEN BaseName(l, map)
                         ELSE Numbered[<<BaseName(l, map), place(l, BaseName(l, map))>>]]
    BY Zenon DEF KernelDisplayNames
  <2>2. \E F : D = [l \in L |-> F[l]]
    <3> DEFINE turn(k) == Cardinality({j \in 1..k :
                            BaseName(labels[j], map) = BaseName(labels[k], map)})
               at(l) == CHOOSE j \in DOMAIN labels : labels[j] = l
               F == [l \in L |-> IF turn(at(l)) = 1 THEN BaseName(l, map)
                                  ELSE Numbered[<<BaseName(l, map), turn(at(l))>>]]
    <3>1. D = F
      BY Zenon DEF DisplayNames
    <3>2. F = [l \in L |-> F[l]]
      <4> HIDE DEF turn, at, L
      <4> QED OBVIOUS
    <3> HIDE DEF F, D
    <3> QED BY <3>1, <3>2
  <2> HIDE DEF K, D, L, place
  <2> QED BY <2>1, <2>2
<1>4. \A l \in L : \E i \in 1..N : l = labels[i]
  BY <1>1 DEF ToSet
<1> HIDE DEF K, D, L, N
<1>5. \A l \in L : K[l] = D[l]
  BY <1>2, <1>4
<1>6. K = D
  BY <1>3, <1>5
<1> QED BY <1>6 DEF K, D

(* The kernel's one pass makes each segment and notes each name.           *)
LEMMA BuiltIs ==
  ASSUME NEW X, NEW map, NEW merged \in Seq(X), NEW shown
  PROVE  /\ KernelBuilt(merged, shown, map).segments =
              [i \in 1..Len(merged) |-> ResultSegment(merged[i], shown, map)]
         /\ KernelBuilt(merged, shown, map).unique =
              Firsts([i \in 1..Len(merged) |-> shown[merged[i].speaker]])
<1> DEFINE N == Len(merged)
           R == {ResultSegment(x, shown, map) : x \in X}
           V == {shown[x.speaker] : x \in X}
           r == [i \in 1..N |-> ResultSegment(merged[i], shown, map)]
           v == [i \in 1..N |-> shown[merged[i].speaker]]
<1>1. /\ N \in Nat /\ (\A i \in 1..N : merged[i] \in X)
      /\ r \in [1..N -> R] /\ v \in [1..N -> V]
  OBVIOUS
<1>2. PICK f : Collecting(f, X, merged, shown, map)
  BY ResultCourse, Zenon
<1>3. /\ f \in [0..N -> Collected(X, shown, map)]
       /\ f[0] = [segments |-> <<>>, unique |-> <<>>]
       /\ f[N] = KernelBuilt(merged, shown, map)
       /\ \A n \in 1..N : f[n] = KernelAdded(f[n-1], merged[n], shown, map)
  BY <1>2 DEF Collecting
<1>4. /\ \A n \in 1..N : /\ r[n] = ResultSegment(merged[n], shown, map)
                         /\ v[n] = shown[merged[n].speaker]
      /\ Len(v) = N /\ v \in Seq(V)
  BY <1>1
<1>5. Collected(X, shown, map) = [segments : Seq(R), unique : Seq(V)]
  BY DEF Collected
<1> HIDE DEF r, v, R, V
<1>6. PICK g \in [0..Len(v) -> Seq(V)] :
        /\ g[0] = <<>> /\ g[Len(v)] = Firsts(v)
        /\ \A n \in 1..Len(v) : g[n] = Noted(g[n-1], v[n])
  BY <1>4, FirstsCourse, Zenon
<1> DEFINE S == {n \in 0..N : f[n].segments = [i \in 1..n |-> r[i]] /\ f[n].unique = g[n]}
<1>7. 0 \in S
  BY <1>1, <1>3, <1>4, <1>6
<1>8. ASSUME NEW n \in 0..N-1, n \in S PROVE n + 1 \in S
  <2> DEFINE m == n + 1
             d == f[n]
  <2>1. m \in 1..N /\ m \in 0..N /\ m - 1 = n /\ n \in 0..N
        /\ \A k : k \in 1..m <=> k \in 1..n \/ k = m
    BY <1>1
  <2> HIDE DEF N
  <2>2. d.segments \in Seq(R) /\ d.segments = [i \in 1..n |-> r[i]] /\ d.unique = g[n]
    BY <1>3, <1>5, <1>8, <2>1
  <2> HIDE DEF m
  <2>3. f[m].segments = Append(d.segments, r[m]) /\ f[m].unique = Noted(d.unique, v[m])
    <3>1. f[m] = KernelAdded(d, merged[m], shown, map)
      BY <1>3, <2>1
    <3> HIDE DEF d
    <3> QED BY <1>4, <2>1, <3>1 DEF KernelAdded
  <2>4. g[m] = Noted(g[n], v[m])
    BY <1>4, <1>6, <2>1
  <2>5. r[m] \in R
    BY <1>1, <2>1
  <2> HIDE DEF d
  <2>6. Append(d.segments, r[m]) = [i \in 1..m |-> r[i]]
    <3>1. Len(d.segments) = n
      BY <2>1, <2>2
    <3> QED BY <2>1, <2>2, <2>5, <3>1 DEF m
  <2> QED BY <2>1, <2>2, <2>3, <2>4, <2>6 DEF m
<1>9. \A n \in 0..N : n \in S
  <2> HIDE DEF S, N
  <2> QED BY <1>1, <1>7, <1>8, Climb, Zenon
<1>10. N \in 0..N
  BY <1>1
<1>11. f[N].segments = [i \in 1..N |-> r[i]] /\ f[N].unique = g[N]
  <2> HIDE DEF N
  <2> QED BY <1>9, <1>10
<1>12. [i \in 1..N |-> r[i]] = r
  <2> HIDE DEF N
  <2> QED BY <1>1
<1> HIDE DEF N
<1>13. KernelBuilt(merged, shown, map).segments = r /\ KernelBuilt(merged, shown, map).unique = Firsts(v)
  BY <1>3, <1>4, <1>6, <1>11, <1>12
<1> QED BY <1>13 DEF r, v, N

(* All of it: the same segments, and the same names in the same order.     *)
THEOREM KernelAgrees ==
  ASSUME NEW Text, NEW Who, NEW segs \in Seq(Piece(Text, Who)), NEW map
  PROVE  /\ KernelResult(segs, map).segments = ResultSegments(segs, map)
         /\ KernelResult(segs, map).unique = UniqueSpeakers(ResultSegments(segs, map))
<1> DEFINE merged == MergeAligned(segs)
           N == Len(merged)
           who == [i \in DOMAIN merged |-> merged[i].speaker]
           labels == Firsts(who)
           shown == DisplayNames(labels, map)
           R == ResultSegments(segs, map)
<1>1. merged \in Seq(Piece(Text, Who)) /\ KernelMergeAligned(segs) = merged
  BY MergesAgree
<1>2. DOMAIN merged = 1..N /\ N \in Nat /\ \A i \in 1..N : merged[i].speaker \in Who
  <2> DEFINE P == Piece(Text, Who)
  <2>1. \A x \in P : x.speaker \in Who
    BY DEF Piece
  <2> HIDE DEF merged, P
  <2> QED BY <1>1, <2>1 DEF P
<1>3. who \in Seq(Who)
  <2> HIDE DEF merged, N
  <2> QED BY <1>2
<1>4. labels \in Seq(Who) /\ Once(labels)
  <2> HIDE DEF who
  <2> QED BY <1>3, FirstsIs
<1>5. KernelDisplayNames(labels, map) = shown
  <2> HIDE DEF labels
  <2> QED BY <1>4, NamesAgree
<1>6. KernelResult(segs, map) = KernelBuilt(merged, shown, map)
  <2>1. KernelResult(segs, map) =
          KernelBuilt(merged, KernelDisplayNames(labels, map), map)
    BY <1>1, Zenon DEF KernelResult
  <2> HIDE DEF labels, merged, shown
  <2> QED BY <1>5, <2>1
<1>7. R = [i \in 1..N |-> ResultSegment(merged[i], shown, map)]
  <2>1. R = [i \in DOMAIN merged |-> ResultSegment(merged[i], shown, map)]
    BY Zenon DEF ResultSegments, ResultSegment
  <2> HIDE DEF labels, merged, shown, R, N
  <2> QED BY <1>2, <2>1
<1>8. UniqueSpeakers(R) = Firsts([i \in 1..N |-> shown[merged[i].speaker]])
  <2> DEFINE a == [i \in DOMAIN R |-> R[i].name]
             b == [i \in 1..N |-> shown[merged[i].speaker]]
  <2>1. a = b
    <3> HIDE DEF labels, merged, shown, R, N
    <3> QED BY <1>7 DEF ResultSegment
  <2>2. UniqueSpeakers(R) = Firsts(a)
    BY DEF UniqueSpeakers
  <2> HIDE DEF a, b
  <2>3. UniqueSpeakers(R) = Firsts(b)
    BY <2>1, <2>2
  <2> QED BY <2>3 DEF b
<1> HIDE DEF labels, merged, shown, R, N
<1>9. /\ KernelBuilt(merged, shown, map).segments =
           [i \in 1..N |-> ResultSegment(merged[i], shown, map)]
      /\ KernelBuilt(merged, shown, map).unique =
           Firsts([i \in 1..N |-> shown[merged[i].speaker]])
  BY <1>1, BuiltIs DEF N
<1> QED BY <1>6, <1>7, <1>8, <1>9 DEF R

-----------------------------------------------------------------------------
(* The names labels are shown under.                                       *)

(* Each label's name can be numbered.                                      *)
Numberable(labels, map) ==
  \A k \in 1..Len(labels) : \A n \in 2..Len(labels) :
    <<BaseName(labels[k], map), n>> \in DOMAIN Numbered

(* Two labels get one name only when one of them goes by a name that is    *)
(* another name's with a number.                                           *)
LEMMA ShownApart ==
  ASSUME NEW X, NEW map, NEW labels \in Seq(X), Once(labels),
         NEW i \in 1..Len(labels), NEW j \in 1..Len(labels), i # j,
         DisplayNames(labels, map)[labels[i]] = DisplayNames(labels, map)[labels[j]],
         Numberable(labels, map)
  PROVE  \E n \in 2..Len(labels) :
           \/ BaseName(labels[i], map) = Numbered[<<BaseName(labels[j], map), n>>]
           \/ BaseName(labels[j], map) = Numbered[<<BaseName(labels[i], map), n>>]
<1> DEFINE N == Len(labels)
           name(k) == BaseName(labels[k], map)
           t(k) == Count(labels, map, k, name(k))
           shown(k) == DisplayNames(labels, map)[labels[k]]
<1>1. ASSUME NEW k \in 1..N
      PROVE  t(k) \in 1..N /\ shown(k) = IF t(k) = 1 THEN name(k) ELSE Numbered[<<name(k), t(k)>>]
  BY Turns, SMT
<1>2. N \in Nat /\ i \in 1..N /\ j \in 1..N /\ i \in Nat /\ j \in Nat /\ N \in Int
  OBVIOUS
<1>3. ASSUME NEW a \in 1..N, NEW b \in 1..N, a < b, name(a) = name(b) PROVE t(a) # t(b)
  <2>1. a \in Nat /\ b \in Nat /\ t(a) \in 1..N /\ t(b) \in 1..N
    <3>1. t(a) \in 1..N /\ t(b) \in 1..N
      BY <1>1, Zenon
    <3> HIDE DEF N, t, shown, name
    <3> QED BY <1>2, <3>1
  <2>2. Count(labels, map, a, name(b)) < Count(labels, map, b, name(b))
    <3> HIDE DEF N
    <3> QED BY <1>3, <2>1, CountGrows
  <2>3. Count(labels, map, a, name(b)) = t(a)
    BY <1>3
  <2> HIDE DEF t, N
  <2>4. t(a) < t(b)
    BY <2>2, <2>3 DEF t
  <2> QED BY <1>2, <2>1, <2>4
<1>4. name(i) = name(j) => t(i) # t(j)
  <2>1. i < j \/ j < i
    BY <1>2
  <2> HIDE DEF N, t, name
  <2> QED BY <1>2, <1>3, <2>1
<1>5. /\ t(i) \in 1..N /\ t(j) \in 1..N /\ shown(i) = shown(j)
      /\ shown(i) = IF t(i) = 1 THEN name(i) ELSE Numbered[<<name(i), t(i)>>]
      /\ shown(j) = IF t(j) = 1 THEN name(j) ELSE Numbered[<<name(j), t(j)>>]
  BY <1>1, <1>2
<1>6. /\ t(i) # 1 => t(i) \in 2..N /\ <<name(i), t(i)>> \in DOMAIN Numbered
      /\ t(j) # 1 => t(j) \in 2..N /\ <<name(j), t(j)>> \in DOMAIN Numbered
  <2>1. \A k \in 1..N : \A n \in 2..N : <<name(k), n>> \in DOMAIN Numbered
    BY DEF Numberable
  <2> HIDE DEF N, t, name
  <2> QED BY <1>2, <1>5, <2>1
<1> HIDE DEF N, t, name, shown
<1>7. ~(t(i) = 1 /\ t(j) = 1)
  BY <1>4, <1>5
<1>8. ~(t(i) # 1 /\ t(j) # 1)
  <2> SUFFICES ASSUME t(i) # 1, t(j) # 1 PROVE FALSE
    OBVIOUS
  <2>1. <<name(i), t(i)>> = <<name(j), t(j)>>
    BY <1>5, <1>6, NumberedAssumption
  <2> QED BY <1>4, <2>1
<1>9. \E n \in 2..N : name(i) = Numbered[<<name(j), n>>] \/ name(j) = Numbered[<<name(i), n>>]
  BY <1>5, <1>6, <1>7, <1>8
<1> QED BY <1>9 DEF N, name

(* Values kept once are no more than there are.                            *)
LEMMA OnceBounds ==
  ASSUME NEW X, IsFiniteSet(X), NEW seq \in Seq(X), Once(seq)
  PROVE  Len(seq) <= Cardinality(X)
<1>1. Len(seq) \in Nat /\ seq \in [1..Len(seq) -> X] /\ DOMAIN seq = 1..Len(seq)
  OBVIOUS
<1>2. seq \in Injection(1..Len(seq), X)
  BY <1>1 DEF Once, Injection, IsInjective
<1>3. Cardinality(1..Len(seq)) = Len(seq)
  BY <1>1, FS_Interval
<1>4. Cardinality(1..Len(seq)) <= Cardinality(X)
  BY <1>2, FS_Injection
<1> QED BY <1>3, <1>4

(* So it is with the labels of a result.                                   *)
LEMMA ResultApart ==
  ASSUME NEW Text, NEW Who, IsFiniteSet(Who), NEW segs \in Seq(Piece(Text, Who)), NEW map,
         \A w \in Who : \A n \in 2..Cardinality(Who) :
           <<BaseName(w, map), n>> \in DOMAIN Numbered,
         NEW j \in DOMAIN ResultSegments(segs, map), NEW k \in DOMAIN ResultSegments(segs, map),
         NEW l, l = ResultSegments(segs, map)[j].label,
         NEW m, m = ResultSegments(segs, map)[k].label, l # m,
         ResultSegments(segs, map)[j].name = ResultSegments(segs, map)[k].name
  PROVE  \E n \in 2..Cardinality(Who) :
           \/ BaseName(l, map) = Numbered[<<BaseName(m, map), n>>]
           \/ BaseName(m, map) = Numbered[<<BaseName(l, map), n>>]
<1> DEFINE merged == MergeAligned(segs)
           N == Len(merged)
           who == [i \in DOMAIN merged |-> merged[i].speaker]
           labels == Firsts(who)
           shown == DisplayNames(labels, map)
           R == ResultSegments(segs, map)
           C == Cardinality(Who)
<1>1. merged \in Seq(Piece(Text, Who))
  BY MergesAgree
<1>2. DOMAIN merged = 1..N /\ N \in Nat /\ \A i \in 1..N : merged[i].speaker \in Who
  <2> DEFINE P == Piece(Text, Who)
  <2>1. \A x \in P : x.speaker \in Who
    BY DEF Piece
  <2> HIDE DEF merged, P
  <2> QED BY <1>1, <2>1 DEF P
<1>3. who \in Seq(Who)
  <2> HIDE DEF merged, N
  <2> QED BY <1>2
<1>4. labels \in Seq(Who) /\ Once(labels) /\ ToSet(labels) = ToSet(who)
  <2> HIDE DEF who
  <2> QED BY <1>3, FirstsIs
<1>5. R = [i \in DOMAIN merged |-> ResultSegment(merged[i], shown, map)]
  BY Zenon DEF ResultSegments, ResultSegment
<1>6. j \in 1..N /\ k \in 1..N /\ l = who[j] /\ m = who[k] /\ shown[l] = shown[m]
  <2> HIDE DEF merged, shown, N
  <2> QED BY <1>2, <1>5 DEF ResultSegment
<1>7. l \in ToSet(labels) /\ m \in ToSet(labels)
  <2>1. l \in ToSet(who) /\ m \in ToSet(who)
    <3> HIDE DEF merged, N, labels
    <3> QED BY <1>2, <1>6 DEF ToSet
  <2> HIDE DEF labels, who
  <2> QED BY <1>4, <2>1
<1> HIDE DEF merged, N, who, labels, R
<1>8. PICK a \in 1..Len(labels), b \in 1..Len(labels) : labels[a] = l /\ labels[b] = m
  BY <1>4, <1>7 DEF ToSet
<1>9. Len(labels) <= C /\ C \in Nat /\ Len(labels) \in Nat
  BY <1>4, OnceBounds, FS_CardinalityType
<1>10. Numberable(labels, map)
  <2>1. \A i \in 1..Len(labels) : labels[i] \in Who
    BY <1>4
  <2>2. \A n \in 2..Len(labels) : n \in 2..C
    BY <1>9
  <2> QED BY <2>1, <2>2 DEF Numberable
<1>11. a # b /\ shown[labels[a]] = shown[labels[b]]
  BY <1>6, <1>8
<1>12. \E n \in 2..Len(labels) :
         \/ BaseName(labels[a], map) = Numbered[<<BaseName(labels[b], map), n>>]
         \/ BaseName(labels[b], map) = Numbered[<<BaseName(labels[a], map), n>>]
  <2>1. DisplayNames(labels, map)[labels[a]] = DisplayNames(labels, map)[labels[b]]
    BY <1>11
  <2>2. labels \in Seq(Who) /\ Once(labels) /\ a # b
    BY <1>4, <1>11
  <2> QED BY <1>10, <2>1, <2>2, ShownApart
<1>13. \A n \in 2..Len(labels) : n \in 2..C
  BY <1>9
<1> QED BY <1>8, <1>12, <1>13

-----------------------------------------------------------------------------
(* The guard removes what is a hallucination, alone or in its run.         *)
LEMMA MinIs ==
  ASSUME NEW T \in SUBSET Nat, T # {}
  PROVE  Min(T) \in T /\ \A n \in T : Min(T) <= n
<1>1. \E m \in T : \A n \in T : m <= n
  BY Least
<1> QED BY <1>1 DEF Min

(* The indices from one to another.                                        *)
Stripe(from, to) == [k \in 1..(to - from + 1) |-> from + k - 1]

(* A run of indices that grows by one is still the run of them all.        *)
LEMMA StripeIs ==
  ASSUME NEW from \in Nat, NEW to \in Nat, from <= to
  PROVE  /\ ToSet(Stripe(from, to)) = from..to
         /\ Stripe(from, to) \in Seq(Nat)
         /\ Append(Stripe(from, to), to + 1) = Stripe(from, to + 1)
         /\ <<from>> = Stripe(from, from)
<1> DEFINE s == Stripe(from, to)
           n == to - from + 1
<1>1. n \in Nat /\ s = [k \in 1..n |-> from + k - 1] /\ \A k \in 1..n : from + k - 1 \in Nat
  BY DEF Stripe
<1>2. s \in Seq(Nat) /\ Len(s) = n /\ DOMAIN s = 1..n /\ \A k \in 1..n : s[k] = from + k - 1
  <2> HIDE DEF n, s
  <2> QED BY <1>1
<1>3. ToSet(s) = from..to
  <2>1. ASSUME NEW x \in ToSet(s) PROVE x \in from..to
    <3>1. PICK k \in 1..n : x = from + k - 1
      BY <1>2, <2>1 DEF ToSet
    <3> QED BY <3>1
  <2>2. ASSUME NEW x \in from..to PROVE x \in ToSet(s)
    <3>1. x - from + 1 \in 1..n /\ from + (x - from + 1) - 1 = x
      BY <2>2
    <3> HIDE DEF n, s
    <3>2. s[x - from + 1] = x
      BY <1>2, <3>1
    <3> QED BY <1>2, <3>1, <3>2 DEF ToSet
  <2> HIDE DEF s
  <2> QED BY <2>1, <2>2
<1>4. Append(s, to + 1) = Stripe(from, to + 1)
  <2>1. (to + 1) - from + 1 = n + 1 /\ from + (n + 1) - 1 = to + 1
    OBVIOUS
  <2>2. Stripe(from, to + 1) = [k \in 1..(n + 1) |-> from + k - 1]
    BY <2>1 DEF Stripe
  <2>3. \A k \in 1..(n+1) : k \in 1..n \/ k = n + 1
    BY <1>1
  <2> HIDE DEF n, s
  <2> QED BY <1>1, <1>2, <2>1, <2>2, <2>3
<1>5. <<from>> = Stripe(from, from)
  <2>1. from - from + 1 = 1 /\ \A k \in 1..1 : from + k - 1 = from
    OBVIOUS
  <2> QED BY <2>1 DEF Stripe
<1> HIDE DEF s
<1> QED BY <1>2, <1>3, <1>4, <1>5 DEF s

(* A longest run of one key is the stretch around each of its segments.    *)
LEMMA StretchIs ==
  ASSUME NEW X, NEW segs \in Seq(X), NEW from \in 1..Len(segs), NEW to \in 1..Len(segs),
         NEW i \in from..to,
         \A j \in from..to : KeyOf(segs, j) = KeyOf(segs, i),
         from = 1 \/ KeyOf(segs, from - 1) # KeyOf(segs, i),
         to = Len(segs) \/ KeyOf(segs, to + 1) # KeyOf(segs, i)
  PROVE  Stretch(segs, i) = Stripe(from, to)
<1> DEFINE N == Len(segs)
           k(j) == KeyOf(segs, j)
           A == {a \in 1..i : \A j \in a..i : k(j) = k(i)}
           B == {b \in i..N : \A j \in i..b : k(j) = k(i)}
<1>1. N \in Nat /\ i \in 1..N /\ from \in 1..i /\ to \in i..N
  OBVIOUS
<1> HIDE DEF k
<1>2. from \in A
  BY <1>1 DEF k
<1>3. \A a \in A : from <= a
  <2> SUFFICES ASSUME NEW a \in A, a < from PROVE FALSE
    BY <1>1
  <2>1. from - 1 \in a..i /\ from # 1
    BY <1>1
  <2> QED BY <2>1 DEF k
<1>4. to \in B
  BY <1>1 DEF k
<1>5. \A b \in B : b <= to
  <2> SUFFICES ASSUME NEW b \in B, to < b PROVE FALSE
    BY <1>1
  <2>1. to + 1 \in i..b /\ to # N
    BY <1>1
  <2> QED BY <2>1 DEF k
<1>6. A \in SUBSET Nat /\ B \in SUBSET (1..N)
  BY <1>1
<1>7. Stretch(segs, i) = Stripe(Min(A), Max(B))
  BY Zenon DEF Stretch, Stripe, k
<1> HIDE DEF A, B, N
<1>8. Min(A) = from
  <2>1. Min(A) \in A /\ Min(A) <= from
    BY <1>2, <1>6, MinIs
  <2>2. from <= Min(A) /\ Min(A) \in Nat
    BY <1>3, <1>6, <2>1
  <2> QED BY <1>1, <2>1, <2>2
<1>9. Max(B) = to
  <2>1. Max(B) \in B /\ to <= Max(B)
    BY <1>1, <1>4, <1>6, MaxIs
  <2>2. Max(B) <= to /\ Max(B) \in 1..N
    BY <1>5, <1>6, <2>1
  <2> QED BY <1>1, <2>1, <2>2
<1> QED BY <1>7, <1>8, <1>9

(* A segment of a hallucinated run; the ones of the first n.               *)
Chanted(segs, i) ==
  KeyOf(segs, i) # NoKey /\ RunHallucination(segs, Stretch(segs, i))

ChantedTo(segs, n) == {i \in 1..n : Chanted(segs, i)}

(* What the loop has done after n segments: the runs before the last one   *)
(* are judged, the last one goes back to where its key begins.             *)
Opened(segs, alone, acc, from, n) ==
  /\ acc.run = Stripe(from, n)
  /\ \A j \in from..n : KeyOf(segs, j) = acc.key
  /\ from = 1 \/ KeyOf(segs, from - 1) # acc.key
  /\ acc.removed = alone \cup ChantedTo(segs, from - 1)

ScannedTo(segs, alone, acc, n) ==
  \/ /\ acc.key = NoKey /\ acc.run = <<>>
     /\ n = 0 \/ KeyOf(segs, n) = NoKey
     /\ acc.removed = alone \cup ChantedTo(segs, n)
  \/ /\ acc.key # NoKey
     /\ \E from \in 1..n : Opened(segs, alone, acc, from, n)

(* At the end of a run its segments are judged as one.                     *)
LEMMA ClosingIs ==
  ASSUME NEW X, NEW segs \in Seq(X), NEW alone, NEW acc, NEW n \in 0..Len(segs),
         ScannedTo(segs, alone, acc, n),
         \/ n = Len(segs) \/ acc.key = NoKey \/ KeyOf(segs, n + 1) # acc.key
  PROVE  Judged(segs, acc) = alone \cup ChantedTo(segs, n)
<1>1. CASE acc.key = NoKey
  <2>1. acc.run = <<>> /\ acc.removed = alone \cup ChantedTo(segs, n)
    BY <1>1 DEF ScannedTo
  <2>2. ToSet(<<>>) = {}
    BY DEF ToSet
  <2> QED BY <2>1, <2>2 DEF Judged
<1>2. CASE acc.key # NoKey
  <2>1. PICK from \in 1..n : Opened(segs, alone, acc, from, n)
    BY <1>2 DEF ScannedTo
  <2> DEFINE run == Stripe(from, n)
             h == RunHallucination(segs, run)
  <2>2. /\ from \in 1..Len(segs) /\ n \in 1..Len(segs) /\ from <= n
        /\ from \in Nat /\ n \in Nat
    OBVIOUS
  <2>3. /\ \A j \in from..n : KeyOf(segs, j) = acc.key
        /\ from = 1 \/ KeyOf(segs, from - 1) # acc.key
        /\ n = Len(segs) \/ KeyOf(segs, n + 1) # acc.key
        /\ acc.run = run /\ acc.removed = alone \cup ChantedTo(segs, from - 1)
    BY <1>2, <2>1 DEF Opened
  <2>4. ASSUME NEW i \in from..n PROVE Stretch(segs, i) = run
    <3>1. KeyOf(segs, i) = acc.key
      BY <2>3
    <3>2. \A j \in from..n : KeyOf(segs, j) = KeyOf(segs, i)
      BY <2>3
    <3> HIDE DEF run
    <3>3. Stretch(segs, i) = Stripe(from, n)
      BY <2>2, <2>3, <3>1, <3>2, StretchIs
    <3> QED BY <3>3 DEF run
  <2>5. ToSet(run) = from..n
    BY <2>2, StripeIs
  <2> HIDE DEF run, h
  <2>6. \A i \in from..n : Chanted(segs, i) <=> h
    BY <1>2, <2>3, <2>4 DEF Chanted, h
  <2>7. \A i : i \in 1..n <=> i \in 1..(from - 1) \/ i \in from..n
    BY <2>2
  <2>8. ChantedTo(segs, n) = ChantedTo(segs, from - 1) \cup (IF h THEN from..n ELSE {})
    BY <2>6, <2>7 DEF ChantedTo
  <2>9. Judged(segs, acc) = acc.removed \cup (IF h THEN from..n ELSE {})
    BY <2>3, <2>5 DEF Judged, h
  <2> QED BY <2>3, <2>8, <2>9
<1> QED BY <1>1, <1>2

(* The loop keeps what it knows: the run under way since from, and the     *)
(* removed of all runs before.                                             *)
LEMMA ScanStep ==
  ASSUME NEW X, NEW segs \in Seq(X), NEW alone, NEW acc \in Scanning(segs),
         NEW n \in 0..Len(segs)-1, ScannedTo(segs, alone, acc, n)
  PROVE  ScannedTo(segs, alone, RunStep(segs, acc, n + 1), n + 1)
<1> DEFINE m == n + 1
           k == KeyOf(segs, m)
           next == RunStep(segs, acc, m)
<1>1. n \in Nat /\ m \in Nat /\ m \in 1..Len(segs) /\ n \in 0..Len(segs) /\ m - 1 = n
  OBVIOUS
<1>2. \A j : j \in 1..m <=> j \in 1..n \/ j = m
  OBVIOUS
<1>3. CASE k # NoKey /\ k = acc.key
  <2>1. PICK from \in 1..n : Opened(segs, alone, acc, from, n)
    BY <1>3 DEF ScannedTo
  <2>2. next = [acc EXCEPT !.run = Append(acc.run, m)]
    BY <1>3 DEF RunStep
  <2>3. next.run = Append(acc.run, m) /\ next.key = acc.key /\ next.removed = acc.removed
    <3> HIDE DEF m, next
    <3> QED BY <2>2 DEF Scanning
  <2>4. from \in Nat /\ from <= n /\ from \in 1..m
    BY <1>1
  <2>5. Append(Stripe(from, n), m) = Stripe(from, m)
    BY <1>1, <2>4, StripeIs
  <2>6. \A j \in from..m : j \in from..n \/ j = m
    BY <1>1
  <2> HIDE DEF m, next
  <2>7. Opened(segs, alone, next, from, m)
    BY <1>3, <2>1, <2>3, <2>5, <2>6 DEF Opened
  <2>8. ScannedTo(segs, alone, next, m)
    BY <1>3, <2>3, <2>4, <2>7 DEF ScannedTo
  <2> QED BY <2>8 DEF m, next
<1>4. CASE ~(k # NoKey /\ k = acc.key)
  <2> DEFINE J == Judged(segs, acc)
  <2>1. next = [run |-> IF k = NoKey THEN <<>> ELSE <<m>>, key |-> k, removed |-> J]
    BY <1>4 DEF RunStep
  <2>2. acc.key = NoKey \/ k # acc.key
    BY <1>4
  <2>3. J = alone \cup ChantedTo(segs, n)
    BY <1>1, <2>2, ClosingIs
  <2>4. CASE k = NoKey
    <3>1. ChantedTo(segs, m) = ChantedTo(segs, n)
      <4> HIDE DEF m
      <4> QED BY <1>2, <2>4 DEF ChantedTo, Chanted
    <3> HIDE DEF J, m, next
    <3>2. /\ next.key = NoKey /\ next.run = <<>> /\ KeyOf(segs, m) = NoKey
          /\ next.removed = alone \cup ChantedTo(segs, m)
      BY <2>1, <2>3, <2>4, <3>1
    <3>3. ScannedTo(segs, alone, next, m)
      BY <3>2 DEF ScannedTo
    <3> QED BY <3>3 DEF m, next
  <2>5. CASE k # NoKey
    <3>1. m = 1 \/ KeyOf(segs, m - 1) # k
      <4>1. CASE acc.key = NoKey
        BY <1>1, <2>5, <4>1 DEF ScannedTo
      <4>2. CASE acc.key # NoKey
        <5>1. PICK from \in 1..n : Opened(segs, alone, acc, from, n)
          BY <4>2 DEF ScannedTo
        <5>2. n \in from..n
          OBVIOUS
        <5>3. KeyOf(segs, n) = acc.key
          BY <5>1, <5>2 DEF Opened
        <5> QED BY <1>1, <2>2, <4>2, <5>3
      <4> QED BY <4>1, <4>2
    <3>2. <<m>> = Stripe(m, m) /\ m \in 1..m /\ \A j \in m..m : j = m
      BY <1>1, StripeIs
    <3> HIDE DEF J, m, next
    <3>3. next.run = Stripe(m, m) /\ next.key = k /\ next.removed = alone \cup ChantedTo(segs, m - 1)
      BY <1>1, <2>1, <2>3, <2>5, <3>2
    <3>4. Opened(segs, alone, next, m, m)
      BY <3>1, <3>2, <3>3 DEF Opened
    <3>5. ScannedTo(segs, alone, next, m)
      BY <2>5, <3>2, <3>3, <3>4 DEF ScannedTo
    <3> QED BY <3>5 DEF m, next
  <2> QED BY <2>4, <2>5
<1> QED BY <1>3, <1>4

(* The guard removes the segments that are hallucinations on their own and *)
(* those of hallucinated runs.                                             *)
LEMMA SuppressedIs ==
  ASSUME NEW X, NEW segs \in Seq(X)
  PROVE  Suppressed(segs) =
           {i \in DOMAIN segs : SingleHallucination(segs[i]) \/ Chanted(segs, i)}
<1> DEFINE N == Len(segs)
           alone == {i \in DOMAIN segs : SingleHallucination(segs[i])}
<1>1. N \in Nat /\ DOMAIN segs = 1..N
  OBVIOUS
<1>2. alone = {i \in DOMAIN segs : SingleHallucination(segs[i])}
  OBVIOUS
<1> HIDE DEF alone
<1>3. PICK f : ScanningBy(f, segs)
  BY ScanCourse, Zenon
<1>4. /\ f \in [0..N -> Scanning(segs)]
       /\ f[0] = [run |-> <<>>, key |-> NoKey, removed |-> alone]
       /\ f[N] = Scanned(segs)
       /\ \A n \in 1..N : f[n] = RunStep(segs, f[n-1], n)
  BY <1>2, <1>3 DEF ScanningBy
<1> DEFINE S == {n \in 0..N : ScannedTo(segs, alone, f[n], n)}
<1>5. 0 \in S
  <2>1. ChantedTo(segs, 0) = {}
    BY DEF ChantedTo
  <2> QED BY <1>1, <1>4, <2>1 DEF ScannedTo
<1>6. ASSUME NEW n \in 0..N-1, n \in S PROVE n + 1 \in S
  <2>1. n + 1 \in 1..N /\ n + 1 \in 0..N /\ (n + 1) - 1 = n /\ n \in 0..N
    BY <1>1
  <2>2. f[n + 1] = RunStep(segs, f[n], n + 1) /\ f[n] \in Scanning(segs)
    <3> HIDE DEF N
    <3> QED BY <1>1, <1>4, <2>1
  <2>3. ScannedTo(segs, alone, f[n], n)
    BY <1>6
  <2>4. ScannedTo(segs, alone, RunStep(segs, f[n], n + 1), n + 1)
    BY <2>2, <2>3, ScanStep
  <2> HIDE DEF N
  <2> QED BY <2>1, <2>2, <2>4
<1>7. \A n \in 0..N : n \in S
  <2> HIDE DEF S, N
  <2> QED BY <1>1, <1>5, <1>6, Climb, Zenon
<1>8. N \in 0..N /\ f[N] = Scanned(segs)
  <2> HIDE DEF N
  <2> QED BY <1>1, <1>4
<1>9. ScannedTo(segs, alone, Scanned(segs), N)
  <2> HIDE DEF N
  <2> QED BY <1>7, <1>8
<1>10. Suppressed(segs) = alone \cup ChantedTo(segs, N)
  <2>1. Judged(segs, Scanned(segs)) = alone \cup ChantedTo(segs, N)
    BY <1>1, <1>9, ClosingIs
  <2> QED BY <2>1 DEF Suppressed
<1> HIDE DEF N
<1> QED BY <1>1, <1>2, <1>10 DEF ChantedTo

-----------------------------------------------------------------------------
(* What is said: the texts of the segments of some labels, in their order. *)
LEMMA FlattenGrows ==
  ASSUME NEW X, NEW seqs \in Seq(Seq(X)), NEW t \in Seq(X)
  PROVE  /\ FlattenSeq(seqs) \in Seq(X)
         /\ FlattenSeq(Append(seqs, t)) = FlattenSeq(seqs) \o t
<1> DEFINE N == Len(seqs)
           D == Seq(X)
           more == Append(seqs, t)
<1>1. /\ N \in Nat /\ more \in Seq(D) /\ Len(more) = N + 1 /\ more[N+1] = t
      /\ \A n \in 1..N : more[n] = seqs[n]
  OBVIOUS
<1>2. PICK f \in [0..N -> D] :
        /\ f[0] = <<>> /\ f[N] = FlattenSeq(seqs)
        /\ \A n \in 1..N : f[n] = f[n-1] \o seqs[n]
  BY FlattenCourse, Zenon
<1> HIDE DEF more
<1>3. PICK g \in [0..Len(more) -> D] :
        /\ g[0] = <<>> /\ g[Len(more)] = FlattenSeq(more)
        /\ \A n \in 1..Len(more) : g[n] = g[n-1] \o more[n]
  BY <1>1, FlattenCourse, Zenon
<1> DEFINE S == {n \in 0..N : f[n] = g[n]}
<1>4. 0 \in S
  BY <1>1, <1>2, <1>3
<1>5. ASSUME NEW n \in 0..N-1, n \in S PROVE n + 1 \in S
  <2> DEFINE m == n + 1
  <2>1. m \in 1..N /\ m \in 0..N /\ m - 1 = n /\ m \in 1..(N+1)
    BY <1>1
  <2> HIDE DEF m, N, D
  <2>2. f[m] = f[n] \o seqs[m] /\ g[m] = g[n] \o seqs[m]
    BY <1>1, <1>2, <1>3, <2>1
  <2> QED BY <1>5, <2>1, <2>2 DEF m
<1>6. \A n \in 0..N : n \in S
  <2> HIDE DEF S, N, D
  <2> QED BY <1>1, <1>4, <1>5, Climb, Zenon
<1>7. N \in 0..N /\ N + 1 \in 1..(N+1) /\ (N + 1) - 1 = N
  BY <1>1
<1> HIDE DEF N, D
<1>8. FlattenSeq(more) = FlattenSeq(seqs) \o t
  BY <1>1, <1>2, <1>3, <1>6, <1>7
<1>9. FlattenSeq(seqs) \in D
  BY <1>2, <1>7
<1> QED BY <1>8, <1>9 DEF more, D

(* What a segment says for the labels of L; what segments say.             *)
Part(seg, L) == IF seg.speaker \in L THEN seg.text ELSE <<>>
Parts(segs, L) == [k \in DOMAIN segs |-> Part(segs[k], L)]
Spoken(segs, L) == FlattenSeq(Parts(segs, L))

(* p is what each of the segments of d says for L.                         *)
PartedBy(d, L, Text) ==
  /\ Parts(d, L) \in Seq(Seq(Text)) /\ Len(Parts(d, L)) = Len(d)
  /\ \A k \in 1..Len(d) : Parts(d, L)[k] = Part(d[k], L)

(* e says what d and then x says.                                          *)
SpokenAfter(e, d, x, L) == Spoken(e, L) = Spoken(d, L) \o Part(x, L)

(* With one more segment, d says what that says besides.                   *)
SpokenBy(d, x, L, Text) ==
  /\ Spoken(d, L) \in Seq(Text)
  /\ Spoken(Append(d, x), L) = Spoken(d, L) \o Part(x, L)

(* What a segment says is a text.                                          *)
LEMMA PartIs ==
  ASSUME NEW Text, NEW Who, NEW L, NEW x \in Piece(Text, Who)
  PROVE  Part(x, L) \in Seq(Text)
BY DEF Part, Piece

(* What segments say is a sequence of texts, one for each.                 *)
LEMMA PartsAre ==
  ASSUME NEW Text, NEW Who, NEW L, NEW d \in Seq(Piece(Text, Who))
  PROVE  PartedBy(d, L, Text)
<1> DEFINE P == Piece(Text, Who)
           D == Seq(Text)
<1>1. DOMAIN d = 1..Len(d) /\ Len(d) \in Nat
  OBVIOUS
<1>2. \A k \in 1..Len(d) : d[k] \in P
  <2>1. d \in Seq(P)
    OBVIOUS
  <2> HIDE DEF P
  <2> QED BY <2>1
<1>3. \A k \in 1..Len(d) : Part(d[k], L) \in D
  BY <1>2, PartIs
<1> HIDE DEF P, D
<1>4. Parts(d, L) \in Seq(D)
  BY <1>1, <1>3 DEF Parts
<1> QED BY <1>1, <1>4 DEF Parts, D, PartedBy

(* A segment more says what it says after the others.                      *)
LEMMA SpokenGrows ==
  ASSUME NEW Text, NEW Who, NEW L, NEW d \in Seq(Piece(Text, Who)), NEW x \in Piece(Text, Who)
  PROVE  SpokenBy(d, x, L, Text)
<1> DEFINE P == Piece(Text, Who)
           n == Len(d)
           a == Append(d, x)
           s == Parts(d, L)
<1>1. /\ n \in Nat /\ a \in Seq(P) /\ DOMAIN a = 1..(n+1) /\ DOMAIN d = 1..n
      /\ a[n+1] = x /\ \A k \in 1..n : a[k] = d[k]
  OBVIOUS
<1>2. s \in Seq(Seq(Text)) /\ Len(s) = n /\ \A k \in 1..n : s[k] = Part(d[k], L)
  <2>1. PartedBy(d, L, Text)
    BY PartsAre, Zenon
  <2> QED BY <2>1 DEF PartedBy
<1>3. Part(x, L) \in Seq(Text)
  BY PartIs
<1> HIDE DEF a, s, n
<1>4. Parts(a, L) = Append(s, Part(x, L))
  <2> DEFINE p == Part(x, L)
             D == Seq(Text)
  <2>1. p \in D /\ s \in Seq(D)
    BY <1>2, <1>3
  <2> HIDE DEF D
  <2>2. DOMAIN Append(s, p) = 1..(n+1) /\ Append(s, p)[n+1] = p /\ \A k \in 1..n : Append(s, p)[k] = s[k]
    BY <1>1, <1>2, <2>1
  <2>3. Append(s, p) = [k \in 1..(n+1) |-> Append(s, p)[k]]
    <3> DEFINE q == Append(s, p)
    <3>1. q \in Seq(D) /\ DOMAIN q = 1..(n+1)
      BY <2>1, <2>2
    <3> HIDE DEF q
    <3>2. q = [k \in DOMAIN q |-> q[k]]
      BY <3>1
    <3> QED BY <3>1, <3>2 DEF q
  <2>4. \A k \in 1..(n+1) : k \in 1..n \/ k = n + 1
    BY <1>1
  <2>5. \A k \in 1..(n+1) : Part(a[k], L) = Append(s, p)[k]
    BY <1>1, <1>2, <2>2, <2>4
  <2> QED BY <1>1, <2>3, <2>5 DEF Parts
<1>5. FlattenSeq(s) \in Seq(Text) /\ FlattenSeq(Append(s, Part(x, L))) = FlattenSeq(s) \o Part(x, L)
  BY <1>2, <1>3, FlattenGrows
<1> QED BY <1>4, <1>5 DEF SpokenBy, Spoken, a, s

(* Joining two segments joins what they say.                               *)
LEMMA SpokenJoined ==
  ASSUME NEW Text, NEW Who, NEW L, NEW d \in Seq(Piece(Text, Who)), NEW x \in Piece(Text, Who)
  PROVE  SpokenAfter(Joined(d, x), d, x, L)
<1> USE DEF SpokenAfter
<1> DEFINE P == Piece(Text, Who)
<1>1. CASE d = <<>> \/ ~CanMerge(Last(d), x)
  <2>1. Joined(d, x) = Append(d, x)
    BY <1>1 DEF Joined
  <2>2. SpokenBy(d, x, L, Text)
    BY SpokenGrows, Zenon
  <2> QED BY <2>1, <2>2, Zenon DEF SpokenBy
<1>2. CASE d # <<>> /\ CanMerge(Last(d), x)
  <2> DEFINE r == Front(d)
             y == Last(d)
             m == Merged(y, x)
  <2>1. r \in Seq(P) /\ y \in P /\ d = Append(r, y)
    <3>1. d \in Seq(P)
      OBVIOUS
    <3> HIDE DEF P
    <3> QED BY <1>2, <3>1, FrontIs
  <2>2. Joined(d, x) = Append(r, m) /\ y.speaker = x.speaker
    BY <1>2 DEF Joined, CanMerge
  <2> HIDE DEF r, y
  <2>3. m \in P
    <3> DEFINE e == Max({y.end, x.end})
               t == y.text \o x.text
    <3>1. y.end \in Nat /\ x.end \in Nat /\ t \in Seq(Text)
      BY <2>1 DEF Piece
    <3>2. e \in Nat
      <4>1. y.end \in Int /\ x.end \in Int
        BY <3>1
      <4>2. e = IF y.end >= x.end THEN y.end ELSE x.end
        BY <4>1, MaxOfTwo
      <4> QED BY <3>1, <4>2
    <3>3. m = [y EXCEPT !.end = e, !.text = t]
      BY DEF Merged
    <3> HIDE DEF e, t, m
    <3> QED BY <2>1, <3>1, <3>2, <3>3 DEF Piece
  <2>4. m.speaker = y.speaker /\ m.text = y.text \o x.text
    <3> DEFINE e == Max({y.end, x.end})
               t == y.text \o x.text
    <3>1. m = [y EXCEPT !.end = e, !.text = t]
      BY DEF Merged
    <3> HIDE DEF e, m
    <3> QED BY <2>1, <3>1 DEF Piece
  <2> HIDE DEF m
  <2>5. Part(m, L) = Part(y, L) \o Part(x, L)
    <3>1. CASE x.speaker \in L
      BY <2>2, <2>4, <3>1 DEF Part
    <3>2. CASE x.speaker \notin L
      <4>1. Part(m, L) = <<>> /\ Part(y, L) = <<>> /\ Part(x, L) = <<>>
        BY <2>2, <2>4, <3>2 DEF Part
      <4>2. <<>> \o <<>> = <<>>
        OBVIOUS
      <4> QED BY <4>1, <4>2
    <3> QED BY <3>1, <3>2
  <2>6. /\ Spoken(Append(r, m), L) = Spoken(r, L) \o Part(m, L)
        /\ Spoken(Append(r, y), L) = Spoken(r, L) \o Part(y, L)
        /\ Spoken(r, L) \in Seq(Text)
    <3>1. SpokenBy(r, m, L, Text) /\ SpokenBy(r, y, L, Text)
      BY <2>1, <2>3, SpokenGrows, Zenon
    <3> QED BY <3>1, Zenon DEF SpokenBy
  <2>7. Part(y, L) \in Seq(Text) /\ Part(x, L) \in Seq(Text)
    BY <2>1, PartIs
  <2> DEFINE a == Spoken(r, L)
             b == Part(y, L)
             c == Part(x, L)
  <2>8. a \o (b \o c) = (a \o b) \o c
    <3> HIDE DEF a, b, c
    <3> QED BY <2>6, <2>7 DEF a, b, c
  <2> QED BY <2>1, <2>2, <2>5, <2>6, <2>8
<1> QED BY <1>1, <1>2

(* No segments say nothing.                                                *)
LEMMA SpokenNone ==
  ASSUME NEW L
  PROVE  Spoken(<<>>, L) = <<>>
<1>1. Parts(<<>>, L) = <<>>
  BY DEF Parts
<1>2. FlattenSeq(<<>>) = <<>>
  BY DEF FlattenSeq
<1> QED BY <1>1, <1>2 DEF Spoken

(* Merging changes nothing in what is said for any labels.                 *)
LEMMA MergeSpoken ==
  ASSUME NEW Text, NEW Who, NEW L, NEW segs \in Seq(Piece(Text, Who))
  PROVE  Spoken(MergeAligned(segs), L) = Spoken(segs, L)
<1> DEFINE N == Len(segs)
           P == Piece(Text, Who)
           D == Seq(P)
           T == Seq(Text)
           p == Parts(segs, L)
<1>1. N \in Nat /\ \A n \in 1..N : segs[n] \in P
  <2>1. segs \in Seq(P)
    OBVIOUS
  <2> HIDE DEF P
  <2> QED BY <2>1
<1>2. PICK f \in [0..N -> D] :
        /\ f[0] = <<>> /\ f[N] = MergeAligned(segs)
        /\ \A n \in 1..N : f[n] = Joined(f[n-1], segs[n])
  BY MergeCourse, Zenon
<1>3. p \in Seq(T) /\ Len(p) = N /\ \A n \in 1..N : p[n] = Part(segs[n], L)
  <2>1. PartedBy(segs, L, Text)
    BY PartsAre, Zenon
  <2> QED BY <2>1 DEF PartedBy
<1>4. PICK h \in [0..Len(p) -> T] :
        /\ h[0] = <<>> /\ h[Len(p)] = FlattenSeq(p)
        /\ \A n \in 1..Len(p) : h[n] = h[n-1] \o p[n]
  <2> HIDE DEF p
  <2> QED BY <1>3, FlattenCourse, Zenon
<1> DEFINE S == {n \in 0..N : Spoken(f[n], L) = h[n]}
<1>5. 0 \in S
  BY <1>1, <1>2, <1>4, SpokenNone
<1>6. ASSUME NEW n \in 0..N-1, n \in S PROVE n + 1 \in S
  <2> DEFINE m == n + 1
  <2>1. m \in 1..N /\ m \in 0..N /\ n \in 0..N /\ m - 1 = n
    BY <1>1
  <2>2. f[n] \in Seq(Piece(Text, Who)) /\ segs[m] \in Piece(Text, Who)
    <3> HIDE DEF m, N, D, P, p
    <3>1. f[n] \in D /\ segs[m] \in P
      BY <1>1, <1>2, <2>1
    <3> QED BY <3>1 DEF D, P
  <2> HIDE DEF m, N, D, p
  <2>3. Spoken(Joined(f[n], segs[m]), L) = Spoken(f[n], L) \o Part(segs[m], L)
    <3>1. SpokenAfter(Joined(f[n], segs[m]), f[n], segs[m], L)
      BY <2>2, SpokenJoined, Zenon
    <3> QED BY <3>1 DEF SpokenAfter
  <2>4. f[m] = Joined(f[n], segs[m]) /\ h[m] = h[n] \o Part(segs[m], L)
    BY <1>2, <1>3, <1>4, <2>1
  <2> QED BY <1>6, <2>1, <2>3, <2>4 DEF m
<1>7. \A n \in 0..N : n \in S
  <2> HIDE DEF S, N, D
  <2> QED BY <1>1, <1>5, <1>6, Climb, Zenon
<1> HIDE DEF D, P, T, p
<1> QED BY <1>1, <1>2, <1>3, <1>4, <1>7 DEF Spoken, p

(* Segments without words come in the order they start; those with words   *)
(* are timed by them and may come in any.                                  *)
Before(s, t) == s.words \/ t.words \/ s.start <= t.start

WordlessInOrder(segs) ==
  \A j \in DOMAIN segs : \A k \in j..Len(segs) : Before(segs[j], segs[k])

(* A segment that lies within another of its speaker.                      *)
Covers(d, s) ==
  \E k \in 1..Len(d) :
    d[k].speaker = s.speaker /\ d[k].start <= s.start /\ s.end <= d[k].end

(* With one more segment taken in, e covers that and what d covers.        *)
CoversMore(d, e, x, P) ==
  /\ \A t \in P : Before(x, t) /\ (\A k \in 1..Len(d) : Before(d[k], t))
       => \A k \in 1..Len(e) : Before(e[k], t)
  /\ Covers(e, x)
  /\ \A s \in P : Covers(d, s) => Covers(e, s)

(* Taking a segment in, by a merge or at the end, keeps what is covered.   *)
LEMMA JoinedCovers ==
  ASSUME NEW Text, NEW Who, NEW d \in Seq(Piece(Text, Who)), NEW x \in Piece(Text, Who),
         \A k \in 1..Len(d) : Before(d[k], x)
  PROVE  CoversMore(d, Joined(d, x), x, Piece(Text, Who))
<1> DEFINE P == Piece(Text, Who)
           n == Len(d)
<1>1. d \in Seq(P) /\ x \in P /\ n \in Nat
  OBVIOUS
<1>2. \A s \in P : s.start \in Nat /\ s.end \in Nat
  BY DEF Piece
<1>3. \A k \in 1..n : d[k] \in P
  <2> HIDE DEF P
  <2> QED BY <1>1
<1>4. CASE d = <<>> \/ ~CanMerge(Last(d), x)
  <2> DEFINE e == Append(d, x)
  <2>1. Joined(d, x) = e
    BY <1>4 DEF Joined
  <2> HIDE DEF P
  <2>2. /\ Len(e) = n + 1 /\ e[n+1] = x /\ \A k \in 1..n : e[k] = d[k] /\ k \in 1..(n+1)
        /\ n + 1 \in 1..(n+1) /\ \A k \in 1..(n+1) : k \in 1..n \/ k = n + 1
    BY <1>1
  <2> HIDE DEF e, n
  <2>3. ASSUME NEW t \in P, Before(x, t), \A k \in 1..n : Before(d[k], t)
        PROVE  \A k \in 1..Len(e) : Before(e[k], t)
    BY <2>2, <2>3
  <2>4. Covers(e, x)
    BY <1>1, <1>2, <2>2 DEF Covers
  <2>5. \A s \in P : Covers(d, s) => Covers(e, s)
    BY <2>2 DEF Covers, n
  <2> QED BY <2>1, <2>3, <2>4, <2>5 DEF CoversMore, P, n
<1>5. CASE d # <<>> /\ CanMerge(Last(d), x)
  <2> DEFINE r == Front(d)
             y == Last(d)
             m == Merged(y, x)
             e == Append(r, m)
  <2> HIDE DEF P
  <2>1. /\ r \in Seq(P) /\ Len(r) = n - 1 /\ y \in P /\ y = d[n] /\ n \in 1..n
        /\ \A k \in 1..n-1 : r[k] = d[k]
    BY <1>1, <1>5, FrontIs
  <2>2. Joined(d, x) = e /\ y.speaker = x.speaker /\ ~y.words /\ ~x.words
    BY <1>5 DEF Joined, CanMerge
  <2> HIDE DEF r, y
  <2>3. /\ m.speaker = y.speaker /\ m.start = y.start /\ m.words = y.words
        /\ m.end = Max({y.end, x.end})
    BY <2>1 DEF Merged, Piece, P
  <2>4. y.end <= m.end /\ x.end <= m.end
    <3>1. y.end \in Int /\ x.end \in Int
      BY <1>1, <1>2, <2>1
    <3>2. m.end = IF y.end >= x.end THEN y.end ELSE x.end
      BY <2>3, <3>1, MaxOfTwo
    <3> QED BY <3>1, <3>2
  <2> HIDE DEF m
  <2>5. Len(e) = n /\ e[n] = m /\ \A k \in 1..n-1 : e[k] = d[k]
    BY <1>1, <2>1
  <2>6. \A k \in 1..n : k \in 1..n-1 \/ k = n
    BY <1>1
  <2>7. y.start <= x.start
    BY <2>1, <2>2 DEF Before
  <2> HIDE DEF e, n
  <2>8. \A k \in 1..n : e[k].start <= d[k].start /\ e[k].speaker = d[k].speaker
    <3> SUFFICES ASSUME NEW k \in 1..n PROVE e[k].start <= d[k].start /\ e[k].speaker = d[k].speaker
      OBVIOUS
    <3>1. d[k].start \in Nat
      BY <1>2, <1>3
    <3>2. CASE k = n
      BY <2>1, <2>3, <2>5, <3>1, <3>2
    <3>3. CASE k \in 1..n-1
      BY <2>5, <3>1, <3>3
    <3> QED BY <2>6, <3>2, <3>3
  <2>9. \A k \in 1..n : d[k].end <= e[k].end /\ e[k].start \in Nat /\ e[k].end \in Nat
    <3> SUFFICES ASSUME NEW k \in 1..n
                 PROVE d[k].end <= e[k].end /\ e[k].start \in Nat /\ e[k].end \in Nat
      OBVIOUS
    <3>1. d[k].end \in Nat /\ d[k].start \in Nat
      BY <1>2, <1>3
    <3>2. CASE k = n
      <4>1. m.end \in Nat
        <5>1. y.end \in Nat /\ x.end \in Nat
          BY <1>1, <1>2, <2>1
        <5>2. Max({y.end, x.end}) = IF y.end >= x.end THEN y.end ELSE x.end
          BY <5>1, MaxOfTwo
        <5> QED BY <2>3, <5>1, <5>2
      <4> QED BY <2>1, <2>3, <2>4, <2>5, <3>1, <3>2, <4>1
    <3>3. CASE k \in 1..n-1
      BY <2>5, <3>1, <3>3
    <3> QED BY <2>6, <3>2, <3>3
  <2>10. ASSUME NEW t \in P, Before(x, t), \A k \in 1..n : Before(d[k], t)
         PROVE  \A k \in 1..Len(e) : Before(e[k], t)
    <3> SUFFICES ASSUME NEW k \in 1..n PROVE Before(e[k], t)
      BY <2>5
    <3>1. Before(d[k], t)
      BY <2>10
    <3>2. CASE k = n
      BY <2>1, <2>3, <2>5, <3>1, <3>2 DEF Before
    <3>3. CASE k \in 1..n-1
      BY <2>5, <3>1, <3>3
    <3> QED BY <2>6, <3>2, <3>3
  <2>11. Covers(e, x)
    BY <2>1, <2>2, <2>3, <2>4, <2>5, <2>7 DEF Covers
  <2>12. ASSUME NEW s \in P, Covers(d, s) PROVE Covers(e, s)
    <3>1. PICK k \in 1..n : d[k].speaker = s.speaker /\ d[k].start <= s.start /\ s.end <= d[k].end
      BY <2>12 DEF Covers, n
    <3>2. e[k].start <= s.start /\ s.end <= e[k].end /\ e[k].speaker = s.speaker
      BY <1>2, <1>3, <2>8, <2>9, <2>12, <3>1
    <3> QED BY <2>5, <3>2 DEF Covers
  <2> QED BY <2>2, <2>10, <2>11, <2>12 DEF CoversMore, P, n
<1> QED BY <1>4, <1>5

(* When those without words come in order, each segment is covered by a    *)
(* merged one.                                                             *)
LEMMA MergeCovers ==
  ASSUME NEW Text, NEW Who, NEW segs \in Seq(Piece(Text, Who)), WordlessInOrder(segs)
  PROVE  \A i \in 1..Len(segs) : Covers(MergeAligned(segs), segs[i])
<1> DEFINE N == Len(segs)
           P == Piece(Text, Who)
           D == Seq(P)
<1>1. N \in Nat /\ DOMAIN segs = 1..N /\ \A n \in 1..N : segs[n] \in P
  <2>1. segs \in Seq(P)
    OBVIOUS
  <2> HIDE DEF P
  <2> QED BY <2>1
<1>2. PICK f \in [0..N -> D] :
        /\ f[0] = <<>> /\ f[N] = MergeAligned(segs)
        /\ \A n \in 1..N : f[n] = Joined(f[n-1], segs[n])
  BY MergeCourse, Zenon
<1>3. \A j, k \in 1..N : j <= k => Before(segs[j], segs[k])
  BY <1>1 DEF WordlessInOrder
<1> DEFINE S == {n \in 0..N :
                   /\ \A k \in 1..Len(f[n]) : \A j \in 1..N : n <= j => Before(f[n][k], segs[j])
                   /\ \A i \in 1..n : Covers(f[n], segs[i])}
<1>4. 0 \in S
  BY <1>1, <1>2
<1>5. ASSUME NEW n \in 0..N-1, n \in S PROVE n + 1 \in S
  <2> DEFINE m == n + 1
             d == f[n]
             x == segs[m]
             e == f[m]
  <2>1. /\ m \in 1..N /\ m \in 0..N /\ m - 1 = n /\ n <= m
        /\ \A i \in 1..m : i \in 1..n \/ i = m
        /\ \A i \in 1..n : i \in 1..N
        /\ \A j \in 1..N : m <= j => n <= j
    BY <1>1
  <2>2. d \in Seq(Piece(Text, Who)) /\ x \in Piece(Text, Who) /\ e \in Seq(Piece(Text, Who))
    <3>1. n \in 0..N
      BY <1>1
    <3> HIDE DEF m, N, D, P
    <3>2. d \in D /\ x \in P /\ e \in D
      BY <1>1, <1>2, <2>1, <3>1
    <3> QED BY <3>2 DEF D, P
  <2> HIDE DEF m, N, D
  <2>3. \A k \in 1..Len(d) : Before(d[k], x)
    BY <1>5, <2>1
  <2>4. e = Joined(d, x)
    BY <1>2, <2>1
  <2> HIDE DEF d, x, e
  <2>5. CoversMore(d, Joined(d, x), x, Piece(Text, Who))
    BY <2>2, <2>3, JoinedCovers, Zenon
  <2> HIDE DEF P
  <2>8. /\ \A t \in P : Before(x, t) /\ (\A k \in 1..Len(d) : Before(d[k], t))
             => \A k \in 1..Len(e) : Before(e[k], t)
        /\ Covers(e, x) /\ \A s \in P : Covers(d, s) => Covers(e, s)
    BY <2>4, <2>5, Zenon DEF CoversMore, P
  <2>9. ASSUME NEW k \in 1..Len(e), NEW j \in 1..N, m <= j PROVE Before(e[k], segs[j])
    <3>1. Before(x, segs[j])
      BY <1>3, <2>1, <2>9 DEF x
    <3>2. \A i \in 1..Len(d) : Before(d[i], segs[j])
      BY <1>5, <2>1, <2>9 DEF d
    <3> QED BY <1>1, <2>8, <3>1, <3>2
  <2>10. ASSUME NEW i \in 1..m PROVE Covers(e, segs[i])
    <3>1. CASE i \in 1..n
      BY <1>1, <1>5, <2>1, <2>8, <3>1 DEF d
    <3>2. CASE i = m
      BY <2>8, <3>2 DEF x
    <3> QED BY <2>1, <3>1, <3>2
  <2> QED BY <2>1, <2>9, <2>10 DEF m, e
<1>6. \A n \in 0..N : n \in S
  <2> HIDE DEF S, N, D
  <2> QED BY <1>1, <1>4, <1>5, Climb, Zenon
<1>7. N \in 0..N
  BY <1>1
<1> HIDE DEF D, P
<1> QED BY <1>2, <1>6, <1>7

-----------------------------------------------------------------------------
(* A segment that is short and says what the segment before it says; what  *)
(* the segments say for L without those.                                   *)
Repeated(segs, i) ==
  /\ i > 1 /\ segs[i].text # <<>>
  /\ segs[i].text = segs[i-1].text
  /\ segs[i].end - segs[i].start < EchoTime
  /\ Len(segs[i].text) <= EchoLength

Voices(segs, L) ==
  [i \in DOMAIN segs |-> IF Repeated(segs, i) THEN <<>> ELSE Part(segs[i], L)]

(* d is what is kept of the first n segments.                              *)
KeptOf(d, segs, n) ==
  /\ IF n = 0 THEN d = <<>> ELSE d # <<>> /\ Last(d).text = segs[n].text
  /\ \A k \in 1..Len(d) : \A j \in 1..Len(segs) : n <= j => Before(d[k], segs[j])
  /\ \A k \in 1..Len(d) : \A j \in 1..k : Before(d[j], d[k])
  /\ \A i \in 1..n : Repeated(segs, i) \/ \E k \in 1..Len(d) : d[k] = segs[i]

(* The next segment is left out when it repeats the one before it.         *)
KeepsOn(d, segs, m) ==
  /\ Kept(d, segs[m]) = IF Repeated(segs, m) THEN d ELSE Append(d, segs[m])
  /\ KeptOf(Kept(d, segs[m]), segs, m)

(* One step of dedup_short_segments.                                       *)
LEMMA KeptIs ==
  ASSUME NEW Text, NEW Who, NEW segs \in Seq(Piece(Text, Who)), WordlessInOrder(segs),
         NEW m \in 1..Len(segs), NEW d \in Seq(Piece(Text, Who)), KeptOf(d, segs, m - 1)
  PROVE  KeepsOn(d, segs, m)
<1> DEFINE N == Len(segs)
           P == Piece(Text, Who)
           n == m - 1
           x == segs[m]
<1>1. N \in Nat /\ DOMAIN segs = 1..N /\ d \in Seq(P) /\ \A i \in 1..N : segs[i] \in P
  <2>1. segs \in Seq(P) /\ d \in Seq(P)
    OBVIOUS
  <2> HIDE DEF P
  <2> QED BY <2>1
<1>3. /\ m \in 1..N /\ n \in Nat /\ n <= m /\ (m > 1 <=> n > 0) /\ (n = 0 \/ n > 0)
      /\ \A i \in 1..m : i \in 1..n \/ i = m
      /\ \A j \in 1..N : m <= j => n <= j
  OBVIOUS
<1>4. \A j \in 1..N : m <= j => Before(x, segs[j])
  BY <1>1 DEF WordlessInOrder
<1> HIDE DEF P
<1>6. (d # <<>> /\ Echoes(Last(d), x)) <=> Repeated(segs, m)
  <2>1. CASE n = 0
    <3>1. ~(m > 1) /\ m = 1
      BY <1>3, <2>1
    <3>2. d = <<>>
      BY <2>1 DEF KeptOf
    <3> QED BY <3>1, <3>2 DEF Repeated
  <2>2. CASE n > 0
    <3>1. d # <<>> /\ Last(d).text = segs[n].text
      BY <2>2 DEF KeptOf
    <3> QED BY <1>3, <2>2, <3>1 DEF Repeated, Echoes
  <2> QED BY <1>3, <2>1, <2>2

<1>7. Kept(d, x) = IF Repeated(segs, m) THEN d ELSE Append(d, x)
  BY <1>6 DEF Kept
<1>8. CASE Repeated(segs, m)
  <2>1. n > 0 /\ d # <<>> /\ Last(d).text = segs[n].text /\ x.text = segs[n].text
    BY <1>3, <1>8 DEF Repeated, KeptOf
  <2>2. m # 0
    BY <1>3
  <2>3. KeptOf(d, segs, m)
    <3> HIDE DEF n
    <3> QED BY <1>3, <1>8, <2>1, <2>2 DEF KeptOf, n
  <2> QED BY <1>7, <1>8, <2>3 DEF KeepsOn
<1>9. CASE ~Repeated(segs, m)
  <2> DEFINE e == Append(d, x)
             h == Len(d)
  <2>1. /\ h \in Nat /\ Len(e) = h + 1 /\ e[h+1] = x /\ \A k \in 1..h : e[k] = d[k] /\ k \in 1..(h+1)
        /\ h + 1 \in 1..(h+1) /\ \A k \in 1..(h+1) : k \in 1..h \/ k = h + 1
        /\ e # <<>> /\ Last(e) = x
    BY <1>1 DEF Last
  <2>2. m # 0
    BY <1>3
  <2>3. \A k \in 1..h : \A j \in 1..k : j \in 1..h
    BY <2>1
  <2> HIDE DEF e, h, n, x
  <2>4. \A k \in 1..h : Before(d[k], x)
    BY <1>3 DEF KeptOf, h, x, n
  <2>5. Before(x, x)
    BY <1>3, <1>4 DEF x
  <2>6. \A k \in 1..(h+1) : Before(e[k], x)
    BY <2>1, <2>4, <2>5
  <2>7. ASSUME NEW k \in 1..(h+1), NEW j \in 1..N, m <= j PROVE Before(e[k], segs[j])
    <3>1. CASE k \in 1..h
      <4>1. Before(d[k], segs[j])
        BY <1>3, <2>7, <3>1 DEF KeptOf, h, n
      <4> QED BY <2>1, <3>1, <4>1
    <3>2. CASE k = h + 1
      BY <1>4, <2>1, <2>7, <3>2
    <3> QED BY <2>1, <3>1, <3>2
  <2>8. ASSUME NEW k \in 1..(h+1), NEW j \in 1..k PROVE Before(e[j], e[k])
    <3>1. CASE k \in 1..h
      <4>1. Before(d[j], d[k])
        BY <3>1 DEF KeptOf, h
      <4> QED BY <2>1, <2>3, <3>1, <4>1
    <3>2. CASE k = h + 1
      <4>1. j \in 1..(h+1)
        BY <3>2
      <4> QED BY <2>1, <2>6, <3>2, <4>1
    <3> QED BY <2>1, <3>1, <3>2
  <2>9. ASSUME NEW i \in 1..m PROVE Repeated(segs, i) \/ \E k \in 1..(h+1) : e[k] = segs[i]
    <3>1. CASE i \in 1..n
      BY <2>1, <3>1 DEF KeptOf, h, n
    <3>2. CASE i = m
      BY <2>1, <3>2 DEF x
    <3> QED BY <1>3, <3>1, <3>2
  <2>10. KeptOf(e, segs, m)
    BY <2>1, <2>2, <2>7, <2>8, <2>9 DEF KeptOf, x
  <2> QED BY <1>7, <1>9, <2>10 DEF KeepsOn, e, x
<1> QED BY <1>8, <1>9

(* What dedup_short_segments keeps says all but the repeated texts, stays  *)
(* in order as far as it has no words, and has every segment that repeats  *)
(* nothing.                                                                *)
LEMMA DedupKeeps ==
  ASSUME NEW Text, NEW Who, NEW L, NEW segs \in Seq(Piece(Text, Who)), WordlessInOrder(segs)
  PROVE  /\ DedupShort(segs) \in Seq(Piece(Text, Who))
         /\ Spoken(DedupShort(segs), L) = FlattenSeq(Voices(segs, L))
         /\ KeptOf(DedupShort(segs), segs, Len(segs))
<1> DEFINE N == Len(segs)
           P == Piece(Text, Who)
           D == Seq(P)
           T == Seq(Text)
           v == Voices(segs, L)
<1>1. N \in Nat /\ DOMAIN segs = 1..N /\ \A n \in 1..N : segs[n] \in P
  <2>1. segs \in Seq(P)
    OBVIOUS
  <2> HIDE DEF P
  <2> QED BY <2>1
<1>2. PICK f \in [0..N -> D] :
        /\ f[0] = <<>> /\ f[N] = DedupShort(segs)
        /\ \A n \in 1..N : f[n] = Kept(f[n-1], segs[n])
  <2>1. segs \in D
    OBVIOUS
  <2> HIDE DEF P
  <2> QED BY <2>1, DedupCourse, Zenon
<1>3. \A n \in 1..N : Part(segs[n], L) \in T
  BY <1>1, PartIs
<1>4. /\ v \in Seq(T) /\ Len(v) = N
      /\ \A n \in 1..N : v[n] = IF Repeated(segs, n) THEN <<>> ELSE Part(segs[n], L)
  <2>1. <<>> \in T
    OBVIOUS
  <2> HIDE DEF P, T, N
  <2> QED BY <1>1, <1>3, <2>1 DEF Voices
<1>5. PICK h \in [0..Len(v) -> T] :
        /\ h[0] = <<>> /\ h[Len(v)] = FlattenSeq(v)
        /\ \A n \in 1..Len(v) : h[n] = h[n-1] \o v[n]
  <2> HIDE DEF v
  <2> QED BY <1>4, FlattenCourse, Zenon
<1> DEFINE S == {n \in 0..N : Spoken(f[n], L) = h[n] /\ KeptOf(f[n], segs, n)}
<1>6. 0 \in S
  <2>1. KeptOf(<<>>, segs, 0)
    BY DEF KeptOf
  <2> QED BY <1>1, <1>2, <1>5, <2>1, SpokenNone
<1>7. ASSUME NEW n \in 0..N-1, n \in S PROVE n + 1 \in S
  <2> DEFINE m == n + 1
             d == f[n]
             x == segs[m]
  <2>1. m \in 1..N /\ m \in 0..N /\ n \in 0..N /\ m - 1 = n
    BY <1>1
  <2>2. d \in Seq(Piece(Text, Who)) /\ x \in Piece(Text, Who)
    <3> HIDE DEF m, v, N, D, P
    <3>1. d \in D /\ x \in P
      BY <1>1, <1>2, <2>1
    <3> QED BY <3>1 DEF D, P
  <2> HIDE DEF m, D, v
  <2>3. KeptOf(d, segs, m - 1)
    BY <1>7, <2>1
  <2>4. KeepsOn(d, segs, m)
    <3> HIDE DEF d
    <3> QED BY <2>1, <2>2, <2>3, KeptIs, Zenon DEF N
  <2> HIDE DEF N
  <2>5. f[m] = Kept(d, x) /\ KeptOf(f[m], segs, m)
    BY <1>2, <2>1, <2>4 DEF KeepsOn
  <2>6. h[m] = h[n] \o v[m] /\ h[n] \in T /\ Spoken(d, L) = h[n]
    BY <1>4, <1>5, <1>7, <2>1
  <2>7. Spoken(f[m], L) = h[m]
    <3>1. CASE Repeated(segs, m)
      <4>1. f[m] = d /\ v[m] = <<>>
        BY <1>4, <2>1, <2>4, <2>5, <3>1 DEF KeepsOn
      <4>2. h[n] \o <<>> = h[n]
        BY <2>6
      <4> QED BY <2>6, <4>1, <4>2
    <3>2. CASE ~Repeated(segs, m)
      <4>1. f[m] = Append(d, x) /\ v[m] = Part(x, L)
        BY <1>4, <2>1, <2>4, <2>5, <3>2 DEF KeepsOn
      <4>2. SpokenBy(d, x, L, Text)
        <5> HIDE DEF d, x
        <5> QED BY <2>2, SpokenGrows, Zenon
      <4> QED BY <2>6, <4>1, <4>2 DEF SpokenBy
    <3> QED BY <3>1, <3>2
  <2> QED BY <2>1, <2>5, <2>7 DEF m
<1>8. \A n \in 0..N : n \in S
  <2> HIDE DEF S, N, D
  <2> QED BY <1>1, <1>6, <1>7, Climb, Zenon
<1>9. N \in 0..N
  BY <1>1
<1> HIDE DEF v
<1> QED BY <1>2, <1>4, <1>5, <1>8, <1>9 DEF v

(* What is kept and merged says for L what was heard for L, the repeated   *)
(* texts left out, and covers each segment that repeats nothing.           *)
SaidFrom(segs, L) ==
  LET merged == MergeAligned(DedupShort(segs))
  IN  /\ Spoken(merged, L) = FlattenSeq(Voices(segs, L))
      /\ \A i \in 1..Len(segs) : Repeated(segs, i) \/ Covers(merged, segs[i])

(* The two passes together.                                                *)
LEMMA SaidIs ==
  ASSUME NEW Text, NEW Who, NEW L, NEW segs \in Seq(Piece(Text, Who)), WordlessInOrder(segs)
  PROVE  SaidFrom(segs, L)
<1> DEFINE N == Len(segs)
           d == DedupShort(segs)
           P == Piece(Text, Who)
<1>1. /\ d \in Seq(Piece(Text, Who))
      /\ Spoken(d, L) = FlattenSeq(Voices(segs, L))
      /\ KeptOf(d, segs, N)
  BY DedupKeeps
<1> HIDE DEF d
<1>2. d \in Seq(P)
  BY <1>1
<1>3. WordlessInOrder(d)
  <2> HIDE DEF P
  <2>1. DOMAIN d = 1..Len(d) /\ Len(d) \in Nat
    BY <1>2
  <2>2. \A k \in 1..Len(d) : \A j \in 1..k : Before(d[j], d[k])
    BY <1>1 DEF KeptOf
  <2>3. \A j \in 1..Len(d) : \A k \in j..Len(d) : k \in 1..Len(d) /\ j \in 1..k
    BY <2>1
  <2> QED BY <2>1, <2>2, <2>3 DEF WordlessInOrder
<1>4. Spoken(MergeAligned(d), L) = Spoken(d, L)
  BY <1>1, MergeSpoken
<1>5. \A k \in 1..Len(d) : Covers(MergeAligned(d), d[k])
  BY <1>1, <1>3, MergeCovers
<1>6. \A i \in 1..N : Repeated(segs, i) \/ \E k \in 1..Len(d) : d[k] = segs[i]
  BY <1>1 DEF KeptOf
<1>7. \A i \in 1..N : Repeated(segs, i) \/ Covers(MergeAligned(d), segs[i])
  <2> HIDE DEF P, N
  <2> QED BY <1>5, <1>6
<1> QED BY <1>1, <1>4, <1>7 DEF SaidFrom, d

-----------------------------------------------------------------------------
(* The speaker of a segment is that of a turn or unknown, and depends on   *)
(* the times of the segment only.                                          *)
TurnOf(Lab) == [start : Nat, end : Nat, speaker : Lab]
Heard(Text) == [start : Nat, end : Nat, text : Seq(Text)]

InOrder(segs) ==
  \A j \in DOMAIN segs : \A k \in j..Len(segs) : segs[j].start <= segs[k].start

(* A speaker is the label of a turn or unknown.                            *)
LEMMA SpeakerIs ==
  ASSUME NEW Lab, NEW seg, NEW turns \in Seq(TurnOf(Lab))
  PROVE  AssignSpeaker(seg, turns) \in Lab \cup {Unknown}
<1> DEFINE longest == {i \in DOMAIN turns :
                         /\ Overlap(seg, turns[i]) > 0
                         /\ \A j \in DOMAIN turns :
                              Overlap(seg, turns[j]) <= Overlap(seg, turns[i])}
           middle  == {i \in DOMAIN turns :
                         /\ 2 * turns[i].start <= seg.start + seg.end
                         /\ seg.start + seg.end <= 2 * turns[i].end}
           first(I) == turns[CHOOSE i \in I : \A j \in I : i <= j].speaker
<1>1. DOMAIN turns = 1..Len(turns) /\ Len(turns) \in Nat
  OBVIOUS
<1>2. \A i \in DOMAIN turns : turns[i].speaker \in Lab
  <2> DEFINE R == TurnOf(Lab)
  <2>1. turns \in Seq(R)
    OBVIOUS
  <2> HIDE DEF R
  <2>2. \A i \in DOMAIN turns : turns[i] \in R
    BY <2>1
  <2> QED BY <2>2 DEF R, TurnOf
<1>3. ASSUME NEW I \in SUBSET DOMAIN turns, I # {} PROVE first(I) \in Lab
  <2>1. I \in SUBSET Nat
    BY <1>1
  <2>2. \E i \in I : \A j \in I : i <= j
    BY <1>3, <2>1, Least
  <2>3. (CHOOSE i \in I : \A j \in I : i <= j) \in I
    BY <2>2
  <2> QED BY <1>2, <2>3
<1>4. longest \in SUBSET DOMAIN turns /\ middle \in SUBSET DOMAIN turns
  OBVIOUS
<1>5. AssignSpeaker(seg, turns) = IF longest # {} THEN first(longest)
                                  ELSE IF middle # {} THEN first(middle) ELSE Unknown
  BY Zenon DEF AssignSpeaker
<1> HIDE DEF longest, middle, first
<1> QED BY <1>3, <1>4, <1>5

(* Segments of the same times have the same speaker.                       *)
LEMMA SpeakerByTimes ==
  ASSUME NEW seg, NEW other, NEW turns, seg.start = other.start, seg.end = other.end
  PROVE  AssignSpeaker(seg, turns) = AssignSpeaker(other, turns)
<1>1. ASSUME NEW t PROVE Overlap(seg, t) = Overlap(other, t)
  <2> DEFINE over(from, to) == Max({0, Min({to, t.end}) - Max({from, t.start})})
  <2>1. Overlap(seg, t) = over(seg.start, seg.end) /\ Overlap(other, t) = over(other.start, other.end)
    BY Zenon DEF Overlap
  <2> HIDE DEF over
  <2> QED BY <2>1
<1> DEFINE longest(x) == {i \in DOMAIN turns :
                            /\ Overlap(x, turns[i]) > 0
                            /\ \A j \in DOMAIN turns :
                                 Overlap(x, turns[j]) <= Overlap(x, turns[i])}
           within(sum) == {i \in DOMAIN turns :
                             /\ 2 * turns[i].start <= sum
                             /\ sum <= 2 * turns[i].end}
           first(I) == turns[CHOOSE i \in I : \A j \in I : i <= j].speaker
           chosen(l, m) == IF l # {} THEN first(l) ELSE IF m # {} THEN first(m) ELSE Unknown
<1>2. longest(seg) = longest(other)
  BY <1>1
<1>3. AssignSpeaker(seg, turns) = chosen(longest(seg), within(seg.start + seg.end))
  BY Zenon DEF AssignSpeaker
<1>4. AssignSpeaker(other, turns) = chosen(longest(other), within(other.start + other.end))
  BY Zenon DEF AssignSpeaker
<1> HIDE DEF longest, within, chosen
<1> QED BY <1>2, <1>3, <1>4

(* A piece the aligner returns carries no speaker yet; what the aligned    *)
(* segments are to the pieces.                                             *)
Uttered(Text) == [start : Nat, end : Nat, text : Seq(Text), words : BOOLEAN]

AlignedTo(a, pieces, turns, Text, Lab) ==
  /\ a \in Seq(Piece(Text, Lab \cup {Unknown})) /\ Len(a) = Len(pieces)
  /\ \A i \in 1..Len(pieces) :
       /\ a[i].start = pieces[i].start /\ a[i].end = pieces[i].end
       /\ a[i].text = pieces[i].text /\ a[i].words = pieces[i].words
       /\ a[i].speaker = AssignSpeaker(pieces[i], turns)

(* build_aligned_segments keeps times and texts and gives each segment its *)
(* speaker.                                                                *)
LEMMA AlignedIs ==
  ASSUME NEW Text, NEW Lab, NEW pieces \in Seq(Uttered(Text)), NEW turns \in Seq(TurnOf(Lab))
  PROVE  AlignedTo(Aligned(pieces, turns), pieces, turns, Text, Lab)
<1> DEFINE a == Aligned(pieces, turns)
           Who == Lab \cup {Unknown}
           P == Piece(Text, Who)
           U == Uttered(Text)
<1>1. DOMAIN pieces = 1..Len(pieces) /\ Len(pieces) \in Nat
  OBVIOUS
<1>2. ASSUME NEW i \in 1..Len(pieces) PROVE pieces[i] \in U
  <2>1. pieces \in Seq(U)
    OBVIOUS
  <2> HIDE DEF U
  <2> QED BY <2>1
<1>3. DOMAIN a = 1..Len(pieces)
  BY <1>1 DEF Aligned
<1>4. ASSUME NEW i \in 1..Len(pieces)
      PROVE  /\ a[i].start = pieces[i].start /\ a[i].end = pieces[i].end
             /\ a[i].text = pieces[i].text /\ a[i].words = pieces[i].words
             /\ a[i].speaker = AssignSpeaker(pieces[i], turns)
             /\ a[i] \in P
  <2> DEFINE s == AssignSpeaker(pieces[i], turns)
  <2>1. s \in Who
    BY SpeakerIs
  <2>2. a[i] = [start |-> pieces[i].start, end |-> pieces[i].end, text |-> pieces[i].text,
                words |-> pieces[i].words, speaker |-> s]
    BY <1>1 DEF Aligned
  <2>3. pieces[i] \in U
    BY <1>2
  <2> HIDE DEF a, s, Who
  <2> QED BY <2>1, <2>2, <2>3 DEF U, Uttered, Piece, s
<1>5. a \in Seq(P) /\ Len(a) = Len(pieces)
  <2>1. a = [i \in 1..Len(pieces) |-> a[i]]
    BY <1>3 DEF Aligned
  <2> HIDE DEF a, P, U
  <2> QED BY <1>1, <1>4, <2>1
<1> HIDE DEF a
<1> QED BY <1>4, <1>5 DEF AlignedTo, a

(* What a segment is removed from stays in order.                          *)
LEMMA WithoutKeeps ==
  ASSUME NEW Text, NEW segs \in Seq(Heard(Text)), InOrder(segs), NEW removed
  PROVE  Without(segs, removed) \in Seq(Heard(Text)) /\ InOrder(Without(segs, removed))
<1> DEFINE N == Len(segs)
           H == Heard(Text)
<1>1. segs \in Seq(H) /\ N \in Nat /\ DOMAIN segs = 1..N
  OBVIOUS
<1>2. \A s \in H : s.start \in Nat
  BY DEF Heard
<1> HIDE DEF H
<1>3. \A n \in 1..N : segs[n] \in H
  BY <1>1
<1>4. PICK f : Sparing(f, H, segs, removed)
  BY <1>1, WithoutCourse, Zenon
<1>5. \A j, k \in 1..N : j <= k => segs[j].start <= segs[k].start
  BY <1>1 DEF InOrder
<1>6. /\ \A n \in 0..N : f[n] \in Seq(H)
      /\ f[0] = <<>> /\ f[N] = Without(segs, removed)
      /\ \A n \in 1..N : f[n] = IF n \in removed THEN f[n-1] ELSE Append(f[n-1], segs[n])
  BY <1>4 DEF Sparing, Spared
<1> DEFINE S == {n \in 0..N :
                   /\ \A k \in 1..Len(f[n]) : \A j \in 1..N : n <= j => f[n][k].start <= segs[j].start
                   /\ \A k \in 1..Len(f[n]) : \A j \in 1..k : f[n][j].start <= f[n][k].start}
<1>7. 0 \in S
  BY <1>1, <1>6
<1>8. ASSUME NEW n \in 0..N-1, n \in S PROVE n + 1 \in S
  <2> DEFINE m == n + 1
             d == f[n]
             e == f[m]
             h == Len(d)
             x == segs[m]
  <2>1. /\ m \in 1..N /\ m \in 0..N /\ n \in 0..N /\ m - 1 = n /\ n <= m
        /\ \A j \in 1..N : m <= j => n <= j
    BY <1>1
  <2> HIDE DEF m, N
  <2>2. d \in Seq(H) /\ x \in H /\ e = IF m \in removed THEN d ELSE Append(d, x)
    BY <1>3, <1>6, <2>1
  <2> HIDE DEF d, e, x
  <2>3. /\ \A k \in 1..h : \A j \in 1..N : n <= j => d[k].start <= segs[j].start
        /\ \A k \in 1..h : \A j \in 1..k : d[j].start <= d[k].start
    BY <1>8 DEF d
  <2>4. CASE m \in removed
    BY <2>1, <2>2, <2>3, <2>4 DEF m, e
  <2>5. CASE m \notin removed
    <3>1. /\ h \in Nat /\ Len(e) = h + 1 /\ e[h+1] = x /\ \A k \in 1..h : e[k] = d[k] /\ d[k] \in H
          /\ \A k \in 1..(h+1) : k \in 1..h \/ k = h + 1
      BY <2>2, <2>5
    <3>2. \A k \in 1..h : \A j \in 1..k : j \in 1..h
      BY <3>1
    <3> HIDE DEF h
    <3>3. \A k \in 1..(h+1) : e[k].start \in Nat
      BY <1>2, <2>2, <3>1
    <3>4. \A k \in 1..(h+1) : e[k].start <= x.start
      BY <2>1, <2>3, <3>1, <3>3 DEF x
    <3>5. ASSUME NEW k \in 1..(h+1), NEW j \in 1..N, m <= j PROVE e[k].start <= segs[j].start
      <4>1. e[k].start <= x.start /\ x.start <= segs[j].start
        BY <1>5, <2>1, <3>4, <3>5 DEF x
      <4>2. e[k].start \in Nat /\ x.start \in Nat /\ segs[j].start \in Nat
        BY <1>2, <1>3, <2>2, <3>3
      <4> QED BY <4>1, <4>2
    <3>6. ASSUME NEW k \in 1..(h+1), NEW j \in 1..k PROVE e[j].start <= e[k].start
      <4>1. CASE k \in 1..h
        BY <2>3, <3>1, <3>2, <4>1
      <4>2. CASE k = h + 1
        <5>1. j \in 1..(h+1)
          BY <4>2
        <5> QED BY <3>1, <3>4, <4>2, <5>1
      <4> QED BY <3>1, <4>1, <4>2
    <3> QED BY <2>1, <3>1, <3>5, <3>6 DEF m, e
  <2> QED BY <2>4, <2>5
<1>9. \A n \in 0..N : n \in S
  <2> HIDE DEF S, N
  <2> QED BY <1>1, <1>7, <1>8, Climb, Zenon
<1>10. N \in 0..N
  BY <1>1
<1> DEFINE w == Without(segs, removed)
<1>11. w \in Seq(H) /\ \A k \in 1..Len(w) : \A j \in 1..k : w[j].start <= w[k].start
  BY <1>6, <1>9, <1>10
<1> HIDE DEF w
<1>12. DOMAIN w = 1..Len(w) /\ Len(w) \in Nat
  BY <1>11
<1> QED BY <1>11, <1>12 DEF w, H, InOrder

(* The pieces the aligner returns of what was heard: those without words   *)
(* are segments that were heard, and come in their order.                  *)
PiecesOf(pieces, Text) ==
  pieces \in Seq(Uttered(Text)) /\ WordlessInOrder(pieces)

(* Forced alignment, whichever segments it is able to align.               *)
LEMMA ForcedIs ==
  ASSUME NEW Text, NEW heard \in Seq(Heard(Text)), InOrder(heard), NEW cut, NEW able,
         \A s \in able : cut[s] \in
           Seq([start : Nat, end : Nat, text : Seq(Text), words : {TRUE}])
  PROVE  PiecesOf(ForcedAlignment(heard, cut, able), Text)
<1> DEFINE N == Len(heard)
           H == Heard(Text)
           U == Uttered(Text)
           W == [start : Nat, end : Nat, text : Seq(Text), words : {TRUE}]
           whole(i) == [start |-> heard[i].start, end |-> heard[i].end,
                        text |-> heard[i].text, words |-> FALSE]
           v == [i \in DOMAIN heard |->
                   IF heard[i] \in able THEN cut[heard[i]] ELSE <<whole(i)>>]
<1>1. N \in Nat /\ DOMAIN heard = 1..N /\ \A n \in 1..N : heard[n] \in H
  <2>1. heard \in Seq(H)
    OBVIOUS
  <2> HIDE DEF H
  <2> QED BY <2>1
<1>2. \A j, k \in 1..N : j <= k => heard[j].start <= heard[k].start
  BY <1>1 DEF InOrder
<1>3. \A u \in W : u \in U /\ u.words
  BY DEF Uttered
<1>4. ASSUME NEW n \in 1..N
      PROVE  whole(n) \in U /\ whole(n).start = heard[n].start /\ ~whole(n).words
  <2>1. heard[n] \in H
    BY <1>1
  <2> HIDE DEF N
  <2> QED BY <2>1 DEF Heard, Uttered
<1>5. ASSUME NEW n \in 1..N
      PROVE  /\ v[n] \in Seq(U)
             /\ \/ \A k \in 1..Len(v[n]) : v[n][k].words
                \/ v[n] = <<whole(n)>>
  <2>1. v[n] = IF heard[n] \in able THEN cut[heard[n]] ELSE <<whole(n)>>
    BY <1>1
  <2>2. CASE heard[n] \in able
    <3> DEFINE c == cut[heard[n]]
    <3>1. c \in Seq(W)
      BY <2>2
    <3> HIDE DEF c, W, U
    <3>2. \A k \in 1..Len(c) : c[k] \in U /\ c[k].words
      BY <1>3, <3>1
    <3>3. c \in Seq(U)
      BY <3>1, <3>2
    <3>4. v[n] = c
      BY <2>1, <2>2 DEF c
    <3> HIDE DEF v
    <3> QED BY <3>2, <3>3, <3>4
  <2>3. CASE heard[n] \notin able
    <3>1. v[n] = <<whole(n)>> /\ whole(n) \in U
      BY <1>4, <2>1, <2>3
    <3> HIDE DEF U, v, whole
    <3> QED BY <3>1
  <2> QED BY <2>2, <2>3
<1>6. v \in Seq(Seq(U)) /\ Len(v) = N
  <2>1. v = [i \in 1..N |-> v[i]]
    BY <1>1
  <2> HIDE DEF v, U, N
  <2> QED BY <1>1, <1>5, <2>1
<1>7. ForcedAlignment(heard, cut, able) = FlattenSeq(v)
  BY Zenon DEF ForcedAlignment
<1> HIDE DEF v
<1>8. PICK f \in [0..N -> Seq(U)] :
        /\ f[0] = <<>> /\ f[N] = FlattenSeq(v)
        /\ \A n \in 1..N : f[n] = f[n-1] \o v[n]
  <2> HIDE DEF U, N
  <2> QED BY <1>6, FlattenCourse, Zenon
<1> DEFINE S == {n \in 0..N :
                   /\ \A k \in 1..Len(f[n]) : \A j \in 1..N :
                        n <= j => f[n][k].words \/ f[n][k].start <= heard[j].start
                   /\ \A k \in 1..Len(f[n]) : \A j \in 1..k : Before(f[n][j], f[n][k])}
<1> HIDE DEF whole, W
<1>9. 0 \in S
  BY <1>1, <1>8
<1>10. ASSUME NEW n \in 0..N-1, n \in S PROVE n + 1 \in S
  <2> DEFINE m == n + 1
             d == f[n]
             x == v[m]
             e == f[m]
             h == Len(d)
  <2>1. /\ m \in 1..N /\ m \in 0..N /\ n \in 0..N /\ m - 1 = n /\ n <= m
        /\ \A j \in 1..N : m <= j => n <= j
    BY <1>1
  <2> HIDE DEF m, N, U
  <2>2. d \in Seq(U) /\ x \in Seq(U) /\ e = d \o x
    BY <1>5, <1>8, <2>1
  <2>3. /\ \A k \in 1..h : \A j \in 1..N : n <= j => d[k].words \/ d[k].start <= heard[j].start
        /\ \A k \in 1..h : \A j \in 1..k : Before(d[j], d[k])
    BY <1>10
  <2>4. (\A k \in 1..Len(x) : x[k].words) \/ x = <<whole(m)>>
    BY <1>5, <2>1
  <2> HIDE DEF d, x, e
  <2>5. /\ h \in Nat /\ Len(x) \in Nat /\ Len(e) = h + Len(x)
        /\ \A k \in 1..h : e[k] = d[k]
        /\ \A k \in 1..Len(e) : k \notin 1..h => k - h \in 1..Len(x) /\ e[k] = x[k - h]
    BY <2>2
  <2>6. \A k \in 1..h : \A j \in 1..k : j \in 1..h
    BY <2>5
  <2>7. \A k \in 1..Len(e) : \A j \in 1..k : j \in 1..Len(e)
    BY <2>5
  <2> HIDE DEF h
  <2>8. ASSUME NEW k \in 1..Len(e), k \notin 1..h
        PROVE  e[k].words \/ (e[k] = whole(m) /\ k = h + 1)
    BY <2>4, <2>5, <2>8
  <2>9. whole(m).start = heard[m].start
    BY <1>4, <2>1
  <2>10. ASSUME NEW k \in 1..Len(e), NEW j \in 1..N, m <= j
         PROVE  e[k].words \/ e[k].start <= heard[j].start
    <3>1. CASE k \in 1..h
      BY <2>1, <2>3, <2>5, <2>10, <3>1
    <3>2. CASE k \notin 1..h
      <4>1. heard[m].start <= heard[j].start
        BY <1>2, <2>1, <2>10
      <4> QED BY <2>8, <2>9, <3>2, <4>1
    <3> QED BY <3>1, <3>2
  <2>11. ASSUME NEW k \in 1..Len(e), NEW j \in 1..k PROVE Before(e[j], e[k])
    <3>1. CASE k \in 1..h
      <4>1. Before(d[j], d[k]) /\ j \in 1..h
        BY <2>3, <2>6, <3>1
      <4> QED BY <2>5, <3>1, <4>1
    <3>2. CASE k \notin 1..h /\ j \in 1..h
      <4>1. d[j].words \/ d[j].start <= heard[m].start
        BY <2>1, <2>3, <3>2
      <4> QED BY <2>5, <2>8, <2>9, <3>2, <4>1 DEF Before
    <3>3. CASE k \notin 1..h /\ j \notin 1..h
      <4>1. j \in 1..Len(e)
        BY <2>7
      <4>2. e[j].words \/ e[k].words \/ (e[j] = whole(m) /\ e[k] = whole(m))
        BY <2>8, <3>3, <4>1
      <4>3. whole(m).start \in Nat
        <5>1. heard[m] \in H
          BY <1>1, <2>1
        <5> QED BY <2>9, <5>1 DEF H, Heard
      <4> QED BY <4>2, <4>3 DEF Before
    <3> QED BY <3>1, <3>2, <3>3
  <2> QED BY <2>1, <2>10, <2>11 DEF m, e
<1>11. \A n \in 0..N : n \in S
  <2> HIDE DEF S, N
  <2> QED BY <1>1, <1>9, <1>10, Climb, Zenon
<1>12. N \in 0..N
  BY <1>1
<1> DEFINE p == FlattenSeq(v)
<1>13. p \in Seq(U) /\ \A k \in 1..Len(p) : \A j \in 1..k : Before(p[j], p[k])
  BY <1>8, <1>11, <1>12
<1> HIDE DEF p, U
<1>14. DOMAIN p = 1..Len(p) /\ Len(p) \in Nat
  BY <1>13
<1>15. \A j \in 1..Len(p) : \A k \in j..Len(p) : k \in 1..Len(p) /\ j \in 1..k
  BY <1>14
<1>16. WordlessInOrder(p)
  BY <1>13, <1>14, <1>15 DEF WordlessInOrder
<1> QED BY <1>7, <1>13, <1>16 DEF PiecesOf, p, U

(* What the pieces say for the speakers of L, the repeated texts left out, *)
(* and what a result gives the labels of L to say.                         *)
HeardBy(pieces, turns, L) ==
  FlattenSeq([i \in DOMAIN pieces |->
    IF Repeated(pieces, i) \/ AssignSpeaker(pieces[i], turns) \notin L THEN <<>>
    ELSE pieces[i].text])

GivenTo(result, L) ==
  FlattenSeq([k \in DOMAIN result |->
    IF result[k].label \in L THEN result[k].text ELSE <<>>])

Told(result, pieces, turns, L) ==
  /\ GivenTo(result, L) = HeardBy(pieces, turns, L)
  /\ \A i \in DOMAIN pieces :
       \/ Repeated(pieces, i)
       \/ \E k \in DOMAIN result :
            /\ result[k].label = AssignSpeaker(pieces[i], turns)
            /\ result[k].start <= pieces[i].start /\ pieces[i].end <= result[k].end

(* The result tells what the pieces say.                                   *)
LEMMA ToldIs ==
  ASSUME NEW Text, NEW Lab, NEW pieces, PiecesOf(pieces, Text),
         NEW turns \in Seq(TurnOf(Lab)), NEW map, NEW L
  PROVE  Told(ResultSegments(DedupShort(Aligned(pieces, turns)), map), pieces, turns, L)
<1> DEFINE a == Aligned(pieces, turns)
           d == DedupShort(a)
           merged == MergeAligned(d)
           r == ResultSegments(d, map)
           n == Len(pieces)
<1>1. AlignedTo(a, pieces, turns, Text, Lab)
  <2>1. pieces \in Seq(Uttered(Text))
    BY DEF PiecesOf
  <2> QED BY <2>1, AlignedIs, Zenon
<1> HIDE DEF a
<1>2. /\ a \in Seq(Piece(Text, Lab \cup {Unknown})) /\ Len(a) = n
      /\ \A i \in 1..n : /\ a[i].start = pieces[i].start /\ a[i].end = pieces[i].end
                         /\ a[i].text = pieces[i].text /\ a[i].words = pieces[i].words
                         /\ a[i].speaker = AssignSpeaker(pieces[i], turns)
  BY <1>1 DEF AlignedTo
<1>3. DOMAIN pieces = 1..n /\ n \in Nat /\ DOMAIN a = 1..n
  <2> DEFINE U == Uttered(Text)
  <2>0. pieces \in Seq(U)
    BY DEF PiecesOf
  <2> HIDE DEF U
  <2>1. DOMAIN pieces = 1..n /\ n \in Nat
    BY <2>0
  <2> DEFINE P == Piece(Text, Lab \cup {Unknown})
  <2>2. a \in Seq(P)
    BY <1>2
  <2> HIDE DEF P
  <2>3. DOMAIN a = 1..Len(a)
    BY <2>2
  <2> QED BY <1>2, <2>1, <2>3
<1>4. WordlessInOrder(a)
  <2>1. \A j \in 1..n : \A k \in j..n : k \in 1..n
    BY <1>3
  <2>2. \A j \in 1..n : \A k \in j..n : Before(pieces[j], pieces[k])
    BY <1>3 DEF PiecesOf, WordlessInOrder
  <2> HIDE DEF n
  <2> QED BY <1>2, <1>3, <2>1, <2>2 DEF WordlessInOrder, Before
<1>5. SaidFrom(a, L)
  <2> DEFINE Who == Lab \cup {Unknown}
  <2>1. a \in Seq(Piece(Text, Who))
    BY <1>2
  <2> HIDE DEF Who
  <2> QED BY <1>4, <2>1, SaidIs, Zenon
<1>6. /\ Spoken(merged, L) = FlattenSeq(Voices(a, L))
      /\ \A i \in 1..n : Repeated(a, i) \/ Covers(merged, a[i])
  BY <1>2, <1>5 DEF SaidFrom
<1>7. \A i \in 1..n : Repeated(a, i) <=> Repeated(pieces, i)
  <2> SUFFICES ASSUME NEW i \in 1..n PROVE Repeated(a, i) <=> Repeated(pieces, i)
    OBVIOUS
  <2>1. CASE i > 1
    <3>1. i - 1 \in 1..n
      BY <1>3, <2>1
    <3> QED BY <1>2, <3>1 DEF Repeated
  <2>2. CASE ~(i > 1)
    BY <2>2 DEF Repeated
  <2> QED BY <2>1, <2>2
<1>8. HeardBy(pieces, turns, L) = FlattenSeq(Voices(a, L))
  <2> DEFINE by(i) == IF Repeated(pieces, i) \/ AssignSpeaker(pieces[i], turns) \notin L THEN <<>>
                      ELSE pieces[i].text
             va(i) == IF Repeated(a, i) THEN <<>> ELSE Part(a[i], L)
  <2>1. \A i \in 1..n : by(i) = va(i)
    BY <1>2, <1>7 DEF Part
  <2> HIDE DEF by, va
  <2>2. [i \in 1..n |-> by(i)] = [i \in 1..n |-> va(i)]
    BY <2>1
  <2> QED BY <1>3, <2>2, Zenon DEF HeardBy, Voices, by, va
<1>9. /\ DOMAIN r = DOMAIN merged
      /\ \A k \in DOMAIN r : /\ r[k].label = merged[k].speaker /\ r[k].text = merged[k].text
                             /\ r[k].start = merged[k].start /\ r[k].end = merged[k].end
  <2> HIDE DEF d
  <2> QED BY DEF ResultSegments
<1>10. DOMAIN merged = 1..Len(merged)
  <2> DEFINE Who == Lab \cup {Unknown}
             P == Piece(Text, Who)
  <2>1. a \in Seq(Piece(Text, Who))
    BY <1>2
  <2> HIDE DEF Who
  <2>2. d \in Seq(Piece(Text, Who))
    BY <1>4, <2>1, DedupKeeps
  <2> HIDE DEF d
  <2>3. merged \in Seq(Piece(Text, Who))
    BY <2>2, MergesAgree
  <2>4. merged \in Seq(P)
    BY <2>3
  <2> HIDE DEF P, merged
  <2> QED BY <2>4
<1> HIDE DEF merged, r
<1>11. GivenTo(r, L) = Spoken(merged, L)
  <2> DEFINE to(k) == IF r[k].label \in L THEN r[k].text ELSE <<>>
             pa(k) == Part(merged[k], L)
  <2>1. \A k \in DOMAIN merged : to(k) = pa(k)
    BY <1>9 DEF Part
  <2> HIDE DEF to, pa
  <2>2. [k \in DOMAIN merged |-> to(k)] = [k \in DOMAIN merged |-> pa(k)]
    BY <2>1
  <2> QED BY <1>9, <2>2, Zenon DEF GivenTo, Spoken, Parts, to, pa
<1>12. ASSUME NEW i \in 1..n, ~Repeated(pieces, i)
       PROVE  \E k \in DOMAIN r :
                /\ r[k].label = AssignSpeaker(pieces[i], turns)
                /\ r[k].start <= pieces[i].start /\ pieces[i].end <= r[k].end
  <2>1. Covers(merged, a[i])
    BY <1>6, <1>7, <1>12
  <2>2. PICK k \in 1..Len(merged) :
          /\ merged[k].speaker = a[i].speaker /\ merged[k].start <= a[i].start
          /\ a[i].end <= merged[k].end
    BY <2>1 DEF Covers
  <2>3. k \in DOMAIN r
    BY <1>9, <1>10
  <2> QED BY <1>2, <1>9, <2>2, <2>3
<1> QED BY <1>3, <1>6, <1>8, <1>11, <1>12 DEF Told, r, d, a
=============================================================================
