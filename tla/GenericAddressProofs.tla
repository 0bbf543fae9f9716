------------------------ MODULE GenericAddressProofs ------------------------
(***************************************************************************)
(* The properties of GenericAddress proved, for every table of texts and   *)
(* every input.  First the lemmas about sequences of tokens that the       *)
(* parsers rest on: Find, Cut and Join, by induction over the members of   *)
(* sets.  Then what each parser returns and what a division of a text says *)
(* of it; then that the text ToString writes is read as what it was        *)
(* written for; and last the invariant and the theorems.                   *)
(***************************************************************************)
EXTENDS GenericAddress, TLAPS, SequenceTheorems, WellFoundedInduction

(* Induction over the numbers and over the sequences, for the members of a *)
(* set: it is the set of those with some property.                         *)
LEMMA LessThan == OpToRel(<, Nat) = { p \in Nat \X Nat : p[1] < p[2] }
BY DEF OpToRel

LEMMA LeastOf ==
  ASSUME NEW S \in SUBSET Nat, S # {}
  PROVE  \E x \in S : \A y \in S : x <= y
<1> DEFINE R == { p \in Nat \X Nat : p[1] < p[2] }
<1>1. IsWellFoundedOn(R, Nat)
  BY NatLessThanWellFounded, LessThan
<1>2. PICK x \in S : \A y \in S : ~(<<y, x>> \in R)
  <2> HIDE DEF R
  <2> QED
    BY <1>1, WFMin
<1>3. ASSUME NEW y \in S PROVE x <= y
  <2>1. x \in Nat /\ y \in Nat
    OBVIOUS
  <2>2. ~(y < x)
    BY <1>2, <2>1
  <2> QED
    BY <2>1, <2>2
<1> QED
  BY <1>3

LEMMA NumbersOf ==
  ASSUME NEW S, 0 \in S, \A n \in Nat : n \in S => n + 1 \in S
  PROVE  Nat \subseteq S
<1> SUFFICES ASSUME Nat \ S # {} PROVE FALSE
  OBVIOUS
<1>1. PICK x \in Nat \ S : \A y \in Nat \ S : x <= y
  <2>1. Nat \ S \in SUBSET Nat /\ Nat \ S # {}
    OBVIOUS
  <2> QED
    BY <2>1, LeastOf
<1>2. x # 0 /\ x - 1 \in Nat /\ x - 1 < x /\ (x - 1) + 1 = x
  BY <1>1
<1>3. x - 1 \in S
  BY <1>1, <1>2
<1> QED
  BY <1>1, <1>2, <1>3

LEMMA SequencesOf ==
  ASSUME NEW T, NEW S, << >> \in S,
         \A s \in Seq(T), e \in T : s \in S => Append(s, e) \in S
  PROVE  Seq(T) \subseteq S
<1> DEFINE N == { n \in Nat : \A s \in Seq(T) : Len(s) = n => s \in S }
<1>1. 0 \in N
  <2>1. \A s \in Seq(T) : Len(s) = 0 => s = << >>
    BY EmptySeq
  <2> QED
    BY <2>1
<1>2. ASSUME NEW n \in Nat, n \in N PROVE n + 1 \in N
  <2> SUFFICES ASSUME NEW s \in Seq(T), Len(s) = n + 1 PROVE s \in S
    OBVIOUS
  <2>1. s # << >>
    OBVIOUS
  <2>2. PICK r \in Seq(T), e \in T : s = Append(r, e)
    BY <2>1, SequenceEmptyOrAppend
  <2>3. Len(r) = n
    BY <2>2
  <2> QED
    BY <1>2, <2>2, <2>3
<1> HIDE DEF N
<1>3. Nat \subseteq N
  BY <1>1, <1>2, NumbersOf
<1>4. ASSUME NEW s \in Seq(T) PROVE s \in S
  <2>1. Len(s) \in N
    BY <1>3
  <2> QED
    BY <2>1 DEF N
<1> QED
  BY <1>4

(* A function that is defined from its value one place before exists. *)
LEMMA StepByStep ==
  ASSUME NEW X, NEW a \in X, NEW n \in Nat, NEW G \in [1..n -> [X -> X]]
  PROVE  \E f \in [0..n -> X] :
           f[0] = a /\ \A i \in 1..n : f[i] = G[i][f[i - 1]]
<1> DEFINE Good(m) == \E f \in [0..m -> X] :
                        f[0] = a /\ \A i \in 1..m : f[i] = G[i][f[i - 1]]
           N == { m \in Nat : m <= n => Good(m) }
<1>1. 0 \in N
  <2>1. PICK f : f = [i \in 0..0 |-> a]
    OBVIOUS
  <2>2. f \in [0..0 -> X] /\ f[0] = a
    BY <2>1
  <2>3. \A i \in 1..0 : f[i] = G[i][f[i - 1]]
    OBVIOUS
  <2>4. Good(0)
    BY <2>2, <2>3
  <2> QED
    BY <2>4
<1>2. ASSUME NEW m \in Nat, m \in N PROVE m + 1 \in N
  <2> SUFFICES ASSUME m + 1 <= n PROVE Good(m + 1)
    OBVIOUS
  <2>1. PICK f \in [0..m -> X] :
          f[0] = a /\ \A i \in 1..m : f[i] = G[i][f[i - 1]]
    BY <1>2
  <2>2. PICK b \in X : b = G[m + 1][f[m]]
    <3>1. m + 1 \in 1..n /\ m \in 0..m
      OBVIOUS
    <3>2. f[m] \in X /\ G[m + 1] \in [X -> X]
      BY <2>1, <3>1
    <3> QED
      BY <3>2
  <2> DEFINE g == [i \in 0..(m + 1) |-> IF i = m + 1 THEN b ELSE f[i]]
  <2>3. g \in [0..(m + 1) -> X]
    BY <2>1
  <2>4. /\ \A i \in 0..m : g[i] = f[i]
        /\ g[m + 1] = b
    OBVIOUS
  <2> HIDE DEF g
  <2>5. ASSUME NEW i \in 1..(m + 1) PROVE g[i] = G[i][g[i - 1]]
    <3>1. CASE i = m + 1
      <4>1. i - 1 = m /\ m \in 0..m
        BY <3>1
      <4> QED
        BY <2>2, <2>4, <3>1, <4>1
    <3>2. CASE i # m + 1
      <4>1. i \in 1..m /\ i \in 0..m /\ i - 1 \in 0..m
        BY <3>2
      <4> QED
        BY <2>1, <2>4, <4>1
    <3> QED
      BY <3>1, <3>2
  <2>6. g[0] = a
    BY <2>1, <2>4
  <2> QED
    BY <2>3, <2>5, <2>6
<1> HIDE DEF N
<1>3. n \in N
  BY <1>1, <1>2, NumbersOf
<1> QED
  BY <1>3 DEF N
-----------------------------------------------------------------------------
(* Cut and Join, one token and one chunk at a time.                        *)

(* What can lie between separators: chunks of the tokens T. *)
Lists(T) == Seq(Seq(T))

LEMMA GrowAtSeparator ==
  ASSUME NEW c, NEW sep
  PROVE  Grow(c, sep, sep) = Append(c, << >>)
BY DEF Grow

LEMMA GrowElsewhere ==
  ASSUME NEW T, NEW c, c \in Lists(T), c # << >>, NEW x, x \in T, NEW sep, x # sep
  PROVE  \E d \in Lists(T) :
           /\ d = Grow(c, x, sep) /\ Len(d) = Len(c)
           /\ \A k \in 1..(Len(c) - 1) : d[k] = c[k]
           /\ d[Len(c)] = Append(c[Len(c)], x)
<1> DEFINE U == Seq(T)
<1>1. c \in Seq(U)
  BY DEF Lists
<1> HIDE DEF U
<1>2. PICK n \in Nat \ {0} : n = Len(c) /\ n \in 1..Len(c)
  BY <1>1, EmptySeq
<1>3. c[n] \in U
  BY <1>1, <1>2
<1>4. Append(c[n], x) \in U
  BY <1>3 DEF U
<1>5. PICK last \in U : last = Append(c[n], x)
  BY <1>4
<1>6. Grow(c, x, sep) = [c EXCEPT ![n] = last]
  BY <1>2, <1>5 DEF Grow
<1>7. PICK g : g = [c EXCEPT ![n] = last]
  OBVIOUS
<1>8. g \in Seq(U) /\ Len(g) = n
  BY <1>1, <1>2, <1>7
<1>9. g[n] = last /\ \A k \in 1..(n - 1) : g[k] = c[k]
  BY <1>1, <1>2, <1>7
<1>10. g \in Lists(T)
  BY <1>8 DEF Lists, U
<1> QED
  BY <1>2, <1>5, <1>6, <1>7, <1>8, <1>9, <1>10

LEMMA AppendChunk ==
  ASSUME NEW T, NEW c \in Lists(T), NEW u \in Seq(T)
  PROVE  /\ Append(c, u) \in Lists(T) /\ Append(c, u) # << >>
         /\ Len(c) \in Nat /\ Len(Append(c, u)) = Len(c) + 1
         /\ \A k \in 1..Len(c) : Append(c, u)[k] = c[k]
         /\ Append(c, u)[Len(c) + 1] = u
<1> DEFINE U == Seq(T)
<1>1. c \in Seq(U) /\ u \in U
  BY DEF Lists
<1> HIDE DEF U
<1>2. /\ Append(c, u) \in Seq(U) /\ Append(c, u) # << >>
      /\ Len(Append(c, u)) = Len(c) + 1
      /\ \A k \in 1..Len(c) : Append(c, u)[k] = c[k]
      /\ Append(c, u)[Len(c) + 1] = u
  BY <1>1, AppendProperties
<1>3. Len(c) \in Nat
  BY <1>1
<1> QED
  BY <1>2, <1>3 DEF Lists, U

LEMMA ChunkOf ==
  ASSUME NEW T, NEW c \in Lists(T)
  PROVE  /\ Len(c) \in Nat /\ (Len(c) = 0 <=> c = << >>)
         /\ \A k \in 1..Len(c) : c[k] \in Seq(T)
<1> DEFINE U == Seq(T)
<1>1. c \in Seq(U)
  BY DEF Lists
<1> HIDE DEF U
<1>2. Len(c) \in Nat /\ (Len(c) = 0 <=> c = << >>) /\ \A k \in 1..Len(c) : c[k] \in U
  BY <1>1, EmptySeq
<1> QED
  BY <1>2 DEF U

LEMMA NoChunk ==
  ASSUME NEW T
  PROVE  << >> \in Lists(T) /\ << << >> >> \in Lists(T) /\ << >> \in Seq(T)
<1>1. << >> \in Seq(T)
  OBVIOUS
<1> QED
  BY <1>1 DEF Lists

LEMMA SameChunks ==
  ASSUME NEW T, NEW c \in Lists(T), NEW d \in Lists(T), Len(c) = Len(d),
         \A k \in 1..Len(c) : c[k] = d[k]
  PROVE  c = d
<1> DEFINE U == Seq(T)
<1>1. c \in Seq(U) /\ d \in Seq(U)
  BY DEF Lists
<1> HIDE DEF U
<1> QED
  BY <1>1, SeqEqual

LEMMA GrowTypes ==
  ASSUME NEW T, NEW sep, NEW c \in Lists(T), c # << >>, NEW x \in T
  PROVE  Grow(c, x, sep) \in Lists(T) /\ Grow(c, x, sep) # << >>
<1>1. CASE x = sep
  <2>1. << >> \in Seq(T)
    OBVIOUS
  <2>2. Append(c, << >>) \in Lists(T) /\ Append(c, << >>) # << >>
    BY <2>1, AppendChunk
  <2> QED
    BY <1>1, <2>2, GrowAtSeparator
<1>2. CASE x # sep
  <2>1. \E d \in Lists(T) : d = Grow(c, x, sep) /\ Len(d) = Len(c)
    BY <1>2, GrowElsewhere
  <2>2. Len(c) # 0 /\ Len(<< >>) = 0
    BY ChunkOf
  <2> QED
    BY <2>1, <2>2
<1> QED
  BY <1>1, <1>2

(* The chunks of the first tokens of t, token by token. *)
CutsUpTo(f, t, sep) ==
  f[0] = << << >> >> /\ \A i \in 1..Len(t) : f[i] = Grow(f[i - 1], t[i], sep)

LEMMA CutUpTo ==
  ASSUME NEW T, NEW sep, NEW t \in Seq(T)
  PROVE  \E f \in [0..Len(t) -> Lists(T) \ {<< >>}] :
           CutsUpTo(f, t, sep) /\ Cut(t, sep) = f[Len(t)]
<1> DEFINE n == Len(t)
           X == Lists(T) \ {<< >>}
           a == << << >> >>
           G == [i \in 1..n |-> [c \in X |-> Grow(c, t[i], sep)]]
           Is(f) == f = [i \in 0..n |-> IF i = 0 THEN a ELSE Grow(f[i - 1], t[i], sep)]
           cut == CHOOSE f : Is(f)
<1>1. n \in Nat
  OBVIOUS
<1>2. a \in X
  BY NoChunk
<1>3. \A i \in 1..n : t[i] \in T
  OBVIOUS
<1> HIDE DEF n, X, a
<1>4. G \in [1..n -> [X -> X]]
  BY <1>3, GrowTypes DEF X
<1>5. \A i \in 1..n, c \in X : G[i][c] = Grow(c, t[i], sep)
  OBVIOUS
<1> HIDE DEF G
<1>6. PICK g \in [0..n -> X] : g[0] = a /\ \A i \in 1..n : g[i] = G[i][g[i - 1]]
  BY <1>1, <1>2, <1>4, StepByStep, SMTT(60)
<1>7. \A i \in 1..n : g[i] = Grow(g[i - 1], t[i], sep)
  <2>1. \A i \in 1..n : i - 1 \in 0..n
    BY <1>1
  <2> QED
    BY <1>5, <1>6, <2>1
<1>8. Is(g)
  <2>1. g = [i \in 0..n |-> g[i]]
    BY <1>6
  <2>2. \A i \in 0..n : g[i] = IF i = 0 THEN a ELSE Grow(g[i - 1], t[i], sep)
    BY <1>1, <1>6, <1>7
  <2> QED
    BY <2>1, <2>2
<1>9. Is(cut)
  <2> HIDE DEF Is
  <2> QED
    BY <1>8
<1>10. Cut(t, sep) = cut[n]
  BY DEF Cut, n, a, cut, Is
<1> HIDE DEF cut
<1>11. cut[0] = a /\ \A i \in 1..n : cut[i] = Grow(cut[i - 1], t[i], sep)
  <2>1. \A i \in 0..n : cut[i] = IF i = 0 THEN a ELSE Grow(cut[i - 1], t[i], sep)
    BY <1>9
  <2> HIDE DEF Is
  <2> QED
    BY <1>1, <2>1
<1>12. cut \in [0..n -> X]
  <2> DEFINE N == { m \in Nat : m <= n => cut[m] \in X }
  <2>1. 0 \in N
    BY <1>2, <1>11
  <2>2. ASSUME NEW m \in Nat, m \in N PROVE m + 1 \in N
    <3> SUFFICES ASSUME m + 1 <= n PROVE cut[m + 1] \in X
      OBVIOUS
    <3>1. m + 1 \in 1..n /\ (m + 1) - 1 = m /\ m <= n
      BY <1>1
    <3>2. cut[m] \in X /\ t[m + 1] \in T
      BY <1>3, <2>2, <3>1
    <3>3. cut[m + 1] = Grow(cut[m], t[m + 1], sep)
      BY <1>11, <3>1
    <3> QED
      BY <3>2, <3>3, GrowTypes DEF X
  <2> HIDE DEF N
  <2>3. Nat \subseteq N
    BY <2>1, <2>2, NumbersOf
  <2>4. \A m \in 0..n : cut[m] \in X
    BY <1>1, <2>3 DEF N
  <2>5. cut = [m \in 0..n |-> cut[m]]
    BY <1>9
  <2> HIDE DEF Is
  <2> QED
    BY <2>4, <2>5
<1> HIDE DEF Is
<1> QED
  BY <1>10, <1>11, <1>12 DEF n, X, a, CutsUpTo

LEMMA CutTypes ==
  ASSUME NEW T, NEW sep, NEW t \in Seq(T)
  PROVE  Cut(t, sep) \in Lists(T) /\ Cut(t, sep) # << >>
<1>1. PICK f \in [0..Len(t) -> Lists(T) \ {<< >>}] :
        CutsUpTo(f, t, sep) /\ Cut(t, sep) = f[Len(t)]
  BY CutUpTo
<1>2. Len(t) \in 0..Len(t)
  OBVIOUS
<1> QED
  BY <1>1, <1>2

LEMMA CutNothing ==
  ASSUME NEW sep
  PROVE  Cut(<< >>, sep) = << << >> >>
<1>1. PICK T : T = {sep}
  OBVIOUS
<1>2. << >> \in Seq(T) /\ Len(<< >>) = 0
  OBVIOUS
<1>3. PICK t : t = << >>
  OBVIOUS
<1>4. t \in Seq(T) /\ Len(t) = 0
  BY <1>2, <1>3
<1>5. PICK f \in [0..Len(t) -> Lists(T) \ {<< >>}] :
        CutsUpTo(f, t, sep) /\ Cut(t, sep) = f[Len(t)]
  <2>1. t \in Seq(T)
    BY <1>4
  <2> QED
    BY <2>1, CutUpTo
<1> QED
  BY <1>3, <1>4, <1>5 DEF CutsUpTo

LEMMA CutAppend ==
  ASSUME NEW T, NEW sep, NEW t \in Seq(T), NEW x \in T
  PROVE  Cut(Append(t, x), sep) = Grow(Cut(t, sep), x, sep)
<1>1. PICK n \in Nat : n = Len(t)
  OBVIOUS
<1>2. PICK u \in Seq(T) : /\ u = Append(t, x) /\ Len(u) = n + 1
                          /\ \A i \in 1..n : u[i] = t[i]
                          /\ u[n + 1] = x
  BY <1>1, AppendProperties
<1>3. PICK f \in [0..Len(t) -> Lists(T) \ {<< >>}] :
        CutsUpTo(f, t, sep) /\ Cut(t, sep) = f[Len(t)]
  BY CutUpTo
<1>4. PICK g \in [0..Len(u) -> Lists(T) \ {<< >>}] :
        CutsUpTo(g, u, sep) /\ Cut(u, sep) = g[Len(u)]
  BY CutUpTo
<1>11. /\ f[0] = << << >> >> /\ \A i \in 1..n : f[i] = Grow(f[i - 1], t[i], sep)
       /\ g[0] = << << >> >> /\ \A i \in 1..(n + 1) : g[i] = Grow(g[i - 1], u[i], sep)
  BY <1>1, <1>2, <1>3, <1>4 DEF CutsUpTo
<1> DEFINE N == { m \in Nat : m <= n => g[m] = f[m] }
<1>5. 0 \in N
  BY <1>11
<1>6. ASSUME NEW m \in Nat, m \in N PROVE m + 1 \in N
  <2> SUFFICES ASSUME m + 1 <= n PROVE g[m + 1] = f[m + 1]
    OBVIOUS
  <2>1. m + 1 \in 1..n /\ m + 1 \in 1..(n + 1) /\ (m + 1) - 1 = m /\ m <= n
    BY <1>1
  <2>2. g[m] = f[m] /\ u[m + 1] = t[m + 1]
    BY <1>2, <1>6, <2>1
  <2>3. f[m + 1] = Grow(f[m], t[m + 1], sep) /\ g[m + 1] = Grow(g[m], u[m + 1], sep)
    BY <1>11, <2>1
  <2> QED
    BY <2>2, <2>3
<1> HIDE DEF N
<1>7. n \in N
  BY <1>5, <1>6, NumbersOf
<1>8. g[n] = f[n]
  BY <1>7 DEF N
<1>9. n + 1 \in 1..(n + 1) /\ (n + 1) - 1 = n
  OBVIOUS
<1>10. g[n + 1] = Grow(g[n], x, sep)
  BY <1>2, <1>11, <1>9
<1> QED
  BY <1>1, <1>2, <1>3, <1>4, <1>8, <1>10

(* What f says of the first chunks of c, one chunk after the other. *)
JoinsUpTo(f, c, sep) ==
  /\ f[0] = << >>
  /\ \A k \in 1..Len(c) : f[k] = IF k = 1 THEN c[1] ELSE f[k - 1] \o <<sep>> \o c[k]

LEMMA JoinUpTo ==
  ASSUME NEW T, NEW sep, NEW c \in Lists(T)
  PROVE  sep \in T =>
         \E f \in [0..Len(c) -> Seq(T)] :
           JoinsUpTo(f, c, sep) /\ Join(c, sep) = f[Len(c)]
<1> DEFINE n == Len(c)
           X == Seq(T)
           Longer(s, k) == IF k = 1 THEN c[1] ELSE s \o <<sep>> \o c[k]
           G == [k \in 1..n |-> [s \in X |-> Longer(s, k)]]
           Is(f) == f = [k \in 0..n |-> IF k = 0 THEN << >>
                                        ELSE IF k = 1 THEN c[1]
                                        ELSE f[k - 1] \o <<sep>> \o c[k]]
           joined == CHOOSE f : Is(f)
<1>0. HAVE sep \in T
<1>1. n \in Nat
  BY ChunkOf
<1>2. << >> \in X /\ <<sep>> \in X
  BY <1>0
<1>3. \A k \in 1..n : c[k] \in X
  BY ChunkOf
<1>4. ASSUME NEW s \in X, NEW k \in 1..n PROVE Longer(s, k) \in X
  <2>1. c[k] \in X /\ s \in X /\ <<sep>> \in X
    BY <1>2, <1>3
  <2>2. s \o <<sep>> \in X
    BY <2>1, ConcatProperties
  <2>3. s \o <<sep>> \o c[k] \in X
    BY <2>1, <2>2, ConcatProperties
  <2>4. k = 1 => c[1] \in X
    BY <2>1
  <2> QED
    BY <2>3, <2>4
<1>5. Join(c, sep) = joined[n]
  BY DEF Join, n, joined, Is
<1> HIDE DEF n, X, Longer
<1>6. G \in [1..n -> [X -> X]]
  BY <1>4
<1>7. \A k \in 1..n, s \in X : G[k][s] = Longer(s, k)
  OBVIOUS
<1> HIDE DEF G
<1>8. PICK g \in [0..n -> X] : g[0] = << >> /\ \A k \in 1..n : g[k] = G[k][g[k - 1]]
  <2>1. PICK a \in X : a = << >>
    BY <1>2
  <2>2. \E g \in [0..n -> X] : g[0] = a /\ \A k \in 1..n : g[k] = G[k][g[k - 1]]
    BY <1>1, <1>6, <2>1, StepByStep, SMTT(60)
  <2> QED
    BY <2>1, <2>2
<1>9. \A k \in 1..n : g[k] = Longer(g[k - 1], k)
  <2>1. \A k \in 1..n : k - 1 \in 0..n
    BY <1>1
  <2> QED
    BY <1>7, <1>8, <2>1
<1>10. Is(g)
  <2>1. g = [k \in 0..n |-> g[k]]
    BY <1>8
  <2>2. ASSUME NEW k \in 0..n
        PROVE  g[k] = IF k = 0 THEN << >> ELSE IF k = 1 THEN c[1]
                      ELSE g[k - 1] \o <<sep>> \o c[k]
    <3>1. CASE k = 0
      BY <1>8, <3>1
    <3>2. CASE k # 0
      <4>1. k \in 1..n
        BY <1>1, <3>2
      <4>2. g[k] = Longer(g[k - 1], k)
        BY <1>9, <4>1
      <4> QED
        BY <3>2, <4>2, Zenon DEF Longer
    <3> QED
      BY <3>1, <3>2
  <2> QED
    BY <2>1, <2>2
<1>11. Is(joined)
  <2> HIDE DEF Is
  <2> QED
    BY <1>10
<1> HIDE DEF joined
<1>12. joined[0] = << >> /\ \A k \in 1..n : joined[k] = Longer(joined[k - 1], k)
  <2>1. ASSUME NEW k \in 0..n
        PROVE  joined[k] = IF k = 0 THEN << >> ELSE IF k = 1 THEN c[1]
                           ELSE joined[k - 1] \o <<sep>> \o c[k]
    BY <1>11
  <2> HIDE DEF Is
  <2>2. joined[0] = << >>
    BY <1>1, <2>1
  <2>3. ASSUME NEW k \in 1..n PROVE joined[k] = Longer(joined[k - 1], k)
    <3>1. k \in 0..n /\ k # 0
      BY <1>1
    <3> QED
      BY <2>1, <3>1, Zenon DEF Longer
  <2> QED
    BY <2>2, <2>3
<1>13. joined \in [0..n -> X]
  <2> DEFINE N == { m \in Nat : m <= n => joined[m] \in X }
  <2>1. 0 \in N
    BY <1>2, <1>12
  <2>2. ASSUME NEW m \in Nat, m \in N PROVE m + 1 \in N
    <3> SUFFICES ASSUME m + 1 <= n PROVE joined[m + 1] \in X
      OBVIOUS
    <3>1. m + 1 \in 1..n /\ (m + 1) - 1 = m /\ m <= n
      BY <1>1
    <3>2. joined[m] \in X
      BY <2>2, <3>1
    <3>3. joined[m + 1] = Longer(joined[m], m + 1)
      BY <1>12, <3>1
    <3> QED
      BY <1>4, <3>1, <3>2, <3>3
  <2> HIDE DEF N
  <2>3. Nat \subseteq N
    BY <2>1, <2>2, NumbersOf
  <2>4. \A m \in 0..n : joined[m] \in X
    BY <1>1, <2>3 DEF N
  <2>5. joined = [m \in 0..n |-> joined[m]]
    BY <1>11
  <2> HIDE DEF Is
  <2> QED
    BY <2>4, <2>5
<1> HIDE DEF Is
<1> QED
  BY <1>5, <1>12, <1>13 DEF n, X, Longer, JoinsUpTo

LEMMA JoinTypes ==
  ASSUME NEW T, NEW sep, NEW c \in Lists(T)
  PROVE  sep \in T => Join(c, sep) \in Seq(T)
<1>0. HAVE sep \in T
<1>1. PICK f \in [0..Len(c) -> Seq(T)] : JoinsUpTo(f, c, sep) /\ Join(c, sep) = f[Len(c)]
  BY <1>0, JoinUpTo, ZenonT(60)
<1>2. Len(c) \in 0..Len(c)
  BY ChunkOf
<1> QED
  BY <1>1, <1>2

LEMMA JoinNothing ==
  ASSUME NEW sep
  PROVE  Join(<< >>, sep) = << >>
<1>1. PICK T : T = {sep}
  OBVIOUS
<1>2. PICK c \in Lists(T) : c = << >>
  BY NoChunk
<1>3. sep \in T /\ Len(c) = 0
  BY <1>1, <1>2
<1>4. \E f \in [0..Len(c) -> Seq(T)] : JoinsUpTo(f, c, sep) /\ Join(c, sep) = f[Len(c)]
  <2>1. sep \in T
    BY <1>3
  <2> QED
    BY <2>1, JoinUpTo, ZenonT(60)
<1>5. PICK f : f[0] = << >> /\ Join(c, sep) = f[0]
  BY <1>3, <1>4 DEF JoinsUpTo
<1> QED
  BY <1>2, <1>5

LEMMA JoinAppend ==
  ASSUME NEW T, NEW sep, NEW c \in Lists(T), NEW u \in Seq(T)
  PROVE  sep \in T =>
         Join(Append(c, u), sep) = IF c = << >> THEN u ELSE Join(c, sep) \o <<sep>> \o u
<1>0. HAVE sep \in T
<1>1. PICK n \in Nat : n = Len(c)
  BY ChunkOf
<1>2. PICK d \in Lists(T) : /\ d = Append(c, u) /\ Len(d) = n + 1
                            /\ \A i \in 1..n : d[i] = c[i]
                            /\ d[n + 1] = u
  BY <1>1, AppendChunk
<1>3. PICK f \in [0..Len(c) -> Seq(T)] : JoinsUpTo(f, c, sep) /\ Join(c, sep) = f[Len(c)]
  BY <1>0, JoinUpTo, ZenonT(60)
<1>4. PICK g \in [0..Len(d) -> Seq(T)] : JoinsUpTo(g, d, sep) /\ Join(d, sep) = g[Len(d)]
  BY <1>0, JoinUpTo, ZenonT(60)
<1>14. /\ f[0] = << >>
       /\ \A k \in 1..n : f[k] = IF k = 1 THEN c[1] ELSE f[k - 1] \o <<sep>> \o c[k]
  BY <1>1, <1>3, Zenon DEF JoinsUpTo
<1>15. /\ g[0] = << >>
       /\ \A k \in 1..(n + 1) : g[k] = IF k = 1 THEN d[1] ELSE g[k - 1] \o <<sep>> \o d[k]
  BY <1>2, <1>4, Zenon DEF JoinsUpTo
<1> DEFINE N == { m \in Nat : m <= n => g[m] = f[m] }
<1>5. 0 \in N
  BY <1>14, <1>15
<1>6. ASSUME NEW m \in Nat, m \in N PROVE m + 1 \in N
  <2> SUFFICES ASSUME m + 1 <= n PROVE g[m + 1] = f[m + 1]
    OBVIOUS
  <2>1. /\ m + 1 \in 1..n /\ m + 1 \in 1..(n + 1) /\ (m + 1) - 1 = m /\ m <= n
        /\ 1 \in 1..n
    BY <1>1
  <2>2. g[m] = f[m] /\ d[m + 1] = c[m + 1] /\ d[1] = c[1]
    BY <1>2, <1>6, <2>1
  <2>3. f[m + 1] = IF m + 1 = 1 THEN c[1] ELSE f[m] \o <<sep>> \o c[m + 1]
    BY <1>14, <2>1, Zenon
  <2>4. g[m + 1] = IF m + 1 = 1 THEN d[1] ELSE g[m] \o <<sep>> \o d[m + 1]
    BY <1>15, <2>1, Zenon
  <2> QED
    BY <2>2, <2>3, <2>4, Zenon
<1> HIDE DEF N
<1>7. n \in N
  BY <1>5, <1>6, NumbersOf
<1>8. g[n] = f[n]
  BY <1>7 DEF N
<1>9. n + 1 \in 1..(n + 1) /\ (n + 1) - 1 = n
  OBVIOUS
<1>10. g[n + 1] = IF n + 1 = 1 THEN d[1] ELSE g[n] \o <<sep>> \o d[n + 1]
  BY <1>15, <1>9, Zenon
<1>11. n + 1 = 1 <=> c = << >>
  <2>1. n = 0 <=> c = << >>
    BY <1>1, ChunkOf
  <2> QED
    BY <2>1
<1>12. n + 1 = 1 => d[1] = u
  BY <1>2
<1>13. Join(d, sep) = IF c = << >> THEN u ELSE f[n] \o <<sep>> \o u
  BY <1>2, <1>4, <1>8, <1>10, <1>11, <1>12, Zenon
<1> QED
  BY <1>1, <1>2, <1>3, <1>13, Zenon

(* A token that is no separator makes the last chunk longer. *)
LEMMA GrowLast ==
  ASSUME NEW T, NEW c, c \in Lists(T), NEW u, u \in Seq(T),
         NEW x, x \in T, NEW sep, x # sep
  PROVE  Grow(Append(c, u), x, sep) = Append(c, Append(u, x))
<1>2. PICK n \in Nat : n = Len(c)
  BY ChunkOf
<1>3. PICK d \in Lists(T) : /\ d = Append(c, u) /\ d # << >> /\ Len(d) = n + 1
                            /\ \A i \in 1..n : d[i] = c[i]
                            /\ d[n + 1] = u
  BY <1>2, AppendChunk
<1>4. PICK v \in Seq(T) : v = Append(u, x)
  BY AppendProperties
<1>5. PICK e \in Lists(T) : /\ e = Append(c, v) /\ Len(e) = n + 1
                            /\ \A i \in 1..n : e[i] = c[i]
                            /\ e[n + 1] = v
  BY <1>2, AppendChunk
<1>6. d \in Lists(T) /\ d # << >> /\ x \in T
  BY <1>3
<1>7. PICK g \in Lists(T) : /\ g = Grow(d, x, sep) /\ Len(g) = Len(d)
                            /\ \A k \in 1..(Len(d) - 1) : g[k] = d[k]
                            /\ g[Len(d)] = Append(d[Len(d)], x)
  BY <1>6, GrowElsewhere
<1>8. /\ Len(g) = n + 1 /\ g[n + 1] = v
      /\ \A k \in 1..n : g[k] = c[k]
  <2>1. Len(d) = n + 1 /\ Len(d) - 1 = n
    BY <1>3
  <2> QED
    BY <1>3, <1>4, <1>7, <2>1
<1>9. \A k \in 1..(n + 1) : g[k] = e[k]
  <2>1. \A k \in 1..(n + 1) : k \in 1..n \/ k = n + 1
    OBVIOUS
  <2> QED
    BY <1>5, <1>8, <2>1
<1>10. g = e
  BY <1>5, <1>8, <1>9, SameChunks
<1> QED
  BY <1>3, <1>4, <1>5, <1>7, <1>10, Zenon

(* A text without separators is one chunk. *)
LEMMA CutChunk ==
  ASSUME NEW T, NEW sep, sep \notin T, NEW u \in Seq(T)
  PROVE  Cut(u, sep) = <<u>>
<1> DEFINE S == { s \in Seq(T) : Cut(s, sep) = <<s>> }
<1>1. << >> \in S
  BY CutNothing
<1>2. ASSUME NEW s \in Seq(T), NEW x \in T, s \in S PROVE Append(s, x) \in S
  <2>1. Cut(Append(s, x), sep) = Grow(<<s>>, x, sep)
    BY <1>2, CutAppend
  <2>2. PICK c \in Lists(T) : c = << >>
    BY NoChunk
  <2>3. c \in Lists(T) /\ s \in Seq(T) /\ x \in T /\ x # sep
    OBVIOUS
  <2>4. Grow(Append(c, s), x, sep) = Append(c, Append(s, x))
    BY <2>3, GrowLast
  <2>5. Append(c, s) = <<s>> /\ Append(c, Append(s, x)) = <<Append(s, x)>>
    BY <2>2
  <2>6. Append(s, x) \in Seq(T)
    OBVIOUS
  <2>7. Cut(Append(s, x), sep) = <<Append(s, x)>>
    BY <2>1, <2>4, <2>5, Zenon
  <2> QED
    BY <2>6, <2>7
<1> HIDE DEF S
<1>3. Seq(T) \subseteq S
  BY <1>1, <1>2, SequencesOf
<1> QED
  BY <1>3 DEF S

LEMMA WiderLists ==
  ASSUME NEW T, NEW U, U \subseteq T
  PROVE  Seq(U) \subseteq Seq(T) /\ Lists(U) \subseteq Lists(T)
<1>1. \A s \in Seq(U) : s \in Seq(T)
  OBVIOUS
<1>2. PICK A, B : A = Seq(U) /\ B = Seq(T)
  OBVIOUS
<1>3. A \subseteq B
  BY <1>1, <1>2
<1>4. \A s \in Seq(A) : s \in Seq(B)
  BY <1>3
<1> QED
  BY <1>1, <1>2, <1>4 DEF Lists

(* What follows the last separator is the last chunk. *)
LEMMA CutBehind ==
  ASSUME NEW T, NEW U, U \subseteq T, NEW sep, sep \notin U,
         NEW t \in Seq(T), NEW u \in Seq(U)
  PROVE  sep \in T => Cut((t \o <<sep>>) \o u, sep) = Append(Cut(t, sep), u)
<1>0. HAVE sep \in T
<1> DEFINE v == t \o <<sep>>
           S == { s \in Seq(U) : Cut(v \o s, sep) = Append(Cut(t, sep), s) }
<1>1. v \in Seq(T) /\ v = Append(t, sep)
  BY <1>0, AppendIsConcat, AppendProperties
<1>2. Cut(t, sep) \in Lists(T)
  BY CutTypes
<1>3. Cut(v, sep) = Append(Cut(t, sep), << >>)
  <2>1. Cut(Append(t, sep), sep) = Grow(Cut(t, sep), sep, sep)
    BY <1>0, CutAppend
  <2> QED
    BY <1>1, <2>1, GrowAtSeparator
<1> HIDE DEF v
<1>4. << >> \in S
  <2>1. v \o << >> = v
    BY <1>1
  <2> QED
    BY <1>3, <2>1
<1>5. ASSUME NEW s \in Seq(U), NEW x \in U, s \in S PROVE Append(s, x) \in S
  <2>1. x \in T /\ s \in Seq(T) /\ x # sep
    BY WiderLists
  <2>2. v \o Append(s, x) = Append(v \o s, x) /\ v \o s \in Seq(T)
    BY <1>1, <2>1
  <2>3. Cut(Append(v \o s, x), sep) = Grow(Cut(v \o s, sep), x, sep)
    BY <2>1, <2>2, CutAppend
  <2>4. Grow(Append(Cut(t, sep), s), x, sep) = Append(Cut(t, sep), Append(s, x))
    BY <1>2, <2>1, GrowLast
  <2>5. Cut(v \o Append(s, x), sep) = Append(Cut(t, sep), Append(s, x))
    BY <1>5, <2>2, <2>3, <2>4
  <2>6. Append(s, x) \in Seq(U)
    OBVIOUS
  <2> QED
    BY <2>5, <2>6
<1> HIDE DEF S
<1>6. Seq(U) \subseteq S
  BY <1>4, <1>5, SequencesOf
<1> QED
  BY <1>6 DEF S, v

(* Cut takes apart what Join puts together. *)
LEMMA CutJoin ==
  ASSUME NEW U, NEW sep, sep \notin U, NEW c \in Lists(U), c # << >>
  PROVE  Cut(Join(c, sep), sep) = c
<1> DEFINE S == { s \in Lists(U) : s # << >> => Cut(Join(s, sep), sep) = s }
<1>0. PICK T : T = U \cup {sep}
  OBVIOUS
<1>1. sep \in T /\ U \subseteq T /\ sep \notin U
  BY <1>0
<1>2. << >> \in S
  BY NoChunk
<1>3. ASSUME NEW s \in Lists(U), NEW u \in Seq(U), s \in S PROVE Append(s, u) \in S
  <2>0. s \in Lists(T) /\ u \in Seq(T)
    BY <1>1, WiderLists
  <2>1. Append(s, u) \in Lists(U)
    BY AppendChunk
  <2>2. Join(Append(s, u), sep) = IF s = << >> THEN u ELSE Join(s, sep) \o <<sep>> \o u
    BY <1>1, <2>0, JoinAppend, ZenonT(60)
  <2>3. CASE s = << >>
    <3>1. Append(s, u) = <<u>>
      BY <2>3
    <3>2. Cut(u, sep) = <<u>>
      BY CutChunk
    <3>3. Cut(Join(Append(s, u), sep), sep) = Append(s, u)
      BY <2>2, <2>3, <3>1, <3>2, Zenon
    <3> QED
      BY <2>1, <3>3
  <2>4. CASE s # << >>
    <3>1. PICK t \in Seq(T) : t = Join(s, sep)
      BY <1>1, <2>0, JoinTypes
    <3>2. Cut((t \o <<sep>>) \o u, sep) = Append(Cut(t, sep), u)
      BY <1>1, CutBehind
    <3>3. Cut(t, sep) = s
      BY <1>3, <2>4, <3>1
    <3>4. Cut(Join(Append(s, u), sep), sep) = Append(s, u)
      BY <2>2, <2>4, <3>1, <3>2, <3>3, Zenon
    <3> QED
      BY <2>1, <3>4
  <2> QED
    BY <2>3, <2>4
<1> HIDE DEF S
<1>4. Lists(U) \subseteq S
  <2>1. PICK A : A = Seq(U)
    OBVIOUS
  <2>2. \A s \in Seq(A), u \in A : s \in S => Append(s, u) \in S
    BY <1>3, <2>1 DEF Lists
  <2>3. Seq(A) \subseteq S
    BY <1>2, <2>2, SequencesOf
  <2> QED
    BY <2>1, <2>3 DEF Lists
<1> QED
  BY <1>4 DEF S
-----------------------------------------------------------------------------
(* Where a separator is found, and what the chunks say of their text.      *)
LEMMA FindFinds ==
  ASSUME NEW T, NEW t, t \in Seq(T), NEW sep
  PROVE  /\ Find(t, sep) \in 1..(Len(t) + 1)
         /\ Find(t, sep) <= Len(t) => t[Find(t, sep)] = sep
         /\ \A j \in 1..(Find(t, sep) - 1) : t[j] # sep
<1> DEFINE Is(i) == /\ i <= Len(t) => t[i] = sep
                    /\ \A j \in 1..(i - 1) : t[j] # sep
           S == { i \in 1..(Len(t) + 1) : i <= Len(t) => t[i] = sep }
<1>1. Len(t) \in Nat
  OBVIOUS
<1>2. PICK x \in S : \A y \in S : x <= y
  <2>1. Len(t) + 1 \in S
    BY <1>1
  <2>2. S \in SUBSET Nat /\ S # {}
    BY <1>1, <2>1
  <2> HIDE DEF S
  <2> QED
    BY <2>2, LeastOf
<1>3. \A j \in 1..(x - 1) : t[j] # sep
  <2> SUFFICES ASSUME NEW j \in 1..(x - 1), t[j] = sep PROVE FALSE
    OBVIOUS
  <2>1. j \in S /\ j < x
    BY <1>1
  <2> QED
    BY <1>2, <2>1
<1>4. x \in 1..(Len(t) + 1) /\ Is(x)
  BY <1>2, <1>3
<1>5. Find(t, sep) = CHOOSE i \in 1..(Len(t) + 1) : Is(i)
  BY DEF Find
<1> HIDE DEF Is
<1>6. Find(t, sep) \in 1..(Len(t) + 1) /\ Is(Find(t, sep))
  BY <1>4, <1>5
<1> QED
  BY <1>6 DEF Is

FirstPlace(t, sep, i) ==
  /\ i \in 1..(Len(t) + 1) /\ (i <= Len(t) => t[i] = sep)
  /\ \A j \in 1..(i - 1) : t[j] # sep

LEMMA FindIs ==
  ASSUME NEW T, NEW t, t \in Seq(T), NEW sep, NEW i, FirstPlace(t, sep, i)
  PROVE  Find(t, sep) = i
<1>0. /\ i \in 1..(Len(t) + 1) /\ (i <= Len(t) => t[i] = sep)
      /\ \A j \in 1..(i - 1) : t[j] # sep
  BY DEF FirstPlace
<1>1. PICK n \in Nat : n = Len(t)
  OBVIOUS
<1>2. PICK f \in 1..(n + 1) : /\ f = Find(t, sep)
                              /\ f <= n => t[f] = sep
                              /\ \A j \in 1..(f - 1) : t[j] # sep
  BY <1>1, FindFinds
<1>3. ~(f < i) /\ ~(i < f)
  BY <1>0, <1>1, <1>2
<1> QED
  BY <1>0, <1>1, <1>2, <1>3

LEMMA ListOf ==
  ASSUME NEW T, NEW A, NEW c, c \in Lists(T), \A k \in 1..Len(c) : c[k] \in Seq(A)
  PROVE  c \in Lists(A)
<1>1. PICK U, B : U = Seq(T) /\ B = Seq(A)
  OBVIOUS
<1>2. c \in Seq(U) /\ \A k \in 1..Len(c) : c[k] \in B
  BY <1>1 DEF Lists
<1>3. c \in Seq(B)
  BY <1>2
<1> QED
  BY <1>1, <1>3 DEF Lists

LEMMA AppendTokens ==
  ASSUME NEW T, NEW A, NEW u, u \in Seq(T), NEW x, x \in T, Append(u, x) \in Seq(A)
  PROVE  u \in Seq(A) /\ x \in A
<1>1. PICK v : v = Append(u, x)
  OBVIOUS
<1>2. PICK n \in Nat : n = Len(u)
  OBVIOUS
<1>3. Len(v) = n + 1 /\ v[n + 1] = x /\ \A k \in 1..n : v[k] = u[k]
  BY <1>1, <1>2, AppendProperties
<1>4. \A k \in 1..(n + 1) : v[k] \in A
  BY <1>1, <1>3
<1>5. x \in A /\ \A k \in 1..n : u[k] \in A
  BY <1>2, <1>3, <1>4
<1> QED
  BY <1>2, <1>5

(* Tokens are not lost: they are separators or in the chunks. *)
LEMMA CutTokens ==
  ASSUME NEW T, NEW A, NEW sep, NEW t, t \in Seq(T), Cut(t, sep) \in Lists(A)
  PROVE  t \in Seq(A \cup {sep})
<1>0. PICK B : B = A \cup {sep}
  OBVIOUS
<1> DEFINE S == { s \in Seq(T) : Cut(s, sep) \in Lists(A) => s \in Seq(B) }
<1>1. << >> \in S
  OBVIOUS
<1>2. ASSUME NEW s \in Seq(T), NEW x \in T, s \in S PROVE Append(s, x) \in S
  <2> DEFINE c == Cut(s, sep)
  <2>1. c \in Lists(T) /\ c # << >>
    BY CutTypes
  <2>2. Cut(Append(s, x), sep) = Grow(c, x, sep)
    BY CutAppend
  <2> HIDE DEF c
  <2>3. PICK n \in Nat \ {0} : n = Len(c)
    BY <2>1, ChunkOf
  <2>4. ASSUME Grow(c, x, sep) \in Lists(A) PROVE c \in Lists(A) /\ x \in B
    <3>1. PICK g \in Lists(A) : g = Grow(c, x, sep)
      BY <2>4
    <3>2. \A k \in 1..Len(g) : g[k] \in Seq(A)
      BY ChunkOf
    <3>3. CASE x = sep
      <4>1. g = Append(c, << >>)
        BY <3>1, <3>3, GrowAtSeparator
      <4>2. PICK u \in Seq(T) : u = << >>
        BY NoChunk
      <4>3. Len(g) = n + 1 /\ \A k \in 1..n : g[k] = c[k]
        BY <2>1, <2>3, <4>1, <4>2, AppendChunk
      <4>4. \A k \in 1..n : c[k] \in Seq(A)
        BY <2>3, <3>2, <4>3
      <4>5. c \in Lists(A)
        BY <2>1, <2>3, <4>4, ListOf
      <4> QED
        BY <1>0, <3>3, <4>5
    <3>4. CASE x # sep
      <4>1. PICK d \in Lists(T) : /\ d = Grow(c, x, sep) /\ Len(d) = Len(c)
                                  /\ \A k \in 1..(Len(c) - 1) : d[k] = c[k]
                                  /\ d[Len(c)] = Append(c[Len(c)], x)
        BY <2>1, <3>4, GrowElsewhere
      <4>2. /\ Len(g) = n /\ \A k \in 1..(n - 1) : g[k] = c[k]
            /\ g[n] = Append(c[n], x)
        BY <2>3, <3>1, <4>1
      <4>3. c[n] \in Seq(T) /\ n \in 1..n
        BY <2>1, <2>3, ChunkOf
      <4>4. Append(c[n], x) \in Seq(A)
        BY <3>2, <4>2, <4>3
      <4>5. PICK u \in Seq(T) : u = c[n]
        BY <4>3
      <4>6. u \in Seq(A) /\ x \in A
        BY <4>4, <4>5, AppendTokens
      <4>7. \A k \in 1..n : k \in 1..(n - 1) \/ k = n
        BY <2>3
      <4>8. \A k \in 1..n : c[k] \in Seq(A)
        BY <3>2, <4>2, <4>5, <4>6, <4>7
      <4>9. c \in Lists(A)
        BY <2>1, <2>3, <4>8, ListOf
      <4> QED
        BY <1>0, <4>6, <4>9
    <3> QED
      BY <3>3, <3>4
  <2>5. Cut(Append(s, x), sep) \in Lists(A) => Append(s, x) \in Seq(B)
    <3> SUFFICES ASSUME Cut(Append(s, x), sep) \in Lists(A) PROVE Append(s, x) \in Seq(B)
      OBVIOUS
    <3>1. c \in Lists(A) /\ x \in B
      BY <2>2, <2>4
    <3>2. s \in Seq(B)
      BY <1>2, <3>1 DEF c
    <3> QED
      BY <3>1, <3>2
  <2>6. Append(s, x) \in Seq(T)
    OBVIOUS
  <2> QED
    BY <2>5, <2>6
<1> HIDE DEF S
<1>3. Seq(T) \subseteq S
  BY <1>1, <1>2, SequencesOf
<1> QED
  BY <1>0, <1>3 DEF S

(* The first chunk is the beginning of the text. *)
LEMMA CutStart ==
  ASSUME NEW T, NEW sep, NEW t, t \in Seq(T), Cut(t, sep)[1] # << >>
  PROVE  t # << >> /\ t[1] = Cut(t, sep)[1][1]
<1> DEFINE Starts(c, s) == /\ Len(c) = 1 => c[1] = s
                           /\ c[1] # << >> => s # << >> /\ s[1] = c[1][1]
           S == { s \in Seq(T) : Starts(Cut(s, sep), s) }
<1>1. << >> \in S
  <2>1. Cut(<< >>, sep) = << << >> >>
    BY CutNothing
  <2> QED
    BY <2>1
<1>2. ASSUME NEW s \in Seq(T), NEW x \in T, s \in S PROVE Append(s, x) \in S
  <2>1. PICK c \in Lists(T) : c = Cut(s, sep) /\ c # << >>
    BY CutTypes
  <2>2. Cut(Append(s, x), sep) = Grow(c, x, sep)
    BY <2>1, CutAppend
  <2>3. PICK n \in Nat \ {0} : n = Len(c)
    BY <2>1, ChunkOf
  <2>4. PICK u \in Seq(T) : u = c[1]
    BY <2>3, ChunkOf
  <2>5. (n = 1 => u = s) /\ (u # << >> => s # << >> /\ s[1] = u[1])
    BY <1>2, <2>1, <2>3, <2>4
  <2>8. PICK r \in Seq(T) : r = Append(s, x)
    BY AppendProperties
  <2>9. r # << >> /\ \A k \in 1..Len(s) : r[k] = s[k]
    BY <2>8, AppendProperties
  <2>6. r \in Seq(T) /\ r = Append(s, x) /\ r # << >> /\ (s # << >> => r[1] = s[1])
    BY <2>8, <2>9
  <2>7. Starts(Grow(c, x, sep), r)
    <3>1. CASE x = sep
      <4>1. PICK e \in Seq(T) : e = << >>
        BY NoChunk
      <4>2. PICK g : g = Append(c, e)
        OBVIOUS
      <4>6. Len(g) = n + 1 /\ \A k \in 1..n : g[k] = c[k]
        BY <2>3, <4>2, AppendChunk
      <4>3. g = Grow(c, x, sep)
        BY <3>1, <4>1, <4>2, GrowAtSeparator
      <4>4. Len(g) # 1 /\ g[1] = u
        BY <2>3, <2>4, <4>6
      <4>5. Starts(g, r)
        BY <2>5, <2>6, <4>4
      <4> QED
        BY <4>3, <4>5
    <3>2. CASE x # sep
      <4>1. PICK g \in Lists(T) : /\ g = Grow(c, x, sep) /\ Len(g) = Len(c)
                                  /\ \A k \in 1..(Len(c) - 1) : g[k] = c[k]
                                  /\ g[Len(c)] = Append(c[Len(c)], x)
        BY <2>1, <3>2, GrowElsewhere
      <4>2. CASE n = 1
        <5>1. Len(g) = 1 /\ g[1] = Append(u, x) /\ u = s
          BY <2>3, <2>4, <2>5, <4>1, <4>2
        <5>2. g[1] = r
          BY <2>6, <5>1
        <5>3. Starts(g, r)
          BY <2>6, <5>1, <5>2
        <5> QED
          BY <4>1, <5>3
      <4>3. CASE n # 1
        <5>1. Len(g) # 1 /\ g[1] = u
          BY <2>3, <2>4, <4>1, <4>3
        <5>2. Starts(g, r)
          BY <2>5, <2>6, <5>1
        <5> QED
          BY <4>1, <5>2
      <4> QED
        BY <4>2, <4>3
    <3> QED
      BY <3>1, <3>2
  <2> HIDE DEF Starts
  <2> QED
    BY <2>2, <2>6, <2>7
<1> HIDE DEF S
<1>3. t \in S
  BY <1>1, <1>2, SequencesOf
<1> QED
  BY <1>3 DEF S

-----------------------------------------------------------------------------
(* What the address parsers return.                                        *)

Tokens == Atoms \cup Separators

LEMMA TokensAre ==
  ASSUME NEW T, NEW A, NEW s, s \in Seq(T), \A k \in 1..Len(s) : s[k] \in A
  PROVE  s \in Seq(A)
OBVIOUS

LEMMA Ranges ==
  /\ IP!Words = Hextets /\ Hextets \subseteq Nat /\ IP!Octet \subseteq Nat
  /\ NoNumber \notin Nat
  /\ \A a, b \in IP!Octet : a * 256 + b \in Hextets
<1>0. MaxHextet = 65535 /\ IP!MaxWord = MaxHextet /\ IP!MaxOctet = 255
  BY DEF MaxHextet, IP!MaxWord, IP!MaxOctet
<1>1. IP!Words = Hextets
  BY <1>0, SMT DEF IP!Words, Hextets
<1>2. Hextets \subseteq Nat /\ IP!Octet \subseteq Nat
  BY DEF Hextets, IP!Octet
<1>3. ASSUME NEW a \in IP!Octet, NEW b \in IP!Octet PROVE a * 256 + b \in Hextets
  <2>1. a \in Nat /\ a <= 255 /\ b \in Nat /\ b <= 255
    BY <1>0, SMT DEF IP!Octet
  <2>2. PICK n \in Nat : n = a * 256 + b /\ n <= MaxHextet
    BY <1>0, <2>1, SMT
  <2>3. MaxHextet \in Nat
    BY <1>0, SMT
  <2>4. n \in Hextets
    BY <2>2, <2>3, SMT DEF Hextets
  <2> QED
    BY <2>2, <2>4
<1>4. NoNumber \notin Nat
  BY AtomsAssumption
<1> QED
  BY <1>1, <1>2, <1>3, <1>4

LEMMA PieceTypes ==
  ASSUME NEW p, p \in Chunks
  PROVE  /\ PieceHex[p] \in Hextets \cup {NoNumber}
         /\ PieceHex[p] # NoNumber => p \in Seq(Atoms)
         /\ PieceValue[p] # NoNumber => p # << >> /\ p[1] \in Atoms
         /\ p \in WholePieces => p \in Seq(Atoms)
         /\ p = << >> => PieceHex[p] = NoNumber
<1>1. PieceHex[p] = HexNumber(p) /\ PieceValue[p] = LeadingNumber(p)
  BY DEF PieceHex, PieceValue
<1>2. p \in Seq(Tokens)
  BY DEF Chunks, Tokens
<1>3. Len(p) = 1 /\ p[1] \in Atoms => p \in Seq(Atoms)
  <2> SUFFICES ASSUME Len(p) = 1, p[1] \in Atoms PROVE p \in Seq(Atoms)
    OBVIOUS
  <2>1. \A k \in 1..1 : p[k] \in Atoms
    OBVIOUS
  <2>2. \A k \in 1..Len(p) : p[k] \in Atoms
    BY <2>1
  <2> QED
    BY <1>2, <2>2, TokensAre
<1>4. PieceHex[p] \in Hextets \cup {NoNumber}
  BY <1>1, Ranges, AtomsAssumption DEF HexNumber
<1>5. PieceHex[p] # NoNumber => Len(p) = 1 /\ p[1] \in Atoms
  BY <1>1 DEF HexNumber
<1>6. PieceValue[p] # NoNumber => p # << >> /\ p[1] \in Atoms
  BY <1>1 DEF LeadingNumber
<1>7. p \in WholePieces => Len(p) = 1 /\ p[1] \in Atoms
  BY AtomsAssumption DEF WholePieces
<1>8. p = << >> => Len(p) # 1
  OBVIOUS
<1>9. PieceHex[p] # NoNumber => p \in Seq(Atoms)
  BY <1>3, <1>5, Zenon
<1>10. p \in WholePieces => p \in Seq(Atoms)
  BY <1>3, <1>7, Zenon
<1>11. p = << >> => PieceHex[p] = NoNumber
  BY <1>5, <1>8, Zenon
<1> QED
  BY <1>4, <1>6, <1>9, <1>10, <1>11, Zenon

LEMMA V4Result ==
  ASSUME NEW host
  PROVE  /\ V4FromStr(host) \subseteq [1..4 -> IP!Octet]
         /\ \A a, b \in V4FromStr(host) : a = b
<1> DEFINE pieces == Cut(host, ".")
<1>1. V4FromStr(host) = IF IP!LenientQuad(pieces) THEN {IP!OctetsOf(pieces)} ELSE {}
  BY DEF V4FromStr
<1> HIDE DEF pieces
<1>2. ASSUME IP!LenientQuad(pieces) PROVE IP!OctetsOf(pieces) \in [1..4 -> IP!Octet]
  <2>1. Len(pieces) = 4 /\ \A i \in 1..4 : PieceValue[pieces[i]] \in IP!Octet
    BY <1>2 DEF IP!LenientQuad, IP!IsOctet
  <2>2. IP!OctetsOf(pieces) = [i \in 1..4 |-> PieceValue[pieces[i]]]
    BY <2>1 DEF IP!OctetsOf
  <2> QED
    BY <2>1, <2>2
<1> QED
  BY <1>1, <1>2

LEMMA V4Start ==
  ASSUME NEW host, host \in Chunks, V4FromStr(host) # {}
  PROVE  host # << >> /\ host[1] \in Atoms
<1>1. PICK pieces \in Lists(Tokens) : pieces = Cut(host, ".") /\ pieces # << >>
  BY CutTypes DEF Chunks, Tokens
<1>2. IP!LenientQuad(pieces)
  BY <1>1 DEF V4FromStr
<1>3. Len(pieces) = 4 /\ PieceValue[pieces[1]] \in IP!Octet
  BY <1>2 DEF IP!LenientQuad, IP!IsOctet
<1>4. PICK p \in Chunks : p = pieces[1]
  <2>1. pieces[1] \in Seq(Tokens)
    BY <1>1, <1>3, ChunkOf
  <2> QED
    BY <2>1 DEF Chunks, Tokens
<1>5. PieceValue[p] # NoNumber
  BY <1>3, <1>4, Ranges
<1>6. p # << >> /\ p[1] \in Atoms
  BY <1>5, PieceTypes
<1>7. host \in Seq(Tokens) /\ Cut(host, ".")[1] # << >>
  BY <1>1, <1>4, <1>6 DEF Chunks, Tokens
<1>8. host # << >> /\ host[1] = Cut(host, ".")[1][1]
  BY <1>7, CutStart
<1> QED
  BY <1>1, <1>4, <1>6, <1>8

(* The parts of a text, and the sides of a "::".  A side that is read is   *)
(* made of atoms alone.                                                    *)
Parts == Lists(Tokens) \ {<< >>}

LEMMA PartOf ==
  ASSUME NEW part, part \in Parts
  PROVE  /\ Len(part) \in Nat \ {0} /\ part \in Lists(Tokens)
         /\ \A i \in 1..Len(part) : part[i] \in Chunks
<1>1. Len(part) \in Nat /\ Len(part) # 0 /\ \A i \in 1..Len(part) : part[i] \in Seq(Tokens)
  BY ChunkOf DEF Parts
<1> QED
  BY <1>1 DEF Parts, Chunks, Tokens

LEMMA GroupIs ==
  ASSUME NEW part, part \in Parts, IP!IsGroup(part)
  PROVE  /\ part \in Lists(Atoms) /\ PieceHex[part[1]] \in Hextets
         /\ part # IP!Empty /\ ~IP!Dotted(part)
<1>1. /\ Len(part) \in Nat \ {0} /\ part \in Lists(Tokens)
      /\ \A i \in 1..Len(part) : part[i] \in Chunks
  BY PartOf
<1>2. ~IP!Dotted(part) /\ Len(part) = 1 /\ PieceHex[part[1]] # NoNumber
  <2>1. ~IP!Dotted(part) /\ PieceHex[part[1]] # NoNumber
    BY DEF IP!IsGroup
  <2>2. PICK n \in Nat \ {0} : n = Len(part)
    BY <1>1
  <2>3. ~(n > 1)
    BY <2>1, <2>2 DEF IP!Dotted
  <2>4. n = 1
    BY <2>3
  <2> QED
    BY <2>1, <2>2, <2>4
<1>3. PICK p \in Chunks : p = part[1]
  BY <1>1, <1>2
<1>4. p \in Seq(Atoms) /\ p # << >> /\ PieceHex[p] \in Hextets
  BY <1>2, <1>3, PieceTypes
<1>5. \A i \in 1..Len(part) : part[i] \in Seq(Atoms)
  BY <1>2, <1>3, <1>4
<1>6. part \in Lists(Atoms)
  BY <1>1, <1>5, ListOf
<1>7. part # IP!Empty
  BY <1>3, <1>4 DEF IP!Empty
<1>8. PieceHex[part[1]] \in Hextets
  BY <1>3, <1>4
<1> QED
  BY <1>2, <1>6, <1>7, <1>8, Zenon

LEMMA QuadIs ==
  ASSUME NEW part, part \in Parts, IP!StrictQuad(part)
  PROVE  /\ part \in Lists(Atoms) /\ IP!QuadWords(part) \in Seq(Hextets)
         /\ part # IP!Empty /\ IP!Dotted(part)
<1>1. /\ part \in Lists(Tokens)
      /\ \A i \in 1..Len(part) : part[i] \in Chunks
  BY PartOf
<1>2. /\ Len(part) = 4
      /\ \A i \in 1..4 : PieceValue[part[i]] \in IP!Octet /\ part[i] \in WholePieces
  BY DEF IP!StrictQuad, IP!LenientQuad, IP!IsOctet
<1>3. ASSUME NEW i \in 1..Len(part) PROVE part[i] \in Seq(Atoms)
  <2>1. part[i] \in Chunks /\ part[i] \in WholePieces
    BY <1>1, <1>2
  <2> QED
    BY <2>1, PieceTypes
<1>4. part \in Lists(Atoms)
  BY <1>1, <1>3, ListOf
<1>5. PICK v \in Hextets, w \in Hextets : IP!QuadWords(part) = <<v, w>>
  <2>1. /\ PieceValue[part[1]] \in IP!Octet /\ PieceValue[part[2]] \in IP!Octet
        /\ PieceValue[part[3]] \in IP!Octet /\ PieceValue[part[4]] \in IP!Octet
    BY <1>2
  <2>2. /\ PieceValue[part[1]] * 256 + PieceValue[part[2]] \in Hextets
        /\ PieceValue[part[3]] * 256 + PieceValue[part[4]] \in Hextets
    BY <2>1, Ranges, ZenonT(60)
  <2> QED
    BY <2>2 DEF IP!QuadWords
<1>7. IP!QuadWords(part) \in Seq(Hextets)
  BY <1>5
<1>8. Len(IP!Empty) = 1
  BY DEF IP!Empty
<1>9. part # IP!Empty
  BY <1>2, <1>8
<1>10. IP!Dotted(part)
  BY <1>2 DEF IP!Dotted
<1> QED
  BY <1>4, <1>7, <1>9, <1>10, Zenon

(* The words of a side: as many as there are groups, and two of a quad. *)
LEMMA RangeIs ==
  ASSUME NEW side, side \in Seq(Parts), IP!IsRange(side)
  PROVE  /\ IP!RangeWords(side) \in Seq(Hextets)
         /\ \A k \in 1..Len(side) : side[k] \in Lists(Atoms) /\ side[k] # IP!Empty
<1>1. PICK n \in Nat \ {0} : n = Len(side)
  BY DEF IP!IsRange
<1>2. \A k \in 1..n : side[k] \in Parts
  BY <1>1
<1>3. \A k \in 1..n : IP!IsGroup(side[k]) \/ (k = n /\ IP!StrictQuad(side[k]))
  BY <1>1 DEF IP!IsRange
<1>4. \A k \in 1..n : side[k] \in Lists(Atoms) /\ side[k] # IP!Empty
  BY <1>2, <1>3, GroupIs, QuadIs
<1>5. \A k \in 1..n : k < n => PieceHex[side[k][1]] \in Hextets
  BY <1>2, <1>3, GroupIs
<1>6. IP!RangeWords(side) \in Seq(Hextets)
  <2>1. side # << >>
    BY <1>1
  <2>2. CASE IP!Dotted(side[n])
    <3>1. IP!RangeWords(side)
            = [k \in 1..(n - 1) |-> PieceHex[side[k][1]]] \o IP!QuadWords(side[n])
      BY <1>1, <2>1, <2>2 DEF IP!RangeWords, IP!EndsInQuad
    <3>2. PICK h : h = [k \in 1..(n - 1) |-> PieceHex[side[k][1]]]
      OBVIOUS
    <3>3. h \in Seq(Hextets)
      BY <1>1, <1>5, <3>2
    <3>4. IP!StrictQuad(side[n]) /\ side[n] \in Parts
      BY <1>1, <1>2, <1>3, <2>2 DEF IP!IsGroup
    <3>5. IP!QuadWords(side[n]) \in Seq(Hextets)
      BY <3>4, QuadIs
    <3>6. PICK q : q = IP!QuadWords(side[n])
      OBVIOUS
    <3>7. q \in Seq(Hextets)
      BY <3>5, <3>6
    <3>8. h \o q \in Seq(Hextets)
      BY <3>3, <3>7
    <3> QED
      BY <3>1, <3>2, <3>6, <3>8
  <2>3. CASE ~IP!Dotted(side[n])
    <3>1. IP!RangeWords(side) = [k \in 1..n |-> PieceHex[side[k][1]]]
      BY <1>1, <2>1, <2>3 DEF IP!RangeWords, IP!EndsInQuad
    <3>2. IP!IsGroup(side[n]) /\ side[n] \in Parts
      BY <1>1, <1>2, <1>3, <2>3, QuadIs
    <3>3. PieceHex[side[n][1]] \in Hextets
      BY <3>2, GroupIs
    <3>4. \A k \in 1..n : PieceHex[side[k][1]] \in Hextets
      BY <1>1, <1>5, <3>3
    <3> QED
      BY <1>1, <3>1, <3>4
  <2> QED
    BY <2>2, <2>3
<1> QED
  BY <1>1, <1>4, <1>6, Zenon

LEMMA NothingEmpty ==
  /\ IP!Empty \in Lists(Atoms) /\ ~IP!IsGroup(IP!Empty) /\ ~IP!StrictQuad(IP!Empty)
  /\ IP!RangeWords(<< >>) = << >>
<1>1. IP!Empty \in Lists(Atoms)
  BY NoChunk DEF IP!Empty
<1>2. Len(IP!Empty) = 1 /\ IP!Empty[1] = << >>
  BY DEF IP!Empty
<1>3. << >> \in Chunks
  BY DEF Chunks
<1>4. PieceHex[<< >>] = NoNumber
  <2>1. PICK p \in Chunks : p = << >>
    BY <1>3
  <2> QED
    BY <2>1, PieceTypes
<1>5. ~IP!IsGroup(IP!Empty)
  BY <1>2, <1>4 DEF IP!IsGroup
<1>6. ~IP!StrictQuad(IP!Empty)
  BY <1>2 DEF IP!StrictQuad, IP!LenientQuad
<1>7. IP!RangeWords(<< >>) = << >>
  BY DEF IP!RangeWords, IP!EndsInQuad
<1> QED
  BY <1>1, <1>5, <1>6, <1>7

LEMMA WordsOfNothing == IP!RangeWords(<< >>) \in Seq(Hextets)
<1>1. << >> \in Seq(Hextets)
  OBVIOUS
<1> QED
  BY <1>1, NothingEmpty

LEMMA FunctionOf ==
  ASSUME NEW S, NEW s, s \in Seq(S), NEW n, n \in Nat, Len(s) = n
  PROVE  s \in [1..n -> S]
OBVIOUS

LEMMA SideIs ==
  ASSUME NEW s, s \in Seq(Parts),
         IP!Trimmed(s) = << >> \/ IP!IsRange(IP!Trimmed(s))
  PROVE  /\ IP!RangeWords(IP!Trimmed(s)) \in Seq(Hextets)
         /\ \A k \in 1..Len(s) : s[k] \in Lists(Atoms)
         /\ Len(s) > 1 => \A k \in 1..Len(s) : s[k] # IP!Empty
<1>1. CASE s = <<IP!Empty>>
  <2>1. IP!Trimmed(s) = << >>
    BY <1>1 DEF IP!Trimmed
  <2>2. IP!RangeWords(IP!Trimmed(s)) \in Seq(Hextets)
    BY <2>1, WordsOfNothing
  <2>3. Len(s) = 1 /\ s[1] = IP!Empty
    BY <1>1
  <2>4. \A k \in 1..Len(s) : s[k] \in Lists(Atoms)
    BY <2>3, NothingEmpty
  <2> QED
    BY <2>2, <2>3, <2>4
<1>2. CASE s # <<IP!Empty>>
  <2>1. IP!Trimmed(s) = s
    BY <1>2 DEF IP!Trimmed
  <2>2. CASE s = << >>
    <3>1. IP!RangeWords(IP!Trimmed(s)) \in Seq(Hextets)
      BY <2>1, <2>2, WordsOfNothing
    <3>2. Len(s) = 0
      BY <2>2
    <3> QED
      BY <3>1, <3>2
  <2>3. CASE s # << >>
    <3>1. IP!IsRange(s)
      BY <2>1, <2>3
    <3>2. /\ IP!RangeWords(s) \in Seq(Hextets)
          /\ \A k \in 1..Len(s) : s[k] \in Lists(Atoms) /\ s[k] # IP!Empty
      BY <3>1, RangeIs
    <3> QED
      BY <2>1, <3>2
  <2> QED
    BY <2>2, <2>3
<1> QED
  BY <1>1, <1>2

LEMMA FilledUp ==
  ASSUME NEW h, h \in Seq(Hextets), NEW t, t \in Seq(Hextets), Len(h) + Len(t) <= 8
  PROVE  h \o IP!Zeros(8 - (Len(h) + Len(t))) \o t \in [1..8 -> Hextets]
<1>1. PICK m \in Nat, n \in Nat : m = Len(h) /\ n = Len(t)
  OBVIOUS
<1>0. m + n <= 8
  BY <1>1
<1>2. PICK k \in Nat : k = 8 - (m + n)
  <2>1. 8 - (m + n) \in Nat
    BY <1>0
  <2> QED
    BY <2>1
<1>3. 0 \in Hextets
  <2>1. MaxHextet = 65535
    BY DEF MaxHextet
  <2>2. MaxHextet \in Nat
    BY <2>1, SMT
  <2> QED
    BY <2>2, SMT DEF Hextets
<1>4. PICK z : z = IP!Zeros(k)
  OBVIOUS
<1>5. z = [i \in 1..k |-> 0]
  BY <1>4 DEF IP!Zeros
<1>6. z \in Seq(Hextets) /\ Len(z) = k
  <2>1. z \in [1..k -> Hextets]
    BY <1>3, <1>5
  <2> QED
    BY <1>2, <2>1
<1>7. PICK a : a = h \o z
  OBVIOUS
<1>8. a \in Seq(Hextets) /\ Len(a) = m + k
  BY <1>1, <1>6, <1>7, ConcatProperties
<1>9. PICK b : b = a \o t
  OBVIOUS
<1>10. b \in Seq(Hextets) /\ Len(b) = (m + k) + n
  BY <1>1, <1>8, <1>9, ConcatProperties
<1>11. (m + k) + n = 8
  BY <1>2
<1>12. b \in [1..8 -> Hextets]
  <2>1. b \in Seq(Hextets) /\ Len(b) = 8 /\ 8 \in Nat
    BY <1>10, <1>11
  <2> QED
    BY <2>1, FunctionOf
<1> QED
  BY <1>1, <1>2, <1>4, <1>7, <1>9, <1>12

(* A reading with the double colon at the part d. *)
LEMMA ReadAt ==
  ASSUME NEW t, t \in Seq(Parts), NEW d, d \in 2..(Len(t) - 1), IP!ReadingsAt(t, d) # {}
  PROVE  /\ IP!ReadingsAt(t, d) \subseteq [1..8 -> Hextets]
         /\ \A a, b \in IP!ReadingsAt(t, d) : a = b
         /\ \A k \in 1..Len(t) : t[k] \in Lists(Atoms)
         /\ t[d] = IP!Empty
         /\ \A e \in (d + 1)..(Len(t) - 1) : t[e] # IP!Empty
<1> DEFINE h == SubSeq(t, 1, d - 1)
           s == SubSeq(t, d + 1, Len(t))
           hw == IP!RangeWords(IP!Trimmed(h))
           sw == IP!RangeWords(IP!Trimmed(s))
<1>1. PICK n \in Nat : n = Len(t) /\ d \in 2..(n - 1)
  OBVIOUS
<1>2. /\ h \in Seq(Parts) /\ Len(h) = d - 1
      /\ \A k \in 1..(d - 1) : h[k] = t[k]
  <2>1. d - 1 \in Int /\ 1 \in Int /\ d - 1 <= n /\ (d - 1) - 1 + 1 = d - 1
    BY <1>1
  <2> QED
    BY <1>1, <2>1, SubSeqProperties
<1>3. /\ s \in Seq(Parts) /\ Len(s) = n - d
      /\ \A k \in 1..(n - d) : s[k] = t[d + k]
  <2>1. PICK m \in Int : m = d + 1 /\ 1 <= m /\ m <= n /\ n - m + 1 = n - d
    BY <1>1
  <2>2. n \in Int
    OBVIOUS
  <2>3. s = SubSeq(t, m, n)
    BY <1>1, <2>1
  <2> HIDE DEF s, h, hw, sw
  <2>4. \A k \in m..n : t[k] \in Parts
    BY <1>1, <2>1
  <2>5. /\ s \in Seq(Parts) /\ Len(s) = IF m <= n THEN n - m + 1 ELSE 0
        /\ \A k \in 1..(n - m + 1) : s[k] = t[m + k - 1]
    BY <2>2, <2>3, <2>4, SubSeqProperties
  <2>6. \A k \in 1..(n - d) : m + k - 1 = d + k
    BY <1>1, <2>1
  <2> QED
    BY <2>1, <2>5, <2>6
<1>4. /\ t[d] = IP!Empty
      /\ IP!Trimmed(h) = << >> \/ IP!IsRange(IP!Trimmed(h))
      /\ IP!Trimmed(s) = << >> \/ IP!IsRange(IP!Trimmed(s))
      /\ Len(hw) + Len(sw) <= 8
      /\ IP!ReadingsAt(t, d) = {hw \o IP!Zeros(8 - (Len(hw) + Len(sw))) \o sw}
  BY DEF IP!ReadingsAt
<1> HIDE DEF h, s
<1>5. /\ hw \in Seq(Hextets)
      /\ \A k \in 1..Len(h) : h[k] \in Lists(Atoms)
  BY <1>2, <1>4, SideIs
<1>6. /\ sw \in Seq(Hextets)
      /\ \A k \in 1..Len(s) : s[k] \in Lists(Atoms)
      /\ Len(s) > 1 => \A k \in 1..Len(s) : s[k] # IP!Empty
  BY <1>3, <1>4, SideIs
<1> HIDE DEF hw, sw
<1>7. hw \o IP!Zeros(8 - (Len(hw) + Len(sw))) \o sw \in [1..8 -> Hextets]
  BY <1>4, <1>5, <1>6, FilledUp
<1>8. ASSUME NEW k \in 1..n PROVE t[k] \in Lists(Atoms)
  <2>1. CASE k < d
    <3>1. k \in 1..(d - 1)
      BY <1>1, <2>1
    <3> QED
      BY <1>2, <1>5, <3>1
  <2>2. CASE k = d
    BY <1>4, <2>2, NothingEmpty
  <2>3. CASE k > d
    <3>1. k - d \in 1..(n - d) /\ d + (k - d) = k
      BY <1>1, <2>3
    <3> QED
      BY <1>3, <1>6, <3>1
  <2> QED
    BY <1>1, <2>1, <2>2, <2>3
<1>9. ASSUME NEW e \in (d + 1)..(n - 1) PROVE t[e] # IP!Empty
  <2>1. e - d \in 1..(n - d) /\ d + (e - d) = e /\ n - d > 1
    BY <1>1
  <2> QED
    BY <1>3, <1>6, <2>1
<1>10. IP!ReadingsAt(t, d) \subseteq [1..8 -> Hextets]
  BY <1>4, <1>7
<1>11. \A a, b \in IP!ReadingsAt(t, d) : a = b
  BY <1>4
<1> QED
  BY <1>1, <1>4, <1>8, <1>9, <1>10, <1>11

(* What a text without a double colon can be read as. *)
LEMMA ReadWhole ==
  ASSUME NEW t, t \in Seq(Parts), IP!IsRange(t), Len(IP!RangeWords(t)) = 8
  PROVE  /\ IP!RangeWords(t) \in [1..8 -> Hextets]
         /\ \A k \in 1..Len(t) : t[k] \in Lists(Atoms)
         /\ \A d \in 2..(Len(t) - 1) : IP!ReadingsAt(t, d) = {}
<1>1. /\ IP!RangeWords(t) \in Seq(Hextets)
      /\ \A k \in 1..Len(t) : t[k] \in Lists(Atoms) /\ t[k] # IP!Empty
  BY RangeIs
<1>2. IP!RangeWords(t) \in [1..8 -> Hextets]
  <2>1. PICK w : w = IP!RangeWords(t)
    OBVIOUS
  <2>2. w \in Seq(Hextets) /\ Len(w) = 8
    BY <1>1, <2>1
  <2>3. w \in [1..8 -> Hextets]
    <3>1. 8 \in Nat
      OBVIOUS
    <3> QED
      BY <2>2, <3>1, FunctionOf
  <2> QED
    BY <2>1, <2>3
<1>3. ASSUME NEW d \in 2..(Len(t) - 1) PROVE IP!ReadingsAt(t, d) = {}
  <2>1. d \in 1..Len(t)
    OBVIOUS
  <2>2. t[d] # IP!Empty
    BY <1>1, <2>1
  <2> QED
    BY <2>2, ReadAt
<1> QED
  BY <1>1, <1>2, <1>3

LEMMA ReadOnce ==
  ASSUME NEW t, t \in Seq(Parts)
  PROVE  /\ IP!Readings(t) \subseteq [1..8 -> Hextets]
         /\ \A a, b \in IP!Readings(t) : a = b
         /\ IP!Readings(t) # {} => \A k \in 1..Len(t) : t[k] \in Lists(Atoms)
<1> DEFINE Whole == IF IP!IsRange(t) /\ Len(IP!RangeWords(t)) = 8
                    THEN {IP!RangeWords(t)} ELSE {}
           D == 2..(Len(t) - 1)
           At(d) == IP!ReadingsAt(t, d)
<1>1. IP!Readings(t) = Whole \cup UNION { At(d) : d \in D }
  BY DEF IP!Readings
<1>2. ASSUME NEW a \in Whole
      PROVE  /\ a \in [1..8 -> Hextets] /\ Whole = {a}
             /\ \A k \in 1..Len(t) : t[k] \in Lists(Atoms)
             /\ \A d \in D : At(d) = {}
  <2>1. IP!IsRange(t) /\ Len(IP!RangeWords(t)) = 8 /\ a = IP!RangeWords(t)
    BY <1>2
  <2> QED
    BY <2>1, ReadWhole
<1>3. ASSUME NEW d \in D, NEW a \in At(d)
      PROVE  /\ a \in [1..8 -> Hextets] /\ \A b \in At(d) : a = b
             /\ \A k \in 1..Len(t) : t[k] \in Lists(Atoms)
             /\ t[d] = IP!Empty
             /\ \A e \in D : e > d => t[e] # IP!Empty
  <2>1. IP!ReadingsAt(t, d) # {}
    BY <1>3
  <2>2. /\ At(d) \subseteq [1..8 -> Hextets]
        /\ \A x, b \in At(d) : x = b
        /\ \A k \in 1..Len(t) : t[k] \in Lists(Atoms)
        /\ t[d] = IP!Empty
        /\ \A e \in (d + 1)..(Len(t) - 1) : t[e] # IP!Empty
    BY <2>1, ReadAt
  <2>3. \A e \in D : e > d => e \in (d + 1)..(Len(t) - 1)
    OBVIOUS
  <2> QED
    BY <1>3, <2>2, <2>3
<1>4. D \subseteq Int
  OBVIOUS
<1> HIDE DEF Whole, D, At
<1>5. ASSUME NEW d \in D, NEW e \in D, NEW a \in At(d), NEW b \in At(e) PROVE a = b
  <2>1. ~(e > d) /\ ~(d > e)
    BY <1>3, <1>5
  <2>2. d = e
    BY <1>4, <2>1
  <2> QED
    BY <1>3, <1>5, <2>2
<1>6. ASSUME NEW a \in IP!Readings(t), NEW b \in IP!Readings(t) PROVE a = b
  <2>1. a \in Whole \/ \E d \in D : a \in At(d)
    BY <1>1
  <2>2. b \in Whole \/ \E d \in D : b \in At(d)
    BY <1>1
  <2>3. CASE Whole # {}
    <3>1. PICK x \in Whole : TRUE
      BY <2>3
    <3>2. Whole = {x} /\ \A d \in D : At(d) = {}
      BY <1>2, <3>1
    <3> QED
      BY <2>1, <2>2, <3>2
  <2>4. CASE Whole = {}
    BY <1>5, <2>1, <2>2, <2>4
  <2> QED
    BY <2>3, <2>4
<1>7. ASSUME NEW a \in IP!Readings(t)
      PROVE  /\ a \in [1..8 -> Hextets]
             /\ \A k \in 1..Len(t) : t[k] \in Lists(Atoms)
  <2>1. a \in Whole \/ \E d \in D : a \in At(d)
    BY <1>1
  <2>2. CASE a \in Whole
    BY <1>2, <2>2
  <2>3. CASE \E d \in D : a \in At(d)
    BY <1>3, <2>3
  <2> QED
    BY <2>1, <2>2, <2>3
<1> QED
  BY <1>6, <1>7

(* The parts of an IPv6 text, each cut at its dots. *)
LEMMA HalvesOf ==
  ASSUME NEW host, host \in Chunks
  PROVE  \E parts \in Lists(Tokens), halves \in Seq(Parts) :
           /\ parts = Cut(host, ":") /\ Len(halves) = Len(parts)
           /\ \A k \in 1..Len(parts) : halves[k] = Cut(parts[k], ".")
           /\ V6FromStr(host) = IP!Readings(halves)
<1>0. host \in Seq(Tokens)
  BY DEF Chunks, Tokens
<1>1. PICK parts \in Lists(Tokens) : parts = Cut(host, ":")
  BY <1>0, CutTypes
<1>2. PICK n \in Nat : n = Len(parts) /\ \A k \in 1..n : parts[k] \in Seq(Tokens)
  BY ChunkOf
<1>3. DOMAIN parts = 1..n
  <2>1. PICK U : U = Seq(Tokens)
    OBVIOUS
  <2>2. parts \in Seq(U)
    BY <2>1 DEF Lists
  <2> QED
    BY <1>2, <2>2
<1>4. PICK halves : halves = [k \in 1..n |-> Cut(parts[k], ".")]
  OBVIOUS
<1>5. ASSUME NEW k \in 1..n PROVE Cut(parts[k], ".") \in Parts
  <2>1. PICK u \in Seq(Tokens) : u = parts[k]
    BY <1>2
  <2>2. Cut(u, ".") \in Lists(Tokens) /\ Cut(u, ".") # << >>
    BY CutTypes
  <2> QED
    BY <2>1, <2>2 DEF Parts
<1>6. halves \in Seq(Parts) /\ Len(halves) = n /\ \A k \in 1..n : halves[k] = Cut(parts[k], ".")
  BY <1>4, <1>5
<1>7. V6FromStr(host) = IP!Readings([k \in DOMAIN parts |-> Cut(parts[k], ".")])
  BY <1>1, Zenon DEF V6FromStr
<1>8. V6FromStr(host) = IP!Readings(halves)
  BY <1>3, <1>4, <1>7, Zenon
<1> QED
  BY <1>1, <1>2, <1>6, <1>8

LEMMA V6Result ==
  ASSUME NEW host, host \in Chunks
  PROVE  /\ V6FromStr(host) \subseteq [1..8 -> Hextets]
         /\ \A a, b \in V6FromStr(host) : a = b
<1>1. PICK halves \in Seq(Parts) : V6FromStr(host) = IP!Readings(halves)
  BY HalvesOf
<1> QED
  BY <1>1, ReadOnce

(* No bracket lies in the text of an IPv6 address. *)
LEMMA V6Tokens ==
  ASSUME NEW host, host \in Chunks, V6FromStr(host) # {}
  PROVE  host \in Seq(Atoms \cup {".", ":"})
<1>1. PICK parts \in Lists(Tokens), halves \in Seq(Parts) :
        /\ parts = Cut(host, ":") /\ Len(halves) = Len(parts)
        /\ \A k \in 1..Len(parts) : halves[k] = Cut(parts[k], ".")
        /\ V6FromStr(host) = IP!Readings(halves)
  BY HalvesOf
<1>2. \A k \in 1..Len(halves) : halves[k] \in Lists(Atoms)
  BY <1>1, ReadOnce
<1>3. PICK B : B = Atoms \cup {"."}
  OBVIOUS
<1>4. ASSUME NEW k \in 1..Len(parts) PROVE parts[k] \in Seq(B)
  <2>1. parts[k] \in Seq(Tokens)
    BY ChunkOf
  <2>2. Cut(parts[k], ".") \in Lists(Atoms)
    BY <1>1, <1>2
  <2>3. PICK u \in Seq(Tokens) : u = parts[k]
    BY <2>1
  <2>4. u \in Seq(Atoms \cup {"."})
    BY <2>2, <2>3, CutTokens
  <2> QED
    BY <1>3, <2>3, <2>4
<1>5. parts \in Lists(B)
  BY <1>4, ListOf
<1>6. host \in Seq(Tokens)
  BY DEF Chunks, Tokens
<1>7. host \in Seq(B \cup {":"})
  BY <1>1, <1>5, <1>6, CutTokens
<1>8. B \cup {":"} = Atoms \cup {".", ":"}
  BY <1>3
<1> QED
  BY <1>7, <1>8

-----------------------------------------------------------------------------
(* The ways of dividing a text into a host and a rest.                     *)

LEMMA Sliced ==
  ASSUME NEW t, t \in Chunks, NEW i, i \in 0..Len(t)
  PROVE  /\ SubSeq(t, 1, i) \in Chunks /\ Len(SubSeq(t, 1, i)) = i
         /\ \A k \in 1..i : SubSeq(t, 1, i)[k] = t[k]
         /\ SubSeq(t, i + 1, Len(t)) \in Chunks
         /\ Len(SubSeq(t, i + 1, Len(t))) = Len(t) - i
         /\ \A k \in 1..(Len(t) - i) : SubSeq(t, i + 1, Len(t))[k] = t[i + k]
<1>1. t \in Seq(Tokens)
  BY DEF Chunks, Tokens
<1>2. PICK n \in Nat : n = Len(t) /\ i \in 0..n
  BY <1>1
<1>3. PICK h : h = SubSeq(t, 1, i)
  OBVIOUS
<1>4. h \in Seq(Tokens) /\ Len(h) = i /\ \A k \in 1..i : h[k] = t[k]
  <2>1. 1 \in Int /\ i \in Int /\ i - 1 + 1 = i /\ i <= n
    BY <1>2
  <2> QED
    BY <1>1, <1>2, <1>3, <2>1, SubSeqProperties
<1>5. PICK r : r = SubSeq(t, i + 1, n)
  OBVIOUS
<1>6. r \in Seq(Tokens) /\ Len(r) = n - i /\ \A k \in 1..(n - i) : r[k] = t[i + k]
  <2>1. i + 1 \in Int /\ n \in Int /\ n - (i + 1) + 1 = n - i /\ 1 <= i + 1
    BY <1>2
  <2>2. \A k \in 1..(n - i) : (i + 1) + k - 1 = i + k
    BY <1>2
  <2> QED
    BY <1>1, <1>2, <1>5, <2>1, <2>2, SubSeqProperties
<1>7. h \in Chunks /\ r \in Chunks
  BY <1>4, <1>6 DEF Chunks, Tokens
<1> QED
  BY <1>2, <1>3, <1>4, <1>5, <1>6, <1>7

LEMMA RestTail ==
  ASSUME NEW t, t \in Chunks, NEW i, i \in 0..Len(t), i < Len(t)
  PROVE  /\ Tail(SubSeq(t, i + 1, Len(t))) = SubSeq(t, (i + 1) + 1, Len(t))
         /\ SubSeq(t, i + 1, Len(t)) # << >>
         /\ SubSeq(t, i + 1, Len(t))[1] = t[i + 1]
<1>1. PICK n \in Nat : n = Len(t) /\ i \in 0..n /\ i + 1 \in 0..n
  BY DEF Chunks
<1>2. PICK r : r = SubSeq(t, i + 1, Len(t))
  OBVIOUS
<1>11. r \in Chunks /\ Len(r) = n - i /\ \A k \in 1..(n - i) : r[k] = t[i + k]
  BY <1>1, <1>2, Sliced, ZenonT(60)
<1>0. PICK j \in 0..Len(t) : j = i + 1
  BY <1>1
<1>3. PICK s : s = SubSeq(t, j + 1, Len(t))
  OBVIOUS
<1>12. s \in Chunks /\ Len(s) = n - j /\ \A k \in 1..(n - j) : s[k] = t[j + k]
  BY <1>1, <1>3, Sliced, ZenonT(60)
<1>4. r \in Seq(Tokens) /\ s \in Seq(Tokens)
  BY <1>11, <1>12 DEF Chunks, Tokens
<1>5. r # << >> /\ r[1] = t[i + 1]
  <2>1. n - i \in Nat \ {0} /\ 1 \in 1..(n - i)
    BY <1>1
  <2> QED
    BY <1>11, <2>1
<1>6. PICK q : q = Tail(r)
  OBVIOUS
<1>7. q \in Seq(Tokens) /\ Len(q) = (n - i) - 1 /\ \A k \in 1..Len(q) : q[k] = r[k + 1]
  BY <1>4, <1>5, <1>6, <1>11, HeadTailProperties
<1>8. Len(q) = Len(s) /\ Len(s) = (n - i) - 1
  BY <1>0, <1>1, <1>7, <1>12
<1>9. \A k \in 1..Len(s) : q[k] = s[k]
  <2> SUFFICES ASSUME NEW k \in 1..Len(s) PROVE q[k] = s[k]
    OBVIOUS
  <2>1. k \in 1..Len(q) /\ k + 1 \in 1..(n - i) /\ k \in 1..(n - j) /\ i + (k + 1) = j + k
    BY <1>0, <1>1, <1>8, <1>12
  <2> QED
    BY <1>7, <1>11, <1>12, <2>1
<1>10. q = s
  BY <1>4, <1>7, <1>8, <1>9, SeqEqual
<1> QED
  BY <1>0, <1>2, <1>3, <1>5, <1>6, <1>10

LEMMA PortIs ==
  ASSUME NEW c, c \in Chunks
  PROVE  /\ PortOf(c) = { p \in {LeadingNumber(c)} : p # NoNumber /\ p \in 0..MaxPort }
         /\ PortOf(c) \subseteq 0..MaxPort
         /\ \A p, q \in PortOf(c) : p = q
         /\ c = << >> => PortOf(c) = {}
<1>1. PICK n : n = LeadingNumber(c)
  OBVIOUS
<1>2. n \in Nat \cup {NoNumber} /\ (c = << >> => n = NoNumber)
  BY <1>1, AtomsAssumption DEF LeadingNumber
<1>3. n # NoNumber => (n <= MaxPort <=> n \in 0..MaxPort)
  <2>1. MaxPort \in Nat
    BY SMT DEF MaxPort
  <2> QED
    BY <1>2, <2>1
<1> HIDE DEF MaxPort
<1>4. PortOf(c) = { p \in {n} : p # NoNumber /\ p <= MaxPort }
  BY <1>1 DEF PortOf
<1>5. PortOf(c) = { p \in {n} : p # NoNumber /\ p \in 0..MaxPort }
  BY <1>3, <1>4
<1> QED
  BY <1>1, <1>2, <1>5

(* What the rest of a text says of the port, in the words of the parsers. *)
LEMMA PortsAre ==
  ASSUME NEW rest, rest \in Chunks
  PROVE  /\ PortsWritten("V4", rest) = IF rest = << >> THEN {0}
                                       ELSE IF rest[1] # ":" THEN {} ELSE PortOf(Tail(rest))
         /\ PortsWritten("V6", rest) = PortBehind(rest)
         /\ rest # << >> => Tail(rest) \in Chunks
<1>1. rest \in Seq(Tokens)
  BY DEF Chunks, Tokens
<1>2. rest # << >> => Tail(rest) \in Chunks
  BY <1>1, HeadTailProperties DEF Chunks, Tokens
<1>3. rest = <<":">> <=> rest # << >> /\ rest[1] = ":" /\ Tail(rest) = << >>
  <2>1. CASE rest = << >>
    BY <2>1
  <2>2. CASE rest # << >>
    <3>1. PICK q \in Seq(Tokens) : q = Tail(rest) /\ Len(q) = Len(rest) - 1
      BY <1>1, <2>2, HeadTailProperties
    <3>2. q = << >> <=> Len(q) = 0
      BY EmptySeq
    <3>3. Len(rest) = 1 /\ rest[1] = ":" <=> rest = <<":">>
      BY <1>1
    <3> QED
      BY <1>1, <2>2, <3>1, <3>2, <3>3
  <2> QED
    BY <2>1, <2>2
<1> DEFINE Written == { p \in {LeadingNumber(Tail(rest))} :
                          rest[1] = ":" /\ p # NoNumber /\ p \in 0..MaxPort }
<1>6. rest # << >> /\ rest[1] = ":" => Written = PortOf(Tail(rest))
  <2> SUFFICES ASSUME rest # << >>, rest[1] = ":" PROVE Written = PortOf(Tail(rest))
    OBVIOUS
  <2>1. PICK c \in Chunks : c = Tail(rest)
    BY <1>2
  <2>2. PortOf(c) = { p \in {LeadingNumber(c)} : p # NoNumber /\ p \in 0..MaxPort }
    BY PortIs
  <2> QED
    BY <2>1, <2>2
<1>7. rest[1] # ":" => Written = {}
  OBVIOUS
<1>8. \A family :
        PortsWritten(family, rest)
          = IF rest = << >> \/ (family = "V6" /\ rest = <<":">>) THEN {0} ELSE Written
  BY DEF PortsWritten
<1> HIDE DEF Written
<1>9. PortsWritten("V4", rest) = IF rest = << >> THEN {0}
                                 ELSE IF rest[1] # ":" THEN {} ELSE PortOf(Tail(rest))
  BY <1>6, <1>7, <1>8
<1>10. PortsWritten("V6", rest) = PortBehind(rest)
  BY <1>3, <1>6, <1>7, <1>8 DEF PortBehind
<1> QED
  BY <1>2, <1>9, <1>10

(* Does the rest of a text begin as a port does, or is there none? *)
Ends(rest) == rest = << >> \/ rest[1] = ":"

LEMMA RestEnds ==
  ASSUME NEW t, t \in Chunks, NEW i, i \in 0..Len(t)
  PROVE  /\ SubSeq(t, i + 1, Len(t)) = << >> <=> i = Len(t)
         /\ Ends(SubSeq(t, i + 1, Len(t))) <=> i = Len(t) \/ t[i + 1] = ":"
<1>1. PICK n \in Nat : n = Len(t) /\ i \in 0..n
  BY DEF Chunks
<1>2. PICK r : r = SubSeq(t, i + 1, Len(t))
  OBVIOUS
<1>3. r \in Chunks /\ Len(r) = n - i /\ \A k \in 1..(n - i) : r[k] = t[i + k]
  BY <1>1, <1>2, Sliced, ZenonT(60)
<1>4. r \in Seq(Tokens)
  BY <1>3 DEF Chunks, Tokens
<1>5. r = << >> <=> i = n
  <2>1. r = << >> <=> Len(r) = 0
    BY <1>4, EmptySeq
  <2> QED
    BY <1>1, <1>3, <2>1
<1>6. i < n => r[1] = t[i + 1]
  BY <1>1, <1>3
<1>7. Ends(r) <=> i = n \/ t[i + 1] = ":"
  BY <1>1, <1>5, <1>6 DEF Ends
<1> QED
  BY <1>1, <1>2, <1>5, <1>7

LEMMA V4Host ==
  ASSUME NEW t, t \in Chunks, NEW i, i \in 0..Len(t)
  PROVE  /\ i = Find(t, ":") - 1 =>
              HostsWritten("V4", SubSeq(t, 1, i)) = V4FromStr(Before(t, Find(t, ":")))
         /\ i = Find(t, ":") - 1 => Ends(SubSeq(t, i + 1, Len(t)))
         /\ HostsWritten("V4", SubSeq(t, 1, i)) # {} /\ Ends(SubSeq(t, i + 1, Len(t)))
              => i = Find(t, ":") - 1
<1>0. t \in Seq(Tokens)
  BY DEF Chunks, Tokens
<1>1. PICK n \in Nat : n = Len(t) /\ i \in 0..n
  BY <1>0
<1>2. PICK colon : colon = Find(t, ":")
  OBVIOUS
<1>3. /\ colon \in 1..(n + 1) /\ (colon <= n => t[colon] = ":")
      /\ \A j \in 1..(colon - 1) : t[j] # ":"
  BY <1>0, <1>1, <1>2, FindFinds
<1>4. PICK h : h = SubSeq(t, 1, i)
  OBVIOUS
<1>5. Len(h) = i /\ \A k \in 1..i : h[k] = t[k]
  BY <1>4, Sliced
<1>6. Contains(h, ":") <=> \E k \in 1..i : t[k] = ":"
  BY <1>5 DEF Contains
<1>7. HostsWritten("V4", h) = IF Contains(h, ":") THEN {} ELSE V4FromStr(h)
  BY DEF HostsWritten
<1>8. Ends(SubSeq(t, i + 1, Len(t))) <=> i = n \/ t[i + 1] = ":"
  BY <1>1, RestEnds
<1>9. ASSUME i = colon - 1
      PROVE  /\ HostsWritten("V4", h) = V4FromStr(Before(t, colon))
             /\ i = n \/ t[i + 1] = ":"
  <2>1. ~Contains(h, ":")
    BY <1>3, <1>6, <1>9
  <2>2. h = Before(t, colon)
    BY <1>4, <1>9 DEF Before
  <2>3. i = n \/ (colon <= n /\ i + 1 = colon)
    BY <1>1, <1>3, <1>9
  <2> QED
    BY <1>3, <1>7, <2>1, <2>2, <2>3
<1>10. ASSUME HostsWritten("V4", h) # {}, i = n \/ t[i + 1] = ":"
       PROVE  i = colon - 1
  <2>1. \A k \in 1..i : t[k] # ":"
    BY <1>6, <1>7, <1>10
  <2>2. i = n \/ i + 1 \in 1..n
    BY <1>1
  <2>3. ~(colon <= i)
    BY <1>1, <1>3, <2>1
  <2>4. ~(i + 1 < colon)
    <3> SUFFICES ASSUME i + 1 < colon PROVE FALSE
      OBVIOUS
    <3>1. i + 1 \in 1..(colon - 1) /\ i # n
      BY <1>1, <1>3
    <3> QED
      BY <1>3, <1>10, <3>1
  <2> QED
    BY <1>1, <1>3, <2>3, <2>4
<1> QED
  BY <1>2, <1>4, <1>8, <1>9, <1>10

(* The sockets of addresses and ports, and those that a division after i   *)
(* tokens gives.                                                           *)
Of(family, hosts, ports) == { Socket(family, a, p) : a \in hosts, p \in ports }

Said(family, t, i) ==
  Of(family, HostsWritten(family, SubSeq(t, 1, i)),
             PortsWritten(family, SubSeq(t, i + 1, Len(t))))

LEMMA V4FromStrOf ==
  ASSUME NEW t, NEW colon, colon = Find(t, ":")
  PROVE  SocketV4FromStr(t)
           = Of("V4", V4FromStr(Before(t, colon)),
                IF colon > Len(t) THEN {0} ELSE PortOf(After(t, colon)))
BY DEF SocketV4FromStr, Of

LEMMA V4Said ==
  ASSUME NEW t, t \in Chunks, NEW i, i \in 0..Len(t)
  PROVE  Said("V4", t, i) = IF i = Find(t, ":") - 1 THEN SocketV4FromStr(t) ELSE {}
<1>0. t \in Seq(Tokens)
  BY DEF Chunks, Tokens
<1>1. PICK n \in Nat : n = Len(t) /\ i \in 0..n
  BY <1>0
<1>2. PICK colon \in 1..(n + 1) : colon = Find(t, ":")
  BY <1>0, <1>1, FindFinds
<1>3. PICK h, r : h = SubSeq(t, 1, i) /\ r = SubSeq(t, i + 1, Len(t))
  OBVIOUS
<1>4. r \in Chunks
  BY <1>3, Sliced
<1>5. PortsWritten("V4", r) = IF r = << >> THEN {0}
                              ELSE IF r[1] # ":" THEN {} ELSE PortOf(Tail(r))
  BY <1>4, PortsAre
<1>6. Said("V4", t, i)
        = Of("V4", HostsWritten("V4", h), PortsWritten("V4", r))
  BY <1>3 DEF Said
<1>7. CASE i # colon - 1
  <2>1. HostsWritten("V4", h) = {} \/ ~Ends(r)
    BY <1>2, <1>3, <1>7, V4Host
  <2>2. ~Ends(r) => PortsWritten("V4", r) = {}
    BY <1>5 DEF Ends
  <2>3. Said("V4", t, i) = {}
    BY <1>6, <2>1, <2>2 DEF Of
  <2> QED
    BY <1>2, <1>7, <2>3
<1>8. CASE i = colon - 1
  <2>1. HostsWritten("V4", h) = V4FromStr(Before(t, colon))
    BY <1>2, <1>3, <1>8, V4Host
  <2>2. PortsWritten("V4", r) = IF colon > Len(t) THEN {0} ELSE PortOf(After(t, colon))
    <3>1. CASE colon > n
      <4>1. i = Len(t)
        BY <1>1, <1>2, <1>8, <3>1
      <4>2. r = << >>
        BY <1>3, <4>1, RestEnds
      <4> QED
        BY <1>1, <1>5, <3>1, <4>2
    <3>2. CASE ~(colon > n)
      <4>1. i < Len(t) /\ i + 1 = colon
        BY <1>1, <1>2, <1>8, <3>2
      <4>2. /\ Tail(r) = SubSeq(t, (i + 1) + 1, Len(t)) /\ r # << >> /\ r[1] = t[i + 1]
        BY <1>3, <4>1, RestTail
      <4>3. Tail(r) = After(t, colon)
        BY <4>1, <4>2 DEF After
      <4>4. t[colon] = ":"
        BY <1>0, <1>1, <1>2, <3>2, FindFinds
      <4> QED
        BY <1>1, <1>5, <3>2, <4>1, <4>2, <4>3, <4>4
    <3> QED
      BY <3>1, <3>2
  <2>4. SocketV4FromStr(t)
          = Of("V4", HostsWritten("V4", h), PortsWritten("V4", r))
    BY <1>2, <2>1, <2>2, V4FromStrOf
  <2> QED
    BY <1>2, <1>6, <1>8, <2>4, Zenon
<1> QED
  BY <1>7, <1>8

LEMMA Inside ==
  ASSUME NEW h, h \in Chunks, NEW i, i \in Nat, Len(h) = i
  PROVE  /\ SubSeq(h, 2, i - 1) \in Chunks
         /\ i >= 2 => /\ Len(SubSeq(h, 2, i - 1)) = i - 2
                      /\ \A k \in 1..(i - 2) : SubSeq(h, 2, i - 1)[k] = h[k + 1]
         /\ h = <<"[">> \o SubSeq(h, 2, i - 1) \o <<"]">>
              <=> i >= 2 /\ h[1] = "[" /\ h[i] = "]"
<1>0. h \in Seq(Tokens)
  BY DEF Chunks, Tokens
<1>1. PICK s : s = SubSeq(h, 2, i - 1)
  OBVIOUS
<1>2. \A k \in 2..(i - 1) : h[k] \in Tokens
  BY <1>0
<1>3. /\ s \in Seq(Tokens)
      /\ Len(s) = IF 2 <= i - 1 THEN (i - 1) - 2 + 1 ELSE 0
      /\ \A k \in 1..((i - 1) - 2 + 1) : s[k] = h[2 + k - 1]
  <2>1. 2 \in Int /\ i - 1 \in Int
    OBVIOUS
  <2> QED
    BY <1>1, <1>2, <2>1, SubSeqProperties
<1>4. s \in Chunks
  BY <1>3 DEF Chunks, Tokens
<1>5. i >= 2 => Len(s) = i - 2 /\ \A k \in 1..(i - 2) : s[k] = h[k + 1]
  <2>1. (i - 1) - 2 + 1 = i - 2 /\ \A k \in 1..(i - 2) : 2 + k - 1 = k + 1
    OBVIOUS
  <2>2. i >= 2 => Len(s) = i - 2
    BY <1>3
  <2> QED
    BY <1>3, <2>1, <2>2
<1>6. PICK m \in Nat : m = Len(s)
  BY <1>3
<1>7. PICK b : b = <<"[">> \o s \o <<"]">>
  OBVIOUS
<1>8. /\ b \in Seq(Tokens) /\ Len(b) = m + 2 /\ b[1] = "[" /\ b[m + 2] = "]"
      /\ \A k \in 1..m : b[k + 1] = s[k]
  <2>1. PICK a : a = <<"[">> \o s
    OBVIOUS
  <2>2. <<"[">> \in Seq(Tokens) /\ <<"]">> \in Seq(Tokens)
    BY DEF Tokens, Separators
  <2>3. /\ a \in Seq(Tokens) /\ Len(a) = m + 1 /\ a[1] = "["
        /\ \A k \in 1..m : a[k + 1] = s[k]
    BY <1>3, <1>6, <2>1, <2>2
  <2>4. b = a \o <<"]">>
    BY <1>7, <2>1
  <2>5. /\ b \in Seq(Tokens) /\ Len(b) = m + 2 /\ b[m + 2] = "]"
        /\ \A k \in 1..(m + 1) : b[k] = a[k]
    BY <2>2, <2>3, <2>4
  <2> QED
    BY <2>3, <2>5
<1>9. ASSUME h = b PROVE i >= 2 /\ h[1] = "[" /\ h[i] = "]"
  <2>1. i = m + 2
    BY <1>8, <1>9
  <2> QED
    BY <1>8, <1>9, <2>1
<1>10. ASSUME i >= 2, h[1] = "[", h[i] = "]" PROVE h = b
  <2>1. Len(b) = Len(h) /\ m = i - 2 /\ Len(h) = i
    BY <1>5, <1>6, <1>8, <1>10
  <2>2. ASSUME NEW k \in 1..i PROVE b[k] = h[k]
    <3>1. CASE k = 1
      BY <1>8, <1>10, <3>1
    <3>2. CASE k = i
      <4>1. m + 2 = i
        BY <1>10, <2>1
      <4> QED
        BY <1>8, <1>10, <3>2, <4>1
    <3>3. CASE k # 1 /\ k # i
      <4>1. PICK j \in 1..m : j = k - 1 /\ j + 1 = k /\ j \in 1..(i - 2)
        BY <1>10, <2>1, <3>3
      <4>2. b[j + 1] = s[j] /\ s[j] = h[j + 1]
        BY <1>5, <1>8, <1>10, <4>1
      <4> QED
        BY <4>1, <4>2
    <3> QED
      BY <3>1, <3>2, <3>3
  <2> QED
    BY <1>0, <1>8, <2>1, <2>2, SeqEqual
<1> QED
  BY <1>1, <1>4, <1>5, <1>7, <1>9, <1>10

(* Does a text begin with brackets around something? *)
Bracketed(t) == t # << >> /\ t[1] = "[" /\ Find(t, "]") <= Len(t)

LEMMA V6Host ==
  ASSUME NEW t, t \in Chunks, NEW i, i \in 0..Len(t)
  PROVE  /\ Bracketed(t) /\ i = Find(t, "]") =>
              HostsWritten("V6", SubSeq(t, 1, i))
                = V6FromStr(SubSeq(t, 2, Find(t, "]") - 1))
         /\ HostsWritten("V6", SubSeq(t, 1, i)) # {} => Bracketed(t) /\ i = Find(t, "]")
<1>0. t \in Seq(Tokens)
  BY DEF Chunks, Tokens
<1>1. PICK n \in Nat : n = Len(t) /\ i \in 0..n
  BY <1>0
<1>2. PICK close : close = Find(t, "]")
  OBVIOUS
<1>3. /\ close \in 1..(n + 1) /\ (close <= n => t[close] = "]")
  BY <1>0, <1>1, <1>2, FindFinds
<1>4. PICK h : h = SubSeq(t, 1, i)
  OBVIOUS
<1>5. h \in Chunks /\ Len(h) = i /\ i \in Nat /\ \A k \in 1..i : h[k] = t[k]
  BY <1>1, <1>4, Sliced
<1>6. PICK s : s = SubSeq(h, 2, i - 1)
  OBVIOUS
<1>7. /\ s \in Chunks
      /\ i >= 2 => Len(s) = i - 2 /\ \A k \in 1..(i - 2) : s[k] = h[k + 1]
      /\ h = <<"[">> \o s \o <<"]">> <=> i >= 2 /\ h[1] = "[" /\ h[i] = "]"
  BY <1>5, <1>6, Inside
<1>8. HostsWritten("V6", h) = IF h = <<"[">> \o s \o <<"]">> THEN V6FromStr(s) ELSE {}
  BY <1>5, <1>6 DEF HostsWritten
<1>9. ASSUME Bracketed(t), i = close
      PROVE  HostsWritten("V6", h) = V6FromStr(SubSeq(t, 2, close - 1))
  <2>1. close <= n /\ t[1] = "[" /\ t[close] = "]"
    BY <1>1, <1>2, <1>3, <1>9 DEF Bracketed
  <2>2. i >= 2 /\ i \in 1..n
    BY <1>3, <1>9, <2>1
  <2>3. h[1] = "[" /\ h[i] = "]"
    BY <1>5, <1>9, <2>1, <2>2
  <2>4. s = SubSeq(t, 2, i - 1)
    <3>1. PICK r : r = SubSeq(t, 2, i - 1)
      OBVIOUS
    <3>2. \A k \in 2..(i - 1) : t[k] \in Tokens
      BY <1>0, <1>1
    <3>3. /\ r \in Seq(Tokens)
          /\ Len(r) = IF 2 <= i - 1 THEN (i - 1) - 2 + 1 ELSE 0
          /\ \A k \in 1..((i - 1) - 2 + 1) : r[k] = t[2 + k - 1]
      <4>1. 2 \in Int /\ i - 1 \in Int
        BY <1>1
      <4> QED
        BY <3>1, <3>2, <4>1, SubSeqProperties
    <3>4. Len(r) = i - 2 /\ Len(s) = i - 2
      BY <1>7, <2>2, <3>3
    <3>5. ASSUME NEW k \in 1..(i - 2) PROVE s[k] = r[k]
      <4>1. k \in 1..((i - 1) - 2 + 1) /\ 2 + k - 1 = k + 1 /\ k + 1 \in 1..i
        BY <1>1, <2>2
      <4> QED
        BY <1>5, <1>7, <2>2, <3>3, <4>1
    <3>6. s \in Seq(Tokens)
      BY <1>7 DEF Chunks, Tokens
    <3>7. s = r
      BY <3>3, <3>4, <3>5, <3>6, SeqEqual
    <3> QED
      BY <3>1, <3>7
  <2> QED
    BY <1>7, <1>8, <1>9, <2>2, <2>3, <2>4
<1>10. ASSUME HostsWritten("V6", h) # {} PROVE Bracketed(t) /\ i = close
  <2>1. i >= 2 /\ h[1] = "[" /\ h[i] = "]" /\ V6FromStr(s) # {}
    BY <1>7, <1>8, <1>10
  <2>2. i \in 1..n /\ t[1] = "[" /\ t[i] = "]"
    BY <1>1, <1>5, <2>1
  <2>3. s \in Seq(Atoms \cup {".", ":"})
    BY <1>7, <2>1, V6Tokens
  <2>4. "]" \notin Atoms \cup {".", ":"}
    BY AtomsAssumption DEF Separators
  <2>5. ASSUME NEW j \in 1..(i - 1) PROVE t[j] # "]"
    <3>1. CASE j = 1
      BY <2>2, <3>1
    <3>2. CASE j # 1
      <4>1. PICK k \in 1..(i - 2) : j = k + 1 /\ j \in 1..i
        BY <2>1, <2>2, <3>2
      <4>2. s[k] = t[j]
        BY <1>5, <1>7, <2>1, <4>1
      <4>3. k \in 1..Len(s)
        BY <1>7, <2>1, <4>1
      <4>4. s[k] \in Atoms \cup {".", ":"}
        BY <2>3, <4>3
      <4> QED
        BY <2>4, <4>2, <4>4
    <3> QED
      BY <3>1, <3>2
  <2>6. i \in 1..(Len(t) + 1) /\ i <= Len(t)
    BY <1>1, <2>2
  <2>7. Find(t, "]") = i
    <3>1. FirstPlace(t, "]", i)
      BY <2>2, <2>5, <2>6 DEF FirstPlace
    <3> QED
      BY <1>0, <3>1, FindIs
  <2>8. t # << >>
    BY <1>1, <2>2
  <2> QED
    BY <1>2, <2>2, <2>6, <2>7, <2>8 DEF Bracketed
<1> QED
  BY <1>2, <1>4, <1>9, <1>10

LEMMA V6FromStrOf ==
  ASSUME NEW t, t \in Chunks, NEW close, close = Find(t, "]")
  PROVE  SocketV6FromStr(t)
           = IF ~Bracketed(t) THEN {}
             ELSE Of("V6", V6FromStr(SubSeq(t, 2, close - 1)), PortBehind(After(t, close)))
<1> DEFINE Unbracketed == t = << >> \/ Head(t) # "[" \/ close > Len(t)
<1>1. t # << >> => Head(t) = t[1]
  OBVIOUS
<1>2. close \in Int /\ Len(t) \in Int
  <2>1. t \in Seq(Tokens)
    BY DEF Chunks, Tokens
  <2> QED
    BY <2>1, FindFinds
<1>3. Unbracketed <=> ~Bracketed(t)
  BY <1>1, <1>2 DEF Bracketed
<1>4. Unbracketed => SocketV6FromStr(t) = {}
  BY DEF SocketV6FromStr
<1>5. ~Unbracketed =>
        SocketV6FromStr(t)
          = Of("V6", V6FromStr(SubSeq(t, 2, close - 1)), PortBehind(After(t, close)))
  BY DEF SocketV6FromStr, Of
<1> HIDE DEF Unbracketed
<1> QED
  BY <1>3, <1>4, <1>5

LEMMA V6Said ==
  ASSUME NEW t, t \in Chunks, NEW i, i \in 0..Len(t)
  PROVE  Said("V6", t, i)
           = IF Bracketed(t) /\ i = Find(t, "]") THEN SocketV6FromStr(t) ELSE {}
<1>1. PICK close : close = Find(t, "]")
  OBVIOUS
<1>2. PICK h, r : h = SubSeq(t, 1, i) /\ r = SubSeq(t, i + 1, Len(t))
  OBVIOUS
<1>3. PortsWritten("V6", r) = PortBehind(r)
  BY <1>2, Sliced, PortsAre
<1>4. Said("V6", t, i) = Of("V6", HostsWritten("V6", h), PortBehind(r))
  BY <1>2, <1>3 DEF Said
<1>5. CASE Bracketed(t) /\ i = close
  <2>1. HostsWritten("V6", h) = V6FromStr(SubSeq(t, 2, close - 1))
    BY <1>1, <1>2, <1>5, V6Host
  <2>2. r = After(t, close)
    BY <1>2, <1>5 DEF After
  <2>3. SocketV6FromStr(t)
          = Of("V6", V6FromStr(SubSeq(t, 2, close - 1)), PortBehind(After(t, close)))
    BY <1>1, <1>5, V6FromStrOf
  <2> QED
    BY <1>1, <1>4, <1>5, <2>1, <2>2, <2>3, Zenon
<1>6. CASE ~(Bracketed(t) /\ i = close)
  <2>1. HostsWritten("V6", h) = {}
    BY <1>1, <1>2, <1>6, V6Host
  <2>2. Said("V6", t, i) = {}
    BY <1>4, <2>1 DEF Of
  <2> QED
    BY <1>1, <1>6, <2>2
<1> QED
  BY <1>5, <1>6

(* A text that begins as an address of one family is none of the other. *)
LEMMA NotBoth ==
  ASSUME NEW t, t \in Chunks
  PROVE  SocketV4FromStr(t) = {} \/ SocketV6FromStr(t) = {}
<1> SUFFICES ASSUME SocketV4FromStr(t) # {}, SocketV6FromStr(t) # {} PROVE FALSE
  OBVIOUS
<1>0. t \in Seq(Tokens)
  BY DEF Chunks, Tokens
<1>1. t # << >> /\ t[1] = "["
  BY V6FromStrOf DEF Bracketed
<1>2. PICK n \in Nat : n = Len(t)
  BY <1>0
<1>3. PICK colon \in 1..(n + 1) : colon = Find(t, ":")
  BY <1>0, <1>2, FindFinds
<1>4. PICK i \in 0..Len(t) : i = colon - 1
  BY <1>2, <1>3
<1>5. PICK h : h = Before(t, colon)
  OBVIOUS
<1>6. h \in Chunks /\ Len(h) = i /\ \A k \in 1..i : h[k] = t[k]
  BY <1>4, <1>5, Sliced DEF Before
<1>7. V4FromStr(h) # {}
  BY <1>3, <1>5, V4FromStrOf DEF Of
<1>8. h # << >> /\ h[1] \in Atoms
  BY <1>6, <1>7, V4Start
<1>9. i # 0
  <2>1. h \in Seq(Tokens)
    BY <1>6 DEF Chunks, Tokens
  <2> QED
    BY <1>6, <1>8, <2>1, EmptySeq
<1>10. t[1] \in Atoms
  BY <1>2, <1>4, <1>6, <1>8, <1>9
<1> QED
  BY <1>1, <1>10, AtomsAssumption DEF Separators

-----------------------------------------------------------------------------
(* The canonical text of an IPv6 address is read as the address: what is   *)
(* known of its format holds of chunks of tokens.                          *)
F == INSTANCE AddrV6FormatProofs WITH
       Pieces <- Chunks,
       Value <- PieceValue,
       Whole <- WholePieces,
       Nil <- << >>,
       Hex <- PieceHex,
       Hexadecimal <- HexPiece,
       Decimal <- DecPiece,
       Hextets <- DOMAIN HexText,
       Garbled <- << >>,
       hextets <- 0, pc <- 0, i <- 0, currStart <- 0, currLength <- 0,
       bestStart <- 0, bestLength <- 0, os <- 0

LEMMA OneToken ==
  ASSUME NEW a, a \in Atoms
  PROVE  \E p \in Chunks : p = <<a>> /\ p # << >> /\ Len(p) = 1 /\ p[1] = a
<1>1. a \in Tokens
  BY DEF Tokens
<1>2. PICK p : p = <<a>>
  OBVIOUS
<1>3. p \in Seq(Tokens) /\ p # << >> /\ Len(p) = 1 /\ p[1] = a
  BY <1>1, <1>2
<1>4. p \in Chunks
  BY <1>3 DEF Chunks, Tokens
<1> QED
  BY <1>2, <1>3, <1>4

LEMMA PiecesAssumed ==
  /\ NoNumber \notin Nat
  /\ PieceValue \in [Chunks -> Nat \cup {NoNumber}]
  /\ WholePieces \subseteq { p \in Chunks : PieceValue[p] # NoNumber }
<1>1. NoNumber \notin Nat
  BY Ranges
<1>2. ASSUME NEW p \in Chunks PROVE LeadingNumber(p) \in Nat \cup {NoNumber}
  BY AtomsAssumption DEF LeadingNumber
<1>3. PieceValue \in [Chunks -> Nat \cup {NoNumber}]
  BY <1>2 DEF PieceValue
<1>4. ASSUME NEW p \in WholePieces PROVE p \in Chunks /\ PieceValue[p] # NoNumber
  <2>1. p \in Chunks /\ Len(p) = 1 /\ p[1] \in Plain
    BY DEF WholePieces
  <2>2. p # << >>
    BY <2>1
  <2>3. p[1] \in Atoms /\ Leading[p[1]] # NoNumber
    BY <2>1, AtomsAssumption
  <2>4. LeadingNumber(p) = Leading[p[1]]
    BY <2>2, <2>3 DEF LeadingNumber
  <2> QED
    BY <2>1, <2>3, <2>4 DEF PieceValue
<1> QED
  BY <1>1, <1>3, <1>4

LEMMA HexAssumed ==
  /\ << >> \in Chunks
  /\ PieceHex \in [Chunks -> F!Words \cup {NoNumber}]
  /\ PieceHex[<< >>] = NoNumber /\ PieceValue[<< >>] = NoNumber
<1>0. << >> \in Chunks
  BY DEF Chunks
<1>1. PICK e \in Chunks : e = << >>
  BY <1>0
<1>2. PieceHex[e] = NoNumber /\ PieceValue[e] = NoNumber
  <2>1. PieceHex[e] = NoNumber
    BY <1>1, PieceTypes
  <2>2. PieceValue[e] # NoNumber => e # << >>
    BY PieceTypes
  <2> QED
    BY <1>1, <2>1, <2>2
<1>3. F!Words = IP!Words
  BY DEF F!Words, F!MaxWord, IP!Words, IP!MaxWord
<1>4. PieceHex = [p \in Chunks |-> HexNumber(p)]
  BY DEF PieceHex
<1>5. \A p \in Chunks : PieceHex[p] \in F!Words \cup {NoNumber}
  BY <1>3, PieceTypes, Ranges
<1>6. PieceHex \in [Chunks -> F!Words \cup {NoNumber}]
  BY <1>4, <1>5
<1> QED
  BY <1>1, <1>2, <1>6

(* What is written for a number is read as this number. *)
LEMMA WrittenNumbers ==
  /\ \A n \in DOMAIN DecText : /\ DecPiece[n] = <<DecText[n]>> /\ DecText[n] \in Atoms
                               /\ DecPiece[n] \in WholePieces /\ PieceValue[DecPiece[n]] = n
  /\ \A w \in DOMAIN HexText : /\ HexPiece[w] = <<HexText[w]>> /\ HexText[w] \in Atoms
                               /\ HexPiece[w] \in Chunks /\ PieceHex[HexPiece[w]] = w
<1>1. ASSUME NEW n \in DOMAIN DecText
      PROVE  /\ DecPiece[n] = <<DecText[n]>> /\ DecText[n] \in Atoms
             /\ DecPiece[n] \in WholePieces /\ PieceValue[DecPiece[n]] = n
  <2>1. DecText[n] \in Plain /\ DecText[n] \in Atoms /\ Leading[DecText[n]] = n
    BY WritingAssumption, AtomsAssumption
  <2>2. DecPiece[n] = <<DecText[n]>>
    BY DEF DecPiece
  <2>3. PICK p \in Chunks : /\ p = <<DecText[n]>> /\ p # << >>
                            /\ Len(p) = 1 /\ p[1] = DecText[n]
    BY <2>1, OneToken
  <2>4. p \in WholePieces
    BY <2>1, <2>3 DEF WholePieces
  <2>5. PieceValue[p] = n
    BY <2>1, <2>3 DEF PieceValue, LeadingNumber
  <2> QED
    BY <2>1, <2>2, <2>3, <2>4, <2>5
<1>2. ASSUME NEW w \in DOMAIN HexText
      PROVE  /\ HexPiece[w] = <<HexText[w]>> /\ HexText[w] \in Atoms
             /\ HexPiece[w] \in Chunks /\ PieceHex[HexPiece[w]] = w
  <2>1. HexText[w] \in Atoms /\ HexOf[HexText[w]] = w
    BY WritingAssumption
  <2>2. HexPiece[w] = <<HexText[w]>>
    BY DEF HexPiece
  <2>3. PICK p \in Chunks : p = <<HexText[w]>> /\ Len(p) = 1 /\ p[1] = HexText[w]
    BY <2>1, OneToken
  <2>4. PieceHex[p] = w
    BY <2>1, <2>3 DEF PieceHex, HexNumber
  <2> QED
    BY <2>1, <2>2, <2>3, <2>4
<1> QED
  BY <1>1, <1>2

LEMMA FormatAssumed ==
  /\ DOMAIN HexText \subseteq F!Words
  /\ << >> \in Chunks /\ PieceHex[<< >>] = NoNumber /\ << >> \notin WholePieces
  /\ DOMAIN HexPiece = DOMAIN HexText
  /\ \A w \in DOMAIN HexText :
       /\ HexPiece[w] \in Chunks /\ PieceHex[HexPiece[w]] = w
       /\ \A o \in {w \div 256, w % 256} :
            /\ o \in DOMAIN DecPiece
            /\ DecPiece[o] \in WholePieces /\ PieceValue[DecPiece[o]] = o
<1>1. \A w \in DOMAIN HexText :
        w \in Hextets /\ {w \div 256, w % 256} \subseteq DOMAIN DecText
  BY WritingAssumption
<1>2. DOMAIN HexPiece = DOMAIN HexText /\ DOMAIN DecPiece = DOMAIN DecText
  BY DEF HexPiece, DecPiece
<1>3. F!Words = IP!Words
  BY DEF F!Words, F!MaxWord, IP!Words, IP!MaxWord
<1>4. DOMAIN HexText \subseteq F!Words
  BY <1>1, <1>3, Ranges
<1>5. << >> \notin WholePieces
  <2>1. PICK e : e = << >>
    OBVIOUS
  <2>2. Len(e) # 1
    BY <2>1
  <2>3. e \notin WholePieces
    BY <2>2 DEF WholePieces
  <2> QED
    BY <2>1, <2>3
<1>6. ASSUME NEW w \in DOMAIN HexText, NEW o \in {w \div 256, w % 256}
      PROVE  /\ o \in DOMAIN DecPiece
             /\ DecPiece[o] \in WholePieces /\ PieceValue[DecPiece[o]] = o
  <2>1. o \in DOMAIN DecText
    BY <1>1
  <2> QED
    BY <1>2, <2>1, WrittenNumbers
<1>7. \A w \in DOMAIN HexText : HexPiece[w] \in Chunks /\ PieceHex[HexPiece[w]] = w
  BY WrittenNumbers
<1> QED
  BY <1>2, <1>4, <1>5, <1>6, <1>7, HexAssumed

(* The format and the parser have the same grammar. *)
LEMMA SameParts ==
  /\ F!Empty = IP!Empty
  /\ \A part : F!IsGroup(part) <=> IP!IsGroup(part)
  /\ \A part : F!StrictQuad(part) <=> IP!StrictQuad(part)
  /\ \A part : F!Dotted(part) <=> IP!Dotted(part)
  /\ \A part : F!QuadWords(part) = IP!QuadWords(part)
<1>1. F!Empty = IP!Empty
  BY DEF F!Empty, IP!Empty
<1>2. \A part : F!Dotted(part) <=> IP!Dotted(part)
  BY DEF F!Dotted, IP!Dotted
<1>3. \A part : F!IsGroup(part) <=> IP!IsGroup(part)
  BY <1>2 DEF F!IsGroup, IP!IsGroup
<1>4. \A p : F!IsOctet(p) <=> IP!IsOctet(p)
  BY DEF F!IsOctet, IP!IsOctet, F!Octet, IP!Octet, F!MaxOctet, IP!MaxOctet
<1>5. \A part : F!StrictQuad(part) <=> IP!StrictQuad(part)
  BY <1>4 DEF F!StrictQuad, IP!StrictQuad, F!LenientQuad, IP!LenientQuad
<1>6. \A part : F!QuadWords(part) = IP!QuadWords(part)
  BY DEF F!QuadWords, IP!QuadWords
<1> QED
  BY <1>1, <1>2, <1>3, <1>5, <1>6

LEMMA SameSides ==
  /\ \A s : F!IsRange(s) <=> IP!IsRange(s)
  /\ \A s : F!EndsInQuad(s) <=> IP!EndsInQuad(s)
  /\ \A s : F!RangeWords(s) = IP!RangeWords(s)
  /\ \A s : F!Trimmed(s) = IP!Trimmed(s)
  /\ \A n : F!Zeros(n) = IP!Zeros(n)
<1>1. ASSUME NEW s PROVE F!IsRange(s) <=> IP!IsRange(s)
  BY SameParts DEF F!IsRange, IP!IsRange
<1>2. ASSUME NEW s PROVE F!EndsInQuad(s) <=> IP!EndsInQuad(s)
  BY SameParts DEF F!EndsInQuad, IP!EndsInQuad
<1>3. ASSUME NEW s PROVE F!RangeWords(s) = IP!RangeWords(s)
  <2>1. F!QuadWords(s[Len(s)]) = IP!QuadWords(s[Len(s)])
    BY SameParts
  <2> QED
    BY <1>2, <2>1, Zenon DEF F!RangeWords, IP!RangeWords
<1>4. ASSUME NEW s PROVE F!Trimmed(s) = IP!Trimmed(s)
  BY SameParts DEF F!Trimmed, IP!Trimmed
<1>5. ASSUME NEW n PROVE F!Zeros(n) = IP!Zeros(n)
  BY DEF F!Zeros, IP!Zeros
<1> QED
  BY <1>1, <1>2, <1>3, <1>4, <1>5

LEMMA SameReadings ==
  ASSUME NEW t
  PROVE  F!Readings(t) = IP!Readings(t)
<1>1. ASSUME NEW d PROVE F!ReadingsAt(t, d) = IP!ReadingsAt(t, d)
  <2>1. PICK h, s : /\ h = F!Trimmed(SubSeq(t, 1, d - 1))
                    /\ s = F!Trimmed(SubSeq(t, d + 1, Len(t)))
    OBVIOUS
  <2>2. /\ h = IP!Trimmed(SubSeq(t, 1, d - 1))
        /\ s = IP!Trimmed(SubSeq(t, d + 1, Len(t)))
    BY <2>1, SameSides
  <2>3. PICK hw, sw : hw = F!RangeWords(h) /\ sw = F!RangeWords(s)
    OBVIOUS
  <2>4. hw = IP!RangeWords(h) /\ sw = IP!RangeWords(s)
    BY <2>3, SameSides
  <2>5. PICK z : z = F!Zeros(8 - (Len(hw) + Len(sw)))
    OBVIOUS
  <2>6. z = IP!Zeros(8 - (Len(hw) + Len(sw)))
    BY <2>5, SameSides
  <2> DEFINE Fits(E, R(_), Q(_)) == /\ t[d] = E
                                    /\ h = << >> \/ R(h)
                                    /\ s = << >> \/ R(s)
                                    /\ ~(Q(h) /\ Q(s))
                                    /\ Len(hw) + Len(sw) <= 8
  <2>7. F!ReadingsAt(t, d)
          = IF Fits(F!Empty, F!IsRange, F!EndsInQuad) THEN {hw \o z \o sw} ELSE {}
    BY <2>1, <2>3, <2>5, Zenon DEF F!ReadingsAt
  <2>8. IP!ReadingsAt(t, d)
          = IF Fits(IP!Empty, IP!IsRange, IP!EndsInQuad) THEN {hw \o z \o sw} ELSE {}
    BY <2>2, <2>4, <2>6, Zenon DEF IP!ReadingsAt
  <2>9. Fits(F!Empty, F!IsRange, F!EndsInQuad) <=> Fits(IP!Empty, IP!IsRange, IP!EndsInQuad)
    BY SameParts, SameSides, Zenon
  <2> QED
    BY <2>7, <2>8, <2>9, Zenon
<1>2. F!IsRange(t) <=> IP!IsRange(t)
  BY SameSides
<1>3. F!RangeWords(t) = IP!RangeWords(t)
  BY SameSides
<1>4. UNION { F!ReadingsAt(t, d) : d \in 2..(Len(t) - 1) }
        = UNION { IP!ReadingsAt(t, d) : d \in 2..(Len(t) - 1) }
  BY <1>1
<1> QED
  BY <1>2, <1>3, <1>4, Zenon DEF F!Readings, IP!Readings

(* A run that is the leftmost of the longest exists: it has the least      *)
(* weight, where a word of length weighs more than any place.              *)
LEMMA RunChosen ==
  ASSUME NEW words, IP!ZeroRuns(words) # {}
  PROVE  IP!ShortenedRun(words) \in IP!ZeroRuns(words)
<1> DEFINE R == IP!ZeroRuns(words)
           Weight(r) == (8 - (r[2] - r[1])) * 8 + r[1]
           W == { Weight(r) : r \in R }
           Wins(r) == \A s \in R : \/ s[2] - s[1] < r[2] - r[1]
                                   \/ s[2] - s[1] = r[2] - r[1] /\ r[1] <= s[1]
<1>1. \A r \in R : r[1] \in 1..8 /\ r[2] \in 1..8 /\ r[1] < r[2]
  BY DEF IP!ZeroRuns
<1>2. IP!ShortenedRun(words) = CHOOSE r \in R : Wins(r)
  BY Zenon DEF IP!ShortenedRun
<1> HIDE DEF R
<1>3. \A r \in R : Weight(r) \in Nat
  BY <1>1
<1>4. PICK r \in R : \A s \in R : Weight(r) <= Weight(s)
  <2>1. W \in SUBSET Nat /\ W # {}
    BY <1>3 DEF R
  <2>2. PICK x \in W : \A y \in W : x <= y
    <3> HIDE DEF W
    <3> QED
      BY <2>1, LeastOf
  <2> QED
    BY <2>2
<1>5. ASSUME NEW s \in R
      PROVE  \/ s[2] - s[1] < r[2] - r[1]
             \/ s[2] - s[1] = r[2] - r[1] /\ r[1] <= s[1]
  <2>1. PICK a \in 1..8, b \in 1..8 : a = r[1] /\ b = r[2] /\ a < b
    BY <1>1
  <2>2. PICK c \in 1..8, d \in 1..8 : c = s[1] /\ d = s[2] /\ c < d
    BY <1>1
  <2>3. (8 - (b - a)) * 8 + a <= (8 - (d - c)) * 8 + c
    BY <1>4, <2>1, <2>2
  <2>4. d - c < b - a \/ (d - c = b - a /\ a <= c)
    BY <2>3
  <2> QED
    BY <2>1, <2>2, <2>4
<1>6. Wins(r)
  BY <1>5
<1> HIDE DEF Wins
<1>7. IP!ShortenedRun(words) \in R
  BY <1>2, <1>6
<1> QED
  BY <1>7 DEF R

(* The three kinds of canonical text. *)
Mapped(words) == words[6] = IP!MaxWord /\ \A k \in 1..5 : words[k] = 0

MappedParts(words) ==
  << IP!Empty, IP!Empty, <<HexPiece[IP!MaxWord]>>, IP!DottedWords(words[7], words[8]) >>

Shortened(words, from, to) ==
  IP!Side(IP!Groups(words, 1, from - 1)) \o <<IP!Empty>> \o IP!Side(IP!Groups(words, to + 1, 8))

LEMMA CanonicalIs ==
  ASSUME NEW words
  PROVE  \/ Mapped(words) /\ IP!Canonical(words) = MappedParts(words)
         \/ IP!Canonical(words) = IP!Groups(words, 1, 8)
         \/ \E from \in 1..8 : \E to \in from..8 :
              /\ \A k \in from..to : words[k] = 0
              /\ IP!Canonical(words) = Shortened(words, from, to)
<1>1. CASE Mapped(words)
  BY <1>1 DEF Mapped, MappedParts, IP!Canonical
<1>2. CASE ~Mapped(words) /\ IP!ZeroRuns(words) = {}
  BY <1>2 DEF Mapped, IP!Canonical
<1>3. CASE ~Mapped(words) /\ IP!ZeroRuns(words) # {}
  <2>1. PICK r : r = IP!ShortenedRun(words)
    OBVIOUS
  <2>2. r \in IP!ZeroRuns(words)
    BY <1>3, <2>1, RunChosen
  <2>3. /\ r[1] \in 1..8 /\ r[2] \in 1..8 /\ r[1] < r[2]
        /\ \A k \in r[1]..r[2] : words[k] = 0
    BY <2>2 DEF IP!ZeroRuns
  <2>4. r[2] \in r[1]..8
    BY <2>3
  <2>5. IP!Canonical(words) = Shortened(words, r[1], r[2])
    BY <1>3, <2>1, Zenon DEF Mapped, Shortened, IP!Canonical
  <2> QED
    BY <2>3, <2>4, <2>5
<1> QED
  BY <1>1, <1>2, <1>3

Writable == [1..8 -> DOMAIN HexText]

LEMMA CanonicalIsRead ==
  ASSUME NEW words, words \in Writable
  PROVE  IP!Readings(IP!Canonical(words)) = {words}
<1>0. words \in F!Addresses
  BY DEF Writable, F!Addresses
<1>1. ASSUME Mapped(words) PROVE F!Readings(MappedParts(words)) = {words}
  <2>1. words[6] = F!MaxWord /\ \A k \in 1..5 : words[k] = 0
    BY <1>1 DEF Mapped, F!MaxWord, IP!MaxWord
  <2>2. F!Readings(<< F!Empty, F!Empty, <<HexPiece[F!MaxWord]>>,
                      F!DottedWords(words[7], words[8]) >>) = {words}
    BY <1>0, <2>1, F!MappedIsRead, PiecesAssumed, HexAssumed, FormatAssumed
  <2>3. MappedParts(words) = << F!Empty, F!Empty, <<HexPiece[F!MaxWord]>>,
                                F!DottedWords(words[7], words[8]) >>
    BY SameParts DEF MappedParts, F!MaxWord, IP!MaxWord, F!DottedWords, IP!DottedWords
  <2> QED
    BY <2>2, <2>3
<1>2. F!Readings(IP!Groups(words, 1, 8)) = {words}
  <2>1. F!Readings(F!Groups(words, 1, 8)) = {words}
    BY <1>0, F!WholeIsRead, PiecesAssumed, HexAssumed, FormatAssumed
  <2>2. F!Groups(words, 1, 8) = IP!Groups(words, 1, 8)
    BY DEF F!Groups, IP!Groups
  <2> QED
    BY <2>1, <2>2
<1>3. ASSUME NEW from \in 1..8, NEW to \in from..8, \A k \in from..to : words[k] = 0
      PROVE  F!Readings(Shortened(words, from, to)) = {words}
  <2>1. F!Readings(F!Side(F!Groups(words, 1, from - 1)) \o <<F!Empty>>
                     \o F!Side(F!Groups(words, to + 1, 8))) = {words}
    <3>1. ASSUME NEW w, w \in F!Addresses, NEW a, a \in 1..8, NEW b, b \in a..8,
                 \A k \in a..b : w[k] = 0
          PROVE  F!Readings(F!Side(F!Groups(w, 1, a - 1)) \o <<F!Empty>>
                              \o F!Side(F!Groups(w, b + 1, 8))) = {w}
      BY <3>1, F!ShortenedIsRead, PiecesAssumed, HexAssumed, FormatAssumed, SMTT(60)
    <3> QED
      BY <1>0, <1>3, <3>1
  <2>2. /\ F!Side(F!Groups(words, 1, from - 1)) = IP!Side(IP!Groups(words, 1, from - 1))
        /\ F!Side(F!Groups(words, to + 1, 8)) = IP!Side(IP!Groups(words, to + 1, 8))
    <3>1. \A s : F!Side(s) = IP!Side(s)
      BY SameParts DEF F!Side, IP!Side
    <3>2. \A a, b : F!Groups(words, a, b) = IP!Groups(words, a, b)
      BY DEF F!Groups, IP!Groups
    <3> QED
      BY <3>1, <3>2, Zenon
  <2>3. F!Empty = IP!Empty
    BY SameParts
  <2> QED
    BY <2>1, <2>2, <2>3, Zenon DEF Shortened
<1>4. F!Readings(IP!Canonical(words)) = {words}
  BY <1>1, <1>2, <1>3, CanonicalIs
<1> QED
  BY <1>4, SameReadings

-----------------------------------------------------------------------------
(* The texts of addresses, part by part: each part is one piece, except    *)
(* for the quad of an IPv4-mapped address, whose text begins with a colon. *)
Single == { p \in Lists(Atoms) : Len(p) = 1 }
Proper == Lists(Atoms) \ {<< >>}

LEMMA OneAtom ==
  ASSUME NEW a, a \in Atoms
  PROVE  <<a>> \in Seq(Atoms)
OBVIOUS

LEMMA SingleIs ==
  /\ Single \subseteq Proper /\ IP!Empty \in Single
  /\ \A w \in DOMAIN HexText : <<HexPiece[w]>> \in Single
<1>1. ASSUME NEW u \in Seq(Atoms)
      PROVE  <<u>> \in Lists(Atoms) /\ Len(<<u>>) = 1 /\ <<u>> # << >>
  <2>1. PICK A : A = Seq(Atoms)
    OBVIOUS
  <2>2. <<u>> \in Seq(A) /\ Len(<<u>>) = 1 /\ <<u>> # << >>
    BY <2>1
  <2> QED
    BY <2>1, <2>2 DEF Lists
<1>2. ASSUME NEW p \in Single PROVE p \in Proper
  <2>1. p \in Lists(Atoms) /\ Len(p) = 1
    BY DEF Single
  <2>2. p # << >>
    BY <2>1
  <2> QED
    BY <2>1, <2>2 DEF Proper
<1>3. IP!Empty \in Single
  <2>1. PICK e \in Seq(Atoms) : e = << >>
    BY NoChunk
  <2>2. <<e>> \in Single
    BY <1>1 DEF Single
  <2> QED
    BY <2>1, <2>2 DEF IP!Empty
<1>4. ASSUME NEW w \in DOMAIN HexText PROVE <<HexPiece[w]>> \in Single
  <2>1. HexPiece[w] = <<HexText[w]>> /\ HexText[w] \in Atoms
    BY WrittenNumbers
  <2>2. PICK u \in Seq(Atoms) : u = <<HexText[w]>>
    BY <2>1, OneAtom
  <2>4. u = HexPiece[w]
    BY <2>1, <2>2
  <2>3. <<u>> \in Single
    BY <1>1 DEF Single
  <2> QED
    BY <2>3, <2>4
<1> QED
  BY <1>2, <1>3, <1>4

LEMMA GroupsShape ==
  ASSUME NEW words, words \in Writable, NEW a, a \in 1..9, NEW b, b \in 0..8
  PROVE  /\ IP!Groups(words, a, b) \in Seq(Single)
         /\ IP!Side(IP!Groups(words, a, b)) \in Seq(Single)
<1>1. PICK n \in Int : n = b - a + 1 /\ n <= 8
  OBVIOUS
<1>2. PICK g : g = [k \in 1..n |-> <<HexPiece[words[a + k - 1]]>>]
  OBVIOUS
<1>3. ASSUME NEW k \in 1..n PROVE g[k] \in Single
  <2>1. a + k - 1 \in 1..8
    BY <1>1
  <2>2. words[a + k - 1] \in DOMAIN HexText
    BY <2>1 DEF Writable
  <2>3. <<HexPiece[words[a + k - 1]]>> \in Single
    BY <2>2, SingleIs
  <2> QED
    BY <1>2, <2>3
<1>4. g \in Seq(Single)
  <2>1. PICK m \in Nat : 1..m = 1..n
    <3>1. CASE n \in Nat
      BY <3>1
    <3>2. CASE n \notin Nat
      <4>1. 1..0 = 1..n
        BY <1>1, <3>2
      <4> QED
        BY <4>1
    <3> QED
      BY <3>1, <3>2
  <2>2. g \in [1..m -> Single]
    BY <1>2, <1>3, <2>1
  <2> QED
    BY <2>2
<1>5. IP!Groups(words, a, b) = g
  BY <1>1, <1>2 DEF IP!Groups
<1>6. <<IP!Empty>> \in Seq(Single)
  BY SingleIs
<1>7. IP!Side(g) \in Seq(Single)
  BY <1>4, <1>6 DEF IP!Side
<1> QED
  BY <1>4, <1>5, <1>7

LEMMA CanonicalShape ==
  ASSUME NEW words, words \in Writable, NEW t, t = IP!Canonical(words)
  PROVE  /\ t \in Seq(Proper) /\ t # << >>
         /\ t \in Seq(Single) \/ t[1] = IP!Empty
<1>1. CASE Mapped(words) /\ t = MappedParts(words)
  <2>1. PICK q : q = IP!DottedWords(words[7], words[8])
    OBVIOUS
  <2>2. words[6] \in DOMAIN HexText /\ words[6] = IP!MaxWord
    BY <1>1 DEF Writable, Mapped
  <2>3. PICK h : h = <<HexPiece[IP!MaxWord]>>
    OBVIOUS
  <2>4. h \in Proper /\ IP!Empty \in Proper
    BY <2>2, <2>3, SingleIs
  <2>5. q \in Proper
    <3>1. /\ words[7] \in DOMAIN HexText /\ words[8] \in DOMAIN HexText
      BY DEF Writable
    <3>2. \A w \in DOMAIN HexText : {w \div 256, w % 256} \subseteq DOMAIN DecText
      BY WritingAssumption
    <3>3. PICK a, b, c, d : /\ a = words[7] \div 256 /\ b = words[7] % 256
                            /\ c = words[8] \div 256 /\ d = words[8] % 256
      OBVIOUS
    <3>4. {a, b, c, d} \subseteq DOMAIN DecText
      BY <3>1, <3>2, <3>3
    <3>5. q = <<DecPiece[a], DecPiece[b], DecPiece[c], DecPiece[d]>>
      BY <2>1, <3>3 DEF IP!DottedWords
    <3>6. \A n \in DOMAIN DecText : DecPiece[n] \in Seq(Atoms)
      <4>1. \A n \in DOMAIN DecText : DecPiece[n] = <<DecText[n]>> /\ DecText[n] \in Atoms
        BY WrittenNumbers
      <4> QED
        BY <4>1, OneAtom
    <3>7. PICK A : A = Seq(Atoms)
      OBVIOUS
    <3>8. /\ DecPiece[a] \in A /\ DecPiece[b] \in A
          /\ DecPiece[c] \in A /\ DecPiece[d] \in A
      BY <3>4, <3>6, <3>7
    <3>9. q \in Seq(A) /\ q # << >>
      BY <3>5, <3>8
    <3> QED
      BY <3>7, <3>9 DEF Proper, Lists
  <2>6. PICK e : e = IP!Empty
    OBVIOUS
  <2>7. t = <<e, e, h, q>>
    BY <1>1, <2>1, <2>3, <2>6 DEF MappedParts
  <2>8. e \in Proper
    BY <2>4, <2>6
  <2>9. t \in Seq(Proper) /\ t # << >> /\ t[1] = e
    BY <2>4, <2>5, <2>7, <2>8
  <2> QED
    BY <2>6, <2>9
<1>2. CASE t = IP!Groups(words, 1, 8)
  <2>1. t \in Seq(Single)
    BY <1>2, GroupsShape
  <2>2. t # << >>
    <3>1. DOMAIN t = 1..8
      BY <1>2 DEF IP!Groups
    <3> QED
      BY <3>1
  <2>3. t \in Seq(Proper)
    BY <2>1, SingleIs
  <2> QED
    BY <2>1, <2>2, <2>3
<1>3. ASSUME NEW from \in 1..8, NEW to \in from..8, t = Shortened(words, from, to)
      PROVE  t \in Seq(Single) /\ t # << >>
  <2>1. /\ 1 \in 1..9 /\ from - 1 \in 0..8
        /\ to + 1 \in 1..9 /\ 8 \in 0..8
    OBVIOUS
  <2>2. PICK h : h = IP!Side(IP!Groups(words, 1, from - 1))
    OBVIOUS
  <2>3. PICK s : s = IP!Side(IP!Groups(words, to + 1, 8))
    OBVIOUS
  <2>4. h \in Seq(Single) /\ s \in Seq(Single)
    BY <2>1, <2>2, <2>3, GroupsShape
  <2>5. PICK e \in Single : e = IP!Empty
    BY SingleIs
  <2>6. t = h \o <<e>> \o s
    BY <1>3, <2>2, <2>3, <2>5 DEF Shortened
  <2>7. h \o <<e>> \in Seq(Single) /\ h \o <<e>> # << >>
    BY <2>4
  <2> QED
    BY <2>4, <2>6, <2>7
<1>4. t \in Seq(Single) => t \in Seq(Proper)
  BY SingleIs
<1> QED
  BY <1>1, <1>2, <1>3, <1>4, CanonicalIs

(* A text that begins with a token has this token in its first chunk. *)
LEMMA CutFirst ==
  ASSUME NEW T, NEW sep, NEW t, t \in Seq(T), t # << >>, t[1] # sep
  PROVE  Cut(t, sep)[1] # << >>
<1> DEFINE Keeps(c, s) == s # << >> /\ s[1] # sep => c[1] # << >>
           S == { s \in Seq(T) : Keeps(Cut(s, sep), s) }
<1>1. << >> \in S
  OBVIOUS
<1>2. ASSUME NEW s \in Seq(T), NEW x \in T, s \in S PROVE Append(s, x) \in S
  <2>1. PICK c \in Lists(T) : c = Cut(s, sep) /\ c # << >>
    BY CutTypes
  <2>2. Cut(Append(s, x), sep) = Grow(c, x, sep)
    BY <2>1, CutAppend
  <2>3. PICK n \in Nat \ {0} : n = Len(c)
    BY <2>1, ChunkOf
  <2>4. PICK u \in Seq(T) : u = c[1]
    BY <2>3, ChunkOf
  <2>5. s # << >> /\ s[1] # sep => u # << >>
    BY <1>2, <2>1, <2>4
  <2>6. s = << >> => n = 1
    <3>1. s = << >> => c = << << >> >>
      BY <2>1, CutNothing
    <3>2. c = << << >> >> => Len(c) = 1
      OBVIOUS
    <3> QED
      BY <2>3, <3>1, <3>2
  <2>7. PICK r \in Seq(T) : r = Append(s, x)
    BY AppendProperties
  <2>8. (s # << >> => r[1] = s[1]) /\ (s = << >> => r[1] = x)
    BY <2>7, AppendProperties
  <2>9. Keeps(Grow(c, x, sep), r)
    <3>1. CASE x = sep
      <4>1. PICK e \in Seq(T) : e = << >>
        BY NoChunk
      <4>2. PICK g : g = Append(c, e)
        OBVIOUS
      <4>3. \A k \in 1..n : g[k] = c[k]
        BY <2>3, <4>2, AppendChunk
      <4>4. g = Grow(c, x, sep)
        BY <3>1, <4>1, <4>2, GrowAtSeparator
      <4>5. g[1] = u
        BY <2>3, <2>4, <4>3
      <4>6. Keeps(g, r)
        BY <2>5, <2>8, <3>1, <4>5
      <4> QED
        BY <4>4, <4>6
    <3>2. CASE x # sep
      <4>1. PICK g \in Lists(T) : /\ g = Grow(c, x, sep) /\ Len(g) = Len(c)
                                  /\ \A k \in 1..(Len(c) - 1) : g[k] = c[k]
                                  /\ g[Len(c)] = Append(c[Len(c)], x)
        BY <2>1, <3>2, GrowElsewhere
      <4>2. CASE n = 1
        <5>1. g[1] = Append(u, x)
          BY <2>3, <2>4, <4>1, <4>2
        <5>2. PICK v : v = Append(u, x)
          OBVIOUS
        <5>3. Len(v) = Len(u) + 1
          BY <5>2, AppendProperties
        <5>4. v # << >>
          BY <5>3
        <5>5. Keeps(g, r)
          BY <5>1, <5>2, <5>4
        <5> QED
          BY <4>1, <5>5
      <4>3. CASE n # 1
        <5>1. g[1] = u
          BY <2>3, <2>4, <4>1, <4>3
        <5>2. s # << >>
          BY <2>6, <4>3
        <5>3. Keeps(g, r)
          BY <2>5, <2>8, <5>1, <5>2
        <5> QED
          BY <4>1, <5>3
      <4> QED
        BY <4>2, <4>3
    <3> QED
      BY <3>1, <3>2
  <2> HIDE DEF Keeps
  <2> QED
    BY <2>2, <2>7, <2>9
<1> HIDE DEF S
<1>3. t \in S
  BY <1>1, <1>2, SequencesOf
<1> QED
  BY <1>3 DEF S

(* One chunk is written as it is. *)
LEMMA JoinOne ==
  ASSUME NEW T, NEW sep, sep \in T, NEW u, u \in Seq(T)
  PROVE  Join(<<u>>, sep) = u
<1>1. PICK c \in Lists(T) : c = << >>
  BY NoChunk
<1>2. Join(Append(c, u), sep) = IF c = << >> THEN u ELSE Join(c, sep) \o <<sep>> \o u
  BY <1>1, JoinAppend
<1>3. Append(c, u) = <<u>>
  BY <1>1
<1> QED
  BY <1>1, <1>2, <1>3

(* What is within an address, and between its colons. *)
HexTokens == Atoms \cup {".", ":"}
DotTokens == Atoms \cup {"."}

LEMMA TokenSets ==
  /\ "." \notin Atoms /\ ":" \notin Atoms /\ "[" \notin Atoms /\ "]" \notin Atoms
  /\ Atoms \subseteq DotTokens /\ "." \in DotTokens /\ ":" \notin DotTokens
  /\ DotTokens \subseteq HexTokens /\ ":" \in HexTokens
  /\ "[" \notin HexTokens /\ "]" \notin HexTokens
  /\ HexTokens \subseteq Tokens /\ DotTokens \subseteq Tokens /\ Separators \subseteq Tokens
<1>1. "." \notin Atoms /\ ":" \notin Atoms /\ "[" \notin Atoms /\ "]" \notin Atoms
  BY AtomsAssumption DEF Separators
<1>2. ":" \notin DotTokens /\ "[" \notin HexTokens /\ "]" \notin HexTokens
  BY <1>1 DEF DotTokens, HexTokens
<1>3. /\ Atoms \subseteq DotTokens /\ "." \in DotTokens
      /\ DotTokens \subseteq HexTokens /\ ":" \in HexTokens
  BY DEF DotTokens, HexTokens
<1>4. HexTokens \subseteq Tokens /\ DotTokens \subseteq Tokens /\ Separators \subseteq Tokens
  BY DEF DotTokens, HexTokens, Tokens, Separators
<1> QED
  BY <1>1, <1>2, <1>3, <1>4

LEMMA PartsJoined ==
  ASSUME NEW t, t \in Seq(Proper), t # << >>
  PROVE  \E d \in Lists(DotTokens) :
           /\ d = [k \in DOMAIN t |-> Join(t[k], ".")] /\ d # << >>
           /\ Len(d) = Len(t)
           /\ \A k \in 1..Len(t) : d[k] = Join(t[k], ".") /\ Cut(d[k], ".") = t[k]
<1>1. PICK n \in Nat : n = Len(t) /\ DOMAIN t = 1..n
  OBVIOUS
<1>2. PICK d : d = [k \in DOMAIN t |-> Join(t[k], ".")]
  OBVIOUS
<1>3. PICK D : D = Seq(DotTokens)
  OBVIOUS
<1>4. ASSUME NEW k \in 1..n
      PROVE  /\ d[k] = Join(t[k], ".") /\ d[k] \in D /\ Cut(d[k], ".") = t[k]
  <2>1. PICK c \in Proper : c = t[k]
    BY <1>1
  <2>2. c \in Lists(Atoms) /\ c # << >>
    BY DEF Proper
  <2>3. c \in Lists(DotTokens)
    BY <2>2, TokenSets, WiderLists
  <2>4. Join(c, ".") \in Seq(DotTokens)
    BY <2>3, TokenSets, JoinTypes
  <2>5. Cut(Join(c, "."), ".") = c
    BY <2>2, TokenSets, CutJoin
  <2>6. d[k] = Join(c, ".")
    BY <1>1, <1>2, <2>1
  <2> QED
    BY <1>3, <2>1, <2>4, <2>5, <2>6
<1>5. d \in Seq(D) /\ Len(d) = n
  <2>1. d \in [1..n -> D]
    BY <1>1, <1>2, <1>4
  <2> QED
    BY <2>1
<1>6. d \in Lists(DotTokens)
  BY <1>3, <1>5 DEF Lists
<1>7. d # << >>
  BY <1>1, <1>5
<1> QED
  BY <1>1, <1>2, <1>4, <1>5, <1>6, <1>7

LEMMA TextRead ==
  ASSUME NEW t, t \in Seq(Proper), t # << >>, NEW s,
         s = Join([k \in DOMAIN t |-> Join(t[k], ".")], ":")
  PROVE  s \in Seq(HexTokens) /\ V6FromStr(s) = IP!Readings(t)
<1>1. PICK d \in Lists(DotTokens) :
           /\ d = [k \in DOMAIN t |-> Join(t[k], ".")] /\ d # << >>
           /\ Len(d) = Len(t)
           /\ \A k \in 1..Len(t) : d[k] = Join(t[k], ".") /\ Cut(d[k], ".") = t[k]
  BY PartsJoined
<1>2. s = Join(d, ":")
  BY <1>1
<1>3. d \in Lists(HexTokens)
  BY TokenSets, WiderLists
<1>4. s \in Seq(HexTokens)
  BY <1>2, <1>3, TokenSets, JoinTypes
<1>5. Cut(s, ":") = d
  BY <1>1, <1>2, TokenSets, CutJoin
<1>6. PICK n \in Nat : n = Len(t) /\ DOMAIN t = 1..n
  OBVIOUS
<1>7. DOMAIN d = 1..n
  BY <1>1, <1>6
<1>8. PICK p : p = [k \in DOMAIN d |-> Cut(d[k], ".")]
  OBVIOUS
<1>9. p = t
  <2>1. DOMAIN p = DOMAIN t
    BY <1>6, <1>7, <1>8
  <2>2. ASSUME NEW k \in 1..n PROVE p[k] = t[k]
    BY <1>1, <1>6, <1>7, <1>8
  <2>3. t = [k \in 1..n |-> t[k]] /\ p = [k \in 1..n |-> p[k]]
    BY <1>6, <1>7, <1>8
  <2> QED
    BY <2>2, <2>3
<1>10. V6FromStr(s) = IP!Readings(p)
  BY <1>5, <1>8, Zenon DEF V6FromStr
<1> QED
  BY <1>4, <1>9, <1>10

LEMMA NoQuad ==
  ASSUME NEW s, s \in Seq(Atoms \cup {":"})
  PROVE  V4FromStr(s) = {}
<1>1. "." \notin Atoms \cup {":"}
  BY TokenSets
<1>2. Cut(s, ".") = <<s>>
  BY <1>1, CutChunk
<1>3. ~IP!LenientQuad(<<s>>)
  BY DEF IP!LenientQuad
<1> QED
  BY <1>2, <1>3 DEF V4FromStr

(* The text of an IPv6 address is not taken for one of an IPv4 address. *)
LEMMA TextNoV4 ==
  ASSUME NEW t, t \in Seq(Proper), t # << >>, NEW s,
         s = Join([k \in DOMAIN t |-> Join(t[k], ".")], ":"),
         t \in Seq(Single) \/ t[1] = IP!Empty
  PROVE  V4FromStr(s) = {}
<1>1. PICK d \in Lists(DotTokens) :
           /\ d = [k \in DOMAIN t |-> Join(t[k], ".")] /\ d # << >>
           /\ Len(d) = Len(t)
           /\ \A k \in 1..Len(t) : d[k] = Join(t[k], ".") /\ Cut(d[k], ".") = t[k]
  BY PartsJoined
<1>2. s = Join(d, ":")
  BY <1>1
<1>3. PICK n \in Nat \ {0} : n = Len(t)
  OBVIOUS
<1>4. CASE t[1] = IP!Empty
  <2>1. d[1] = << >>
    <3>1. PICK e \in Seq(DotTokens) : e = << >>
      BY NoChunk
    <3>2. Join(<<e>>, ".") = e
      BY TokenSets, JoinOne
    <3>3. t[1] = <<e>>
      BY <1>4, <3>1 DEF IP!Empty
    <3> QED
      BY <1>1, <1>3, <3>1, <3>2, <3>3
  <2>2. d \in Lists(HexTokens)
    BY TokenSets, WiderLists
  <2>3. s \in Seq(HexTokens)
    BY <1>2, <2>2, TokenSets, JoinTypes
  <2>4. Cut(s, ":") = d
    BY <1>1, <1>2, TokenSets, CutJoin
  <2>5. s = << >> \/ s[1] = ":"
    BY <2>1, <2>3, <2>4, CutFirst
  <2>6. s \in Chunks
    <3>1. s \in Seq(Tokens)
      BY <2>3, TokenSets, WiderLists
    <3> QED
      BY <3>1 DEF Chunks, Tokens
  <2> QED
    BY <2>5, <2>6, V4Start, TokenSets
<1>5. CASE t \in Seq(Single)
  <2>1. ASSUME NEW k \in 1..Len(d) PROVE d[k] \in Seq(Atoms)
    <3>1. PICK p \in Single : p = t[k]
      BY <1>1, <1>5
    <3>2. p \in Lists(Atoms) /\ Len(p) = 1
      BY DEF Single
    <3>3. PICK u \in Seq(Atoms) : u = p[1]
      BY <3>2, ChunkOf
    <3>4. p = <<u>>
      BY <3>2, <3>3 DEF Lists
    <3>5. u \in Seq(DotTokens)
      BY TokenSets, WiderLists
    <3>6. Join(<<u>>, ".") = u
      BY <3>5, TokenSets, JoinOne
    <3> QED
      BY <1>1, <3>1, <3>3, <3>4, <3>6
  <2>2. d \in Lists(Atoms)
    BY <2>1, ListOf
  <2>3. PICK B : B = Atoms \cup {":"}
    OBVIOUS
  <2>4. d \in Lists(B)
    BY <2>2, <2>3, WiderLists
  <2>5. s \in Seq(B)
    BY <1>2, <2>3, <2>4, JoinTypes
  <2> QED
    BY <2>3, <2>5, NoQuad
<1> QED
  BY <1>4, <1>5

(* What is written for an IPv6 address. *)
LEMMA V6Written ==
  ASSUME NEW words, words \in Writable, NEW s, s = V6ToString(words)
  PROVE  s \in Seq(HexTokens) /\ V6FromStr(s) = {words} /\ V4FromStr(s) = {}
<1>1. PICK t : t = IP!Canonical(words)
  OBVIOUS
<1>2. /\ t \in Seq(Proper) /\ t # << >>
      /\ t \in Seq(Single) \/ t[1] = IP!Empty
  BY <1>1, CanonicalShape
<1>3. s = Join([k \in DOMAIN t |-> Join(t[k], ".")], ":")
  BY <1>1, Zenon DEF V6ToString
<1>4. s \in Seq(HexTokens) /\ V6FromStr(s) = IP!Readings(t)
  BY <1>2, <1>3, TextRead
<1>5. IP!Readings(t) = {words}
  BY <1>1, CanonicalIsRead
<1>6. V4FromStr(s) = {}
  BY <1>2, <1>3, TextNoV4
<1> QED
  BY <1>4, <1>5, <1>6

(* What is written for an IPv4 address. *)
LEMMA V4Written ==
  ASSUME NEW octets, octets \in [1..4 -> IP!Octet],
         \A k \in 1..4 : octets[k] \in DOMAIN DecText,
         NEW s, s = V4ToString(octets)
  PROVE  s \in Seq(DotTokens) /\ V4FromStr(s) = {octets}
<1>1. PICK c : c = [k \in 1..4 |-> <<DecText[octets[k]]>>]
  OBVIOUS
<1>2. ASSUME NEW k \in 1..4
      PROVE  /\ c[k] = DecPiece[octets[k]] /\ c[k] \in Seq(Atoms)
             /\ PieceValue[c[k]] = octets[k]
  <2>1. PICK n \in DOMAIN DecText : n = octets[k]
    OBVIOUS
  <2>2. DecPiece[n] = <<DecText[n]>> /\ DecText[n] \in Atoms /\ PieceValue[DecPiece[n]] = n
    BY WrittenNumbers
  <2>3. c[k] = <<DecText[n]>>
    BY <1>1, <2>1
  <2>4. <<DecText[n]>> \in Seq(Atoms)
    BY <2>2, OneAtom
  <2> QED
    BY <2>1, <2>2, <2>3, <2>4
<1>3. c \in Lists(Atoms) /\ Len(c) = 4 /\ c # << >>
  <2>1. PICK A : A = Seq(Atoms)
    OBVIOUS
  <2>2. PICK n \in Nat : n = 4
    OBVIOUS
  <2>3. c \in [1..n -> A]
    BY <1>1, <1>2, <2>1, <2>2
  <2>4. c \in Seq(A) /\ Len(c) = n
    BY <2>3
  <2>5. c \in Lists(Atoms)
    BY <2>1, <2>4 DEF Lists
  <2>6. Len(c) = 4
    BY <2>2, <2>4
  <2>7. Len(c) = 0 <=> c = << >>
    BY <2>5, ChunkOf, Zenon
  <2> QED
    BY <2>5, <2>6, <2>7
<1>4. s = Join(c, ".")
  BY <1>1 DEF V4ToString
<1>5. c \in Lists(DotTokens)
  BY <1>3, TokenSets, WiderLists
<1>6. s \in Seq(DotTokens)
  BY <1>4, <1>5, TokenSets, JoinTypes
<1>7. Cut(s, ".") = c
  BY <1>3, <1>4, TokenSets, CutJoin
<1>8. IP!LenientQuad(c)
  <2>1. \A k \in 1..4 : PieceValue[c[k]] \in IP!Octet
    BY <1>2
  <2> QED
    BY <1>3, <2>1 DEF IP!LenientQuad, IP!IsOctet
<1>9. IP!OctetsOf(c) = octets
  <2>1. IP!OctetsOf(c) = [k \in 1..4 |-> PieceValue[c[k]]]
    BY <1>3 DEF IP!OctetsOf
  <2> QED
    BY <1>2, <2>1
<1>10. V4FromStr(s) = {octets}
  BY <1>7, <1>8, <1>9 DEF V4FromStr
<1> QED
  BY <1>6, <1>10

(* The port behind an address. *)
LEMMA PortWritten ==
  ASSUME NEW p, p \in 0..MaxPort, p \in DOMAIN DecText
  PROVE  /\ DecText[p] \in Atoms
         /\ \E c \in Chunks : c = <<DecText[p]>> /\ c # << >> /\ PortOf(c) = {p}
<1>1. DecPiece[p] = <<DecText[p]>> /\ DecText[p] \in Atoms /\ PieceValue[DecPiece[p]] = p
  BY WrittenNumbers
<1>2. PICK c \in Chunks : c = <<DecText[p]>> /\ c # << >>
  BY <1>1, OneToken
<1>3. LeadingNumber(c) = p
  BY <1>1, <1>2 DEF PieceValue
<1>4. p # NoNumber
  BY Ranges
<1>5. PortOf(c) = { q \in {p} : q # NoNumber /\ q \in 0..MaxPort }
  BY <1>3, PortIs
<1>6. PortOf(c) = {p}
  BY <1>4, <1>5
<1> QED
  BY <1>1, <1>2, <1>6

(* A text that is put together, and what is cut from it again. *)
LEMMA Together ==
  ASSUME NEW a, a \in Chunks, NEW b, b \in Chunks, NEW s, s = a \o b
  PROVE  /\ s \in Chunks /\ Len(a) \in Nat /\ Len(b) \in Nat
         /\ Len(s) = Len(a) + Len(b) /\ Len(a) \in 0..Len(s)
         /\ \A k \in 1..Len(a) : s[k] = a[k]
         /\ \A k \in 1..Len(b) : s[Len(a) + k] = b[k]
<1>1. a \in Seq(Tokens) /\ b \in Seq(Tokens)
  BY DEF Chunks, Tokens
<1>2. PICK n \in Nat, m \in Nat : n = Len(a) /\ m = Len(b)
  BY <1>1
<1>3. /\ s \in Seq(Tokens) /\ Len(s) = n + m
      /\ \A k \in 1..(n + m) : s[k] = IF k <= n THEN a[k] ELSE b[k - n]
  BY <1>1, <1>2, ConcatProperties
<1>4. \A k \in 1..n : s[k] = a[k]
  BY <1>2, <1>3
<1>5. ASSUME NEW k \in 1..m PROVE s[n + k] = b[k]
  <2>1. n + k \in 1..(n + m) /\ ~(n + k <= n) /\ (n + k) - n = k
    BY <1>2
  <2> QED
    BY <1>3, <2>1
<1>6. s \in Chunks
  BY <1>3 DEF Chunks, Tokens
<1>7. n \in 0..Len(s)
  BY <1>2, <1>3
<1> QED
  BY <1>2, <1>3, <1>4, <1>5, <1>6, <1>7

(* Does b stand in the text t behind its first i tokens? *)
Behind(b, t, i) == \A k \in 1..Len(b) : b[k] = t[i + k]

LEMMA SliceIs ==
  ASSUME NEW t, t \in Chunks, NEW i, i \in Nat, NEW j, j \in Nat, j <= Len(t),
         NEW b, b \in Chunks, Len(b) = j - i, Behind(b, t, i), NEW from, from = i + 1
  PROVE  SubSeq(t, from, j) = b
<1>1. t \in Seq(Tokens) /\ b \in Seq(Tokens)
  BY DEF Chunks, Tokens
<1>2. PICK n \in Nat : n = Len(b) /\ n = j - i
  BY <1>1
<1>3. PICK r : r = SubSeq(t, from, j)
  OBVIOUS
<1>4. \A k \in from..j : t[k] \in Tokens
  BY <1>1
<1>5. /\ r \in Seq(Tokens) /\ Len(r) = IF from <= j THEN j - from + 1 ELSE 0
      /\ \A k \in 1..(j - from + 1) : r[k] = t[from + k - 1]
  <2>1. from \in Int /\ j \in Int
    OBVIOUS
  <2> QED
    BY <1>3, <1>4, <2>1, SubSeqProperties
<1>6. j - from + 1 = n /\ Len(r) = n
  BY <1>2, <1>5
<1>7. \A k \in 1..n : from + k - 1 = i + k
  BY <1>2
<1>8. \A k \in 1..n : r[k] = t[i + k]
  BY <1>5, <1>6, <1>7
<1>9. \A k \in 1..n : b[k] = t[i + k]
  BY <1>2 DEF Behind
<1>10. Len(r) = Len(b) /\ \A k \in 1..Len(r) : r[k] = b[k]
  BY <1>2, <1>6, <1>8, <1>9
<1>11. r = b
  BY <1>1, <1>5, <1>10, SeqEqual
<1> QED
  BY <1>3, <1>11

(* Is s spelt as a and then b?  Is r what is in t between two places? *)
Spelt(s, a, b)    == s = a \o b
Slice(r, t, i, j) == SubSeq(t, i + 1, j) = r

LEMMA Apart ==
  ASSUME NEW a, a \in Chunks, NEW b, b \in Chunks, NEW c, c \in Chunks,
         NEW d, Spelt(d, a, b), NEW s, Spelt(s, d, c)
  PROVE  /\ d \in Chunks /\ s \in Chunks
         /\ Len(a) \in Nat /\ Len(b) \in Nat /\ Len(c) \in Nat
         /\ Len(d) = Len(a) + Len(b) /\ Len(s) = Len(d) + Len(c)
         /\ Behind(a, s, 0) /\ Behind(b, s, Len(a))
         /\ Slice(a, s, 0, Len(a)) /\ Slice(b, s, Len(a), Len(d))
         /\ Slice(c, s, Len(d), Len(s))
<1>1. d = a \o b /\ s = d \o c
  BY DEF Spelt
<1>2. PICK n, m, l : n = Len(a) /\ m = Len(b) /\ l = Len(c)
  OBVIOUS
<1>3. d \in Chunks /\ n \in Nat /\ m \in Nat /\ Len(d) = n + m
  BY <1>1, <1>2, Together
<1>5. s \in Chunks /\ l \in Nat /\ Len(s) = (n + m) + l
  <2>1. s \in Chunks /\ Len(c) \in Nat /\ Len(s) = Len(d) + Len(c)
    BY <1>1, <1>3, Together
  <2> QED
    BY <1>2, <1>3, <2>1
<1>6. \A k \in 1..n : d[k] = a[k]
  BY <1>1, <1>2, Together
<1>7. \A k \in 1..m : d[n + k] = b[k]
  BY <1>1, <1>2, Together
<1>8. \A k \in 1..(n + m) : s[k] = d[k]
  BY <1>1, <1>3, Together
<1>9. \A k \in 1..l : s[(n + m) + k] = c[k]
  BY <1>1, <1>2, <1>3, Together
<1>10. Behind(a, s, 0)
  BY <1>2, <1>3, <1>6, <1>8 DEF Behind
<1>11. Behind(b, s, n)
  BY <1>2, <1>3, <1>7, <1>8 DEF Behind
<1>12. Behind(c, s, n + m)
  BY <1>2, <1>9 DEF Behind
<1>13. Slice(a, s, 0, n)
  <2>1. PICK i, j : i = 0 + 1 /\ j = 0
    OBVIOUS
  <2>2. j \in Nat /\ n <= Len(s) /\ Len(a) = n - j /\ i = j + 1
    BY <1>2, <1>3, <1>5, <2>1
  <2>3. SubSeq(s, i, n) = a
    BY <1>3, <1>5, <1>10, <2>1, <2>2, SliceIs
  <2> QED
    BY <2>1, <2>3 DEF Slice
<1>14. Slice(b, s, n, n + m)
  <2>1. PICK i, j : i = n + 1 /\ j = n + m
    OBVIOUS
  <2>2. j \in Nat /\ j <= Len(s) /\ Len(b) = j - n
    BY <1>2, <1>3, <1>5, <2>1
  <2>3. SubSeq(s, i, j) = b
    BY <1>3, <1>5, <1>11, <2>1, <2>2, SliceIs
  <2> QED
    BY <2>1, <2>3 DEF Slice
<1>15. Slice(c, s, n + m, Len(s))
  <2>1. PICK i, j : i = n + m /\ j = Len(s)
    OBVIOUS
  <2>2. i \in Nat /\ j \in Nat /\ j <= Len(s) /\ Len(c) = j - i
    BY <1>2, <1>3, <1>5, <2>1
  <2>3. Behind(c, s, i)
    BY <1>12, <2>1
  <2>4. SubSeq(s, i + 1, j) = c
    BY <1>5, <2>2, <2>3, SliceIs
  <2> QED
    BY <2>1, <2>4 DEF Slice
<1> QED
  BY <1>2, <1>3, <1>5, <1>10, <1>11, <1>13, <1>14, <1>15

LEMMA Narrower ==
  ASSUME NEW s, s \in Seq(HexTokens) \/ s \in Seq(DotTokens)
  PROVE  /\ s \in Chunks /\ Len(s) \in Nat
         /\ \A k \in 1..Len(s) : s[k] # "[" /\ s[k] # "]"
         /\ s \in Seq(DotTokens) => \A k \in 1..Len(s) : s[k] # ":"
<1>1. s \in Seq(HexTokens)
  BY TokenSets, WiderLists
<1>2. s \in Seq(Tokens)
  BY <1>1, TokenSets, WiderLists
<1>3. s \in Chunks
  BY <1>2 DEF Chunks, Tokens
<1>4. Len(s) \in Nat /\ \A k \in 1..Len(s) : s[k] \in HexTokens
  BY <1>1
<1>5. s \in Seq(DotTokens) => \A k \in 1..Len(s) : s[k] \in DotTokens
  OBVIOUS
<1> QED
  BY <1>3, <1>4, <1>5, TokenSets

LEMMA OneSeparator ==
  ASSUME NEW x, x \in Separators
  PROVE  <<x>> \in Chunks /\ Len(<<x>>) = 1 /\ <<x>>[1] = x
BY DEF Chunks

(* A colon and a port. *)
LEMMA PortText ==
  ASSUME NEW p, p \in 0..MaxPort, p \in DOMAIN DecText
  PROVE  \E r \in Chunks, c \in Chunks :
           /\ r = <<":", DecText[p]>> /\ r = <<":">> \o c
           /\ Len(r) = 2 /\ r[1] = ":" /\ Tail(r) = c
           /\ c # << >> /\ PortOf(c) = {p}
<1>1. PICK c \in Chunks : c = <<DecText[p]>> /\ c # << >> /\ PortOf(c) = {p}
  BY PortWritten
<1>2. PICK a : a = DecText[p]
  OBVIOUS
<1>3. PICK r : r = <<":", a>>
  OBVIOUS
<1>4. a \in Tokens /\ ":" \in Tokens
  BY <1>2, PortWritten DEF Tokens, Separators
<1>5. r \in Seq(Tokens) /\ Len(r) = 2 /\ r[1] = ":" /\ r[2] = a
  BY <1>3, <1>4
<1>6. r \in Chunks
  BY <1>5 DEF Chunks, Tokens
<1>7. r = <<":">> \o <<a>>
  BY <1>3
<1>8. Tail(r) = <<a>>
  BY <1>3
<1> QED
  BY <1>1, <1>2, <1>3, <1>5, <1>6, <1>7, <1>8

LEMMA Associated ==
  ASSUME NEW a, a \in Chunks, NEW b, b \in Chunks, NEW c, c \in Chunks,
         NEW x, Spelt(x, a, b), NEW y, Spelt(y, b, c), NEW s
  PROVE  /\ x \in Chunks /\ y \in Chunks
         /\ Spelt(s, x, c) <=> Spelt(s, a, y)
<1>1. a \in Seq(Tokens) /\ b \in Seq(Tokens) /\ c \in Seq(Tokens)
  BY DEF Chunks, Tokens
<1>2. x \in Seq(Tokens) /\ y \in Seq(Tokens)
  BY <1>1 DEF Spelt
<1>3. (a \o b) \o c = a \o (b \o c)
  BY <1>1, ConcatAssociative
<1>4. x \in Chunks /\ y \in Chunks
  BY <1>2 DEF Chunks, Tokens
<1> QED
  BY <1>3, <1>4 DEF Spelt

(* What is before and behind a colon that no other colon precedes. *)
LEMMA AroundColon ==
  ASSUME NEW h, h \in Chunks, NEW b, b \in Chunks, NEW c, c \in Chunks,
         NEW d, Spelt(d, h, b), NEW s, Spelt(s, d, c), NEW colon, colon = Len(h) + 1
  PROVE  (b = <<":">> /\ \A k \in 1..Len(h) : h[k] # ":") =>
         /\ s \in Chunks /\ Find(s, ":") = colon /\ colon <= Len(s)
         /\ Before(s, colon) = h /\ After(s, colon) = c
<1>0. HAVE b = <<":">> /\ \A k \in 1..Len(h) : h[k] # ":"
<1>1. Len(b) = 1 /\ b[1] = ":"
  BY <1>0
<1>2. PICK n : n = Len(h)
  OBVIOUS
<1>3. /\ s \in Chunks
      /\ Len(h) \in Nat /\ Len(b) \in Nat /\ Len(c) \in Nat
      /\ Len(d) = Len(h) + Len(b) /\ Len(s) = Len(d) + Len(c)
      /\ Behind(h, s, 0) /\ Behind(b, s, Len(h))
      /\ Slice(h, s, 0, Len(h)) /\ Slice(c, s, Len(d), Len(s))
  BY Apart
<1>4. /\ n \in Nat /\ Len(c) \in Nat /\ Len(d) = colon /\ Len(s) = colon + Len(c)
      /\ colon \in 1..(Len(s) + 1) /\ colon <= Len(s) /\ colon - 1 = n /\ colon = n + 1
  BY <1>1, <1>2, <1>3
<1>5. s[colon] = ":"
  BY <1>1, <1>3 DEF Behind
<1>6. ASSUME NEW k \in 1..(colon - 1) PROVE s[k] # ":"
  <2>1. k \in 1..Len(h)
    BY <1>2, <1>4
  <2>2. s[k] = h[k]
    BY <1>3, <2>1 DEF Behind
  <2> QED
    BY <1>0, <2>1, <2>2
<1>7. s \in Seq(Tokens)
  BY <1>3 DEF Chunks, Tokens
<1>8. Find(s, ":") = colon
  <2>1. colon \in 1..(Len(s) + 1) /\ (colon <= Len(s) => s[colon] = ":")
    BY <1>4, <1>5
  <2>2. FirstPlace(s, ":", colon)
    BY <1>6, <2>1, Zenon DEF FirstPlace
  <2> QED
    BY <1>7, <2>2, FindIs
<1>9. Before(s, colon) = h
  <2>1. SubSeq(s, 0 + 1, Len(h)) = h
    BY <1>3 DEF Slice
  <2>2. 0 + 1 = 1 /\ Len(h) = colon - 1
    BY <1>2, <1>4
  <2> QED
    BY <2>1, <2>2, Zenon DEF Before
<1>10. After(s, colon) = c
  <2>1. SubSeq(s, Len(d) + 1, Len(s)) = c
    BY <1>3 DEF Slice
  <2>2. Len(d) = colon
    BY <1>4
  <2> QED
    BY <2>1, <2>2, Zenon DEF After
<1> QED
  BY <1>3, <1>4, <1>8, <1>9, <1>10

(* What is between brackets, and behind them. *)
LEMMA AroundBrackets ==
  ASSUME NEW a, a \in Chunks, NEW h, h \in Chunks, NEW b, b \in Chunks, NEW r, r \in Chunks,
         NEW d, Spelt(d, a, h), NEW q, Spelt(q, b, r), NEW s, Spelt(s, d, q),
         NEW close
  PROVE  (/\ a = <<"[">> /\ b = <<"]">>
          /\ \A k \in 1..Len(h) : h[k] # "]"
          /\ close = Len(h) + 2) =>
         /\ s \in Chunks /\ Bracketed(s) /\ Find(s, "]") = close
         /\ SubSeq(s, 2, close - 1) = h /\ After(s, close) = r
<1>0. HAVE /\ a = <<"[">> /\ b = <<"]">>
           /\ \A k \in 1..Len(h) : h[k] # "]"
           /\ close = Len(h) + 2
<1>1. Len(a) = 1 /\ a[1] = "[" /\ Len(b) = 1 /\ b[1] = "]"
  BY <1>0
<1>2. d \in Chunks /\ q \in Chunks
  BY Together DEF Spelt
<1>3. /\ s \in Chunks /\ Len(h) \in Nat /\ Len(d) = Len(a) + Len(h)
      /\ Behind(a, s, 0) /\ Behind(h, s, Len(a)) /\ Slice(h, s, Len(a), Len(d))
  BY <1>2, Apart
<1>4. PICK e : Spelt(e, d, b)
  BY DEF Spelt
<1>5. Spelt(s, e, r)
  BY <1>2, <1>4, Associated
<1>6. /\ Len(r) \in Nat /\ Len(e) = Len(d) + Len(b) /\ Len(s) = Len(e) + Len(r)
      /\ Behind(b, s, Len(d)) /\ Slice(r, s, Len(e), Len(s))
  BY <1>2, <1>4, <1>5, Apart
<1>7. PICK n \in Nat : n = Len(h)
  BY <1>3
<1>8. /\ Len(d) = 1 + n /\ Len(e) = 2 + n /\ close = 2 + n /\ close - 1 = 1 + n
      /\ close \in 1..(Len(s) + 1) /\ close <= Len(s) /\ Len(s) # 0
  BY <1>0, <1>1, <1>3, <1>6, <1>7
<1>9. SubSeq(s, 2, close - 1) = h
  <2>1. SubSeq(s, Len(a) + 1, Len(d)) = h
    BY <1>3 DEF Slice
  <2>2. Len(a) + 1 = 2 /\ Len(d) = close - 1
    BY <1>1, <1>8
  <2> QED
    BY <2>1, <2>2, Zenon
<1>10. After(s, close) = r
  <2>1. SubSeq(s, Len(e) + 1, Len(s)) = r
    BY <1>6 DEF Slice
  <2>2. Len(e) = close
    BY <1>8
  <2> QED
    BY <2>1, <2>2, Zenon DEF After
<1>11. s[1] = "["
  BY <1>1, <1>3 DEF Behind
<1>12. s[close] = "]"
  <2>1. Len(d) + 1 = close
    BY <1>8
  <2> QED
    BY <1>1, <1>6, <2>1 DEF Behind
<1>13. ASSUME NEW k \in 1..(close - 1) PROVE s[k] # "]"
  <2>1. CASE k = 1
    BY <1>11, <2>1
  <2>2. CASE k # 1
    <3>1. PICK j \in 1..n : k = 1 + j
      BY <1>8, <2>2
    <3>2. s[1 + j] = h[j]
      BY <1>1, <1>3, <1>7, <3>1 DEF Behind
    <3> QED
      BY <1>0, <1>7, <3>1, <3>2
  <2> QED
    BY <2>1, <2>2
<1>14. s \in Seq(Tokens)
  BY <1>3 DEF Chunks, Tokens
<1>15. Find(s, "]") = close
  <2>1. close \in 1..(Len(s) + 1) /\ (close <= Len(s) => s[close] = "]")
    BY <1>8, <1>12
  <2>2. \A k \in 1..(close - 1) : s[k] # "]"
    BY <1>13
  <2>3. FirstPlace(s, "]", close)
    BY <2>1, <2>2, Zenon DEF FirstPlace
  <2> QED
    BY <1>14, <2>3, FindIs
<1>16. Bracketed(s)
  <2>1. s # << >>
    BY <1>8, <1>14, EmptySeq
  <2>2. close <= Len(s)
    BY <1>8
  <2> QED
    BY <1>11, <1>15, <2>1, <2>2 DEF Bracketed
<1> QED
  BY <1>3, <1>9, <1>10, <1>15, <1>16

LEMMA SocketV4Written ==
  ASSUME NEW octets, NEW p, NEW s
  PROVE  (/\ octets \in [1..4 -> IP!Octet] /\ \A k \in 1..4 : octets[k] \in DOMAIN DecText
          /\ p \in 0..MaxPort /\ p \in DOMAIN DecText
          /\ s = V4ToString(octets) \o <<":", DecText[p]>>) =>
         s \in Chunks /\ SocketV4FromStr(s) = {Socket("V4", octets, p)}
<1>0. HAVE /\ octets \in [1..4 -> IP!Octet] /\ \A k \in 1..4 : octets[k] \in DOMAIN DecText
           /\ p \in 0..MaxPort /\ p \in DOMAIN DecText
           /\ s = V4ToString(octets) \o <<":", DecText[p]>>
<1>1. PICK h : h = V4ToString(octets)
  OBVIOUS
<1>2. h \in Seq(DotTokens) /\ V4FromStr(h) = {octets}
  BY <1>0, <1>1, V4Written
<1>3. PICK r \in Chunks, c \in Chunks :
        /\ r = <<":", DecText[p]>> /\ r = <<":">> \o c
        /\ Len(r) = 2 /\ r[1] = ":" /\ Tail(r) = c
        /\ c # << >> /\ PortOf(c) = {p}
  BY <1>0, PortText
<1>4. h \in Chunks /\ \A k \in 1..Len(h) : h[k] # ":"
  BY <1>2, Narrower
<1>5. PICK b \in Chunks : b = <<":">>
  BY OneSeparator DEF Separators
<1>6. Spelt(r, b, c) /\ Spelt(s, h, r)
  BY <1>0, <1>1, <1>3, <1>5, Zenon DEF Spelt
<1>7. PICK d, colon : Spelt(d, h, b) /\ colon = Len(h) + 1
  BY DEF Spelt
<1>8. h \in Chunks /\ b \in Chunks /\ c \in Chunks
  BY <1>3, <1>4, <1>5
<1>9. Spelt(s, d, c)
  BY <1>6, <1>7, <1>8, Associated
<1>10. /\ s \in Chunks /\ Find(s, ":") = colon /\ colon <= Len(s)
       /\ Before(s, colon) = h /\ After(s, colon) = c
  <2>1. b = <<":">> /\ \A k \in 1..Len(h) : h[k] # ":"
    BY <1>4, <1>5
  <2>2. Spelt(d, h, b) /\ colon = Len(h) + 1
    BY <1>7
  <2> QED
    BY <1>8, <1>9, <2>1, <2>2, AroundColon
<1>11. SocketV4FromStr(s) = Of("V4", {octets}, {p})
  <2>1. SocketV4FromStr(s)
          = Of("V4", V4FromStr(Before(s, colon)),
               IF colon > Len(s) THEN {0} ELSE PortOf(After(s, colon)))
    BY <1>10, V4FromStrOf
  <2>2. ~(colon > Len(s))
    <3>1. Len(s) \in Int /\ colon \in Int
      <4>1. s \in Seq(Tokens)
        BY <1>10 DEF Chunks, Tokens
      <4> QED
        BY <1>10, <4>1, FindFinds
    <3> QED
      BY <1>10, <3>1
  <2>3. (IF colon > Len(s) THEN {0} ELSE PortOf(After(s, colon))) = {p}
    BY <1>3, <1>10, <2>2
  <2> QED
    BY <1>2, <1>10, <2>1, <2>3
<1>12. Of("V4", {octets}, {p}) = {Socket("V4", octets, p)}
  BY DEF Of
<1> QED
  BY <1>10, <1>11, <1>12

LEMMA ThreeTokens ==
  ASSUME NEW a, NEW b, NEW c
  PROVE  <<a>> \o <<b, c>> = <<a, b, c>>
<1>1. PICK S : S = {a, b, c}
  OBVIOUS
<1>2. PICK u, v, w : u = <<a>> /\ v = <<b, c>> /\ w = <<a, b, c>>
  OBVIOUS
<1>3. /\ u \in Seq(S) /\ Len(u) = 1 /\ u[1] = a
      /\ v \in Seq(S) /\ Len(v) = 2 /\ v[1] = b /\ v[2] = c
      /\ w \in Seq(S) /\ Len(w) = 3 /\ w[1] = a /\ w[2] = b /\ w[3] = c
  BY <1>1, <1>2
<1>4. PICK x : x = u \o v
  OBVIOUS
<1>5. /\ x \in Seq(S) /\ Len(x) = Len(u) + Len(v)
      /\ \A i \in 1..(Len(u) + Len(v)) : x[i] = IF i <= Len(u) THEN u[i] ELSE v[i - Len(u)]
  BY <1>3, <1>4, ConcatProperties
<1>6. Len(x) = 3 /\ x[1] = a /\ x[2] = b /\ x[3] = c
  BY <1>3, <1>5
<1>7. Len(x) = Len(w) /\ \A i \in 1..Len(x) : x[i] = w[i]
  BY <1>3, <1>6
<1>8. x = w
  BY <1>3, <1>5, <1>7, SeqEqual
<1> QED
  BY <1>2, <1>4, <1>8

LEMMA SocketV6Written ==
  ASSUME NEW words, NEW p, NEW s
  PROVE  (/\ words \in Writable /\ p \in 0..MaxPort /\ p \in DOMAIN DecText
          /\ s = <<"[">> \o V6ToString(words) \o <<"]", ":", DecText[p]>>) =>
         s \in Chunks /\ SocketV6FromStr(s) = {Socket("V6", words, p)}
<1>0. HAVE /\ words \in Writable /\ p \in 0..MaxPort /\ p \in DOMAIN DecText
           /\ s = <<"[">> \o V6ToString(words) \o <<"]", ":", DecText[p]>>
<1>1. PICK h : h = V6ToString(words)
  OBVIOUS
<1>2. h \in Seq(HexTokens) /\ V6FromStr(h) = {words}
  BY <1>0, <1>1, V6Written
<1>3. PICK r \in Chunks, c \in Chunks :
        /\ r = <<":", DecText[p]>> /\ r = <<":">> \o c
        /\ Len(r) = 2 /\ r[1] = ":" /\ Tail(r) = c
        /\ c # << >> /\ PortOf(c) = {p}
  BY <1>0, PortText
<1>4. h \in Chunks /\ \A k \in 1..Len(h) : h[k] # "]"
  BY <1>2, Narrower
<1>5. PICK a \in Chunks : a = <<"[">>
  BY OneSeparator DEF Separators
<1>6. PICK b \in Chunks : b = <<"]">>
  BY OneSeparator DEF Separators
<1>7. PICK d, q, close : Spelt(d, a, h) /\ Spelt(q, b, r) /\ close = Len(h) + 2
  BY DEF Spelt
<1>8. a \in Chunks /\ h \in Chunks /\ b \in Chunks /\ r \in Chunks
  BY <1>3, <1>4, <1>5, <1>6
<1>9. Spelt(s, d, q)
  <2>1. PICK x : x = DecText[p]
    OBVIOUS
  <2>2. r = <<":", x>>
    BY <1>3, <2>1
  <2>3. <<"]">> \o <<":", x>> = <<"]", ":", x>>
    BY ThreeTokens
  <2>4. q = <<"]", ":", x>>
    BY <1>6, <1>7, <2>2, <2>3, Zenon DEF Spelt
  <2>5. d = <<"[">> \o h
    BY <1>5, <1>7 DEF Spelt
  <2>6. s = (<<"[">> \o h) \o <<"]", ":", x>>
    BY <1>0, <1>1, <2>1, Zenon
  <2>7. s = d \o q
    BY <2>4, <2>5, <2>6, Zenon
  <2> QED
    BY <2>7 DEF Spelt
<1>10. /\ s \in Chunks /\ Bracketed(s) /\ Find(s, "]") = close
       /\ SubSeq(s, 2, close - 1) = h /\ After(s, close) = r
  <2>1. a = <<"[">> /\ b = <<"]">> /\ \A k \in 1..Len(h) : h[k] # "]"
    BY <1>4, <1>5, <1>6
  <2> QED
    BY <1>7, <1>8, <1>9, <2>1, AroundBrackets
<1>11. PortBehind(r) = {p}
  <2>1. r # << >>
    BY <1>3
  <2> QED
    BY <1>3, <2>1 DEF PortBehind
<1>12. SocketV6FromStr(s) = Of("V6", {words}, {p})
  <2>1. SocketV6FromStr(s)
          = Of("V6", V6FromStr(SubSeq(s, 2, close - 1)), PortBehind(After(s, close)))
    BY <1>10, V6FromStrOf
  <2> QED
    BY <1>2, <1>10, <1>11, <2>1
<1>13. Of("V6", {words}, {p}) = {Socket("V6", words, p)}
  BY DEF Of
<1> QED
  BY <1>10, <1>12, <1>13

-----------------------------------------------------------------------------
(* What either family says of a text.                                      *)
AtMostOne(S) == \A x, y \in S : x = y

LEMMA OfOne ==
  ASSUME NEW family, NEW hosts, NEW ports
  PROVE  AtMostOne(hosts) /\ AtMostOne(ports) => AtMostOne(Of(family, hosts, ports))
<1>0. HAVE AtMostOne(hosts) /\ AtMostOne(ports)
<1>1. ASSUME NEW x \in Of(family, hosts, ports), NEW y \in Of(family, hosts, ports)
      PROVE  x = y
  <2>1. PICK a \in hosts, p \in ports : x = Socket(family, a, p)
    BY DEF Of
  <2>2. PICK b \in hosts, q \in ports : y = Socket(family, b, q)
    BY DEF Of
  <2>3. a = b
    BY <1>0, <2>1, <2>2 DEF AtMostOne
  <2>4. p = q
    BY <1>0, <2>1, <2>2 DEF AtMostOne
  <2> QED
    BY <2>1, <2>2, <2>3, <2>4
<1> QED
  BY <1>1 DEF AtMostOne

V4Sockets == [family : {"V4"}, address : [1..4 -> IP!Octet], port : 0..MaxPort]
V6Sockets == [family : {"V6"}, address : [1..8 -> IP!Words], port : 0..MaxPort]

LEMMA SocketsV4 ==
  ASSUME NEW t, t \in Chunks
  PROVE  /\ SocketV4FromStr(t) \subseteq V4Sockets
         /\ AtMostOne(SocketV4FromStr(t))
<1>0. t \in Seq(Tokens)
  BY DEF Chunks, Tokens
<1>1. PICK n \in Nat : n = Len(t)
  BY <1>0
<1>2. PICK colon \in 1..(n + 1) : colon = Find(t, ":")
  BY <1>0, <1>1, FindFinds
<1>3. PICK hosts : hosts = V4FromStr(Before(t, colon))
  OBVIOUS
<1>4. hosts \subseteq [1..4 -> IP!Octet] /\ \A a, b \in hosts : a = b
  BY <1>3, V4Result
<1>5. PICK ports : ports = IF colon > Len(t) THEN {0} ELSE PortOf(After(t, colon))
  OBVIOUS
<1>6. ports \subseteq 0..MaxPort /\ \A p, q \in ports : p = q
  <2>1. CASE colon > Len(t)
    <3>1. ports = {0}
      BY <1>5, <2>1
    <3>2. 0 \in 0..MaxPort
      BY SMT DEF MaxPort
    <3> QED
      BY <3>1, <3>2, Zenon
  <2>2. CASE ~(colon > Len(t))
    <3>1. colon \in 0..Len(t)
      BY <1>1, <1>2, <2>2
    <3>2. After(t, colon) \in Chunks
      BY <3>1, Sliced DEF After
    <3> QED
      BY <1>5, <2>2, <3>2, PortIs
  <2> QED
    BY <2>1, <2>2
<1>7. SocketV4FromStr(t) = Of("V4", hosts, ports)
  BY <1>2, <1>3, <1>5, V4FromStrOf
<1>8. AtMostOne(SocketV4FromStr(t))
  <2>1. AtMostOne(hosts)
    BY <1>4 DEF AtMostOne
  <2>2. AtMostOne(ports)
    BY <1>6 DEF AtMostOne
  <2> QED
    BY <1>7, <2>1, <2>2, OfOne
<1>9. ASSUME NEW x \in SocketV4FromStr(t) PROVE x \in V4Sockets
  <2>1. PICK a \in hosts, p \in ports : x = Socket("V4", a, p)
    BY <1>7 DEF Of
  <2>2. a \in [1..4 -> IP!Octet] /\ p \in 0..MaxPort
    BY <1>4, <1>6
  <2> QED
    BY <2>1, <2>2, Zenon DEF Socket, V4Sockets
<1> QED
  BY <1>8, <1>9

LEMMA SocketsV6 ==
  ASSUME NEW t, t \in Chunks
  PROVE  /\ SocketV6FromStr(t) \subseteq V6Sockets
         /\ AtMostOne(SocketV6FromStr(t))
         /\ t = << >> => SocketV6FromStr(t) = {}
<1>0. t \in Seq(Tokens)
  BY DEF Chunks, Tokens
<1>1. PICK n \in Nat : n = Len(t)
  BY <1>0
<1>2. PICK close \in 1..(n + 1) : close = Find(t, "]")
  BY <1>0, <1>1, FindFinds
<1>3. CASE ~Bracketed(t)
  <2>1. SocketV6FromStr(t) = {}
    BY <1>2, <1>3, V6FromStrOf
  <2> QED
    BY <2>1 DEF AtMostOne
<1>4. CASE Bracketed(t)
  <2>0. close <= n /\ t # << >> /\ t[1] = "["
    BY <1>1, <1>2, <1>4 DEF Bracketed
  <2>1. PICK inside : inside = SubSeq(t, 2, close - 1)
    OBVIOUS
  <2>2. inside \in Chunks
    <3>1. PICK h : h = SubSeq(t, 1, close)
      OBVIOUS
    <3>2. \A k \in 2..(close - 1) : t[k] \in Tokens
      BY <1>0, <1>1, <2>0
    <3>3. 2 \in Int /\ close - 1 \in Int
      OBVIOUS
    <3>4. inside \in Seq(Tokens)
      BY <2>1, <3>2, <3>3, SubSeqProperties
    <3> QED
      BY <3>4 DEF Chunks, Tokens
  <2>3. PICK hosts : hosts = V6FromStr(inside)
    OBVIOUS
  <2>4. hosts \subseteq [1..8 -> Hextets] /\ \A a, b \in hosts : a = b
    BY <2>2, <2>3, V6Result
  <2>5. PICK rest : rest = After(t, close)
    OBVIOUS
  <2>6. rest \in Chunks
    <3>1. close \in 0..Len(t)
      BY <1>1, <2>0
    <3> QED
      BY <2>5, <3>1, Sliced DEF After
  <2>7. PICK ports : ports = PortBehind(rest)
    OBVIOUS
  <2>8. ports \subseteq 0..MaxPort /\ \A p, q \in ports : p = q
    <3>1. \/ ports = {0}
          \/ ports = {}
          \/ rest # << >> /\ ports = PortOf(Tail(rest))
      BY <2>7 DEF PortBehind
    <3>2. 0 \in 0..MaxPort
      BY SMT DEF MaxPort
    <3>3. rest # << >> => Tail(rest) \in Chunks
      BY <2>6, PortsAre
    <3>4. CASE ports = {0}
      BY <3>2, <3>4, Zenon
    <3>5. CASE ports = {}
      BY <3>5, Zenon
    <3>6. CASE rest # << >> /\ ports = PortOf(Tail(rest))
      BY <3>3, <3>6, PortIs
    <3> QED
      BY <3>1, <3>4, <3>5, <3>6
  <2>9. SocketV6FromStr(t) = Of("V6", hosts, ports)
    BY <1>2, <1>4, <2>1, <2>3, <2>5, <2>7, V6FromStrOf
  <2>10. AtMostOne(SocketV6FromStr(t))
    <3>1. AtMostOne(hosts)
      BY <2>4 DEF AtMostOne
    <3>2. AtMostOne(ports)
      BY <2>8 DEF AtMostOne
    <3> QED
      BY <2>9, <3>1, <3>2, OfOne
  <2>11. ASSUME NEW x \in SocketV6FromStr(t) PROVE x \in V6Sockets
    <3>1. PICK a \in hosts, p \in ports : x = Socket("V6", a, p)
      BY <2>9 DEF Of
    <3>2. a \in [1..8 -> IP!Words] /\ p \in 0..MaxPort
      BY <2>4, <2>8, Ranges
    <3> QED
      BY <3>1, <3>2, Zenon DEF Socket, V6Sockets
  <2> QED
    BY <2>0, <2>10, <2>11
<1> QED
  BY <1>3, <1>4

-----------------------------------------------------------------------------
(* The families asked, and what the parser of each of them returns.        *)
LEMMA TypeFamilies ==
  ASSUME type \in Types
  PROVE  /\ type # "SocketV6" <=> "V4" \in Families
         /\ type # "SocketV4" <=> "V6" \in Families
         /\ Families \subseteq {"V4", "V6"}
BY DEF Types, Families

LEMMA ValueOfV4 ==
  ASSUME type \in Types, type # "SocketV6",
         NEW v, v \in IF type = "IPAddress"
                      THEN [family : {"V4"}, address : [1..4 -> IP!Octet]]
                      ELSE V4Sockets
  PROVE  v \in Values
<1>1. PICK A, P : A = [1..4 -> IP!Octet] /\ P = 0..MaxPort
  OBVIOUS
<1>2. "V4" \in Families
  BY TypeFamilies
<1>3. CASE type = "IPAddress"
  <2>1. v \in [family : {"V4"}, address : A]
    BY <1>1, <1>3
  <2>2. v.family = "V4"
    BY <2>1
  <2>3. v \in Addresses
    BY <1>1, <2>1, Zenon DEF Addresses
  <2> QED
    BY <1>2, <1>3, <2>2, <2>3, Zenon DEF Values
<1>4. CASE type # "IPAddress"
  <2>1. v \in [family : {"V4"}, address : A, port : P]
    BY <1>1, <1>4 DEF V4Sockets
  <2>2. v.family = "V4"
    BY <2>1
  <2>3. v \in Sockets
    BY <1>1, <2>1, Zenon DEF Sockets
  <2> QED
    BY <1>2, <1>4, <2>2, <2>3, Zenon DEF Values
<1> QED
  BY <1>3, <1>4

LEMMA ValueOfV6 ==
  ASSUME type \in Types, type # "SocketV4",
         NEW v, v \in IF type = "IPAddress"
                      THEN [family : {"V6"}, address : [1..8 -> IP!Words]]
                      ELSE V6Sockets
  PROVE  v \in Values
<1>1. PICK A, P : A = [1..8 -> IP!Words] /\ P = 0..MaxPort
  OBVIOUS
<1>2. "V6" \in Families
  BY TypeFamilies
<1>3. CASE type = "IPAddress"
  <2>1. v \in [family : {"V6"}, address : A]
    BY <1>1, <1>3
  <2>2. v.family = "V6"
    BY <2>1
  <2>3. v \in Addresses
    BY <1>1, <2>1, Zenon DEF Addresses
  <2> QED
    BY <1>2, <1>3, <2>2, <2>3, Zenon DEF Values
<1>4. CASE type # "IPAddress"
  <2>1. v \in [family : {"V6"}, address : A, port : P]
    BY <1>1, <1>4 DEF V6Sockets
  <2>2. v.family = "V6"
    BY <2>1
  <2>3. v \in Sockets
    BY <1>1, <2>1, Zenon DEF Sockets
  <2> QED
    BY <1>2, <1>4, <2>2, <2>3, Zenon DEF Values
<1> QED
  BY <1>3, <1>4

LEMMA ReadV4 ==
  ASSUME type \in Types, NEW t, t \in Chunks
  PROVE  /\ type # "SocketV6" => FromV4(t) \subseteq Values
         /\ AtMostOne(FromV4(t))
<1>1. CASE type = "IPAddress"
  <2>1. PICK hosts : hosts = V4FromStr(t)
    OBVIOUS
  <2>2. hosts \subseteq [1..4 -> IP!Octet] /\ \A a, b \in hosts : a = b
    BY <2>1, V4Result
  <2>3. FromV4(t) = { [family |-> "V4", address |-> a] : a \in hosts }
    BY <1>1, <2>1 DEF FromV4
  <2>4. AtMostOne(FromV4(t))
    BY <2>2, <2>3 DEF AtMostOne
  <2>5. ASSUME type # "SocketV6", NEW x \in FromV4(t) PROVE x \in Values
    <3>1. PICK a \in hosts : x = [family |-> "V4", address |-> a]
      BY <2>3, <2>5
    <3>2. a \in [1..4 -> IP!Octet]
      BY <2>2
    <3>3. x \in [family : {"V4"}, address : [1..4 -> IP!Octet]]
      BY <3>1, <3>2, Zenon
    <3> QED
      BY <1>1, <2>5, <3>3, ValueOfV4
  <2> QED
    BY <2>4, <2>5
<1>2. CASE type # "IPAddress"
  <2>1. FromV4(t) = SocketV4FromStr(t)
    BY <1>2 DEF FromV4
  <2>2. SocketV4FromStr(t) \subseteq V4Sockets /\ AtMostOne(SocketV4FromStr(t))
    BY SocketsV4
  <2>3. ASSUME type # "SocketV6", NEW x \in FromV4(t) PROVE x \in Values
    <3>1. x \in V4Sockets
      BY <2>1, <2>2, <2>3
    <3> QED
      BY <1>2, <2>3, <3>1, ValueOfV4
  <2> QED
    BY <2>1, <2>2, <2>3
<1> QED
  BY <1>1, <1>2

LEMMA ReadV6 ==
  ASSUME type \in Types, NEW t, t \in Chunks
  PROVE  /\ type # "SocketV4" => FromV6(t) \subseteq Values
         /\ AtMostOne(FromV6(t))
         /\ type # "IPAddress" /\ t = << >> => FromV6(t) = {}
<1>1. CASE type = "IPAddress"
  <2>1. PICK hosts : hosts = V6FromStr(t)
    OBVIOUS
  <2>2. hosts \subseteq [1..8 -> Hextets] /\ \A a, b \in hosts : a = b
    BY <2>1, V6Result
  <2>3. FromV6(t) = { [family |-> "V6", address |-> a] : a \in hosts }
    BY <1>1, <2>1 DEF FromV6
  <2>4. AtMostOne(FromV6(t))
    BY <2>2, <2>3 DEF AtMostOne
  <2>5. ASSUME type # "SocketV4", NEW x \in FromV6(t) PROVE x \in Values
    <3>1. PICK a \in hosts : x = [family |-> "V6", address |-> a]
      BY <2>3, <2>5
    <3>2. a \in [1..8 -> IP!Words]
      BY <2>2, Ranges
    <3>3. x \in [family : {"V6"}, address : [1..8 -> IP!Words]]
      BY <3>1, <3>2, Zenon
    <3> QED
      BY <1>1, <2>5, <3>3, ValueOfV6
  <2> QED
    BY <1>1, <2>4, <2>5
<1>2. CASE type # "IPAddress"
  <2>1. FromV6(t) = SocketV6FromStr(t)
    BY <1>2 DEF FromV6
  <2>2. /\ SocketV6FromStr(t) \subseteq V6Sockets /\ AtMostOne(SocketV6FromStr(t))
        /\ t = << >> => SocketV6FromStr(t) = {}
    BY SocketsV6
  <2>3. ASSUME type # "SocketV4", NEW x \in FromV6(t) PROVE x \in Values
    <3>1. x \in V6Sockets
      BY <2>1, <2>2, <2>3
    <3> QED
      BY <1>2, <2>3, <3>1, ValueOfV6
  <2> QED
    BY <2>1, <2>2, <2>3
<1> QED
  BY <1>1, <1>2

-----------------------------------------------------------------------------
(* What ToString writes for a value is read as that value.                 *)
LEMMA ValueIs ==
  ASSUME NEW v, v \in Values
  PROVE  /\ v.family \in Families
         /\ type = "IPAddress" =>
              \/ /\ v = [family |-> "V4", address |-> v.address]
                 /\ v.address \in [1..4 -> IP!Octet] /\ v.family = "V4"
              \/ /\ v = [family |-> "V6", address |-> v.address]
                 /\ v.address \in [1..8 -> IP!Words] /\ v.family = "V6"
         /\ type # "IPAddress" =>
              \/ /\ v = Socket("V4", v.address, v.port) /\ v.family = "V4"
                 /\ v.address \in [1..4 -> IP!Octet] /\ v.port \in 0..MaxPort
              \/ /\ v = Socket("V6", v.address, v.port) /\ v.family = "V6"
                 /\ v.address \in [1..8 -> IP!Words] /\ v.port \in 0..MaxPort
<1>1. PICK A, B, P : A = [1..4 -> IP!Octet] /\ B = [1..8 -> IP!Words] /\ P = 0..MaxPort
  OBVIOUS
<1>2. v.family \in Families
  BY Zenon DEF Values
<1>3. ASSUME type = "IPAddress"
      PROVE  \/ v = [family |-> "V4", address |-> v.address] /\ v.address \in A /\ v.family = "V4"
             \/ v = [family |-> "V6", address |-> v.address] /\ v.address \in B /\ v.family = "V6"
  <2>1. v \in [family : {"V4"}, address : A] \/ v \in [family : {"V6"}, address : B]
    BY <1>1, <1>3, Zenon DEF Values, Addresses
  <2> QED
    BY <2>1
<1>4. ASSUME type # "IPAddress"
      PROVE  \/ /\ v = Socket("V4", v.address, v.port) /\ v.family = "V4"
                /\ v.address \in A /\ v.port \in P
             \/ /\ v = Socket("V6", v.address, v.port) /\ v.family = "V6"
                /\ v.address \in B /\ v.port \in P
  <2>1. \/ v \in [family : {"V4"}, address : A, port : P]
        \/ v \in [family : {"V6"}, address : B, port : P]
    BY <1>1, <1>4, Zenon DEF Values, Sockets
  <2> QED
    BY <2>1 DEF Socket
<1> QED
  BY <1>1, <1>2, <1>3, <1>4, Zenon

LEMMA TextOfV4 ==
  ASSUME NEW v, HasText(v), TypeOf(v) = "V4", v.address \in [1..4 -> IP!Octet]
  PROVE  \A k \in 1..4 : v.address[k] \in DOMAIN DecText
<1>1. DOMAIN v.address = 1..4
  OBVIOUS
<1> QED
  BY <1>1, Zenon DEF HasText

LEMMA TextOfV6 ==
  ASSUME NEW v, HasText(v), TypeOf(v) = "V6", v.address \in [1..8 -> IP!Words]
  PROVE  v.address \in Writable
<1>1. PICK a : a = v.address
  OBVIOUS
<1>2. DOMAIN a = 1..8 /\ a = [k \in 1..8 |-> a[k]]
  BY <1>1
<1>3. \A k \in 1..8 : a[k] \in DOMAIN HexText
  <2>1. "V6" # "V4"
    OBVIOUS
  <2> QED
    BY <1>1, <1>2, <2>1, Zenon DEF HasText
<1>4. PICK D : D = DOMAIN HexText
  OBVIOUS
<1>5. a \in [1..8 -> D]
  BY <1>2, <1>3, <1>4
<1> QED
  BY <1>1, <1>4, <1>5 DEF Writable


LEMMA PrintedV4 ==
  ASSUME NEW v, v \in Values, HasText(v), v.family = "V4"
  PROVE  Printed(v) \in Chunks /\ FromV4(Printed(v)) = {v}
<1>0. TypeOf(v) = "V4"
  BY DEF TypeOf
<1>1. v.address \in [1..4 -> IP!Octet]
  BY ValueIs
<1>2. \A k \in 1..4 : v.address[k] \in DOMAIN DecText
  BY <1>0, <1>1, TextOfV4
<1>3. PICK s : s = Printed(v)
  OBVIOUS
<1>4. CASE type = "IPAddress"
  <2>1. s = V4ToString(v.address)
    BY <1>0, <1>3, <1>4, Zenon DEF Printed, AddressText
  <2>2. s \in Seq(DotTokens) /\ V4FromStr(s) = {v.address}
    BY <1>1, <1>2, <2>1, V4Written
  <2>3. s \in Chunks
    BY <2>2, Narrower
  <2>4. v = [family |-> "V4", address |-> v.address]
    <3>1. "V4" # "V6"
      OBVIOUS
    <3> QED
      BY <1>4, <3>1, ValueIs, Zenon
  <2>5. FromV4(s) = {v}
    BY <1>4, <2>2, <2>4 DEF FromV4
  <2> QED
    BY <1>3, <2>3, <2>5
<1>5. CASE type # "IPAddress"
  <2>1. s = V4ToString(v.address) \o <<":", DecText[v.port]>>
    BY <1>0, <1>3, <1>5, Zenon DEF Printed, AddressText
  <2>2. v.port \in 0..MaxPort
    BY <1>5, ValueIs, Zenon
  <2>3. v.port \in DOMAIN DecText
    BY <1>5, Zenon DEF HasText
  <2>4. s \in Chunks /\ SocketV4FromStr(s) = {Socket("V4", v.address, v.port)}
    BY <1>1, <1>2, <2>1, <2>2, <2>3, SocketV4Written, Zenon
  <2>5. v = Socket("V4", v.address, v.port)
    <3>1. "V4" # "V6"
      OBVIOUS
    <3> QED
      BY <1>5, <3>1, ValueIs, Zenon
  <2>6. FromV4(s) = {v}
    BY <1>5, <2>4, <2>5, Zenon DEF FromV4
  <2> QED
    BY <1>3, <2>4, <2>6
<1> QED
  BY <1>4, <1>5

LEMMA PrintedV6 ==
  ASSUME NEW v, v \in Values, HasText(v), v.family = "V6"
  PROVE  /\ Printed(v) \in Chunks
         /\ FromV6(Printed(v)) = {v} /\ FromV4(Printed(v)) = {}
<1>0. TypeOf(v) = "V6" /\ "V6" # "V4"
  BY DEF TypeOf
<1>1. v.address \in [1..8 -> IP!Words]
  BY ValueIs
<1>2. v.address \in Writable
  BY <1>0, <1>1, TextOfV6
<1>3. PICK s : s = Printed(v)
  OBVIOUS
<1>4. CASE type = "IPAddress"
  <2>1. s = V6ToString(v.address)
    BY <1>0, <1>3, <1>4, Zenon DEF Printed, AddressText
  <2>2. s \in Seq(HexTokens) /\ V6FromStr(s) = {v.address} /\ V4FromStr(s) = {}
    BY <1>2, <2>1, V6Written
  <2>3. s \in Chunks
    BY <2>2, Narrower
  <2>4. v = [family |-> "V6", address |-> v.address]
    BY <1>0, <1>4, ValueIs, Zenon
  <2>5. FromV6(s) = {v} /\ FromV4(s) = {}
    BY <1>4, <2>2, <2>4 DEF FromV6, FromV4
  <2> QED
    BY <1>3, <2>3, <2>5
<1>5. CASE type # "IPAddress"
  <2>1. s = <<"[">> \o V6ToString(v.address) \o <<"]", ":", DecText[v.port]>>
    BY <1>0, <1>3, <1>5, Zenon DEF Printed, AddressText
  <2>2. v.port \in 0..MaxPort
    BY <1>5, ValueIs, Zenon
  <2>3. v.port \in DOMAIN DecText
    BY <1>5, Zenon DEF HasText
  <2>4. s \in Chunks /\ SocketV6FromStr(s) = {Socket("V6", v.address, v.port)}
    BY <1>2, <2>1, <2>2, <2>3, SocketV6Written, Zenon
  <2>5. v = Socket("V6", v.address, v.port)
    BY <1>0, <1>5, ValueIs, Zenon
  <2>6. FromV6(s) = {v}
    BY <1>5, <2>4, <2>5, Zenon DEF FromV6
  <2>7. FromV4(s) = {}
    <3>1. SocketV6FromStr(s) # {}
      BY <2>4
    <3>2. SocketV4FromStr(s) = {}
      BY <2>4, <3>1, NotBoth
    <3> QED
      BY <1>5, <3>2 DEF FromV4
  <2> QED
    BY <1>3, <2>4, <2>6, <2>7
<1> QED
  BY <1>4, <1>5

-----------------------------------------------------------------------------
(* The invariant.  Until a parser has answered there is neither a value    *)
(* nor an error; IPv6 is asked behind IPv4 only when the latter has        *)
(* refused the text; an answer is one that a parser asked gives, and a     *)
(* refusal that of all of them; and a text that ToString has written is    *)
(* on its way to be read as the value it was written for.                  *)
Waiting == stage # "done" => value = NULL /\ error = "none" /\ ~edited

AskInv ==
  /\ stage = "v4" => type # "SocketV6"
  /\ stage = "v6" => type # "SocketV4"
  /\ stage = "v6" /\ type # "SocketV6" => FromV4(text) = {}

Answered ==
  \/ type # "SocketV6" /\ value \in FromV4(text)
  \/ type # "SocketV4" /\ value \in FromV6(text)

Refused ==
  /\ type # "SocketV6" => FromV4(text) = {}
  /\ type # "SocketV4" => FromV6(text) = {}

AnswerInv ==
  stage = "done" =>
    /\ value = NULL =>
         /\ Refused
         /\ type = "SocketV4" => error = SocketV4Error(text)
         /\ type = "SocketV6" => error \in {SocketV6Error(text), "out_of_range"}
    /\ value # NULL => error = "none" /\ (~edited => Answered)

SourceInv ==
  source # NULL =>
    /\ text = Printed(source) /\ HasText(source)
    /\ stage = "v6" => source.family = "V6"
    /\ stage = "done" => value = source

IInv == TypeOK /\ Waiting /\ AskInv /\ AnswerInv /\ SourceInv

LEMMA NullIsNoValue == NULL \notin Values
<1>1. NULL \notin Addresses /\ NULL \notin Sockets
  BY ProgramAssumption
<1> QED
  BY <1>1, Zenon DEF Values

LEMMA SourceValue ==
  ASSUME TypeOK, source # NULL
  PROVE  source \in Values /\ source.family \in {"V4", "V6"}
<1>1. source \in Values
  BY DEF TypeOK
<1> QED
  BY <1>1, ValueIs, TypeFamilies DEF TypeOK

LEMMA ErrorKinds ==
  ASSUME NEW t
  PROVE  /\ SocketV4Error(t) \in {"invalidAddress", "invalidIntegral"}
         /\ SocketV6Error(t) \in {"invalidAddress", "invalidIntegral",
                                  "invalidBracketPlacement"}
<1>1. SocketV4Error(t) \in {"invalidAddress", "invalidIntegral"}
  BY DEF SocketV4Error
<1> QED
  BY <1>1, Zenon DEF SocketV6Error

LEMMA InitInv == Init => IInv
<1> SUFFICES ASSUME Init PROVE IInv
  OBVIOUS
<1>1. /\ type \in Types /\ stage = FirstAsked /\ stage # "done"
      /\ value = NULL /\ error = "none" /\ source = NULL /\ edited = FALSE
  BY DEF Init, FirstAsked
<1>2. text \in Chunks
  BY ProgramAssumption DEF Init
<1>3. TypeOK
  BY <1>1, <1>2 DEF TypeOK, FirstAsked
<1>4. AskInv
  BY <1>1 DEF AskInv, FirstAsked, Types
<1> QED
  BY <1>1, <1>3, <1>4 DEF IInv, Waiting, AnswerInv, SourceInv

(* What a step leaves alone says the same of the texts. *)
LEMMA Unmoved ==
  ASSUME UNCHANGED <<type, text>>
  PROVE  /\ FromV4(text)' = FromV4(text) /\ FromV6(text)' = FromV6(text)
         /\ SocketV4Error(text)' = SocketV4Error(text)
         /\ SocketV6Error(text)' = SocketV6Error(text)
         /\ Values' = Values
<1>1. type' = type /\ text' = text
  OBVIOUS
<1>2. FromV4(text)' = FromV4(text)
  BY <1>1 DEF FromV4
<1>3. FromV6(text)' = FromV6(text)
  BY <1>1 DEF FromV6
<1>4. SocketV4Error(text)' = SocketV4Error(text)
  BY <1>1
<1>5. SocketV6Error(text)' = SocketV6Error(text)
  BY <1>1
<1>6. Values' = Values
  BY <1>1, Zenon DEF Values, Families
<1> QED
  BY <1>2, <1>3, <1>4, <1>5, <1>6

LEMMA UnmovedSource ==
  ASSUME UNCHANGED <<type, source>>
  PROVE  Printed(source)' = Printed(source) /\ HasText(source)' = HasText(source)
<1>1. type' = type /\ source' = source
  OBVIOUS
<1>2. Printed(source)' = Printed(source)
  BY <1>1, Zenon DEF Printed
<1>3. HasText(source)' = HasText(source)
  BY <1>1, Zenon DEF HasText
<1> QED
  BY <1>2, <1>3

(* Every answer of a parser keeps the invariant. *)
LEMMA Accepted ==
  ASSUME IInv, stage # "done", NEW result, result \in Values,
         \/ type # "SocketV6" /\ result \in FromV4(text)
         \/ type # "SocketV4" /\ result \in FromV6(text),
         source # NULL => result = source,
         Accept(result)
  PROVE  IInv'
<1>1. /\ value' = result /\ stage' = "done" /\ type' = type /\ text' = text
      /\ error' = error /\ source' = source /\ edited' = edited
  BY DEF Accept
<1>2. TypeOK /\ error = "none" /\ SourceInv
  BY DEF IInv, Waiting
<1>3. result # NULL
  BY NullIsNoValue
<1>4. TypeOK'
  <2>1. Values' = Values
    BY <1>1, Unmoved
  <2> QED
    BY <1>1, <1>2, <2>1 DEF TypeOK
<1>5. Waiting' /\ AskInv'
  BY <1>1 DEF Waiting, AskInv
<1>6. AnswerInv'
  <2>1. FromV4(text)' = FromV4(text) /\ FromV6(text)' = FromV6(text)
    BY <1>1, Unmoved
  <2>2. Answered'
    BY <1>1, <2>1 DEF Answered
  <2>3. value' # NULL /\ error' = "none"
    BY <1>1, <1>2, <1>3
  <2> QED
    BY <2>2, <2>3 DEF AnswerInv
<1>7. SourceInv'
  <2>1. Printed(source)' = Printed(source) /\ HasText(source)' = HasText(source)
    BY <1>1, UnmovedSource
  <2> QED
    BY <1>1, <1>2, <2>1 DEF SourceInv
<1> QED
  BY <1>4, <1>5, <1>6, <1>7 DEF IInv

LEMMA Declined ==
  ASSUME IInv, stage # "done", source = NULL, Refused, NEW kind,
         kind \in {"invalid", "out_of_range", "invalidAddress",
                   "invalidIntegral", "invalidBracketPlacement"},
         type = "SocketV4" => kind = SocketV4Error(text),
         type = "SocketV6" => kind \in {SocketV6Error(text), "out_of_range"},
         Refuse(kind)
  PROVE  IInv'
<1>1. /\ value' = value /\ stage' = "done" /\ type' = type /\ text' = text
      /\ error' = kind /\ source' = source /\ edited' = edited
  BY DEF Refuse
<1>2. TypeOK /\ value = NULL
  BY DEF IInv, Waiting
<1>3. TypeOK'
  <2>1. Values' = Values
    BY <1>1, Unmoved
  <2> QED
    BY <1>1, <1>2, <2>1 DEF TypeOK
<1>4. Waiting' /\ AskInv' /\ SourceInv'
  BY <1>1 DEF Waiting, AskInv, SourceInv
<1>5. AnswerInv'
  <2>1. /\ FromV4(text)' = FromV4(text) /\ FromV6(text)' = FromV6(text)
        /\ SocketV4Error(text)' = SocketV4Error(text)
        /\ SocketV6Error(text)' = SocketV6Error(text)
    BY <1>1, Unmoved
  <2>2. Refused'
    BY <1>1, <2>1 DEF Refused
  <2>3. value' = NULL
    BY <1>1, <1>2
  <2>4. /\ type' = "SocketV4" => error' = SocketV4Error(text)'
        /\ type' = "SocketV6" => error' \in {SocketV6Error(text)', "out_of_range"}
    BY <1>1, <2>1
  <2> QED
    BY <2>2, <2>3, <2>4 DEF AnswerInv
<1> QED
  BY <1>3, <1>4, <1>5 DEF IInv

LEMMA TryV4Inv == IInv /\ TryV4 => IInv'
<1> SUFFICES ASSUME IInv, TryV4 PROVE IInv'
  OBVIOUS
<1>1. /\ TypeOK /\ SourceInv /\ AskInv /\ Waiting /\ stage = "v4" /\ type # "SocketV6"
      /\ type \in Types /\ text \in Chunks
  BY DEF IInv, TryV4, AskInv, TypeOK
<1>2. /\ source # NULL /\ source.family = "V4" => FromV4(text) = {source}
      /\ source # NULL /\ source.family = "V6" => FromV4(text) = {}
      /\ source # NULL => source.family \in {"V4", "V6"}
  BY <1>1, SourceValue, PrintedV4, PrintedV6 DEF SourceInv
<1>3. ASSUME NEW result \in FromV4(text), Accept(result) PROVE IInv'
  <2>1. result \in Values
    BY <1>1, ReadV4
  <2>2. source # NULL => result = source
    BY <1>2
  <2> QED
    BY <1>1, <1>3, <2>1, <2>2, Accepted
<1>4. CASE /\ FromV4(text) = {} /\ type = "SocketV4"
           /\ Refuse(SocketV4Error(text))
  <2>1. source = NULL
    <3>1. source # NULL => source.family \in Families
      BY <1>1, SourceValue, ValueIs
    <3> QED
      BY <1>2, <1>4, <3>1 DEF Families
  <2>2. Refused
    BY <1>4 DEF Refused
  <2>3. SocketV4Error(text) \in {"invalid", "out_of_range", "invalidAddress",
                                 "invalidIntegral", "invalidBracketPlacement"}
    BY ErrorKinds
  <2> QED
    BY <1>1, <1>4, <2>1, <2>2, <2>3, Declined
<1>5. CASE /\ FromV4(text) = {} /\ type # "SocketV4" /\ stage' = "v6"
           /\ UNCHANGED <<type, text, value, error, source, edited>>
  <2>1. /\ type' = type /\ text' = text /\ value' = value /\ error' = error
        /\ source' = source /\ edited' = edited /\ stage' = "v6"
    BY <1>5
  <2>2. TypeOK'
    <3>1. Values' = Values
      BY <2>1, Unmoved
    <3> QED
      BY <1>1, <2>1, <3>1 DEF TypeOK
  <2>3. Waiting' /\ AnswerInv'
    BY <1>1, <2>1 DEF Waiting, AnswerInv
  <2>4. AskInv'
    <3>1. FromV4(text)' = {}
      BY <1>5, <2>1, Unmoved
    <3> QED
      BY <1>5, <2>1, <3>1 DEF AskInv
  <2>5. SourceInv'
    <3>1. Printed(source)' = Printed(source) /\ HasText(source)' = HasText(source)
      BY <2>1, UnmovedSource
    <3>2. source # NULL => source.family = "V6"
      BY <1>2, <1>5
    <3> QED
      BY <1>1, <2>1, <3>1, <3>2 DEF SourceInv
  <2> QED
    BY <2>2, <2>3, <2>4, <2>5 DEF IInv
<1> QED
  BY <1>3, <1>4, <1>5 DEF TryV4

LEMMA TryV6Inv == IInv /\ TryV6 => IInv'
<1> SUFFICES ASSUME IInv, TryV6 PROVE IInv'
  OBVIOUS
<1>1. /\ TypeOK /\ SourceInv /\ AskInv /\ Waiting /\ stage = "v6" /\ type # "SocketV4"
      /\ type \in Types /\ text \in Chunks
      /\ type # "SocketV6" => FromV4(text) = {}
  BY DEF IInv, TryV6, AskInv, TypeOK
<1>2. source # NULL => FromV6(text) = {source}
  BY <1>1, SourceValue, PrintedV6 DEF SourceInv
<1>3. ASSUME NEW result \in FromV6(text), Accept(result) PROVE IInv'
  <2>1. result \in Values
    BY <1>1, ReadV6
  <2>2. source # NULL => result = source
    BY <1>2
  <2> QED
    BY <1>1, <1>3, <2>1, <2>2, Accepted
<1>4. ASSUME NEW kind, FromV6(text) = {}, Refuse(kind),
             kind \in {"invalid", "out_of_range", "invalidAddress",
                       "invalidIntegral", "invalidBracketPlacement"},
             type = "SocketV6" => kind \in {SocketV6Error(text), "out_of_range"}
      PROVE  IInv'
  <2>1. source = NULL
    BY <1>2, <1>4
  <2>2. Refused
    BY <1>1, <1>4 DEF Refused
  <2> QED
    BY <1>1, <1>4, <2>1, <2>2, Declined
<1>5. CASE /\ FromV6(text) = {}
           /\ Refuse(IF type = "SocketV6" THEN SocketV6Error(text) ELSE "invalid")
  <2>1. PICK kind : kind = IF type = "SocketV6" THEN SocketV6Error(text) ELSE "invalid"
    OBVIOUS
  <2>2. kind \in {"invalid", "invalidAddress", "invalidIntegral", "invalidBracketPlacement"}
    BY <2>1, ErrorKinds
  <2> QED
    BY <1>4, <1>5, <2>1, <2>2
<1>6. CASE type # "IPAddress" /\ text = << >> /\ Refuse("out_of_range")
  <2>1. FromV6(text) = {}
    BY <1>1, <1>6, ReadV6
  <2> QED
    BY <1>4, <1>6, <2>1
<1> QED
  BY <1>3, <1>5, <1>6 DEF TryV6

LEMMA SocketOf ==
  ASSUME type \in Types, type # "IPAddress", NEW f \in Families, NEW a, NEW p, p \in 0..MaxPort,
         f = "V4" => a \in [1..4 -> IP!Octet], f = "V6" => a \in [1..8 -> IP!Words]
  PROVE  Socket(f, a, p) \in Values
<1>1. PICK A, B, P : A = [1..4 -> IP!Octet] /\ B = [1..8 -> IP!Words] /\ P = 0..MaxPort
  OBVIOUS
<1>2. CASE f = "V4"
  <2>1. Socket("V4", a, p) \in [family : {"V4"}, address : A, port : P]
    BY <1>1, <1>2 DEF Socket
  <2>2. type # "SocketV6"
    BY <1>2, TypeFamilies
  <2>3. Socket("V4", a, p) \in V4Sockets
    BY <1>1, <2>1 DEF V4Sockets
  <2> QED
    BY <1>2, <2>2, <2>3, ValueOfV4
<1>3. CASE f = "V6"
  <2>1. Socket("V6", a, p) \in [family : {"V6"}, address : B, port : P]
    BY <1>1, <1>3 DEF Socket
  <2>2. type # "SocketV4"
    BY <1>3, TypeFamilies
  <2>3. Socket("V6", a, p) \in V6Sockets
    BY <1>1, <2>1 DEF V6Sockets
  <2> QED
    BY <1>3, <2>2, <2>3, ValueOfV6
<1> QED
  BY <1>2, <1>3, TypeFamilies

LEMMA HostIs ==
  ASSUME NEW h \in Hosts
  PROVE  \/ h.family = "V4" /\ h.address \in [1..4 -> IP!Octet]
         \/ h.family = "V6" /\ h.address \in [1..8 -> IP!Words]
<1>1. PICK A, B : A = [1..4 -> IP!Octet] /\ B = [1..8 -> IP!Words]
  OBVIOUS
<1>2. h \in Addresses
  BY ProgramAssumption
<1>3. h \in [family : {"V4"}, address : A] \/ h \in [family : {"V6"}, address : B]
  BY <1>1, <1>2, Zenon DEF Addresses
<1> QED
  BY <1>1, <1>3

(* An edited socket is one of its family. *)
LEMMA EditedValue ==
  ASSUME type \in Types, type # "IPAddress", NEW v, v \in Values
  PROVE  /\ \A port \in 0..MaxPort : SetPort(v, port) \in Values
         /\ \A host \in Hosts :
              TypeOf(host) = TypeOf(v) => SetAddress(v, host.address) \in Values
<1>1. v.family \in Families
  BY ValueIs
<1>2. /\ v = Socket(v.family, v.address, v.port) /\ v.port \in 0..MaxPort
      /\ v.family = "V4" => v.address \in [1..4 -> IP!Octet]
      /\ v.family = "V6" => v.address \in [1..8 -> IP!Words]
  <2>1. "V4" # "V6"
    OBVIOUS
  <2> QED
    BY <2>1, ValueIs, Zenon
<1>3. ASSUME NEW port \in 0..MaxPort PROVE SetPort(v, port) \in Values
  <2>1. SetPort(v, port) = Socket(v.family, v.address, port)
    BY <1>2 DEF Socket, SetPort
  <2>2. Socket(v.family, v.address, port) \in Values
    BY <1>1, <1>2, SocketOf
  <2> QED
    BY <2>1, <2>2
<1>4. ASSUME NEW host \in Hosts, TypeOf(host) = TypeOf(v)
      PROVE  SetAddress(v, host.address) \in Values
  <2>1. SetAddress(v, host.address) = Socket(v.family, host.address, v.port)
    BY <1>2 DEF Socket, SetAddress
  <2>2. host.family = v.family
    BY <1>4 DEF TypeOf
  <2>3. /\ v.family = "V4" => host.address \in [1..4 -> IP!Octet]
        /\ v.family = "V6" => host.address \in [1..8 -> IP!Words]
    <3>1. "V4" # "V6"
      OBVIOUS
    <3> QED
      BY <2>2, <3>1, HostIs, Zenon
  <2>4. Socket(v.family, host.address, v.port) \in Values
    BY <1>1, <1>2, <2>3, SocketOf
  <2> QED
    BY <2>1, <2>4
<1> QED
  BY <1>3, <1>4

LEMMA EditInv == IInv /\ Edit => IInv'
<1> SUFFICES ASSUME IInv, Edit PROVE IInv'
  OBVIOUS
<1>1. /\ type' = type /\ text' = text /\ stage' = stage /\ error' = error
      /\ source' = source /\ edited' = TRUE
      /\ stage = "done" /\ value # NULL /\ source = NULL /\ type # "IPAddress"
  BY DEF Edit
<1>2. TypeOK /\ AnswerInv /\ type \in Types /\ value \in Values
  BY <1>1 DEF IInv, TypeOK
<1>3. value' \in Values
  <2>1. \/ \E port \in DOMAIN DecText \cap 0..MaxPort : value' = SetPort(value, port)
        \/ \E host \in Hosts :
             TypeOf(host) = TypeOf(value) /\ value' = SetAddress(value, host.address)
    BY DEF Edit
  <2> QED
    BY <1>1, <1>2, <2>1, EditedValue
<1>4. TypeOK'
  <2>1. Values' = Values
    BY <1>1, Unmoved
  <2> QED
    BY <1>1, <1>2, <1>3, <2>1 DEF TypeOK
<1>5. Waiting' /\ AskInv' /\ SourceInv'
  BY <1>1 DEF Waiting, AskInv, SourceInv
<1>6. AnswerInv'
  <2>1. value' # NULL /\ error = "none"
    BY <1>1, <1>2, <1>3, NullIsNoValue DEF AnswerInv
  <2> QED
    BY <1>1, <2>1 DEF AnswerInv
<1> QED
  BY <1>4, <1>5, <1>6 DEF IInv

LEMMA ReadBackInv == IInv /\ ReadBack => IInv'
<1> SUFFICES ASSUME IInv, ReadBack PROVE IInv'
  OBVIOUS
<1>1. /\ type' = type /\ text' = Printed(value) /\ stage' = FirstAsked /\ error' = error
      /\ source' = value /\ value' = NULL /\ edited' = FALSE
      /\ stage = "done" /\ value # NULL /\ HasText(value)
  BY DEF ReadBack
<1>2. TypeOK /\ error = "none" /\ type \in Types /\ value \in Values
  BY <1>1 DEF IInv, AnswerInv, TypeOK
<1>3. value.family \in Families /\ value.family \in {"V4", "V6"}
  BY <1>2, ValueIs, TypeFamilies
<1>4. stage' \in {"v4", "v6"} /\ (stage' = "v6" <=> type = "SocketV6")
  BY <1>1 DEF FirstAsked
<1>5. TypeOK'
  <2>1. Values' = Values
    BY <1>1, Zenon DEF Values, Families
  <2>2. Printed(value) \in Chunks
    BY <1>1, <1>2, <1>3, PrintedV4, PrintedV6
  <2> QED
    BY <1>1, <1>2, <1>4, <2>1, <2>2 DEF TypeOK
<1>6. Waiting' /\ AnswerInv'
  BY <1>1, <1>2, <1>4 DEF Waiting, AnswerInv
<1>7. AskInv'
  BY <1>1, <1>4 DEF AskInv
<1>8. SourceInv'
  <2>1. Printed(source)' = Printed(value)
    BY <1>1, Zenon DEF Printed
  <2>2. HasText(source)' = HasText(value)
    BY <1>1, Zenon DEF HasText
  <2>3. stage' = "v6" => value.family = "V6"
    BY <1>3, <1>4 DEF Families
  <2> QED
    BY <1>1, <1>4, <2>1, <2>2, <2>3 DEF SourceInv
<1> QED
  BY <1>5, <1>6, <1>7, <1>8 DEF IInv

LEMMA StutterInv == IInv /\ UNCHANGED vars => IInv'
<1> SUFFICES ASSUME IInv, UNCHANGED vars PROVE IInv'
  OBVIOUS
<1>1. /\ type' = type /\ text' = text /\ stage' = stage /\ error' = error
      /\ value' = value /\ source' = source /\ edited' = edited
  BY DEF vars
<1>2. /\ FromV4(text)' = FromV4(text) /\ FromV6(text)' = FromV6(text)
      /\ SocketV4Error(text)' = SocketV4Error(text)
      /\ SocketV6Error(text)' = SocketV6Error(text)
      /\ Values' = Values
  BY <1>1, Unmoved
<1>3. Printed(source)' = Printed(source) /\ HasText(source)' = HasText(source)
  BY <1>1, UnmovedSource
<1>4. TypeOK'
  BY <1>1, <1>2 DEF IInv, TypeOK
<1>5. Waiting' /\ AskInv'
  BY <1>1, <1>2 DEF IInv, Waiting, AskInv
<1>6. AnswerInv'
  <2>1. (Refused' <=> Refused) /\ (Answered' <=> Answered)
    BY <1>1, <1>2 DEF Refused, Answered
  <2> QED
    BY <1>1, <1>2, <2>1 DEF IInv, AnswerInv
<1>7. SourceInv'
  BY <1>1, <1>3 DEF IInv, SourceInv
<1> QED
  BY <1>4, <1>5, <1>6, <1>7 DEF IInv

THEOREM Invariant == Spec => []IInv
<1>1. IInv /\ [Next]_vars => IInv'
  BY TryV4Inv, TryV6Inv, EditInv, ReadBackInv, StutterInv DEF Next
<1> QED
  BY <1>1, InitInv, PTL DEF Spec

(* Every variable keeps its type: what FromStr returns, what a program     *)
(* makes of it and what ToString writes stay within the values of the type *)
(* and the texts, whatever the texts are.                                  *)
THEOREM TypesKept == Spec => []TypeOK
<1>1. IInv => TypeOK
  BY DEF IInv
<1> QED
  BY <1>1, Invariant, PTL

(* What ToString writes for an address or a socket, edited or not, FromStr *)
(* reads as the same value, although IPv4 is asked before IPv6: for every  *)
(* table of texts that std::format and std::hex may write.                 *)
THEOREM ReadsBackBoth == Spec => []RoundTrip
<1>1. IInv => RoundTrip
  BY DEF IInv, SourceInv, RoundTrip
<1> QED
  BY <1>1, Invariant, PTL

-----------------------------------------------------------------------------
(* The divisions of a text into host and rest, and what they say of it.    *)
DivisionAt(family, i) ==
  <<family, SubSeq(text, 1, i), SubSeq(text, i + 1, Len(text))>>

LEMMA DivisionIs ==
  /\ \A d \in Divisions : \E f \in Families, i \in 0..Len(text) : d = DivisionAt(f, i)
  /\ \A f \in Families, i \in 0..Len(text) : DivisionAt(f, i) \in Divisions
<1>1. Divisions = { DivisionAt(f, i) : f \in Families, i \in 0..Len(text) }
  BY DEF Divisions, DivisionAt
<1> QED
  BY <1>1

LEMMA DivisionHas ==
  ASSUME NEW f, NEW i
  PROVE  /\ DivisionAt(f, i)[1] = f
         /\ DivisionAt(f, i)[2] = SubSeq(text, 1, i)
         /\ DivisionAt(f, i)[3] = SubSeq(text, i + 1, Len(text))
<1>1. PICK h, r : h = SubSeq(text, 1, i) /\ r = SubSeq(text, i + 1, Len(text))
  OBVIOUS
<1>2. DivisionAt(f, i) = <<f, h, r>>
  BY <1>1, Zenon DEF DivisionAt
<1>3. <<f, h, r>>[1] = f /\ <<f, h, r>>[2] = h /\ <<f, h, r>>[3] = r
  OBVIOUS
<1> QED
  BY <1>1, <1>2, <1>3, Zenon

(* The sockets that some division gives. *)
AllSaid == UNION { SocketsWritten(d) : d \in Divisions }

LEMMA SaidIs ==
  ASSUME NEW f, NEW i
  PROVE  SocketsWritten(DivisionAt(f, i)) = Said(f, text, i)
<1>1. PICK d : d = DivisionAt(f, i)
  OBVIOUS
<1>2. SocketsWritten(d) = Of(d[1], HostsWritten(d[1], d[2]), PortsWritten(d[1], d[3]))
  BY DEF SocketsWritten, Of
<1>3. d[1] = f /\ d[2] = SubSeq(text, 1, i) /\ d[3] = SubSeq(text, i + 1, Len(text))
  BY <1>1, DivisionHas, Zenon
<1> QED
  BY <1>1, <1>2, <1>3, Zenon DEF Said

LEMMA AllSaidIs ==
  ASSUME NEW x
  PROVE  x \in AllSaid <=> \E f \in Families, i \in 0..Len(text) : x \in Said(f, text, i)
<1>1. x \in AllSaid <=> \E d \in Divisions : x \in SocketsWritten(d)
  BY Zenon DEF AllSaid
<1> QED
  BY <1>1, DivisionIs, SaidIs

LEMMA EitherSaid ==
  ASSUME type \in Types, type # "IPAddress", text \in Chunks, NEW x
  PROVE  x \in AllSaid <=> \/ type # "SocketV6" /\ x \in FromV4(text)
                           \/ type # "SocketV4" /\ x \in FromV6(text)
<1>0. text \in Seq(Tokens)
  BY DEF Chunks, Tokens
<1>1. PICK n \in Nat : n = Len(text)
  BY <1>0
<1>2. PICK colon \in 1..(n + 1) : colon = Find(text, ":")
  BY <1>0, <1>1, FindFinds
<1>3. PICK close \in 1..(n + 1) : close = Find(text, "]")
  BY <1>0, <1>1, FindFinds
<1>4. (\E i \in 0..Len(text) : x \in Said("V4", text, i)) <=> x \in FromV4(text)
  <2>1. FromV4(text) = SocketV4FromStr(text)
    BY DEF FromV4
  <2>2. \A i \in 0..Len(text) : x \in Said("V4", text, i) => x \in SocketV4FromStr(text)
    BY V4Said
  <2>3. PICK i \in 0..Len(text) : i = colon - 1
    BY <1>1, <1>2
  <2>4. Said("V4", text, i) = SocketV4FromStr(text)
    BY <1>2, <2>3, V4Said
  <2> QED
    BY <2>1, <2>2, <2>4
<1>5. (\E i \in 0..Len(text) : x \in Said("V6", text, i)) <=> x \in FromV6(text)
  <2>1. FromV6(text) = SocketV6FromStr(text)
    BY DEF FromV6
  <2>2. \A i \in 0..Len(text) : x \in Said("V6", text, i) => x \in SocketV6FromStr(text)
    BY V6Said
  <2>3. ASSUME x \in SocketV6FromStr(text)
        PROVE  \E i \in 0..Len(text) : x \in Said("V6", text, i)
    <3>1. Bracketed(text)
      BY <2>3, <1>3, V6FromStrOf
    <3>2. PICK i \in 0..Len(text) : i = close
      BY <1>1, <1>3, <3>1 DEF Bracketed
    <3>3. Said("V6", text, i) = SocketV6FromStr(text)
      BY <1>3, <3>1, <3>2, V6Said
    <3> QED
      BY <2>3, <3>2, <3>3
  <2> QED
    BY <2>1, <2>2, <2>3
<1>6. x \in AllSaid <=>
        \/ "V4" \in Families /\ \E i \in 0..Len(text) : x \in Said("V4", text, i)
        \/ "V6" \in Families /\ \E i \in 0..Len(text) : x \in Said("V6", text, i)
  BY AllSaidIs, TypeFamilies
<1> QED
  BY <1>4, <1>5, <1>6, TypeFamilies

LEMMA AnswerIsSaid ==
  ASSUME IInv, type # "IPAddress", stage = "done", ~edited
  PROVE  AllSaid = {value} \ {NULL}
<1>1. type \in Types /\ text \in Chunks /\ AnswerInv
  BY DEF IInv, TypeOK
<1>2. CASE value = NULL
  <2>1. \A x : ~(x \in AllSaid)
    BY <1>1, <1>2, EitherSaid DEF AnswerInv, Refused
  <2> QED
    BY <1>2, <2>1
<1>3. CASE value # NULL
  <2>1. Answered
    BY <1>1, <1>3 DEF AnswerInv
  <2>2. value \in AllSaid
    BY <1>1, <2>1, EitherSaid DEF Answered
  <2>3. AtMostOne(FromV4(text)) /\ AtMostOne(FromV6(text))
    BY <1>1, ReadV4, ReadV6
  <2>4. FromV4(text) = {} \/ FromV6(text) = {}
    BY <1>1, NotBoth DEF FromV4, FromV6
  <2>5. ASSUME NEW x \in AllSaid PROVE x = value
    <3>1. \/ type # "SocketV6" /\ x \in FromV4(text)
          \/ type # "SocketV4" /\ x \in FromV6(text)
      BY <1>1, <2>5, EitherSaid
    <3> QED
      BY <2>1, <2>3, <2>4, <3>1 DEF Answered, AtMostOne
  <2> QED
    BY <1>3, <2>2, <2>5
<1> QED
  BY <1>2, <1>3

(* The socket returned is the only one that any way of dividing the text   *)
(* into host and port gives in the families asked, and a text that some    *)
(* way gives a socket is never refused: SplitOnce at the first colon and   *)
(* the search for the bracket miss no other reading.                       *)
THEOREM AsWritten == Spec => []SocketsAsWritten
<1>1. ASSUME IInv PROVE SocketsAsWritten
  <2>1. type # "IPAddress" /\ stage = "done" /\ ~edited => AllSaid = {value} \ {NULL}
    BY <1>1, AnswerIsSaid
  <2> QED
    BY <2>1, Zenon DEF SocketsAsWritten, AllSaid
<1> QED
  BY <1>1, Invariant, PTL

-----------------------------------------------------------------------------
(* The part at fault.  A host can be read at a division, and it ends where *)
(* the text or its port begins.                                            *)
Readable(f, i) == HostsWritten(f, SubSeq(text, 1, i)) # {}
EndedAt(i)     == Ends(SubSeq(text, i + 1, Len(text)))

LEMMA ReadableAt ==
  ASSUME NEW f, Families = {f}
  PROVE  /\ (\E d \in Divisions : HostsWritten(d[1], d[2]) # {})
              <=> \E i \in 0..Len(text) : Readable(f, i)
         /\ (\E d \in Divisions :
               HostsWritten(d[1], d[2]) # {} /\ (d[3] = << >> \/ d[3][1] = ":"))
              <=> \E i \in 0..Len(text) : Readable(f, i) /\ EndedAt(i)
<1>1. ASSUME NEW d \in Divisions
      PROVE  \E i \in 0..Len(text) :
               /\ Readable(f, i) <=> HostsWritten(d[1], d[2]) # {}
               /\ EndedAt(i) <=> d[3] = << >> \/ d[3][1] = ":"
  <2>1. PICK i \in 0..Len(text) : d = DivisionAt(f, i)
    BY DivisionIs
  <2>2. d[1] = f /\ d[2] = SubSeq(text, 1, i) /\ d[3] = SubSeq(text, i + 1, Len(text))
    BY <2>1, DivisionHas, Zenon
  <2> QED
    BY <2>2, Zenon DEF Readable, EndedAt, Ends
<1>2. ASSUME NEW i \in 0..Len(text)
      PROVE  \E d \in Divisions :
               /\ Readable(f, i) <=> HostsWritten(d[1], d[2]) # {}
               /\ EndedAt(i) <=> d[3] = << >> \/ d[3][1] = ":"
  <2>1. PICK d \in Divisions : d = DivisionAt(f, i)
    BY DivisionIs
  <2>2. d[1] = f /\ d[2] = SubSeq(text, 1, i) /\ d[3] = SubSeq(text, i + 1, Len(text))
    BY <2>1, DivisionHas, Zenon
  <2> QED
    BY <2>2, Zenon DEF Readable, EndedAt, Ends
<1> QED
  BY <1>1, <1>2, Zenon

LEMMA EndedV4 ==
  ASSUME text \in Chunks
  PROVE  (\E i \in 0..Len(text) : Readable("V4", i) /\ EndedAt(i))
           <=> SocketV4Error(text) # "invalidAddress"
<1>0. text \in Seq(Tokens)
  BY DEF Chunks, Tokens
<1>1. PICK n \in Nat : n = Len(text)
  BY <1>0
<1>2. PICK colon \in 1..(n + 1) : colon = Find(text, ":")
  BY <1>0, <1>1, FindFinds
<1>3. PICK hosts : hosts = V4FromStr(Before(text, colon))
  OBVIOUS
<1>4. SocketV4Error(text) # "invalidAddress" <=> hosts # {}
  BY <1>2, <1>3 DEF SocketV4Error
<1>5. ASSUME NEW i \in 0..Len(text), Readable("V4", i), EndedAt(i) PROVE hosts # {}
  BY <1>2, <1>3, <1>5, V4Host DEF Readable, EndedAt
<1>6. ASSUME hosts # {} PROVE \E i \in 0..Len(text) : Readable("V4", i) /\ EndedAt(i)
  <2>1. PICK i \in 0..Len(text) : i = colon - 1
    BY <1>1, <1>2
  <2> QED
    BY <1>2, <1>3, <1>6, <2>1, V4Host DEF Readable, EndedAt
<1> QED
  BY <1>4, <1>5, <1>6

LEMMA EndedV6 ==
  ASSUME text \in Chunks, SocketV6FromStr(text) = {}
  PROVE  /\ (\E i \in 0..Len(text) : Readable("V6", i) /\ EndedAt(i))
              <=> SocketV6Error(text) = "invalidIntegral"
         /\ SocketV6Error(text) = "invalidAddress" =>
              /\ \A i \in 0..Len(text) : ~Readable("V6", i)
              /\ Head(text) = "[" /\ Contains(text, "]")
<1>0. text \in Seq(Tokens)
  BY DEF Chunks, Tokens
<1>1. PICK n \in Nat : n = Len(text)
  BY <1>0
<1>2. PICK close \in 1..(n + 1) : /\ close = Find(text, "]")
                                  /\ close <= n => text[close] = "]"
  BY <1>0, <1>1, FindFinds
<1>3. PICK hosts : hosts = V6FromStr(SubSeq(text, 2, close - 1))
  OBVIOUS
<1>4. \A i \in 0..Len(text) : Readable("V6", i) => Bracketed(text) /\ i = close /\ hosts # {}
  BY <1>2, <1>3, V6Host DEF Readable
<1>5. text # << >> => Head(text) = text[1]
  OBVIOUS
<1>6. CASE ~Bracketed(text)
  <2>1. SocketV6Error(text) = "invalidBracketPlacement"
    BY <1>1, <1>2, <1>5, <1>6 DEF Bracketed, SocketV6Error
  <2> QED
    BY <1>4, <1>6, <2>1
<1>7. CASE Bracketed(text)
  <2>1. /\ text # << >> /\ Head(text) = "[" /\ close <= Len(text)
        /\ close \in 1..n /\ text[close] = "]"
    BY <1>1, <1>2, <1>5, <1>7 DEF Bracketed
  <2>2. SocketV6Error(text)
          = IF hosts = {} THEN "invalidAddress"
            ELSE IF text[close + 1] # ":" THEN "invalidBracketPlacement"
            ELSE "invalidIntegral"
    <3>1. ~(close > Len(text))
      BY <1>1, <2>1
    <3> QED
      BY <1>2, <1>3, <2>1, <3>1, Zenon DEF SocketV6Error
  <2>3. PICK i \in 0..Len(text) : i = close
    BY <1>1, <2>1
  <2>4. Readable("V6", i) <=> hosts # {}
    BY <1>2, <1>3, <1>7, <2>3, V6Host DEF Readable
  <2>5. EndedAt(i) <=> i = Len(text) \/ text[close + 1] = ":"
    BY <2>3, RestEnds DEF EndedAt
  <2>6. hosts # {} => i # Len(text)
    <3> SUFFICES ASSUME hosts # {}, i = Len(text) PROVE FALSE
      OBVIOUS
    <3>1. After(text, close) = << >>
      BY <2>3, RestEnds DEF After
    <3>2. PortBehind(After(text, close)) = {0}
      BY <3>1, Zenon DEF PortBehind
    <3>3. SocketV6FromStr(text) = Of("V6", hosts, {0})
      BY <1>2, <1>3, <1>7, <3>2, V6FromStrOf
    <3> QED
      BY <3>3 DEF Of
  <2>7. (\E j \in 0..Len(text) : Readable("V6", j) /\ EndedAt(j))
          <=> Readable("V6", i) /\ EndedAt(i)
    BY <1>4, <2>3
  <2>8. Contains(text, "]")
    BY <1>1, <2>1 DEF Contains
  <2> QED
    BY <1>4, <2>1, <2>2, <2>4, <2>5, <2>6, <2>7, <2>8, Zenon
<1> QED
  BY <1>6, <1>7

LEMMA FaultIsBlamed ==
  ASSUME IInv, stage = "done", type \in {"SocketV4", "SocketV6"}
  PROVE  /\ error = "invalidIntegral" =>
              \E d \in Divisions :
                HostsWritten(d[1], d[2]) # {} /\ (d[3] = << >> \/ d[3][1] = ":")
         /\ error \in {"invalidAddress", "invalidBracketPlacement"} =>
              ~\E d \in Divisions :
                 HostsWritten(d[1], d[2]) # {} /\ (d[3] = << >> \/ d[3][1] = ":")
         /\ type = "SocketV6" /\ error = "invalidAddress" =>
              /\ ~\E d \in Divisions : HostsWritten(d[1], d[2]) # {}
              /\ Head(text) = "[" /\ Contains(text, "]")
<1>1. text \in Chunks /\ AnswerInv
  BY DEF IInv, TypeOK
<1>2. CASE value # NULL
  <2>1. error = "none"
    BY <1>1, <1>2 DEF AnswerInv
  <2> QED
    BY <2>1
<1>3. CASE value = NULL /\ type = "SocketV4"
  <2>1. Families = {"V4"}
    BY <1>3 DEF Families
  <2>2. error = SocketV4Error(text)
    BY <1>1, <1>3 DEF AnswerInv
  <2>3. error \in {"invalidAddress", "invalidIntegral"}
    BY <2>2, ErrorKinds
  <2>4. (\E d \in Divisions :
           HostsWritten(d[1], d[2]) # {} /\ (d[3] = << >> \/ d[3][1] = ":"))
          <=> error # "invalidAddress"
    BY <1>1, <2>1, <2>2, ReadableAt, EndedV4, Zenon
  <2> QED
    BY <1>3, <2>3, <2>4
<1>4. CASE value = NULL /\ type = "SocketV6"
  <2>1. Families = {"V6"}
    BY <1>4 DEF Families
  <2>2. error \in {SocketV6Error(text), "out_of_range"}
    BY <1>1, <1>4 DEF AnswerInv
  <2>3. SocketV6FromStr(text) = {}
    BY <1>1, <1>4 DEF AnswerInv, Refused, FromV6
  <2>4. PICK kind : kind = SocketV6Error(text)
    OBVIOUS
  <2>5. (\E d \in Divisions :
           HostsWritten(d[1], d[2]) # {} /\ (d[3] = << >> \/ d[3][1] = ":"))
          <=> kind = "invalidIntegral"
    BY <1>1, <2>1, <2>3, <2>4, ReadableAt, EndedV6, Zenon
  <2>6. kind = "invalidAddress" =>
          /\ ~\E d \in Divisions : HostsWritten(d[1], d[2]) # {}
          /\ Head(text) = "[" /\ Contains(text, "]")
    BY <1>1, <2>1, <2>3, <2>4, ReadableAt, EndedV6, Zenon
  <2> QED
    BY <2>2, <2>4, <2>5, <2>6
<1> QED
  BY <1>2, <1>3, <1>4

(* A socket parser blames the port only when some host can be read that    *)
(* ends where the text or its port begins; it blames the host or the       *)
(* brackets only when none can; and it blames the host of an IPv6 socket   *)
(* only when it found brackets and no division reads a host in them.       *)
THEOREM BlamesRightPart == Spec => []BlamesPartAtFault
<1>1. ASSUME IInv PROVE BlamesPartAtFault
  <2> DEFINE readable == { d \in Divisions : HostsWritten(d[1], d[2]) # {} }
             ended    == { d \in readable : d[3] = << >> \/ d[3][1] = ":" }
  <2>1. SUFFICES ASSUME stage = "done", type \in {"SocketV4", "SocketV6"}
                 PROVE  /\ error = "invalidIntegral" => ended # {}
                        /\ error \in {"invalidAddress", "invalidBracketPlacement"} =>
                             ended = {}
                        /\ type = "SocketV6" /\ error = "invalidAddress" =>
                             readable = {} /\ Head(text) = "[" /\ Contains(text, "]")
    BY DEF BlamesPartAtFault
  <2>2. ended # {} <=>
          \E d \in Divisions :
            HostsWritten(d[1], d[2]) # {} /\ (d[3] = << >> \/ d[3][1] = ":")
    OBVIOUS
  <2>3. readable # {} <=> \E d \in Divisions : HostsWritten(d[1], d[2]) # {}
    OBVIOUS
  <2> HIDE DEF readable, ended
  <2> QED
    BY <1>1, <2>1, <2>2, <2>3, FaultIsBlamed
<1> QED
  BY <1>1, Invariant, PTL
=============================================================================
