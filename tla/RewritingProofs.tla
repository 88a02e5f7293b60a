-------------------------- MODULE RewritingProofs --------------------------
(******************************************************************************)
(* Proofs about RuleMatching: whatever the pattern, the text, the rules and   *)
(* the requests, the greedy matcher decides what a pattern means, the rule    *)
(* that answers is the first that matches, and a request that says more       *)
(* keeps its mock.  And about Patches: whatever the operations and the body,  *)
(* a patch keeps to its path and leaves a tree.                               *)
(*                                                                            *)
(* The matcher and the walk along a path are recursive.  Induction is done on *)
(* sets of numbers: a set that has 0 and with n also n + 1 is Nat, as the     *)
(* least number outside it would not be least.                                *)
(*                                                                            *)
(* Trees are handled by Tree, which says of an array that its children are    *)
(* the row of elements 0..m-1 for some m, and the operations by what they     *)
(* carry over: Put by Carries, Shift by Shifted (the elements that stay and   *)
(* those that move down one), the walk by Walking.                            *)
(******************************************************************************)
EXTENDS RuleMatching, Patches, FiniteSetTheorems, TLAPS

-----------------------------------------------------------------------------
(* Induction for a set of numbers, from the least number outside it.          *)
LEMMA Induction ==
    ASSUME NEW P \in SUBSET Nat, 0 \in P, \A n \in P : n + 1 \in P
    PROVE  P = Nat
<1> SUFFICES ASSUME Nat \ P # {} PROVE FALSE
    OBVIOUS
<1> DEFINE R == OpToRel(<, Nat)
<1>1. IsWellFoundedOn(R, Nat)
    BY NatLessThanWellFounded
<1>2. \A x, y \in Nat : y < x => <<y, x>> \in R
    BY DEF OpToRel
<1> HIDE DEF R
<1>3. PICK n \in Nat \ P : \A y \in Nat \ P : ~(<<y, n>> \in R)
    BY <1>1, WFMin, Zenon
<1>4. \A y \in Nat \ P : ~(y < n)
    BY <1>2, <1>3
<1>5. n - 1 \in Nat /\ n - 1 < n
    BY <1>3
<1>6. n - 1 \in P
    BY <1>4, <1>5
<1>7. (n - 1) + 1 \in P
    BY <1>6
<1> QED
    BY <1>3, <1>7

LEMMA InductionUpTo ==
    ASSUME NEW N \in Nat, NEW P \in SUBSET (0..N), 0 \in P, \A n \in P : n < N => n + 1 \in P
    PROVE  P = 0..N
<1> DEFINE Q == P \cup {n \in Nat : n > N}
<1>1. Q \in SUBSET Nat /\ 0 \in Q
    <2>1. \A n \in P : n \in Nat
        OBVIOUS
    <2> QED
        BY <2>1
<1>2. ASSUME NEW n \in Q PROVE n + 1 \in Q
    <2>1. CASE n \in P
        BY <2>1
    <2>2. CASE n \in Nat /\ n > N
        BY <2>2
    <2> QED
        BY <1>2, <2>1, <2>2
<1> HIDE DEF Q
<1>3. Q = Nat
    BY <1>1, <1>2, Induction
<1>4. ASSUME NEW n \in 0..N PROVE n \in P
    <2>1. n \in Q /\ ~(n > N)
        BY <1>3
    <2> QED
        BY <2>1 DEF Q
<1> QED
    BY <1>4

(* A function may be defined step by step.                                    *)
Follows(f, X, N, b, F) == f \in [0..N -> X] /\ f[0] = b /\ \A n \in 1..N : f[n] = F[<<n, f[n - 1]>>]

LEMMA StepByStep ==
    ASSUME NEW X, NEW N \in Nat, NEW b \in X, NEW F \in [Nat \X X -> X]
    PROVE  \E f : Follows(f, X, N, b, F)
<1> DEFINE Ok(n, f) == f[0] = b /\ \A m \in 1..n : f[m] = F[<<m, f[m - 1]>>]
           P == {n \in 0..N : \E f \in [0..n -> X] : Ok(n, f)}
<1>1. 0 \in P
    <2>1. [n \in 0..0 |-> b] \in [0..0 -> X] /\ Ok(0, [n \in 0..0 |-> b])
        OBVIOUS
    <2> QED
        <3>1. 0 \in 0..N
            OBVIOUS
        <3> HIDE DEF Ok
        <3> QED
            BY <2>1, <3>1
<1>2. ASSUME NEW n \in P, n < N PROVE n + 1 \in P
    <2>1. PICK f \in [0..n -> X] : Ok(n, f)
        OBVIOUS
    <2> DEFINE g == [m \in 0..(n + 1) |-> IF m = n + 1 THEN F[<<n + 1, f[n]>>] ELSE f[m]]
    <2>2. n \in Nat /\ n + 1 \in 0..N
        BY <1>2
    <2>3. F[<<n + 1, f[n]>>] \in X
        BY <2>1, <2>2
    <2>4. g \in [0..(n + 1) -> X]
        BY <2>1, <2>2, <2>3
    <2>5. g[0] = b
        BY <2>1, <2>2
    <2>6. ASSUME NEW m \in 1..(n + 1) PROVE g[m] = F[<<m, g[m - 1]>>]
        <3>1. m - 1 \in 0..n /\ g[m - 1] = f[m - 1]
            BY <2>2
        <3>2. CASE m = n + 1
            <4>1. g[m] = F[<<n + 1, f[n]>>]
                BY <2>2, <3>2
            <4>2. m - 1 = n
                BY <2>2, <3>2
            <4> QED
                BY <3>1, <3>2, <4>1, <4>2
        <3>3. CASE m \in 1..n
            BY <2>1, <2>2, <3>1, <3>3
        <3> QED
            BY <2>2, <3>2, <3>3
    <2> QED
        BY <2>2, <2>4, <2>5, <2>6
<1> HIDE DEF Ok
<1>3. P = 0..N
    BY <1>1, <1>2, InductionUpTo
<1> QED
    BY <1>3 DEF Ok, Follows

-----------------------------------------------------------------------------
(* Splitting a pattern at its stars.                                          *)
Parts == {parts \in Seq(Seq(Chars)) : parts # <<>>}

SplitStep(parts, c) == IF c = "*" THEN Append(parts, <<>>) ELSE [parts EXCEPT ![Len(parts)] = Append(@, c)]

LEMMA SplitStepType ==
    ASSUME NEW parts \in Parts, NEW c \in Chars
    PROVE  /\ SplitStep(parts, c) \in Parts
           /\ c = "*" => Len(SplitStep(parts, c)) # 1
           /\ c # "*" /\ Len(parts) = 1 => SplitStep(parts, c) = <<Append(parts[1], c)>>
           /\ Len(SplitStep(parts, c)) = 1 => Len(parts) = 1
<1> DEFINE S == Seq(Chars)
<1>1. parts \in Seq(S) /\ Len(parts) \in Nat \ {0} /\ Len(parts) \in 1..Len(parts) /\ parts[Len(parts)] \in S
    BY DEF Parts
<1>2. Append(parts[Len(parts)], c) \in S /\ <<>> \in S
    BY <1>1
<1> HIDE DEF S
<1>3. CASE c = "*"
    <2>1. SplitStep(parts, c) = Append(parts, <<>>)
        BY <1>3 DEF SplitStep
    <2>2. Append(parts, <<>>) \in Seq(S) /\ Len(Append(parts, <<>>)) = Len(parts) + 1
        BY <1>1, <1>2
    <2>3. Append(parts, <<>>) # <<>>
        BY <1>1, <2>2
    <2>4. SplitStep(parts, c) \in Parts
        BY <2>1, <2>2, <2>3 DEF Parts, S
    <2>5. Len(SplitStep(parts, c)) # 1
        BY <1>1, <2>1, <2>2
    <2> QED
        BY <1>3, <2>4, <2>5
<1>4. CASE c # "*"
    <2> DEFINE x == Append(parts[Len(parts)], c)
               q == [parts EXCEPT ![Len(parts)] = x]
    <2>1. SplitStep(parts, c) = q
        BY <1>4 DEF SplitStep
    <2>2. x \in S
        BY <1>2
    <2> HIDE DEF x
    <2>3. q \in Seq(S) /\ Len(q) = Len(parts) /\ q # <<>>
        BY <1>1, <2>2
    <2>4. Len(parts) = 1 => q = <<x>>
        BY <1>1, <2>2
    <2> QED
        BY <1>4, <2>1, <2>3, <2>4 DEF Parts, S, x
<1> QED
    BY <1>3, <1>4

LEMMA SplitIsExact ==
    ASSUME NEW pattern \in Seq(Chars)
    PROVE  /\ Split(pattern) \in Parts
           /\ Len(Split(pattern)) = 1 => Split(pattern)[1] = pattern
<1> DEFINE N == Len(pattern)
           Def(g) == g = [n \in 0..N |-> IF n = 0 THEN << <<>> >> ELSE SplitStep(g[n - 1], pattern[n])]
           u == CHOOSE g : Def(g)
<1>1. N \in Nat /\ \A n \in 1..N : pattern[n] \in Chars
    OBVIOUS
<1>2. Split(pattern) = u[N]
    BY DEF Split, SplitStep
<1>3. << <<>> >> \in Parts
    <2>1. <<>> \in Seq(Chars)
        OBVIOUS
    <2> QED
        BY <2>1 DEF Parts
<1>4. \E g : Def(g)
    <2> DEFINE F == [x \in Nat \X Parts |-> IF x[1] \in 1..N THEN SplitStep(x[2], pattern[x[1]]) ELSE x[2]]
    <2>1. F \in [Nat \X Parts -> Parts]
        <3>1. ASSUME NEW n \in Nat, NEW p \in Parts
              PROVE  (IF n \in 1..N THEN SplitStep(p, pattern[n]) ELSE p) \in Parts
            BY <1>1, SplitStepType
        <3> HIDE DEF N
        <3> QED
            BY <3>1
    <2>2. \A n \in 1..N, p \in Parts : F[<<n, p>>] = SplitStep(p, pattern[n])
        BY <1>1
    <2> HIDE DEF F, N
    <2>3. PICK f \in [0..N -> Parts] : f[0] = << <<>> >> /\ \A n \in 1..N : f[n] = F[<<n, f[n - 1]>>]
        <3>1. \E f : Follows(f, Parts, N, << <<>> >>, F)
            BY <1>1, <1>3, <2>1, StepByStep
        <3> QED
            BY <3>1 DEF Follows
    <2>4. \A n \in 1..N : f[n] = SplitStep(f[n - 1], pattern[n])
        <3>1. \A n \in 1..N : n - 1 \in 0..N
            BY <1>1
        <3> QED
            BY <2>2, <2>3, <3>1
    <2>5. \A n \in 0..N : n = 0 \/ n \in 1..N
        BY <1>1
    <2>6. Def(f)
        BY <2>3, <2>4, <2>5
    <2> QED
        BY <2>6
<1>5. Def(u)
    <2> HIDE DEF Def
    <2> QED
        BY <1>4
<1> HIDE DEF u
<1> DEFINE P == {n \in 0..N : u[n] \in Parts /\ (Len(u[n]) = 1 => u[n] = <<SubSeq(pattern, 1, n)>>)}
<1>6. 0 \in P
    <2>1. u[0] = << <<>> >>
        BY <1>1, <1>5
    <2>2. SubSeq(pattern, 1, 0) = <<>>
        OBVIOUS
    <2>3. u[0] \in Parts /\ u[0] = <<SubSeq(pattern, 1, 0)>> /\ 0 \in 0..N
        BY <1>1, <1>3, <2>1, <2>2
    <2> QED
        BY <2>3
<1>7. ASSUME NEW n \in P, n < N PROVE n + 1 \in P
    <2>1. n \in Nat /\ n + 1 \in 1..N /\ (n + 1) - 1 = n /\ n + 1 # 0 /\ n + 1 \in 0..N
        BY <1>1, <1>7
    <2>2. u[n + 1] = SplitStep(u[n], pattern[n + 1])
        BY <1>5, <2>1
    <2>3. u[n + 1] \in Parts
        BY <1>1, <1>7, <2>1, <2>2, SplitStepType
    <2>4. ASSUME Len(u[n + 1]) = 1 PROVE u[n + 1] = <<SubSeq(pattern, 1, n + 1)>>
        <3>1. Len(u[n]) = 1 /\ u[n + 1] = <<Append(u[n][1], pattern[n + 1])>>
            BY <1>1, <1>7, <2>1, <2>2, <2>4, SplitStepType
        <3>2. u[n][1] = SubSeq(pattern, 1, n)
            BY <1>7, <3>1
        <3>3. Append(SubSeq(pattern, 1, n), pattern[n + 1]) = SubSeq(pattern, 1, n + 1)
            BY <2>1
        <3> QED
            BY <3>1, <3>2, <3>3
    <2> QED
        BY <2>1, <2>3, <2>4
<1>8. P = 0..N
    <2> HIDE DEF P, N
    <2>1. P \in SUBSET (0..N)
        BY DEF P
    <2> QED
        BY <1>1, <1>6, <1>7, <2>1, InductionUpTo
<1>9. u[N] \in Parts /\ (Len(u[N]) = 1 => u[N] = <<SubSeq(pattern, 1, N)>>)
    BY <1>1, <1>8
<1>10. SubSeq(pattern, 1, N) = pattern
    OBVIOUS
<1> QED
    BY <1>2, <1>9, <1>10

-----------------------------------------------------------------------------
(* The greedy matcher.                                                        *)
LEMMA LeastOf ==
    ASSUME NEW S \in SUBSET Nat, S # {}
    PROVE  /\ (CHOOSE n \in S : \A m \in S : n <= m) \in S
           /\ \A m \in S : (CHOOSE n \in S : \A k \in S : n <= k) <= m
<1> SUFFICES \E n \in S : \A m \in S : n <= m
    OBVIOUS
<1> SUFFICES ASSUME \A n \in S : \E m \in S : ~(n <= m) PROVE FALSE
    OBVIOUS
<1> DEFINE P == {n \in Nat : \A m \in S : n < m}
<1>1. PICK x \in S : TRUE
    OBVIOUS
<1>2. 0 \in P
    <2>1. 0 \notin S
        BY SMT
    <2> QED
        BY <2>1
<1>3. ASSUME NEW n \in P PROVE n + 1 \in P
    <2>1. n + 1 \notin S
        <3>1. ASSUME n + 1 \in S PROVE FALSE
            <4>1. PICK m \in S : ~(n + 1 <= m)
                BY <3>1
            <4> QED
                BY <4>1
        <3> QED
            BY <3>1
    <2> QED
        BY <2>1
<1>4. P = Nat
    <2> HIDE DEF P
    <2>1. P \in SUBSET Nat
        BY DEF P
    <2> QED
        BY <1>2, <1>3, <2>1, Induction
<1> QED
    BY <1>1, <1>4

LEMMA FindIsExact ==
    ASSUME NEW s \in Seq(Chars), NEW part \in Seq(Chars), NEW c \in Nat
    PROVE  /\ Find(s, part, c) \in Nat
           /\ Find(s, part, c) <= Len(s) =>
                 \E n \in c..Len(s) : StandsAt(s, part, n) /\ Find(s, part, c) = n + Len(part)
           /\ \A n \in c..Len(s) : StandsAt(s, part, n) => Find(s, part, c) <= n + Len(part)
<1> DEFINE found == {n \in c..Len(s) : StandsAt(s, part, n)}
           least == CHOOSE n \in found : \A m \in found : n <= m
<1>1. Find(s, part, c) = IF found = {} THEN Len(s) + 1 ELSE least + Len(part)
    BY DEF Find
<1>2. found \in SUBSET Nat /\ Len(part) \in Nat /\ Len(s) \in Nat
    OBVIOUS
<1>3. CASE found = {}
    <2>1. Find(s, part, c) = Len(s) + 1
        BY <1>1, <1>3
    <2> QED
        BY <1>2, <1>3, <2>1
<1>4. CASE found # {}
    <2> HIDE DEF found
    <2>1. least \in found /\ \A m \in found : least <= m
        BY <1>2, <1>4, LeastOf
    <2> HIDE DEF least
    <2>2. Find(s, part, c) = least + Len(part)
        BY <1>1, <1>4
    <2> QED
        BY <1>2, <2>1, <2>2 DEF found
<1> QED
    BY <1>3, <1>4

CursorStep(s, part, c) == IF part = <<>> THEN c ELSE Find(s, part, c)

LEMMA CursorIsExact ==
    ASSUME NEW parts \in Parts, Len(parts) # 1, NEW s \in Seq(Chars)
    PROVE  \E u \in [1..(Len(parts) - 1) -> Nat] :
              /\ u[1] = Len(parts[1])
              /\ \A k \in 2..(Len(parts) - 1) : u[k] = CursorStep(s, parts[k], u[k - 1])
              /\ Cursor(parts, s) = u[Len(parts) - 1]
<1> DEFINE M == Len(parts) - 1
           b == Len(parts[1])
           Def(g) == g = [k \in 1..M |-> IF k = 1 THEN b ELSE CursorStep(s, parts[k], g[k - 1])]
           u == CHOOSE g : Def(g)
<1>1. /\ M \in Nat \ {0} /\ Len(parts) = M + 1
      /\ \A k \in 1..M : parts[k] \in Seq(Chars)
      /\ b \in Nat
    <2> DEFINE S == Seq(Chars)
    <2>1. parts \in Seq(S) /\ parts # <<>>
        BY DEF Parts
    <2>2. \A x \in S : Len(x) \in Nat
        OBVIOUS
    <2> HIDE DEF S
    <2>3. Len(parts) \in Nat \ {0} /\ \A k \in 1..Len(parts) : parts[k] \in S
        BY <2>1
    <2>4. M \in Nat \ {0} /\ Len(parts) = M + 1
        BY <2>3
    <2>5. b \in Nat
        BY <2>2, <2>3
    <2>6. \A k \in 1..M : parts[k] \in S
        BY <2>3
    <2> QED
        BY <2>4, <2>5, <2>6 DEF S
<1>2. Cursor(parts, s) = u[M]
    BY DEF Cursor, CursorStep
<1>3. \A k \in 1..M, c \in Nat : CursorStep(s, parts[k], c) \in Nat
    BY <1>1, FindIsExact DEF CursorStep
<1> HIDE DEF M, b
<1>4. \E g : Def(g)
    <2> DEFINE F == [x \in Nat \X Nat |-> IF x[1] + 1 \in 1..M THEN CursorStep(s, parts[x[1] + 1], x[2]) ELSE x[2]]
    <2>1. F \in [Nat \X Nat -> Nat]
        BY <1>3
    <2>2. \A n, c \in Nat : n + 1 \in 1..M => F[<<n, c>>] = CursorStep(s, parts[n + 1], c)
        OBVIOUS
    <2> HIDE DEF F
    <2>3. M - 1 \in Nat
        BY <1>1
    <2>4. PICK h : Follows(h, Nat, M - 1, b, F)
        BY <1>1, <2>1, <2>3, StepByStep
    <2>5. h \in [0..(M - 1) -> Nat] /\ h[0] = b /\ \A n \in 1..(M - 1) : h[n] = F[<<n, h[n - 1]>>]
        BY <2>4 DEF Follows
    <2> DEFINE f == [k \in 1..M |-> h[k - 1]]
    <2>6. ASSUME NEW k \in 1..M PROVE f[k] = IF k = 1 THEN b ELSE CursorStep(s, parts[k], f[k - 1])
        <3>1. CASE k = 1
            BY <2>5, <3>1
        <3>2. CASE k # 1
            <4>1. k - 1 \in 1..(M - 1) /\ (k - 1) + 1 = k /\ k - 1 \in 1..M /\ k - 1 \in Nat /\ (k - 1) - 1 \in 0..(M - 1)
                BY <1>1, <3>2
            <4>2. f[k] = F[<<k - 1, h[(k - 1) - 1]>>]
                BY <2>5, <4>1
            <4>3. h[(k - 1) - 1] \in Nat
                BY <2>5, <4>1
            <4>4. F[<<k - 1, h[(k - 1) - 1]>>] = CursorStep(s, parts[k], h[(k - 1) - 1])
                BY <2>2, <4>1, <4>3
            <4>5. f[k - 1] = h[(k - 1) - 1]
                BY <4>1
            <4> QED
                BY <3>2, <4>2, <4>4, <4>5
        <3> QED
            BY <3>1, <3>2
    <2>7. Def(f)
        BY <2>6
    <2> QED
        BY <2>7
<1>5. Def(u)
    <2> HIDE DEF Def
    <2> QED
        BY <1>4
<1> HIDE DEF u
<1>6. u[1] = b
    BY <1>1, <1>5
<1>7. ASSUME NEW k \in 2..M PROVE u[k] = CursorStep(s, parts[k], u[k - 1])
    <2>1. k \in 1..M /\ k # 1
        OBVIOUS
    <2> QED
        BY <1>5, <2>1
<1>8. \A k \in 1..M : u[k] \in Nat
    <2> DEFINE P == {n \in 0..(M - 1) : u[n + 1] \in Nat}
    <2>1. 0 \in P
        BY <1>1, <1>6
    <2>2. ASSUME NEW n \in P, n < M - 1 PROVE n + 1 \in P
        <3>1. (n + 1) + 1 \in 2..M /\ ((n + 1) + 1) - 1 = n + 1 /\ n + 1 \in 0..(M - 1) /\ (n + 1) + 1 \in 1..M
            BY <1>1, <2>2
        <3>2. u[(n + 1) + 1] = CursorStep(s, parts[(n + 1) + 1], u[n + 1])
            BY <1>7, <3>1
        <3>3. u[(n + 1) + 1] \in Nat
            BY <1>3, <2>2, <3>1, <3>2
        <3> QED
            BY <3>1, <3>3
    <2>3. P = 0..(M - 1)
        <3> HIDE DEF P
        <3>1. P \in SUBSET (0..(M - 1)) /\ M - 1 \in Nat
            BY <1>1 DEF P
        <3> QED
            BY <2>1, <2>2, <3>1, InductionUpTo
    <2>4. \A k \in 1..M : k - 1 \in 0..(M - 1) /\ (k - 1) + 1 = k
        BY <1>1
    <2> QED
        BY <2>3, <2>4
<1>9. u \in [1..M -> Nat]
    BY <1>5, <1>8
<1> QED
    BY <1>2, <1>6, <1>7, <1>9 DEF M, b

(* One step of the cursor: as far as the first place where the part stands.   *)
LEMMA StepIsExact ==
    ASSUME NEW s \in Seq(Chars), NEW part \in Seq(Chars), NEW c \in Nat
    PROVE  /\ CursorStep(s, part, c) \in Nat
           /\ CursorStep(s, part, c) <= Len(s) =>
                 /\ c + Len(part) <= CursorStep(s, part, c)
                 /\ StandsAt(s, part, CursorStep(s, part, c) - Len(part))
           /\ \A n \in c..Len(s) : StandsAt(s, part, n) => CursorStep(s, part, c) <= n + Len(part)
<1>1. Len(part) \in Nat /\ Len(s) \in Nat
    OBVIOUS
<1>2. CASE part = <<>>
    <2>1. CursorStep(s, part, c) = c /\ Len(part) = 0
        BY <1>2 DEF CursorStep
    <2>2. c <= Len(s) => StandsAt(s, part, c)
        <3>1. SubSeq(s, c + 1, c + 0) = <<>>
            OBVIOUS
        <3> QED
            BY <1>1, <1>2, <2>1, <3>1 DEF StandsAt
    <2>3. c - 0 = c
        OBVIOUS
    <2> QED
        BY <1>1, <2>1, <2>2, <2>3
<1>3. CASE part # <<>>
    <2>1. CursorStep(s, part, c) = Find(s, part, c)
        BY <1>3 DEF CursorStep
    <2>2. /\ Find(s, part, c) \in Nat
          /\ \A n \in c..Len(s) : StandsAt(s, part, n) => Find(s, part, c) <= n + Len(part)
        BY FindIsExact
    <2>3. ASSUME Find(s, part, c) <= Len(s)
          PROVE  c + Len(part) <= Find(s, part, c) /\ StandsAt(s, part, Find(s, part, c) - Len(part))
        <3>1. PICK n \in c..Len(s) : StandsAt(s, part, n) /\ Find(s, part, c) = n + Len(part)
            BY <2>3, FindIsExact
        <3>2. n \in Nat /\ c <= n /\ (n + Len(part)) - Len(part) = n
            BY <1>1
        <3> QED
            BY <1>1, <3>1, <3>2
    <2> QED
        BY <2>1, <2>2, <2>3
<1> QED
    BY <1>2, <1>3

LEMMA PartsAreText ==
    ASSUME NEW parts \in Parts
    PROVE  /\ Len(parts) \in Nat \ {0} /\ DOMAIN parts = 1..Len(parts)
           /\ \A i \in 1..Len(parts) : parts[i] \in Seq(Chars) /\ Len(parts[i]) \in Nat
<1> DEFINE S == Seq(Chars)
<1>1. parts \in Seq(S) /\ parts # <<>>
    BY DEF Parts
<1>2. \A x \in S : Len(x) \in Nat
    OBVIOUS
<1> HIDE DEF S
<1>3. Len(parts) \in Nat \ {0} /\ DOMAIN parts = 1..Len(parts) /\ \A i \in 1..Len(parts) : parts[i] \in S
    BY <1>1
<1> QED
    BY <1>2, <1>3 DEF S

(* What the greedy cursor accepts: the end of the text is behind it, with     *)
(* room for the last part.                                                    *)
Accepts(parts, s, u) ==
    LET last == parts[Len(parts)] IN
    /\ StandsAt(s, parts[1], 0)
    /\ u[Len(parts) - 1] + Len(last) <= Len(s)
    /\ StandsAt(s, last, Len(s) - Len(last))

IsCursor(parts, s, u) ==
    /\ u \in [1..(Len(parts) - 1) -> Nat]
    /\ u[1] = Len(parts[1])
    /\ \A k \in 2..(Len(parts) - 1) : u[k] = CursorStep(s, parts[k], u[k - 1])

LEMMA GreedyIsSound ==
    ASSUME NEW parts \in Parts, Len(parts) # 1, NEW s \in Seq(Chars), NEW u, IsCursor(parts, s, u), Accepts(parts, s, u)
    PROVE  Cuts(parts, s) # {}
<1> DEFINE M == Len(parts) - 1
           last == parts[Len(parts)]
<1>1. /\ M \in Nat \ {0} /\ Len(parts) = M + 1 /\ DOMAIN parts = 1..(M + 1)
      /\ \A i \in 1..(M + 1) : parts[i] \in Seq(Chars) /\ Len(parts[i]) \in Nat
      /\ Len(s) \in Nat
    BY PartsAreText
<1>2. /\ u \in [1..M -> Nat] /\ u[1] = Len(parts[1])
      /\ \A k \in 2..M : u[k] = CursorStep(s, parts[k], u[k - 1])
    BY DEF IsCursor
<1>3. /\ StandsAt(s, parts[1], 0)
      /\ u[M] + Len(last) <= Len(s)
      /\ StandsAt(s, last, Len(s) - Len(last))
    BY DEF Accepts
<1>4. last = parts[M + 1] /\ Len(last) \in Nat
    BY <1>1
<1> HIDE DEF M, last
<1>5. ASSUME NEW k \in 2..M, u[k] <= Len(s)
      PROVE  u[k - 1] + Len(parts[k]) <= u[k] /\ StandsAt(s, parts[k], u[k] - Len(parts[k]))
    <2>1. k - 1 \in 1..M /\ k \in 1..(M + 1)
        BY <1>1
    <2>2. u[k - 1] \in Nat /\ u[k] = CursorStep(s, parts[k], u[k - 1]) /\ parts[k] \in Seq(Chars)
        BY <1>1, <1>2, <2>1
    <2> QED
        BY <1>5, <2>2, StepIsExact
<1>6. \A k \in 1..M : u[k] <= Len(s)
    <2> DEFINE P == {d \in 0..(M - 1) : u[M - d] <= Len(s)}
    <2>1. 0 \in P
        <3>1. M - 0 = M /\ u[M] \in Nat /\ 0 \in 0..(M - 1)
            BY <1>1, <1>2
        <3>2. u[M] <= Len(s)
            BY <1>1, <1>3, <1>4, <3>1
        <3> QED
            BY <3>1, <3>2
    <2>2. ASSUME NEW d \in P, d < M - 1 PROVE d + 1 \in P
        <3>1. M - d \in 2..M /\ (M - d) - 1 = M - (d + 1) /\ d + 1 \in 0..(M - 1) /\ M - (d + 1) \in 1..M /\ M - d \in 1..(M + 1)
            BY <1>1, <2>2
        <3>2. u[M - (d + 1)] + Len(parts[M - d]) <= u[M - d]
            BY <1>5, <2>2, <3>1
        <3>3. u[M - (d + 1)] \in Nat /\ u[M - d] \in Nat /\ Len(parts[M - d]) \in Nat
            BY <1>1, <1>2, <3>1
        <3>4. u[M - d] <= Len(s)
            OBVIOUS
        <3>5. u[M - (d + 1)] <= Len(s)
            BY <1>1, <3>2, <3>3, <3>4
        <3> QED
            BY <3>1, <3>5
    <2>3. P = 0..(M - 1)
        <3> HIDE DEF P
        <3>1. P \in SUBSET (0..(M - 1)) /\ M - 1 \in Nat
            BY <1>1 DEF P
        <3> QED
            BY <2>1, <2>2, <3>1, InductionUpTo
    <2>4. \A k \in 1..M : M - k \in 0..(M - 1) /\ M - (M - k) = k
        BY <1>1
    <2> QED
        BY <2>3, <2>4
<1> DEFINE f == [i \in 1..(M + 1) |-> IF i = M + 1 THEN Len(s) - Len(last) ELSE u[i] - Len(parts[i])]
<1>7. f[1] = 0 /\ f[M + 1] = Len(s) - Len(last) /\ \A i \in 1..M : f[i] = u[i] - Len(parts[i])
    BY <1>1, <1>2
<1>8. ASSUME NEW i \in 1..(M + 1) PROVE f[i] \in 0..Len(s) /\ StandsAt(s, parts[i], f[i])
    <2>1. CASE i = M + 1
        <3>1. u[M] \in Nat
            BY <1>1, <1>2
        <3>2. Len(s) - Len(last) \in 0..Len(s)
            BY <1>1, <1>3, <1>4, <3>1
        <3> QED
            BY <1>3, <1>4, <1>7, <2>1, <3>2
    <2>2. CASE i = 1
        BY <1>1, <1>3, <1>7, <2>2
    <2>3. CASE i \in 2..M
        <3>1. i - 1 \in 1..M /\ i \in 1..M
            BY <1>1, <2>3
        <3>2. u[i] <= Len(s) /\ u[i] \in Nat /\ u[i - 1] \in Nat /\ Len(parts[i]) \in Nat
            BY <1>1, <1>2, <1>6, <3>1
        <3>3. u[i - 1] + Len(parts[i]) <= u[i] /\ StandsAt(s, parts[i], u[i] - Len(parts[i]))
            BY <1>5, <2>3, <3>2
        <3>4. f[i] = u[i] - Len(parts[i])
            BY <1>7, <3>1
        <3>5. u[i] - Len(parts[i]) \in 0..Len(s)
            BY <1>1, <3>2, <3>3
        <3> QED
            BY <3>3, <3>4, <3>5
    <2> QED
        BY <1>1, <2>1, <2>2, <2>3
<1>9. ASSUME NEW i \in 1..(M + 1), i > 1 PROVE f[i - 1] + Len(parts[i - 1]) <= f[i]
    <2>1. i - 1 \in 1..M /\ u[i - 1] \in Nat /\ Len(parts[i - 1]) \in Nat
        BY <1>1, <1>2, <1>9
    <2>2. f[i - 1] + Len(parts[i - 1]) = u[i - 1]
        BY <1>7, <2>1
    <2>3. CASE i = M + 1
        <3>1. i - 1 = M
            BY <1>1, <2>3
        <3> QED
            BY <1>1, <1>3, <1>4, <1>7, <2>1, <2>2, <2>3, <3>1
    <2>4. CASE i \in 2..M
        <3>1. i \in 1..M /\ u[i] \in Nat /\ Len(parts[i]) \in Nat /\ f[i] = u[i] - Len(parts[i])
            BY <1>1, <1>2, <1>7, <2>4
        <3>2. u[i - 1] + Len(parts[i]) <= u[i]
            BY <1>5, <1>6, <2>4, <3>1
        <3> QED
            BY <2>1, <2>2, <3>1, <3>2
    <2> QED
        BY <1>1, <1>9, <2>3, <2>4
<1>10. f[M + 1] + Len(parts[M + 1]) = Len(s)
    BY <1>1, <1>4, <1>7
<1> HIDE DEF f
<1>11. f \in [1..(M + 1) -> 0..Len(s)]
    BY <1>8 DEF f
<1>12. f \in Cuts(parts, s)
    BY <1>1, <1>7, <1>8, <1>9, <1>10, <1>11 DEF Cuts
<1> QED
    BY <1>12

LEMMA GreedyIsComplete ==
    ASSUME NEW parts \in Parts, Len(parts) # 1, NEW s \in Seq(Chars), NEW u, IsCursor(parts, s, u), Cuts(parts, s) # {}
    PROVE  Accepts(parts, s, u)
<1> DEFINE M == Len(parts) - 1
           last == parts[Len(parts)]
<1>1. /\ M \in Nat \ {0} /\ Len(parts) = M + 1 /\ DOMAIN parts = 1..(M + 1)
      /\ \A i \in 1..(M + 1) : parts[i] \in Seq(Chars) /\ Len(parts[i]) \in Nat
      /\ Len(s) \in Nat
    BY PartsAreText
<1>2. /\ u \in [1..M -> Nat] /\ u[1] = Len(parts[1])
      /\ \A k \in 2..M : u[k] = CursorStep(s, parts[k], u[k - 1])
    BY DEF IsCursor
<1>3. last = parts[M + 1] /\ Len(last) \in Nat
    BY <1>1
<1> HIDE DEF M, last
<1>4. PICK f : f \in Cuts(parts, s)
    OBVIOUS
<1>5. /\ \A i \in 1..(M + 1) : f[i] \in 0..Len(s) /\ StandsAt(s, parts[i], f[i])
      /\ \A i \in 1..(M + 1) : i > 1 => f[i - 1] + Len(parts[i - 1]) <= f[i]
      /\ f[1] = 0 /\ f[M + 1] + Len(last) = Len(s)
    BY <1>1, <1>3, <1>4 DEF Cuts
<1>6. \A k \in 1..M : u[k] <= f[k] + Len(parts[k])
    <2> DEFINE P == {d \in 0..(M - 1) : u[d + 1] <= f[d + 1] + Len(parts[d + 1])}
    <2>1. 0 \in P
        <3>1. 0 \in 0..(M - 1) /\ 0 + 1 = 1 /\ Len(parts[1]) \in Nat
            BY <1>1
        <3> QED
            BY <1>2, <1>5, <3>1
    <2>2. ASSUME NEW d \in P, d < M - 1 PROVE d + 1 \in P
        <3> DEFINE k == d + 2
        <3>1. k \in 2..M /\ k \in 1..(M + 1) /\ k > 1 /\ k - 1 = d + 1 /\ d + 1 \in 0..(M - 1) /\ d + 1 \in 1..(M + 1) /\ d + 1 \in 1..M /\ (d + 1) + 1 = k
            BY <1>1, <2>2
        <3> HIDE DEF k
        <3>2. u[d + 1] \in Nat /\ f[d + 1] \in Nat /\ f[k] \in Nat /\ f[k] <= Len(s) /\ Len(parts[d + 1]) \in Nat /\ Len(parts[k]) \in Nat /\ parts[k] \in Seq(Chars)
            <4>1. u[d + 1] \in Nat
                BY <1>2, <3>1
            <4>2. f[d + 1] \in 0..Len(s) /\ f[k] \in 0..Len(s)
                BY <1>5, <3>1
            <4>3. Len(parts[d + 1]) \in Nat /\ Len(parts[k]) \in Nat /\ parts[k] \in Seq(Chars)
                BY <1>1, <3>1
            <4>4. Len(s) \in Nat
                OBVIOUS
            <4> QED
                BY <4>1, <4>2, <4>3, <4>4
        <3>3. u[d + 1] <= f[d + 1] + Len(parts[d + 1])
            OBVIOUS
        <3>4. f[d + 1] + Len(parts[d + 1]) <= f[k]
            BY <1>5, <3>1
        <3>5. f[k] \in u[d + 1]..Len(s) /\ StandsAt(s, parts[k], f[k])
            BY <1>1, <1>5, <3>1, <3>2, <3>3, <3>4
        <3>6. u[k] = CursorStep(s, parts[k], u[d + 1])
            BY <1>2, <3>1
        <3>7. u[k] <= f[k] + Len(parts[k])
            BY <3>2, <3>5, <3>6, StepIsExact
        <3> QED
            BY <3>1, <3>7
    <2>3. P = 0..(M - 1)
        <3> HIDE DEF P
        <3>1. P \in SUBSET (0..(M - 1)) /\ M - 1 \in Nat
            BY <1>1 DEF P
        <3> QED
            BY <2>1, <2>2, <3>1, InductionUpTo
    <2>4. \A k \in 1..M : k - 1 \in 0..(M - 1) /\ (k - 1) + 1 = k
        BY <1>1
    <2> QED
        BY <2>3, <2>4
<1>7. M \in 1..M /\ M \in 1..(M + 1) /\ M + 1 \in 1..(M + 1) /\ M + 1 > 1 /\ (M + 1) - 1 = M /\ 1 \in 1..(M + 1)
    BY <1>1
<1>8. u[M] \in Nat /\ f[M] \in Nat /\ f[M + 1] \in Nat /\ Len(parts[M]) \in Nat
    BY <1>1, <1>2, <1>5, <1>7
<1>9. u[M] <= f[M] + Len(parts[M]) /\ f[M] + Len(parts[M]) <= f[M + 1]
    BY <1>5, <1>6, <1>7
<1>10. u[M] + Len(last) <= Len(s) /\ f[M + 1] = Len(s) - Len(last)
    <2>1. f[M + 1] + Len(last) = Len(s)
        BY <1>5
    <2>2. Len(s) \in Nat /\ Len(last) \in Nat
        BY <1>3
    <2>3. u[M] <= f[M + 1]
        BY <1>8, <1>9
    <2>4. f[M + 1] \in Nat /\ u[M] \in Nat
        BY <1>8
    <2> HIDE DEF last
    <2> QED
        BY <2>1, <2>2, <2>3, <2>4
<1>11. StandsAt(s, parts[1], 0) /\ StandsAt(s, last, Len(s) - Len(last))
    BY <1>3, <1>5, <1>7, <1>10
<1> QED
    BY <1>10, <1>11 DEF Accepts, M, last

(* The matcher decides the meaning of a pattern, whatever the text.           *)
THEOREM GlobIsExact ==
    ASSUME NEW pattern \in Seq(Chars), NEW s \in Seq(Chars)
    PROVE  GlobMatches(pattern, s) <=> Cuts(Split(pattern), s) # {}
<1> DEFINE parts == Split(pattern)
           last  == parts[Len(parts)]
<1>1. parts \in Parts /\ (Len(parts) = 1 => parts[1] = pattern)
    BY SplitIsExact
<1>2. /\ Len(parts) \in Nat \ {0} /\ DOMAIN parts = 1..Len(parts)
      /\ \A i \in 1..Len(parts) : parts[i] \in Seq(Chars) /\ Len(parts[i]) \in Nat
    BY <1>1, PartsAreText
<1>3. CASE Len(parts) = 1
    <2>1. GlobMatches(pattern, s) <=> pattern = s
        BY <1>3 DEF GlobMatches
    <2>2. ASSUME pattern = s PROVE Cuts(parts, s) # {}
        <3>1. StandsAt(s, s, 0)
            <4>1. SubSeq(s, 0 + 1, 0 + Len(s)) = s /\ 0 + Len(s) <= Len(s)
                OBVIOUS
            <4> QED
                BY <4>1 DEF StandsAt
        <3> DEFINE f == [i \in 1..1 |-> 0]
        <3>2. f[1] = 0 /\ f \in [1..1 -> 0..Len(s)] /\ 0 + Len(s) = Len(s)
            OBVIOUS
        <3> HIDE DEF f
        <3>3. \A i \in 1..1 : i = 1 /\ ~(i > 1)
            OBVIOUS
        <3>4. DOMAIN parts = 1..1 /\ parts[1] = s
            BY <1>1, <1>2, <1>3, <2>2
        <3> HIDE DEF parts
        <3>5. f \in Cuts(parts, s)
            BY <1>3, <3>1, <3>2, <3>3, <3>4 DEF Cuts
        <3> QED
            BY <3>5
    <2>3. ASSUME Cuts(parts, s) # {} PROVE pattern = s
        <3>1. PICK f : f \in Cuts(parts, s)
            BY <2>3
        <3>2. f[1] = 0 /\ f[1] + Len(parts[1]) = Len(s) /\ StandsAt(s, parts[1], f[1])
            <4> HIDE DEF parts
            <4> QED
                BY <1>2, <1>3, <3>1 DEF Cuts
        <3>3. Len(pattern) = Len(s) /\ SubSeq(s, 0 + 1, 0 + Len(pattern)) = pattern
            BY <1>1, <1>3, <3>2 DEF StandsAt
        <3>4. SubSeq(s, 1, Len(s)) = s
            OBVIOUS
        <3> QED
            BY <3>3, <3>4
    <2> QED
        BY <2>1, <2>2, <2>3
<1>4. CASE Len(parts) # 1
    <2> HIDE DEF parts
    <2>1. PICK u : IsCursor(parts, s, u) /\ Cursor(parts, s) = u[Len(parts) - 1]
        <3>1. PICK u \in [1..(Len(parts) - 1) -> Nat] :
                 /\ u[1] = Len(parts[1])
                 /\ \A k \in 2..(Len(parts) - 1) : u[k] = CursorStep(s, parts[k], u[k - 1])
                 /\ Cursor(parts, s) = u[Len(parts) - 1]
            BY <1>1, <1>4, CursorIsExact
        <3> QED
            BY <3>1 DEF IsCursor
    <2>2. Cursor(parts, s) \in Nat /\ last \in Seq(Chars) /\ Len(last) \in Nat /\ Len(s) \in Nat
        <3>1. Len(parts) - 1 \in 1..(Len(parts) - 1) /\ Len(parts) \in 1..Len(parts)
            BY <1>2, <1>4
        <3>2. Cursor(parts, s) \in Nat
            BY <2>1, <3>1 DEF IsCursor
        <3>3. last \in Seq(Chars) /\ Len(last) \in Nat
            BY <1>2, <3>1
        <3> QED
            BY <3>2, <3>3
    <2>3. GlobMatches(pattern, s) <=>
             /\ StandsAt(s, parts[1], 0)
             /\ Cursor(parts, s) <= Len(s)
             /\ last = <<>> \/ (Cursor(parts, s) + Len(last) <= Len(s) /\ StandsAt(s, last, Len(s) - Len(last)))
        BY <1>4 DEF GlobMatches, parts
    <2>4. last = <<>> => Len(last) = 0 /\ StandsAt(s, last, Len(s) - Len(last))
        <3>1. SubSeq(s, Len(s) + 1, Len(s) + 0) = <<>> /\ Len(s) + 0 <= Len(s) /\ Len(s) - 0 = Len(s)
            OBVIOUS
        <3>2. Len(<<>>) = 0
            OBVIOUS
        <3> QED
            BY <3>1, <3>2 DEF StandsAt
    <2>5. GlobMatches(pattern, s) <=> Accepts(parts, s, u)
        <3> HIDE DEF last
        <3>1. Accepts(parts, s, u) <=>
                 /\ StandsAt(s, parts[1], 0)
                 /\ Cursor(parts, s) + Len(last) <= Len(s)
                 /\ StandsAt(s, last, Len(s) - Len(last))
            BY <2>1 DEF Accepts, last
        <3>2. last = <<>> => (Cursor(parts, s) <= Len(s) <=> Cursor(parts, s) + Len(last) <= Len(s))
            BY <2>2, <2>4
        <3>3. Cursor(parts, s) + Len(last) <= Len(s) => Cursor(parts, s) <= Len(s)
            BY <2>2
        <3> QED
            BY <2>3, <2>4, <3>1, <3>2, <3>3
    <2>6. Accepts(parts, s, u) <=> Cuts(parts, s) # {}
        BY <1>1, <1>4, <2>1, GreedyIsSound, GreedyIsComplete
    <2> QED
        BY <2>5, <2>6 DEF parts
<1> QED
    BY <1>3, <1>4

-----------------------------------------------------------------------------
(* The first match.                                                           *)
IsRules(rules) == DOMAIN rules \subseteq Nat \ {0} /\ \A i \in DOMAIN rules : rules[i].path \in Seq(Chars) \cup {NoPattern}

LEMMA FirstMatchIsFirst ==
    ASSUME NEW rules, IsRules(rules), NEW q
    PROVE  /\ FirstMatch(rules, q) \in Nat
           /\ FirstMatch(rules, q) > 0 => FirstMatch(rules, q) \in DOMAIN rules /\ RuleMatches(rules[FirstMatch(rules, q)], q)
           /\ \A i \in DOMAIN rules : RuleMatches(rules[i], q) => FirstMatch(rules, q) \in 1..i
<1> DEFINE matching == {i \in DOMAIN rules : RuleMatches(rules[i], q)}
           least == CHOOSE i \in matching : \A j \in matching : i <= j
<1>1. FirstMatch(rules, q) = IF matching = {} THEN 0 ELSE least
    BY DEF FirstMatch
<1>2. matching \in SUBSET (Nat \ {0}) /\ matching \in SUBSET Nat
    BY DEF IsRules
<1>3. \A i \in matching : i \in DOMAIN rules /\ RuleMatches(rules[i], q)
    OBVIOUS
<1>4. \A i \in DOMAIN rules : RuleMatches(rules[i], q) => i \in matching
    OBVIOUS
<1> HIDE DEF matching
<1>5. CASE matching = {}
    <2>1. FirstMatch(rules, q) = 0
        BY <1>1, <1>5
    <2> QED
        BY <1>4, <1>5, <2>1
<1>6. CASE matching # {}
    <2>1. least \in matching /\ \A j \in matching : least <= j
        BY <1>2, <1>6, LeastOf
    <2> HIDE DEF least
    <2>2. FirstMatch(rules, q) = least
        BY <1>1, <1>6
    <2>3. least \in Nat \ {0}
        BY <1>2, <2>1
    <2>4. least \in DOMAIN rules /\ RuleMatches(rules[least], q)
        BY <1>3, <2>1
    <2>5. ASSUME NEW i \in DOMAIN rules, RuleMatches(rules[i], q) PROVE least \in 1..i
        <3>1. i \in matching /\ i \in Nat \ {0} /\ least <= i
            BY <1>2, <1>4, <2>1, <2>5
        <3> QED
            BY <2>3, <3>1
    <2> QED
        BY <2>2, <2>3, <2>4, <2>5
<1> QED
    BY <1>5, <1>6

-----------------------------------------------------------------------------
(* Bodies that grow.                                                          *)
LEMMA StepsOfPaths ==
    ASSUME NEW S, NEW p \in Seq(S), NEW x \in S
    PROVE  /\ Append(p, x) \in Seq(S) /\ Append(p, x) # <<>> /\ Len(Append(p, x)) = Len(p) + 1
           /\ Parent(Append(p, x)) = p /\ LastStep(Append(p, x)) = x
           /\ Begins(p, Append(p, x)) /\ Begins(Append(p, x), Append(p, x))
           /\ Append(p, x) \o <<>> = Append(p, x) /\ Below(Append(p, x), Append(p, x)) = <<>>
<1> DEFINE q == Append(p, x)
<1>1. q \in Seq(S) /\ Len(q) = Len(p) + 1 /\ Len(p) \in Nat
    OBVIOUS
<1>2. q # <<>>
    BY <1>1
<1>3. SubSeq(q, 1, (Len(p) + 1) - 1) = p /\ SubSeq(q, 1, Len(p)) = p
    OBVIOUS
<1>4. q[Len(p) + 1] = x
    OBVIOUS
<1> HIDE DEF q
<1>5. Parent(q) = p /\ LastStep(q) = x /\ Begins(p, q)
    BY <1>1, <1>3, <1>4 DEF Parent, LastStep, Begins
<1>6. SubSeq(q, 1, Len(q)) = q /\ q \o <<>> = q /\ SubSeq(q, Len(q) + 1, Len(q)) = <<>>
    BY <1>1
<1>7. Begins(q, q) /\ Below(q, q) = <<>>
    BY <1>1, <1>6 DEF Begins, Below
<1> QED
    BY <1>1, <1>2, <1>5, <1>6, <1>7 DEF q

LEMMA Prefix ==
    ASSUME NEW S, NEW r \in Seq(S), NEW m \in Nat, m <= Len(r)
    PROVE  /\ SubSeq(r, 1, m) \in Seq(S) /\ Len(SubSeq(r, 1, m)) = m
           /\ \A i \in 1..m : SubSeq(r, 1, m)[i] = r[i]
    OBVIOUS

LEMMA PrefixOfPrefix ==
    ASSUME NEW S, NEW r \in Seq(S), NEW m \in Nat, m <= Len(r), NEW n \in Nat, n <= m
    PROVE  SubSeq(SubSeq(r, 1, m), 1, n) = SubSeq(r, 1, n)
<1> DEFINE a == SubSeq(r, 1, m)
<1>1. a \in Seq(S) /\ Len(a) = m /\ \A i \in 1..m : a[i] = r[i]
    BY Prefix
<1> HIDE DEF a
<1>2. SubSeq(a, 1, n) \in Seq(S) /\ Len(SubSeq(a, 1, n)) = n /\ \A i \in 1..n : SubSeq(a, 1, n)[i] = a[i]
    BY <1>1, Prefix
<1>3. n <= Len(r) /\ \A i \in 1..n : i \in 1..m
    OBVIOUS
<1>4. SubSeq(r, 1, n) \in Seq(S) /\ Len(SubSeq(r, 1, n)) = n /\ \A i \in 1..n : SubSeq(r, 1, n)[i] = r[i]
    BY <1>3, Prefix
<1>5. SubSeq(a, 1, n) = SubSeq(r, 1, n)
    BY <1>1, <1>2, <1>3, <1>4
<1> QED
    BY <1>5 DEF a

(* Nothing stands below a path that is not there.                             *)
LEMMA NothingBelow ==
    ASSUME NEW S, NEW t, IsTree(t), DOMAIN t \subseteq Seq(S), NEW q \in Seq(S), q \notin DOMAIN t
    PROVE  Under(t, q) = {}
<1> SUFFICES ASSUME Under(t, q) # {} PROVE FALSE
    OBVIOUS
<1> DEFINE D == {n \in Nat : \E r \in Under(t, q) : Len(r) = n}
           n == CHOOSE n \in D : \A m \in D : n <= m
<1>1. PICK r0 \in Under(t, q) : TRUE
    OBVIOUS
<1>2. Len(r0) \in D
    BY DEF Under
<1>3. n \in D /\ \A m \in D : n <= m
    <2> HIDE DEF D
    <2>1. D \in SUBSET Nat
        BY DEF D
    <2> QED
        BY <1>2, <2>1, LeastOf
<1> HIDE DEF n
<1>4. PICK r \in Under(t, q) : Len(r) = n
    BY <1>3
<1>5. r \in DOMAIN t /\ r \in Seq(S) /\ Len(q) <= Len(r) /\ SubSeq(r, 1, Len(q)) = q /\ Len(r) \in Nat /\ Len(q) \in Nat
    BY DEF Under, Begins
<1>6. CASE Len(r) = Len(q)
    <2>1. SubSeq(r, 1, Len(r)) = r
        BY <1>5
    <2> QED
        BY <1>5, <1>6, <2>1
<1>7. CASE Len(r) > Len(q)
    <2>1. r # <<>>
        BY <1>5, <1>7
    <2>2. Parent(r) \in DOMAIN t
        BY <1>5, <2>1 DEF IsTree
    <2>3. Len(Parent(r)) = Len(r) - 1
        <3>1. Len(r) - 1 \in Nat /\ Len(r) - 1 <= Len(r)
            BY <1>5, <1>7
        <3>2. Len(SubSeq(r, 1, Len(r) - 1)) = Len(r) - 1
            BY <1>5, <3>1, Prefix
        <3> QED
            BY <3>2 DEF Parent
    <2>4. SubSeq(Parent(r), 1, Len(q)) = SubSeq(r, 1, Len(q))
        <3>1. Len(r) - 1 \in Nat /\ Len(r) - 1 <= Len(r) /\ Len(q) <= Len(r) - 1
            BY <1>5, <1>7
        <3> QED
            BY <1>5, <3>1, PrefixOfPrefix DEF Parent
    <2>5. Parent(r) \in Under(t, q)
        BY <1>5, <1>7, <2>2, <2>3, <2>4 DEF Under, Begins
    <2>6. n - 1 \in D
        BY <1>3, <1>4, <1>5, <1>7, <2>3, <2>5
    <2> QED
        BY <1>3, <2>6
<1> QED
    BY <1>5, <1>6, <1>7

(* A leaf at a new path.                                                      *)
Grown(t, q) == [r \in DOMAIN t \cup {q} |-> IF r \in DOMAIN t THEN t[r] ELSE "x"]

LEMMA PutGrows ==
    ASSUME NEW S, NEW t, IsTree(t), DOMAIN t \subseteq Seq(S), NEW q \in Seq(S), q \notin DOMAIN t
    PROVE  Put(t, q, Leaf("x")) = Grown(t, q)
<1>1. Under(t, q) = {}
    BY NothingBelow
<1>2. q \o <<>> = q /\ SubSeq(q, Len(q) + 1, Len(q)) = <<>>
    OBVIOUS
<1>3. DOMAIN Leaf("x") = {<<>>} /\ Leaf("x")[<<>>] = "x"
    BY DEF Leaf
<1> DEFINE v == Leaf("x")
           rest == DOMAIN t \ Under(t, q)
<1>4. Put(t, q, v) = [r \in rest \cup {q \o w : w \in DOMAIN v} |-> IF r \in rest THEN t[r] ELSE v[Below(q, r)]]
    BY DEF Put
<1>5. rest = DOMAIN t
    BY <1>1
<1>6. DOMAIN v = {<<>>} /\ v[<<>>] = "x"
    BY <1>3
<1> HIDE DEF v, rest
<1>7. {q \o w : w \in DOMAIN v} = {q}
    BY <1>2, <1>6
<1>8. v[Below(q, q)] = "x"
    BY <1>2, <1>6 DEF Below
<1>9. [r \in rest \cup {q \o w : w \in DOMAIN v} |-> IF r \in rest THEN t[r] ELSE v[Below(q, r)]] = Grown(t, q)
    <2>1. ASSUME NEW r \in DOMAIN t \cup {q}
          PROVE  (IF r \in DOMAIN t THEN t[r] ELSE v[Below(q, r)]) = (IF r \in DOMAIN t THEN t[r] ELSE "x")
        BY <1>8
    <2> QED
        BY <1>5, <1>7, <2>1 DEF Grown
<1> QED
    BY <1>4, <1>9 DEF v

LEMMA GrownIsMore ==
    ASSUME NEW t, NEW q
    PROVE  /\ DOMAIN Grown(t, q) = DOMAIN t \cup {q}
           /\ \A r \in DOMAIN t : Grown(t, q)[r] = t[r]
           /\ q \notin DOMAIN t => Grown(t, q)[q] = "x"
    BY DEF Grown

(* Only the parent of the new path has one child more.                        *)
LEMMA ChildrenOfGrown ==
    ASSUME NEW S, NEW t, DOMAIN t \subseteq Seq(S), NEW p \in DOMAIN t, NEW x \in S, Append(p, x) \notin DOMAIN t, NEW a \in DOMAIN t
    PROVE  Children(Grown(t, Append(p, x)), a) = IF a = p THEN Children(t, a) \cup {Append(p, x)} ELSE Children(t, a)
<1> DEFINE q == Append(p, x)
           g == Grown(t, q)
<1>1. p \in Seq(S) /\ a \in Seq(S) /\ q \in Seq(S) /\ Len(q) = Len(p) + 1 /\ Begins(p, q) /\ Len(p) \in Nat /\ Len(a) \in Nat
    BY StepsOfPaths
<1>2. DOMAIN g = DOMAIN t \cup {q}
    BY GrownIsMore
<1>3. SubSeq(q, 1, Len(p)) = p
    BY <1>1 DEF Begins
<1> HIDE DEF g, q
<1>4. \A r : r \in Children(g, a) <=> r \in DOMAIN t \cup {q} /\ Begins(a, r) /\ Len(r) = Len(a) + 1
    BY <1>2 DEF Children, Under
<1>5. \A r : r \in Children(t, a) <=> r \in DOMAIN t /\ Begins(a, r) /\ Len(r) = Len(a) + 1
    BY DEF Children, Under
<1>6. Begins(a, q) /\ Len(q) = Len(a) + 1 <=> a = p
    <2>1. ASSUME Begins(a, q), Len(q) = Len(a) + 1 PROVE a = p
        <3>1. SubSeq(q, 1, Len(a)) = a
            BY <2>1 DEF Begins
        <3>2. Len(a) = Len(p)
            BY <1>1, <2>1
        <3> QED
            BY <1>3, <3>1, <3>2
    <2> QED
        BY <1>1, <2>1
<1>7. CASE a = p
    <2>1. \A r : r \in Children(g, a) <=> r \in Children(t, a) \cup {q}
        BY <1>4, <1>5, <1>6, <1>7
    <2> QED
        BY <1>7, <2>1 DEF g, q
<1>8. CASE a # p
    <2>1. \A r : r \in Children(g, a) <=> r \in Children(t, a)
        BY <1>4, <1>5, <1>6, <1>8
    <2> QED
        BY <1>8, <2>1 DEF g, q
<1> QED
    BY <1>7, <1>8

LEMMA GrownIsRooted ==
    ASSUME NEW S, NEW t, IsTree(t), DOMAIN t \subseteq Seq(S), NEW p \in DOMAIN t, NEW x \in S, Append(p, x) \notin DOMAIN t,
           t[p] = IF x[1] = "key" THEN "obj" ELSE "arr"
    PROVE  LET g == Grown(t, Append(p, x)) IN
           /\ <<>> \in DOMAIN g
           /\ \A r \in DOMAIN g \ {<<>>} : Parent(r) \in DOMAIN g /\ g[Parent(r)] = IF LastStep(r)[1] = "key" THEN "obj" ELSE "arr"
<1> DEFINE q == Append(p, x)
           g == Grown(t, q)
<1>1. DOMAIN g = DOMAIN t \cup {q} /\ \A r \in DOMAIN t : g[r] = t[r]
    <2>1. DOMAIN g = DOMAIN t \cup {q}
        BY DEF Grown
    <2>2. \A r \in DOMAIN t : g[r] = t[r]
        BY DEF Grown
    <2> QED
        BY <2>1, <2>2
<1>2. Parent(q) = p /\ LastStep(q) = x
    BY StepsOfPaths
<1> HIDE DEF g, q
<1>3. <<>> \in DOMAIN g
    BY <1>1 DEF IsTree
<1>4. ASSUME NEW r \in DOMAIN g \ {<<>>}
      PROVE  Parent(r) \in DOMAIN g /\ g[Parent(r)] = IF LastStep(r)[1] = "key" THEN "obj" ELSE "arr"
    <2>1. CASE r = q
        BY <1>1, <1>2, <2>1
    <2>2. CASE r \in DOMAIN t \ {<<>>}
        <3>1. Parent(r) \in DOMAIN t /\ t[Parent(r)] = IF LastStep(r)[1] = "key" THEN "obj" ELSE "arr"
            BY <2>2 DEF IsTree
        <3> QED
            BY <1>1, <3>1
    <2> QED
        BY <1>1, <2>1, <2>2
<1> QED
    BY <1>3, <1>4 DEF g, q

Numbered(t, a) == {LastStep(r)[2] : r \in Children(t, a)} = 0..(Cardinality(Children(t, a)) - 1)

LEMMA KeyKeepsTree ==
    ASSUME NEW S, NEW t, IsTree(t), DOMAIN t \subseteq Seq(S), NEW p \in DOMAIN t, NEW x \in S, Append(p, x) \notin DOMAIN t,
           t[p] = "obj", x[1] = "key"
    PROVE  IsTree(Grown(t, Append(p, x)))
<1> DEFINE q == Append(p, x)
           g == Grown(t, q)
<1>1. DOMAIN g = DOMAIN t \cup {q} /\ (\A r \in DOMAIN t : g[r] = t[r]) /\ g[q] = "x"
    <2>1. DOMAIN g = DOMAIN t \cup {q}
        BY DEF Grown
    <2>2. \A r \in DOMAIN t : g[r] = t[r]
        BY DEF Grown
    <2>3. g[q] = "x"
        BY DEF Grown
    <2> QED
        BY <2>1, <2>2, <2>3
<1>2. ASSUME NEW a \in DOMAIN g, g[a] = "arr" PROVE Numbered(g, a)
    <2>1. a \in DOMAIN t /\ t[a] = "arr" /\ a # p
        BY <1>1, <1>2
    <2>2. Children(g, a) = Children(t, a)
        BY <2>1, ChildrenOfGrown
    <2>3. Numbered(t, a)
        BY <2>1 DEF IsTree, Numbered
    <2> HIDE DEF g
    <2> QED
        BY <2>2, <2>3 DEF Numbered
<1>3. /\ <<>> \in DOMAIN g
      /\ \A r \in DOMAIN g \ {<<>>} : Parent(r) \in DOMAIN g /\ g[Parent(r)] = IF LastStep(r)[1] = "key" THEN "obj" ELSE "arr"
    <2>1. t[p] = IF x[1] = "key" THEN "obj" ELSE "arr"
        OBVIOUS
    <2> QED
        BY <2>1, GrownIsRooted
<1> HIDE DEF g
<1>4. IsTree(g)
    BY <1>2, <1>3 DEF IsTree, Numbered
<1> QED
    BY <1>4 DEF g

LEMMA ElementKeepsTree ==
    ASSUME NEW S, NEW t, IsTree(t), IsFiniteSet(DOMAIN t), DOMAIN t \subseteq Seq(S), NEW p \in DOMAIN t, t[p] = "arr",
           At(Cardinality(Children(t, p))) \in S
    PROVE  LET q == Append(p, At(Cardinality(Children(t, p)))) IN q \notin DOMAIN t /\ IsTree(Grown(t, q))
<1> DEFINE C == Children(t, p)
           n == Cardinality(C)
           x == At(n)
           q == Append(p, x)
           g == Grown(t, q)
<1>1. IsFiniteSet(C) /\ n \in Nat
    <2>1. C \subseteq DOMAIN t
        BY DEF Children, Under
    <2> QED
        BY <2>1, FS_Subset, FS_CardinalityType
<1>2. {LastStep(r)[2] : r \in C} = 0..(n - 1)
    BY DEF IsTree
<1>3. q \in Seq(S) /\ Len(q) = Len(p) + 1 /\ LastStep(q) = x /\ Begins(p, q)
    BY StepsOfPaths
<1>4. x[2] = n /\ x[1] = "at" /\ x \in S
    BY DEF At
<1> HIDE DEF n, x, q
<1>5. q \notin C
    <2>1. ASSUME q \in C PROVE FALSE
        <3>1. n \in {LastStep(r)[2] : r \in C}
            BY <1>3, <1>4, <2>1
        <3>2. n \in 0..(n - 1)
            BY <1>2, <3>1
        <3> QED
            BY <1>1, <3>2
    <2> QED
        BY <2>1
<1>6. q \notin DOMAIN t
    <2>1. q \in DOMAIN t => q \in Children(t, p)
        BY <1>3 DEF Children, Under
    <2> QED
        BY <1>5, <2>1
<1>7. DOMAIN g = DOMAIN t \cup {q} /\ (\A r \in DOMAIN t : g[r] = t[r]) /\ g[q] = "x"
    <2>1. DOMAIN g = DOMAIN t \cup {q}
        BY DEF Grown
    <2>2. \A r \in DOMAIN t : g[r] = t[r]
        BY DEF Grown
    <2>3. g[q] = "x"
        BY <1>6 DEF Grown
    <2> QED
        BY <2>1, <2>2, <2>3
<1>8. \A a \in DOMAIN t : Children(g, a) = IF a = p THEN Children(t, a) \cup {q} ELSE Children(t, a)
    BY <1>4, <1>6, ChildrenOfGrown DEF q
<1> HIDE DEF g, C
<1>9. ASSUME NEW a \in DOMAIN g, g[a] = "arr" PROVE Numbered(g, a)
    <2>1. a \in DOMAIN t /\ t[a] = "arr"
        BY <1>7, <1>9
    <2>2. CASE a # p
        <3>1. Children(g, a) = Children(t, a)
            BY <1>8, <2>1, <2>2
        <3>2. Numbered(t, a)
            BY <2>1 DEF IsTree, Numbered
        <3> QED
            BY <3>1, <3>2 DEF Numbered
    <2>3. CASE a = p
        <3>1. Children(g, a) = C \cup {q}
            BY <1>8, <2>1, <2>3 DEF C
        <3>2. Cardinality(C \cup {q}) = n + 1
            BY <1>1, <1>5, FS_AddElement DEF n
        <3>3. {LastStep(r)[2] : r \in C \cup {q}} = (0..(n - 1)) \cup {n}
            BY <1>2, <1>3, <1>4
        <3>4. (0..(n - 1)) \cup {n} = 0..((n + 1) - 1)
            BY <1>1
        <3> QED
            BY <3>1, <3>2, <3>3, <3>4 DEF Numbered
    <2> QED
        BY <2>2, <2>3
<1>10. /\ <<>> \in DOMAIN g
       /\ \A r \in DOMAIN g \ {<<>>} : Parent(r) \in DOMAIN g /\ g[Parent(r)] = IF LastStep(r)[1] = "key" THEN "obj" ELSE "arr"
    BY <1>4, <1>6, GrownIsRooted DEF g, q
<1>11. IsTree(g)
    BY <1>9, <1>10 DEF IsTree, Numbered
<1> QED
    BY <1>6, <1>11 DEF g, q, x, n, C

-----------------------------------------------------------------------------
(* Requests that grow.                                                        *)
AsksMore(q, r) ==
    /\ r.host = q.host /\ r.method = q.method /\ r.path = q.path /\ r.json = q.json
    /\ q.query \subseteq r.query
    /\ q.body # <<>> => r.body # <<>> /\ Fits(q.body, r.body)

LEMMA WithQuery ==
    ASSUME NEW q, IsRequest(q), NEW Q, q.query \subseteq Q
    PROVE  LET r == [q EXCEPT !.query = Q] IN IsRequest(r) /\ r # <<>> /\ AsksMore(q, r)
<1> DEFINE r == [host |-> q.host, method |-> q.method, path |-> q.path, query |-> Q, json |-> q.json, body |-> q.body]
<1>1. q \in [host : Seq(Chars), method : {q.method}, path : Seq(Chars), query : {q.query}, json : BOOLEAN, body : {q.body}]
    BY DEF IsRequest
<1>2. [q EXCEPT !.query = Q] = r
    BY <1>1
<1>3. /\ r.host = q.host /\ r.method = q.method /\ r.path = q.path /\ r.json = q.json
      /\ r.query = Q /\ r.body = q.body
    OBVIOUS
<1>4. r \in [host : Seq(Chars), method : {r.method}, path : Seq(Chars), query : {r.query}, json : BOOLEAN, body : {r.body}]
    BY <1>1
<1>5. r # <<>>
    <2>1. "host" \in DOMAIN r /\ DOMAIN <<>> = {}
        OBVIOUS
    <2> QED
        BY <2>1
<1>6. Fits(q.body, q.body)
    BY DEF Fits
<1> HIDE DEF r
<1>7. IsRequest(r)
    BY <1>3, <1>4 DEF IsRequest
<1>8. AsksMore(q, r)
    BY <1>3, <1>6 DEF AsksMore
<1> QED
    BY <1>2, <1>5, <1>7, <1>8

LEMMA WithBody ==
    ASSUME NEW q, IsRequest(q), NEW body, IsBody(body), body # <<>>, Fits(q.body, body)
    PROVE  LET r == [q EXCEPT !.body = body] IN IsRequest(r) /\ r # <<>> /\ AsksMore(q, r)
<1> DEFINE r == [host |-> q.host, method |-> q.method, path |-> q.path, query |-> q.query, json |-> q.json, body |-> body]
<1>1. q \in [host : Seq(Chars), method : {q.method}, path : Seq(Chars), query : {q.query}, json : BOOLEAN, body : {q.body}]
    BY DEF IsRequest
<1>2. [q EXCEPT !.body = body] = r
    BY <1>1
<1>3. /\ r.host = q.host /\ r.method = q.method /\ r.path = q.path /\ r.json = q.json
      /\ r.query = q.query /\ r.body = body
    OBVIOUS
<1>4. r \in [host : Seq(Chars), method : {r.method}, path : Seq(Chars), query : {r.query}, json : BOOLEAN, body : {r.body}]
    BY <1>1
<1>5. r # <<>>
    <2>1. "host" \in DOMAIN r /\ DOMAIN <<>> = {}
        OBVIOUS
    <2> QED
        BY <2>1
<1> HIDE DEF r
<1>6. IsRequest(r)
    BY <1>3, <1>4 DEF IsRequest
<1>7. AsksMore(q, r)
    BY <1>3 DEF AsksMore
<1> QED
    BY <1>2, <1>5, <1>6, <1>7

LEMMA GrownIsBody ==
    ASSUME NEW t, IsBody(t), NEW q \in Seq(Steps), IsTree(Grown(t, q))
    PROVE  IsBody(Grown(t, q)) /\ Grown(t, q) # <<>> /\ Fits(t, Grown(t, q))
<1>1. DOMAIN Grown(t, q) = DOMAIN t \cup {q}
    BY DEF Grown
<1>2. IsFiniteSet(DOMAIN t \cup {q})
    BY FS_AddElement DEF IsBody
<1>3. Grown(t, q) # <<>>
    <2>1. <<>> \in DOMAIN Grown(t, q) /\ DOMAIN <<>> = {}
        BY DEF IsTree
    <2> QED
        BY <2>1
<1>4. Fits(t, Grown(t, q))
    BY DEF Fits, Grown
<1>5. Grown(t, q) = [r \in DOMAIN Grown(t, q) |-> Grown(t, q)[r]]
    BY DEF Grown
<1>6. IsBody(Grown(t, q))
    BY <1>1, <1>2, <1>5 DEF IsBody
<1> QED
    BY <1>3, <1>4, <1>6

LEMMA StepsAreSteps == Key("extra") \in Steps /\ Key("extra")[1] = "key" /\ \A n \in Nat : At(n) \in Steps
    BY MatchAssumption DEF Key, At, Steps

LEMMA Growth ==
    ASSUME IsRequest(request), WithParameter \/ WithField \/ WithElement
    PROVE  /\ IsRequest(request') /\ request' # <<>> /\ AsksMore(request, request')
           /\ hit' = FirstMatch(listed, request') /\ listed' = listed
<1>1. CASE WithParameter
    <2>1. PICK pair \in ExtraPairs : Grows([request EXCEPT !.query = @ \cup {pair}])
        BY <1>1 DEF WithParameter
    <2> DEFINE r == [request EXCEPT !.query = @ \cup {pair}]
    <2>2. IsRequest(r) /\ r # <<>> /\ AsksMore(request, r)
        <3> DEFINE Q == request.query \cup {pair}
        <3>1. request.query \subseteq Q /\ r = [request EXCEPT !.query = Q]
            OBVIOUS
        <3> HIDE DEF Q, r
        <3> QED
            BY <3>1, WithQuery
    <2>3. request' = r /\ hit' = FirstMatch(listed, r) /\ listed' = listed
        BY <2>1 DEF Grows
    <2> HIDE DEF r
    <2> QED
        BY <2>2, <2>3
<1>2. ASSUME NEW p \in DOMAIN request.body PROVE request.body # <<>> /\ IsBody(request.body) /\ p \in Seq(Steps)
    <2>1. DOMAIN <<>> = {}
        OBVIOUS
    <2>2. request.body # <<>>
        BY <2>1
    <2> QED
        BY <2>2 DEF IsRequest, IsBody
<1>3. CASE WithField
    <2> DEFINE t == request.body
               x == Key("extra")
    <2>1. PICK p \in DOMAIN t : t[p] = "obj" /\ Append(p, x) \notin DOMAIN t /\ Grows([request EXCEPT !.body = Put(@, Append(p, x), Leaf("x"))])
        BY <1>3 DEF WithField
    <2> DEFINE q == Append(p, x)
    <2>2. IsBody(t) /\ p \in Seq(Steps) /\ x \in Steps /\ x[1] = "key"
        BY <1>2, StepsAreSteps
    <2>3. [request EXCEPT !.body = Put(@, q, Leaf("x"))] = [request EXCEPT !.body = Put(t, q, Leaf("x"))]
        OBVIOUS
    <2> HIDE DEF t, x
    <2>4. q \in Seq(Steps)
        BY <2>2, StepsOfPaths
    <2>5. Put(t, q, Leaf("x")) = Grown(t, q)
        BY <2>1, <2>2, <2>4, PutGrows DEF IsBody
    <2>6. IsTree(Grown(t, q))
        BY <2>1, <2>2, KeyKeepsTree DEF IsBody
    <2>7. IsBody(Grown(t, q)) /\ Grown(t, q) # <<>> /\ Fits(t, Grown(t, q))
        BY <2>2, <2>4, <2>6, GrownIsBody
    <2> DEFINE r == [request EXCEPT !.body = Grown(t, q)]
    <2>8. IsRequest(r) /\ r # <<>> /\ AsksMore(request, r)
        BY <2>7, WithBody DEF t
    <2>9. request' = r /\ hit' = FirstMatch(listed, r) /\ listed' = listed
        BY <2>1, <2>3, <2>5 DEF Grows
    <2> HIDE DEF r
    <2> QED
        BY <2>8, <2>9
<1>4. CASE WithElement
    <2> DEFINE t == request.body
    <2>1. PICK p \in DOMAIN t : t[p] = "arr" /\ Grows([request EXCEPT !.body = Push(@, p, Leaf("x"))])
        BY <1>4 DEF WithElement
    <2> DEFINE x == At(Cardinality(Children(t, p)))
               q == Append(p, x)
    <2>2. IsBody(t) /\ p \in Seq(Steps)
        BY <1>2
    <2>3. [request EXCEPT !.body = Push(@, p, Leaf("x"))] = [request EXCEPT !.body = Put(t, q, Leaf("x"))]
        BY DEF Push
    <2> HIDE DEF t
    <2>4. x \in Steps
        <3>1. Children(t, p) \subseteq DOMAIN t
            BY DEF Children, Under
        <3>2. Cardinality(Children(t, p)) \in Nat
            BY <2>2, <3>1, FS_Subset, FS_CardinalityType DEF IsBody
        <3> QED
            BY <3>2, StepsAreSteps
    <2>5. q \notin DOMAIN t /\ IsTree(Grown(t, q))
        BY <2>1, <2>2, <2>4, ElementKeepsTree DEF IsBody
    <2> HIDE DEF x
    <2>6. q \in Seq(Steps)
        BY <2>2, <2>4, StepsOfPaths
    <2>7. Put(t, q, Leaf("x")) = Grown(t, q)
        BY <2>2, <2>5, <2>6, PutGrows DEF IsBody
    <2>8. IsBody(Grown(t, q)) /\ Grown(t, q) # <<>> /\ Fits(t, Grown(t, q))
        BY <2>2, <2>5, <2>6, GrownIsBody
    <2> DEFINE r == [request EXCEPT !.body = Grown(t, q)]
    <2>9. IsRequest(r) /\ r # <<>> /\ AsksMore(request, r)
        BY <2>8, WithBody DEF t
    <2>10. request' = r /\ hit' = FirstMatch(listed, r) /\ listed' = listed
        BY <2>1, <2>3, <2>7 DEF Grows
    <2> HIDE DEF r
    <2> QED
        BY <2>9, <2>10
<1> QED
    BY <1>1, <1>3, <1>4

(* What a rule asks is still there when the request says more.                *)
LEMMA MoreConditionsHold ==
    ASSUME NEW body, NEW more, Fits(body, more), NEW c, EvalCondition(c, body)
    PROVE  EvalCondition(c, more)
<1> DEFINE p == ConditionPath(c.path)
<1>1. Lookup(body, c.path) = IF p \in DOMAIN body THEN <<body[p]>> ELSE <<>>
    BY DEF Lookup
<1>2. Lookup(more, c.path) = IF p \in DOMAIN more THEN <<more[p]>> ELSE <<>>
    BY DEF Lookup
<1>3. Lookup(body, c.path) # <<>>
    BY DEF EvalCondition
<1> HIDE DEF p
<1>4. Lookup(more, c.path) = Lookup(body, c.path)
    BY <1>1, <1>2, <1>3 DEF Fits
<1> QED
    BY <1>4 DEF EvalCondition

LEMMA MorePairs ==
    ASSUME NEW q, NEW r, AsksMore(q, r)
    PROVE  BodyPairs(q) \subseteq BodyPairs(r)
<1> SUFFICES ASSUME NEW pair \in BodyPairs(q) PROVE pair \in BodyPairs(r)
    OBVIOUS
<1> DEFINE C(u) == {c \in DOMAIN u.body : Len(c) = 1 /\ c[1][1] = "key" /\ AsText(u.body[c]) # <<>>}
<1>1. q.json /\ q.body # <<>> /\ BodyPairs(q) = {<<p[1][2], AsText(q.body[p])[1]>> : p \in C(q)}
    BY DEF BodyPairs
<1>2. r.json /\ r.body # <<>> /\ Fits(q.body, r.body)
    BY <1>1 DEF AsksMore
<1>3. BodyPairs(r) = {<<p[1][2], AsText(r.body[p])[1]>> : p \in C(r)}
    BY <1>2 DEF BodyPairs
<1>4. PICK p \in C(q) : pair = <<p[1][2], AsText(q.body[p])[1]>>
    BY <1>1
<1>5. p \in DOMAIN r.body /\ r.body[p] = q.body[p]
    BY <1>2, <1>4 DEF Fits
<1>6. p \in C(r)
    BY <1>4, <1>5
<1> HIDE DEF C
<1> QED
    BY <1>3, <1>4, <1>5, <1>6

LEMMA MoreMatches ==
    ASSUME NEW q, NEW r, AsksMore(q, r), NEW rule, RuleMatches(rule, q)
    PROVE  RuleMatches(rule, r)
<1>1. r.host = q.host /\ r.method = q.method /\ r.path = q.path /\ r.json = q.json /\ q.query \subseteq r.query
    BY DEF AsksMore
<1>2. rule.host = NoPattern \/ GlobMatches(rule.host, r.host)
    BY <1>1 DEF RuleMatches
<1>3. rule.method \in {"", r.method}
    BY <1>1 DEF RuleMatches
<1>4. rule.path = NoPattern \/ GlobMatches(rule.path, r.path)
    BY <1>1 DEF RuleMatches
<1>5. \A pair \in rule.params : pair \in r.query \/ pair \in BodyPairs(r)
    <2>1. BodyPairs(q) \subseteq BodyPairs(r)
        BY MorePairs
    <2>2. \A pair \in rule.params : pair \in q.query \/ pair \in BodyPairs(q)
        BY DEF RuleMatches
    <2> QED
        BY <1>1, <2>1, <2>2
<1>6. ASSUME rule.template # NoTemplate \/ rule.conditions # {}
      PROVE  /\ r.json /\ r.body # <<>>
             /\ rule.template # NoTemplate => JsonSubset(rule.template, r.body)
             /\ \A c \in rule.conditions : EvalCondition(c, r.body)
    <2>1. /\ q.json /\ q.body # <<>>
          /\ rule.template # NoTemplate => JsonSubset(rule.template, q.body)
          /\ \A c \in rule.conditions : EvalCondition(c, q.body)
        BY <1>6 DEF RuleMatches
    <2>2. r.json /\ r.body # <<>> /\ Fits(q.body, r.body)
        BY <1>1, <2>1 DEF AsksMore
    <2>3. rule.template # NoTemplate => JsonSubset(rule.template, r.body)
        BY <2>1, <2>2 DEF JsonSubset, Fits
    <2>4. \A c \in rule.conditions : EvalCondition(c, r.body)
        BY <2>1, <2>2, MoreConditionsHold
    <2> QED
        BY <2>2, <2>3, <2>4
<1> QED
    BY <1>2, <1>3, <1>4, <1>5, <1>6 DEF RuleMatches

-----------------------------------------------------------------------------
(* The rules are what a query returned; the answer is the first match.        *)
MatchInv ==
    /\ listed \in RuleLists
    /\ request = <<>> => hit = 0
    /\ request # <<>> => IsRequest(request) /\ hit = FirstMatch(listed, request)

LEMMA MatchInvInit == MatchInit => MatchInv
    BY DEF MatchInit, MatchInv

LEMMA MatchInvNext == MatchInv /\ [MatchNext]_matchVars => MatchInv'
<1> SUFFICES ASSUME MatchInv, [MatchNext]_matchVars PROVE MatchInv'
    OBVIOUS
<1>1. CASE Arrives
    <2>1. PICK q \in Requests : request' = q /\ hit' = FirstMatch(listed, q) /\ listed' = listed
        BY <1>1 DEF Arrives
    <2>2. IsRequest(q) /\ q # <<>>
        <3>1. IsRequest(q)
            BY MatchAssumption
        <3>2. "host" \in DOMAIN q /\ DOMAIN <<>> = {}
            BY <3>1 DEF IsRequest
        <3> QED
            BY <3>1, <3>2
    <2> QED
        BY <2>1, <2>2 DEF MatchInv
<1>2. CASE AsksForMore
    <2>1. /\ IsRequest(request') /\ request' # <<>>
          /\ hit' = FirstMatch(listed, request') /\ listed' = listed
        BY <1>2, Growth DEF AsksForMore, MatchInv
    <2> QED
        BY <2>1 DEF MatchInv
<1>3. CASE UNCHANGED matchVars
    BY <1>3 DEF matchVars, MatchInv
<1> QED
    BY <1>1, <1>2, <1>3 DEF MatchNext

THEOREM MatchInvariant == MatchSpec => []MatchInv
<1> QED
    BY MatchInvInit, MatchInvNext, PTL DEF MatchSpec

LEMMA MatchInvIsExact == MatchInv => MatchingIsExact
<1> SUFFICES ASSUME MatchInv PROVE MatchingIsExact
    OBVIOUS
<1>1. IsRules(listed)
    BY MatchAssumption DEF MatchInv, IsRules
<1>2. GlobIsItsMeaning
    <2> SUFFICES ASSUME request # <<>>, NEW i \in DOMAIN listed, listed[i].path # NoPattern
                 PROVE  GlobMatches(listed[i].path, request.path) <=> Cuts(Split(listed[i].path), request.path) # {}
        BY DEF GlobIsItsMeaning
    <2>1. listed[i].path \in Seq(Chars)
        BY <1>1 DEF IsRules
    <2>2. request.path \in Seq(Chars)
        BY DEF MatchInv, IsRequest
    <2> QED
        BY <2>1, <2>2, GlobIsExact
<1>3. AnswersOnlyWhatItRead
    <2> SUFFICES ASSUME hit > 0, listed[hit].conditions # {}
                 PROVE  /\ request.json /\ request.body # <<>>
                        /\ \A c \in listed[hit].conditions : Lookup(request.body, c.path) # <<>>
        BY DEF AnswersOnlyWhatItRead
    <2>1. hit = FirstMatch(listed, request)
        BY DEF MatchInv
    <2>2. RuleMatches(listed[hit], request)
        BY <1>1, <2>1, FirstMatchIsFirst
    <2> QED
        BY <2>2 DEF RuleMatches, EvalCondition
<1> QED
    BY <1>2, <1>3 DEF MatchingIsExact

(* What is compared is what the rule says (rules.rs, glob_matches and the     *)
(* conditions): the pattern by its meaning, whatever the pattern and the      *)
(* text, and a body only when it is there.                                    *)
THEOREM MatchingMeansIt == MatchSpec => []MatchingIsExact
<1> QED
    BY MatchInvariant, MatchInvIsExact, PTL

LEMMA MoreKeepsTheHit ==
    ASSUME MatchInv, [MatchNext]_matchVars, request # <<>>, hit > 0
    PROVE  hit' \in 1..hit
<1>1. IsRules(listed)
    BY MatchAssumption DEF MatchInv, IsRules
<1>2. IsRequest(request) /\ hit = FirstMatch(listed, request)
    BY DEF MatchInv
<1>3. hit \in DOMAIN listed /\ RuleMatches(listed[hit], request) /\ hit \in Nat
    BY <1>1, <1>2, FirstMatchIsFirst
<1>4. CASE AsksForMore
    <2>1. AsksMore(request, request') /\ hit' = FirstMatch(listed, request')
        BY <1>2, <1>4, Growth DEF AsksForMore
    <2>2. RuleMatches(listed[hit], request')
        BY <1>3, <2>1, MoreMatches
    <2> QED
        BY <1>1, <1>3, <2>1, <2>2, FirstMatchIsFirst
<1>5. CASE UNCHANGED matchVars
    BY <1>3, <1>5 DEF matchVars
<1> QED
    BY <1>4, <1>5 DEF MatchNext, Arrives

(* A request that carries more than one a rule answered is answered by that   *)
(* rule or one before it (rules.rs, first_match), however often it grows.     *)
THEOREM ExtrasAreAllowed == MatchSpec => ExtrasKeepTheMock
<1>1. MatchInv /\ [MatchNext]_matchVars => [request # <<>> /\ hit > 0 => hit' \in 1..hit]_matchVars
    BY MoreKeepsTheHit
<1> QED
    BY <1>1, MatchInvariant, PTL DEF MatchSpec, ExtrasKeepTheMock

-----------------------------------------------------------------------------
(* Paths.                                                                     *)
LEMMA PathParent ==
    ASSUME NEW S, NEW q \in Seq(S), q # <<>>
    PROVE  /\ Parent(q) \in Seq(S) /\ LastStep(q) \in S /\ Len(Parent(q)) = Len(q) - 1
           /\ q = Append(Parent(q), LastStep(q))
<1> DEFINE m == Len(q) - 1
           x == q[Len(q)]
<1>1. Len(q) \in Nat \ {0} /\ m \in Nat /\ m <= Len(q) /\ m + 1 = Len(q) /\ x \in S
    OBVIOUS
<1>2. \A i \in 1..m : i \in 1..Len(q)
    BY <1>1
<1>3. x = q[m + 1]
    BY <1>1
<1> HIDE DEF m, x
<1>4. SubSeq(q, 1, m) \in Seq(S) /\ Len(SubSeq(q, 1, m)) = m /\ \A i \in 1..m : SubSeq(q, 1, m)[i] = q[i]
    BY <1>1, Prefix
<1> DEFINE a == SubSeq(q, 1, m)
<1>5. Append(a, x) \in Seq(S) /\ Len(Append(a, x)) = m + 1 /\ \A i \in 1..(m + 1) : Append(a, x)[i] = q[i]
    <2> HIDE DEF a
    <2>1. a \in Seq(S) /\ Len(a) = m
        BY <1>4 DEF a
    <2>2. Append(a, x) \in Seq(S) /\ Len(Append(a, x)) = m + 1 /\ Append(a, x)[m + 1] = x /\ \A i \in 1..m : Append(a, x)[i] = a[i]
        BY <1>1, <2>1
    <2>3. \A i \in 1..m : a[i] = q[i]
        BY <1>4 DEF a
    <2>4. \A i \in 1..(m + 1) : i \in 1..m \/ i = m + 1
        BY <1>1
    <2> QED
        BY <1>3, <2>2, <2>3, <2>4
<1>6. Append(a, x) = q
    <2> DEFINE b == Append(a, x)
    <2> HIDE DEF b, a
    <2>1. b \in Seq(S) /\ Len(b) = Len(q) /\ \A i \in 1..Len(q) : b[i] = q[i]
        BY <1>1, <1>5 DEF b
    <2> QED
        BY <2>1 DEF b
<1>7. Parent(q) = SubSeq(q, 1, m) /\ LastStep(q) = x
    BY DEF Parent, LastStep, m, x
<1> QED
    BY <1>1, <1>4, <1>6, <1>7 DEF m

LEMMA Suffix ==
    ASSUME NEW S, NEW r \in Seq(S), NEW m \in Nat, m <= Len(r)
    PROVE  /\ SubSeq(r, m + 1, Len(r)) \in Seq(S) /\ Len(SubSeq(r, m + 1, Len(r))) = Len(r) - m
           /\ \A i \in 1..(Len(r) - m) : SubSeq(r, m + 1, Len(r))[i] = r[m + i]
<1>1. Len(r) \in Nat
    OBVIOUS
<1>2. CASE m = Len(r)
    <2>1. SubSeq(r, m + 1, Len(r)) = <<>> /\ Len(r) - m = 0
        BY <1>1, <1>2
    <2> QED
        BY <2>1
<1>3. CASE m < Len(r)
    <2>1. \A i \in (m + 1)..Len(r) : r[i] \in S
        BY <1>1
    <2>2. Len(SubSeq(r, m + 1, Len(r))) = Len(r) - m
        BY <1>1, <1>3
    <2>3. SubSeq(r, m + 1, Len(r)) \in Seq(S)
        BY <1>1, <1>3, <2>1
    <2>4. ASSUME NEW i \in 1..(Len(r) - m) PROVE SubSeq(r, m + 1, Len(r))[i] = r[m + i]
        <3>1. (m + 1) + i - 1 = m + i /\ i \in 1..Len(SubSeq(r, m + 1, Len(r)))
            BY <1>1, <2>2
        <3> QED
            BY <1>1, <1>3, <3>1
    <2> QED
        BY <2>2, <2>3, <2>4
<1> QED
    BY <1>1, <1>2, <1>3

LEMMA PathJoin ==
    ASSUME NEW S, NEW p \in Seq(S), NEW w \in Seq(S)
    PROVE  /\ p \o w \in Seq(S) /\ Len(p \o w) = Len(p) + Len(w)
           /\ Begins(p, p \o w) /\ Below(p, p \o w) = w
           /\ p \o <<>> = p
<1> DEFINE q == p \o w
<1>1. /\ q \in Seq(S) /\ Len(q) = Len(p) + Len(w) /\ Len(p) \in Nat /\ Len(w) \in Nat
      /\ \A i \in 1..Len(p) : q[i] = p[i]
      /\ \A i \in 1..Len(w) : q[Len(p) + i] = w[i]
    OBVIOUS
<1>2. p \o <<>> = p
    OBVIOUS
<1> HIDE DEF q
<1>3. SubSeq(q, 1, Len(p)) = p
    <2>1. Len(p) <= Len(q)
        BY <1>1
    <2>2. SubSeq(q, 1, Len(p)) \in Seq(S) /\ Len(SubSeq(q, 1, Len(p))) = Len(p) /\ \A i \in 1..Len(p) : SubSeq(q, 1, Len(p))[i] = q[i]
        BY <1>1, <2>1, Prefix
    <2> QED
        BY <1>1, <2>2
<1>4. SubSeq(q, Len(p) + 1, Len(q)) = w
    <2>1. Len(p) <= Len(q) /\ Len(q) - Len(p) = Len(w)
        BY <1>1
    <2>2. SubSeq(q, Len(p) + 1, Len(q)) \in Seq(S) /\ Len(SubSeq(q, Len(p) + 1, Len(q))) = Len(q) - Len(p)
          /\ \A i \in 1..(Len(q) - Len(p)) : SubSeq(q, Len(p) + 1, Len(q))[i] = q[Len(p) + i]
        BY <1>1, <2>1, Suffix
    <2>3. \A i \in 1..Len(w) : SubSeq(q, Len(p) + 1, Len(q))[i] = w[i]
        BY <1>1, <2>1, <2>2
    <2> QED
        BY <2>1, <2>2, <2>3
<1>5. Begins(p, q)
    BY <1>1, <1>3 DEF Begins
<1>6. Below(p, q) = w
    BY <1>4 DEF Below
<1> QED
    BY <1>1, <1>2, <1>5, <1>6 DEF q

LEMMA PathSplit ==
    ASSUME NEW S, NEW p \in Seq(S), NEW q \in Seq(S), Begins(p, q)
    PROVE  Below(p, q) \in Seq(S) /\ q = p \o Below(p, q)
<1> DEFINE w == Below(p, q)
<1>1. Len(p) \in Nat /\ Len(q) \in Nat /\ Len(p) <= Len(q) /\ SubSeq(q, 1, Len(p)) = p
    BY DEF Begins
<1>2. \A i \in 1..Len(p) : p[i] = q[i]
    BY <1>1, Prefix
<1>3. w \in Seq(S) /\ Len(w) = Len(q) - Len(p) /\ \A i \in 1..(Len(q) - Len(p)) : w[i] = q[Len(p) + i]
    BY <1>1, Suffix DEF Below
<1> HIDE DEF w
<1>4. /\ p \o w \in Seq(S) /\ Len(p \o w) = Len(p) + Len(w)
      /\ \A i \in 1..Len(p) : (p \o w)[i] = p[i]
      /\ \A i \in 1..Len(w) : (p \o w)[Len(p) + i] = w[i]
    BY <1>3
<1>5. ASSUME NEW i \in 1..Len(q) PROVE (p \o w)[i] = q[i]
    <2>1. CASE i \in 1..Len(p)
        BY <1>2, <1>4, <2>1
    <2>2. CASE i > Len(p)
        <3>1. i - Len(p) \in 1..(Len(q) - Len(p)) /\ Len(p) + (i - Len(p)) = i
            BY <1>1, <2>2
        <3> QED
            BY <1>3, <1>4, <3>1
    <2>3. i \in 1..Len(p) \/ i > Len(p)
        BY <1>1
    <2> QED
        BY <2>1, <2>2, <2>3
<1>6. Len(p \o w) = Len(q)
    BY <1>1, <1>3, <1>4
<1>7. p \o w = q
    <2> DEFINE b == p \o w
    <2>1. b \in Seq(S) /\ Len(b) = Len(q) /\ \A i \in 1..Len(q) : b[i] = q[i]
        BY <1>4, <1>5, <1>6
    <2> HIDE DEF b
    <2>2. b = q
        BY <2>1
    <2> QED
        BY <2>2 DEF b
<1> QED
    BY <1>3, <1>7 DEF w

LEMMA PathBegins ==
    ASSUME NEW S, NEW p \in Seq(S), NEW q \in Seq(S), q # <<>>
    PROVE  Begins(p, q) <=> p = q \/ Begins(p, Parent(q))
<1>1. Len(p) \in Nat /\ Len(q) \in Nat \ {0} /\ Len(Parent(q)) = Len(q) - 1 /\ SubSeq(q, 1, Len(q)) = q
    BY PathParent
<1>2. CASE Len(p) <= Len(q) - 1
    <2>1. Len(q) - 1 \in Nat /\ Len(q) - 1 <= Len(q)
        BY <1>1
    <2>2. SubSeq(Parent(q), 1, Len(p)) = SubSeq(q, 1, Len(p))
        BY <1>1, <1>2, <2>1, PrefixOfPrefix DEF Parent
    <2>3. p # q
        BY <1>1, <1>2
    <2> QED
        BY <1>1, <1>2, <2>2, <2>3 DEF Begins
<1>3. CASE Len(p) > Len(q) - 1
    <2>1. ~Begins(p, Parent(q))
        BY <1>1, <1>3 DEF Begins
    <2>2. Begins(p, q) => Len(p) = Len(q)
        <3>1. Begins(p, q) => Len(p) <= Len(q)
            BY DEF Begins
        <3> QED
            BY <1>1, <1>3, <3>1
    <2>3. Begins(p, q) => p = q
        <3>1. Begins(p, q) => SubSeq(q, 1, Len(p)) = p
            BY DEF Begins
        <3>2. Begins(p, q) => SubSeq(q, 1, Len(p)) = SubSeq(q, 1, Len(q))
            BY <2>2
        <3> QED
            BY <1>1, <3>1, <3>2
    <2>4. Begins(q, q)
        BY <1>1 DEF Begins
    <2> QED
        BY <2>1, <2>3, <2>4
<1> QED
    BY <1>1, <1>2, <1>3

LEMMA JoinAppend ==
    ASSUME NEW S, NEW p \in Seq(S), NEW w \in Seq(S), NEW x \in S
    PROVE  p \o Append(w, x) = Append(p \o w, x)
    OBVIOUS

LEMMA PathOfJoin ==
    ASSUME NEW S, NEW p \in Seq(S), NEW w \in Seq(S), w # <<>>
    PROVE  /\ p \o w # <<>> /\ Parent(p \o w) = p \o Parent(w) /\ LastStep(p \o w) = LastStep(w)
           /\ p \o w # p
<1> DEFINE v == Parent(w)
           x == LastStep(w)
<1>1. v \in Seq(S) /\ x \in S /\ w = Append(v, x) /\ Len(w) \in Nat \ {0} /\ Len(p) \in Nat
    BY PathParent
<1> HIDE DEF v, x
<1>2. p \o w = Append(p \o v, x) /\ p \o v \in Seq(S)
    BY <1>1, JoinAppend, PathJoin
<1>3. p \o w # <<>> /\ Parent(p \o w) = p \o v /\ LastStep(p \o w) = x
    <2> DEFINE b == p \o v
    <2>1. b \in Seq(S) /\ p \o w = Append(b, x)
        BY <1>2
    <2> HIDE DEF b
    <2>2. Append(b, x) # <<>> /\ Parent(Append(b, x)) = b /\ LastStep(Append(b, x)) = x
        BY <1>1, <2>1, StepsOfPaths
    <2> QED
        BY <2>1, <2>2 DEF b
<1>4. Len(p \o w) = Len(p) + Len(w)
    BY PathJoin
<1>5. p \o w # p
    BY <1>1, <1>4
<1> QED
    BY <1>3, <1>5 DEF v, x

-----------------------------------------------------------------------------
(* Trees, with the children of an array as a row of elements.                 *)
Kind(x) == IF x[1] = "key" THEN "obj" ELSE "arr"
Row(a, m) == {Append(a, At(j)) : j \in 0..(m - 1)}
InARow(t, a) == \E m \in Nat : Children(t, a) = Row(a, m)

Rooted(t) ==
    /\ <<>> \in DOMAIN t
    /\ \A p \in DOMAIN t \ {<<>>} : Parent(p) \in DOMAIN t /\ t[Parent(p)] = Kind(LastStep(p))

Tree(t) ==
    /\ t = [p \in DOMAIN t |-> t[p]]
    /\ DOMAIN t \subseteq Seq(Steps)
    /\ Rooted(t)
    /\ \A a \in DOMAIN t : t[a] = "arr" => InARow(t, a)

LEMMA AtIsAStep == \A j \in Nat : At(j) \in Steps /\ At(j)[1] = "at" /\ At(j)[2] = j
    BY DEF At, Steps

LEMMA StepKinds == \A x \in Steps : (x[1] = "key" \/ (x[1] = "at" /\ x[2] \in Nat /\ x = At(x[2])))
    BY DEF At, Steps

LEMMA RowIsCounted ==
    ASSUME NEW a \in Seq(Steps), NEW m \in Nat
    PROVE  /\ IsFiniteSet(Row(a, m)) /\ Cardinality(Row(a, m)) = m
           /\ {LastStep(q)[2] : q \in Row(a, m)} = 0..(m - 1)
<1> DEFINE f == [i \in 1..m |-> Append(a, At(i - 1))]
<1>1. ASSUME NEW j \in Nat PROVE LastStep(Append(a, At(j)))[2] = j
    BY AtIsAStep, StepsOfPaths
<1>2. f \in Bijection(1..m, Row(a, m))
    <2>1. \A i \in 1..m : f[i] \in Row(a, m) /\ f[i] = Append(a, At(i - 1)) /\ i - 1 \in Nat
        BY DEF Row
    <2>2. \A r \in Row(a, m) : \E i \in 1..m : f[i] = r
        <3> SUFFICES ASSUME NEW j \in 0..(m - 1) PROVE \E i \in 1..m : f[i] = Append(a, At(j))
            BY DEF Row
        <3>1. j + 1 \in 1..m /\ (j + 1) - 1 = j
            OBVIOUS
        <3> QED
            BY <3>1
    <2>3. \A i, k \in 1..m : f[i] = f[k] => i = k
        <3> SUFFICES ASSUME NEW i \in 1..m, NEW k \in 1..m, f[i] = f[k] PROVE i = k
            OBVIOUS
        <3>1. i - 1 \in Nat /\ k - 1 \in Nat
            OBVIOUS
        <3>2. i - 1 = k - 1
            BY <1>1, <2>1, <3>1
        <3> QED
            BY <3>2
    <2> HIDE DEF f
    <2>4. f \in [1..m -> Row(a, m)]
        BY <2>1 DEF f
    <2> QED
        BY <2>2, <2>3, <2>4 DEF Bijection, Injection, Surjection, IsInjective
<1>3. IsFiniteSet(Row(a, m)) /\ Cardinality(Row(a, m)) = m
    <2> HIDE DEF f
    <2> QED
        BY <1>2, FS_NatBijection, FS_CountingElements, FS_CardinalityType DEF ExistsBijection
<1>4. {LastStep(q)[2] : q \in Row(a, m)} = 0..(m - 1)
    <2>1. \A q \in Row(a, m) : LastStep(q)[2] \in 0..(m - 1)
        <3> SUFFICES ASSUME NEW j \in 0..(m - 1) PROVE LastStep(Append(a, At(j)))[2] \in 0..(m - 1)
            BY DEF Row
        <3>1. j \in Nat
            OBVIOUS
        <3> QED
            BY <1>1, <3>1
    <2>2. ASSUME NEW j \in 0..(m - 1) PROVE Append(a, At(j)) \in Row(a, m) /\ LastStep(Append(a, At(j)))[2] = j
        <3>1. j \in Nat
            OBVIOUS
        <3> QED
            BY <1>1, <3>1 DEF Row
    <2> QED
        BY <2>1, <2>2
<1> QED
    BY <1>3, <1>4

LEMMA TreeIsTree ==
    ASSUME NEW t, Tree(t)
    PROVE  IsTree(t)
<1>1. ASSUME NEW a \in DOMAIN t, t[a] = "arr"
      PROVE  {LastStep(q)[2] : q \in Children(t, a)} = 0..(Cardinality(Children(t, a)) - 1)
    <2>1. a \in Seq(Steps)
        BY DEF Tree
    <2>2. PICK m \in Nat : Children(t, a) = Row(a, m)
        BY <1>1 DEF Tree, InARow
    <2> QED
        BY <2>1, <2>2, RowIsCounted
<1> QED
    BY <1>1 DEF IsTree, Tree, Rooted, Kind

(* The children of a node are the paths that lead from it.                    *)
LEMMA ChildrenByParent ==
    ASSUME NEW t, DOMAIN t \subseteq Seq(Steps), NEW a \in Seq(Steps)
    PROVE  Children(t, a) = {q \in DOMAIN t \ {<<>>} : Parent(q) = a}
<1>1. ASSUME NEW q \in DOMAIN t PROVE q \in Children(t, a) <=> q # <<>> /\ Parent(q) = a
    <2>1. q \in Seq(Steps) /\ Len(q) \in Nat /\ Len(a) \in Nat
        OBVIOUS
    <2>2. q \in Children(t, a) <=> Begins(a, q) /\ Len(q) = Len(a) + 1
        BY DEF Children, Under
    <2>3. CASE q = <<>>
        <3>1. Len(q) = 0
            BY <2>3
        <3> QED
            BY <2>1, <2>2, <2>3, <3>1
    <2>4. CASE q # <<>>
        <3>1. Parent(q) \in Seq(Steps) /\ Len(Parent(q)) = Len(q) - 1 /\ q = Append(Parent(q), LastStep(q)) /\ LastStep(q) \in Steps
            BY <2>1, <2>4, PathParent
        <3>2. Parent(q) = a => Begins(a, q) /\ Len(q) = Len(a) + 1
            <4> DEFINE b == Parent(q)
                       x == LastStep(q)
            <4>1. b \in Seq(Steps) /\ x \in Steps /\ q = Append(b, x)
                BY <3>1
            <4> HIDE DEF b, x
            <4>2. Begins(b, q) /\ Len(q) = Len(b) + 1
                BY <4>1, StepsOfPaths
            <4> QED
                BY <4>2 DEF b
        <3>3. ASSUME Begins(a, q), Len(q) = Len(a) + 1 PROVE Parent(q) = a
            <4>1. a # q /\ Len(a) = Len(q) - 1
                BY <2>1, <3>3
            <4>2. SubSeq(q, 1, Len(a)) = a
                BY <3>3 DEF Begins
            <4> QED
                BY <4>1, <4>2 DEF Parent
        <3> QED
            BY <2>2, <2>4, <3>2, <3>3
    <2> QED
        BY <2>3, <2>4
<1>2. \A q \in Children(t, a) : q \in DOMAIN t
    BY DEF Children, Under
<1> QED
    BY <1>1, <1>2

LEMMA BodyIsTree ==
    ASSUME NEW t, IsBody(t)
    PROVE  Tree(t)
<1>1. Rooted(t) /\ t = [p \in DOMAIN t |-> t[p]] /\ DOMAIN t \subseteq Seq(Steps) /\ IsFiniteSet(DOMAIN t)
    BY DEF IsBody, IsTree, Rooted, Kind
<1>2. ASSUME NEW a \in DOMAIN t, t[a] = "arr" PROVE InARow(t, a)
    <2> DEFINE C == Children(t, a)
               m == Cardinality(C)
    <2>1. a \in Seq(Steps)
        BY <1>1
    <2>2. C \subseteq DOMAIN t
        BY DEF Children, Under
    <2>3. m \in Nat
        BY <1>1, <2>2, FS_Subset, FS_CardinalityType
    <2>4. {LastStep(q)[2] : q \in C} = 0..(m - 1)
        BY <1>2 DEF IsBody, IsTree
    <2>5. C = {q \in DOMAIN t \ {<<>>} : Parent(q) = a}
        BY <1>1, <2>1, ChildrenByParent
    <2> HIDE DEF C, m
    <2>6. ASSUME NEW q \in C PROVE q = Append(a, At(LastStep(q)[2])) /\ LastStep(q)[2] \in 0..(m - 1)
        <3>1. q \in Seq(Steps) /\ q # <<>> /\ Parent(q) = a /\ q \in DOMAIN t
            BY <1>1, <2>5
        <3>2. q = Append(a, LastStep(q)) /\ LastStep(q) \in Steps
            BY <3>1, PathParent
        <3>3. Kind(LastStep(q)) = "arr"
            BY <1>1, <1>2, <3>1 DEF Rooted
        <3>4. LastStep(q) = At(LastStep(q)[2])
            BY <3>2, <3>3, StepKinds DEF Kind
        <3> QED
            BY <2>4, <3>2, <3>4
    <2>7. ASSUME NEW j \in 0..(m - 1) PROVE Append(a, At(j)) \in C
        <3>1. PICK q \in C : LastStep(q)[2] = j
            BY <2>4
        <3> QED
            BY <2>6, <3>1
    <2>8. C = Row(a, m)
        BY <2>6, <2>7 DEF Row
    <2> QED
        BY <2>3, <2>8 DEF InARow, C
<1> QED
    BY <1>1, <1>2 DEF Tree

(* What Put leaves and what it brings.                                        *)
Carries(g, t, p, v) ==
    /\ g = [q \in DOMAIN g |-> g[q]] /\ DOMAIN g \subseteq Seq(Steps)
    /\ \A q \in DOMAIN t : ~Begins(p, q) => q \in DOMAIN g /\ g[q] = t[q]
    /\ \A r \in DOMAIN v : p \o r \in DOMAIN g /\ g[p \o r] = v[r]
    /\ \A q \in DOMAIN g : (q \in DOMAIN t /\ ~Begins(p, q)) \/ (\E r \in DOMAIN v : q = p \o r)

LEMMA PutIsExact ==
    ASSUME NEW t, DOMAIN t \subseteq Seq(Steps), NEW p \in Seq(Steps), NEW v, DOMAIN v \subseteq Seq(Steps)
    PROVE  Carries(Put(t, p, v), t, p, v)
<1> DEFINE rest == DOMAIN t \ Under(t, p)
           g == Put(t, p, v)
<1>1. g = [q \in rest \cup {p \o r : r \in DOMAIN v} |-> IF q \in rest THEN t[q] ELSE v[Below(p, q)]]
    BY DEF Put
<1>2. \A q : q \in rest <=> q \in DOMAIN t /\ ~Begins(p, q)
    BY DEF Under
<1>3. \A r \in DOMAIN v : p \o r \in Seq(Steps) /\ Begins(p, p \o r) /\ Below(p, p \o r) = r
    BY PathJoin
<1> HIDE DEF rest, g
<1>4. DOMAIN g = rest \cup {p \o r : r \in DOMAIN v}
    BY <1>1
<1>5. \A q \in rest : q \in DOMAIN g /\ g[q] = t[q]
    BY <1>1
<1>6. ASSUME NEW r \in DOMAIN v PROVE p \o r \in DOMAIN g /\ g[p \o r] = v[r]
    <2>1. p \o r \notin rest
        BY <1>2, <1>3
    <2> DEFINE q == p \o r
    <2>2. q \in {p \o w : w \in DOMAIN v} /\ q \notin rest /\ Below(p, q) = r
        BY <1>3, <2>1
    <2> HIDE DEF q
    <2>3. q \in DOMAIN g /\ g[q] = v[Below(p, q)]
        BY <1>1, <2>2
    <2> QED
        BY <2>2, <2>3 DEF q
<1>7. DOMAIN g \subseteq Seq(Steps)
    BY <1>2, <1>3, <1>4
<1>8. \A q \in DOMAIN g : q \in rest \/ \E r \in DOMAIN v : q = p \o r
    BY <1>4
<1>9. g = [q \in DOMAIN g |-> g[q]]
    BY <1>1
<1> QED
    BY <1>2, <1>5, <1>6, <1>7, <1>8, <1>9 DEF g, Carries

(* A place for a value: the root, a key of an object, or an index of an array *)
(* that is there or the next one.                                             *)
Place(t, p) ==
    \/ p = <<>>
    \/ /\ p # <<>> /\ Parent(p) \in DOMAIN t /\ t[Parent(p)] = Kind(LastStep(p))
       /\ Kind(LastStep(p)) = "arr" => \E m \in Nat : Children(t, Parent(p)) = Row(Parent(p), m) /\ LastStep(p)[2] <= m

LEMMA PutIsRooted ==
    ASSUME NEW t, Tree(t), NEW v, Tree(v), NEW p \in Seq(Steps), Place(t, p)
    PROVE  Rooted(Put(t, p, v))
<1> DEFINE g == Put(t, p, v)
<1>1. DOMAIN t \subseteq Seq(Steps) /\ Rooted(t) /\ DOMAIN v \subseteq Seq(Steps) /\ Rooted(v)
    BY DEF Tree
<1>0. Carries(g, t, p, v)
    BY <1>1, PutIsExact
<1>2. \A q \in DOMAIN t : ~Begins(p, q) => q \in DOMAIN g /\ g[q] = t[q]
    BY <1>0 DEF Carries
<1>3. \A r \in DOMAIN v : p \o r \in DOMAIN g /\ g[p \o r] = v[r]
    BY <1>0 DEF Carries
<1>4. \A q \in DOMAIN g : (q \in DOMAIN t /\ ~Begins(p, q)) \/ (\E r \in DOMAIN v : q = p \o r)
    BY <1>0 DEF Carries
<1> HIDE DEF g
<1>5. p \o <<>> = p /\ <<>> \in DOMAIN v /\ <<>> \in DOMAIN t
    BY <1>1, PathJoin DEF Rooted
<1>6. <<>> \in DOMAIN g
    <2>1. CASE p = <<>>
        BY <1>3, <1>5, <2>1
    <2>2. CASE p # <<>>
        <3>1. Len(p) > Len(<<>>)
            BY <2>2
        <3>2. ~Begins(p, <<>>)
            BY <3>1 DEF Begins
        <3> QED
            BY <1>2, <1>5, <3>2
    <2> QED
        BY <2>1, <2>2
<1>7. ASSUME NEW q \in DOMAIN g, q # <<>> PROVE Parent(q) \in DOMAIN g /\ g[Parent(q)] = Kind(LastStep(q))
    <2>1. CASE q \in DOMAIN t /\ ~Begins(p, q)
        <3>1. Parent(q) \in DOMAIN t /\ t[Parent(q)] = Kind(LastStep(q)) /\ q \in Seq(Steps)
            BY <1>1, <1>7, <2>1 DEF Rooted
        <3>2. ~Begins(p, Parent(q))
            BY <1>7, <2>1, <3>1, PathBegins
        <3> QED
            BY <1>2, <3>1, <3>2
    <2>2. ASSUME NEW r \in DOMAIN v, q = p \o r, r # <<>> PROVE Parent(q) \in DOMAIN g /\ g[Parent(q)] = Kind(LastStep(q))
        <3>1. Parent(r) \in DOMAIN v /\ v[Parent(r)] = Kind(LastStep(r)) /\ r \in Seq(Steps)
            BY <1>1, <2>2 DEF Rooted
        <3>2. Parent(q) = p \o Parent(r) /\ LastStep(q) = LastStep(r)
            BY <2>2, <3>1, PathOfJoin
        <3> QED
            BY <1>3, <3>1, <3>2
    <2>3. CASE q = p
        <3>1. Parent(p) \in DOMAIN t /\ t[Parent(p)] = Kind(LastStep(p))
            BY <1>7, <2>3 DEF Place
        <3>2. Len(Parent(p)) < Len(p)
            BY <1>7, <2>3, PathParent
        <3>3. ~Begins(p, Parent(p))
            BY <1>1, <3>1, <3>2 DEF Begins
        <3> QED
            BY <1>2, <2>3, <3>1, <3>3
    <2> QED
        BY <1>4, <1>5, <2>1, <2>2, <2>3
<1> QED
    BY <1>6, <1>7 DEF Rooted, g

LEMMA PutKeepsRows ==
    ASSUME NEW t, Tree(t), NEW v, Tree(v), NEW p \in Seq(Steps), Place(t, p),
           NEW a \in DOMAIN Put(t, p, v), Put(t, p, v)[a] = "arr"
    PROVE  InARow(Put(t, p, v), a)
<1> DEFINE g == Put(t, p, v)
<1>0. Carries(g, t, p, v)
    <2>1. DOMAIN t \subseteq Seq(Steps) /\ DOMAIN v \subseteq Seq(Steps)
        BY DEF Tree
    <2> QED
        BY <2>1, PutIsExact
<1>1. DOMAIN t \subseteq Seq(Steps) /\ Rooted(t) /\ DOMAIN v \subseteq Seq(Steps) /\ Rooted(v) /\ DOMAIN g \subseteq Seq(Steps)
    BY <1>0 DEF Tree, Carries
<1>2. \A q \in DOMAIN t : ~Begins(p, q) => q \in DOMAIN g /\ g[q] = t[q]
    BY <1>0 DEF Carries
<1>3. \A r \in DOMAIN v : p \o r \in DOMAIN g /\ g[p \o r] = v[r]
    BY <1>0 DEF Carries
<1>4. \A q \in DOMAIN g : (q \in DOMAIN t /\ ~Begins(p, q)) \/ (\E r \in DOMAIN v : q = p \o r)
    BY <1>0 DEF Carries
<1>5. a \in DOMAIN g /\ g[a] = "arr" /\ a \in Seq(Steps)
    BY <1>1
<1> HIDE DEF g
<1>6. Children(g, a) = {q \in DOMAIN g \ {<<>>} : Parent(q) = a}
    BY <1>1, <1>5, ChildrenByParent
<1>7. p \o <<>> = p /\ <<>> \in DOMAIN v
    BY <1>1, PathJoin DEF Rooted
<1>8. \A r \in DOMAIN v : Begins(p, p \o r) /\ r \in Seq(Steps)
    BY <1>1, PathJoin
<1>9. CASE a \in DOMAIN t /\ ~Begins(p, a)
    <2>1. Children(t, a) = {q \in DOMAIN t \ {<<>>} : Parent(q) = a}
        BY <1>1, <1>5, ChildrenByParent
    <2>2. t[a] = "arr"
        BY <1>2, <1>5, <1>9
    <2>3. PICK m \in Nat : Children(t, a) = Row(a, m)
        BY <1>9, <2>2 DEF Tree, InARow
    <2>4. ASSUME NEW q \in DOMAIN g, q # <<>>, Parent(q) = a PROVE q \in DOMAIN t \/ q = p
        <3>1. ASSUME NEW r \in DOMAIN v, q = p \o r, r # <<>> PROVE FALSE
            <4>1. Parent(q) = p \o Parent(r) /\ Parent(r) \in Seq(Steps)
                BY <1>8, <3>1, PathOfJoin, PathParent
            <4> QED
                BY <1>9, <2>4, <4>1, PathJoin
        <3> QED
            BY <1>4, <1>7, <3>1
    <2>5. ASSUME NEW q \in DOMAIN t, q # <<>>, Parent(q) = a, q # p PROVE q \in DOMAIN g
        <3>1. ~Begins(p, q)
            BY <1>1, <1>9, <2>5, PathBegins
        <3> QED
            BY <1>2, <3>1
    <2>6. CASE p = <<>> \/ Parent(p) # a
        <3>1. Children(g, a) = Children(t, a)
            BY <1>6, <2>1, <2>4, <2>5, <2>6
        <3> QED
            BY <2>3, <3>1 DEF InARow, g
    <2>7. CASE p # <<>> /\ Parent(p) = a
        <3>1. p \in DOMAIN g
            BY <1>3, <1>7
        <3>2. Children(g, a) = Children(t, a) \cup {p}
            BY <1>6, <2>1, <2>4, <2>5, <2>7, <3>1
        <3>3. Kind(LastStep(p)) = "arr" /\ LastStep(p) \in Steps /\ p = Append(a, LastStep(p))
            BY <2>2, <2>7, PathParent DEF Place
        <3>4. LastStep(p) = At(LastStep(p)[2]) /\ LastStep(p)[2] \in Nat
            BY <3>3, StepKinds DEF Kind
        <3>5. PICK n \in Nat : Children(t, a) = Row(a, n) /\ LastStep(p)[2] <= n
            BY <2>7, <3>3 DEF Place
        <3> DEFINE j == LastStep(p)[2]
        <3>6. p = Append(a, At(j)) /\ j \in Nat /\ j <= n
            BY <3>3, <3>4, <3>5
        <3> HIDE DEF j
        <3>7. CASE j < n
            <4>1. p \in Row(a, n)
                BY <3>6, <3>7 DEF Row
            <4>2. Children(g, a) = Row(a, n)
                BY <3>2, <3>5, <4>1
            <4> QED
                BY <4>2 DEF InARow, g
        <3>8. CASE j = n
            <4>1. Row(a, n) \cup {p} = Row(a, n + 1)
                <5>1. 0..((n + 1) - 1) = (0..(n - 1)) \cup {n}
                    OBVIOUS
                <5> QED
                    BY <3>6, <3>8, <5>1 DEF Row
            <4>2. Children(g, a) = Row(a, n + 1) /\ n + 1 \in Nat
                BY <3>2, <3>5, <4>1
            <4> QED
                BY <4>2 DEF InARow, g
        <3> QED
            BY <3>6, <3>7, <3>8
    <2> QED
        BY <2>6, <2>7
<1>10. ASSUME NEW w \in DOMAIN v, a = p \o w PROVE InARow(g, a)
    <2>1. v[w] = "arr" /\ w \in Seq(Steps)
        BY <1>1, <1>3, <1>5, <1>10
    <2>2. PICK m \in Nat : Children(v, w) = Row(w, m)
        BY <2>1 DEF Tree, InARow
    <2>3. Children(v, w) = {q \in DOMAIN v \ {<<>>} : Parent(q) = w}
        BY <1>1, <2>1, ChildrenByParent
    <2>4. ASSUME NEW q \in Children(g, a) PROVE q \in Row(a, m)
        <3>1. q \in DOMAIN g /\ q # <<>> /\ Parent(q) = a /\ q \in Seq(Steps)
            BY <1>1, <1>6
        <3>2. Begins(p, a)
            BY <1>8, <1>10
        <3>3. Begins(p, q)
            BY <3>1, <3>2, PathBegins
        <3>4. PICK r \in DOMAIN v : q = p \o r
            BY <1>4, <3>1, <3>3
        <3>5. r \in Seq(Steps)
            BY <1>1
        <3>6. r # <<>>
            <4>1. ASSUME r = <<>> PROVE FALSE
                <5>1. q = p
                    BY <1>7, <3>4, <4>1
                <5>2. Len(Parent(q)) = Len(q) - 1
                    BY <3>1, PathParent
                <5>3. Len(p) <= Len(a) /\ Len(p) \in Nat /\ Len(a) \in Nat
                    BY <1>5, <3>2 DEF Begins
                <5> QED
                    BY <3>1, <5>1, <5>2, <5>3
            <4> QED
                BY <4>1
        <3>7. p \o w = p \o Parent(r) /\ Parent(r) \in Seq(Steps)
            BY <1>10, <3>1, <3>4, <3>5, <3>6, PathOfJoin, PathParent
        <3>8. w = Parent(r)
            <4>1. Below(p, p \o w) = w /\ Below(p, p \o Parent(r)) = Parent(r)
                BY <2>1, <3>7, PathJoin
            <4> QED
                BY <3>7, <4>1
        <3>9. r \in Row(w, m)
            BY <2>2, <2>3, <3>6, <3>8
        <3>10. PICK j \in 0..(m - 1) : r = Append(w, At(j))
            BY <3>9 DEF Row
        <3>11. At(j) \in Steps
            BY AtIsAStep
        <3>12. q = Append(a, At(j))
            BY <1>10, <2>1, <3>4, <3>10, <3>11, JoinAppend
        <3> QED
            BY <3>12 DEF Row
    <2>5. ASSUME NEW j \in 0..(m - 1) PROVE Append(a, At(j)) \in Children(g, a)
        <3>1. Append(w, At(j)) \in Row(w, m) /\ At(j) \in Steps
            BY AtIsAStep DEF Row
        <3>2. Append(w, At(j)) \in DOMAIN v
            BY <2>2, <2>3, <3>1
        <3>3. Append(a, At(j)) = p \o Append(w, At(j))
            <4> DEFINE x == At(j)
            <4>1. x \in Steps
                BY <3>1
            <4> HIDE DEF x
            <4>2. p \o Append(w, x) = Append(p \o w, x)
                BY <2>1, <4>1, JoinAppend
            <4> QED
                BY <1>10, <4>2 DEF x
        <3>4. Append(a, At(j)) \in DOMAIN g
            BY <1>3, <3>2, <3>3
        <3>5. Append(a, At(j)) # <<>> /\ Parent(Append(a, At(j))) = a
            BY <1>5, <3>1, StepsOfPaths
        <3> QED
            BY <1>6, <3>4, <3>5
    <2>6. Children(g, a) = Row(a, m)
        BY <2>4, <2>5 DEF Row
    <2> QED
        BY <2>6 DEF InARow
<1> QED
    BY <1>4, <1>5, <1>9, <1>10 DEF g

LEMMA PutKeepsTree ==
    ASSUME NEW t, Tree(t), NEW v, Tree(v), NEW p \in Seq(Steps), Place(t, p)
    PROVE  Tree(Put(t, p, v))
<1>1. Rooted(Put(t, p, v))
    BY PutIsRooted
<1>2. Put(t, p, v) = [q \in DOMAIN Put(t, p, v) |-> Put(t, p, v)[q]] /\ DOMAIN Put(t, p, v) \subseteq Seq(Steps)
    <2>1. DOMAIN t \subseteq Seq(Steps) /\ DOMAIN v \subseteq Seq(Steps)
        BY DEF Tree
    <2>2. Carries(Put(t, p, v), t, p, v)
        BY <2>1, PutIsExact
    <2> QED
        BY <2>2 DEF Carries
<1> QED
    BY <1>1, <1>2, PutKeepsRows DEF Tree

-----------------------------------------------------------------------------
(* The places the operations find, and what they leave.                       *)
Keeps(t, g, q) == q \in DOMAIN g /\ g[q] = t[q]

LEMMA LeafIsTree == \A x : Tree(Leaf(x)) /\ DOMAIN Leaf(x) = {<<>>} /\ Leaf(x)[<<>>] = x
<1> TAKE x
<1> DEFINE v == Leaf(x)
<1>1. DOMAIN v = {<<>>} /\ v[<<>>] = x /\ v = [p \in DOMAIN v |-> v[p]]
    BY DEF Leaf
<1>2. <<>> \in Seq(Steps)
    OBVIOUS
<1> HIDE DEF v
<1>3. Rooted(v) /\ DOMAIN v \subseteq Seq(Steps)
    BY <1>1, <1>2 DEF Rooted
<1>4. InARow(v, <<>>)
    <2>1. Children(v, <<>>) = {q \in DOMAIN v \ {<<>>} : Parent(q) = <<>>}
        BY <1>2, <1>3, ChildrenByParent
    <2>2. Children(v, <<>>) = {}
        BY <1>1, <2>1
    <2>3. Row(<<>>, 0) = {}
        <3>1. 0..(0 - 1) = {}
            OBVIOUS
        <3> QED
            BY <3>1 DEF Row
    <2> QED
        BY <2>2, <2>3 DEF InARow
<1>5. Tree(v)
    BY <1>1, <1>3, <1>4 DEF Tree
<1> QED
    BY <1>1, <1>5 DEF v

LEMMA StandsIsPlace ==
    ASSUME NEW t, Tree(t), NEW p \in DOMAIN t
    PROVE  p \in Seq(Steps) /\ Place(t, p)
<1>1. p \in Seq(Steps) /\ DOMAIN t \subseteq Seq(Steps) /\ Rooted(t)
    BY DEF Tree
<1>2. ASSUME p # <<>> PROVE Place(t, p)
    <2> DEFINE a == Parent(p)
    <2>1. a \in DOMAIN t /\ t[a] = Kind(LastStep(p)) /\ a \in Seq(Steps)
        BY <1>1, <1>2 DEF Rooted
    <2>2. LastStep(p) \in Steps /\ p = Append(a, LastStep(p))
        BY <1>1, <1>2, PathParent
    <2> HIDE DEF a
    <2>3. ASSUME Kind(LastStep(p)) = "arr"
          PROVE  \E m \in Nat : Children(t, a) = Row(a, m) /\ LastStep(p)[2] <= m
        <3>1. PICK m \in Nat : Children(t, a) = Row(a, m)
            BY <2>1, <2>3 DEF Tree, InARow
        <3>2. Children(t, a) = {q \in DOMAIN t \ {<<>>} : Parent(q) = a}
            BY <1>1, <2>1, ChildrenByParent
        <3>3. p \in Row(a, m)
            BY <1>2, <3>1, <3>2 DEF a
        <3>4. LastStep(p)[2] \in 0..(m - 1)
            BY <2>1, <3>3, RowIsCounted
        <3> QED
            BY <3>1, <3>4
    <2> QED
        BY <1>2, <2>1, <2>3 DEF Place, a
<1> QED
    BY <1>1, <1>2 DEF Place

LEMMA KeyIsPlace ==
    ASSUME NEW t, Tree(t), NEW a \in DOMAIN t, t[a] = "obj", NEW s \in Steps, s[1] = "key"
    PROVE  Append(a, s) \in Seq(Steps) /\ Place(t, Append(a, s))
<1> DEFINE p == Append(a, s)
<1>1. a \in Seq(Steps)
    BY DEF Tree
<1>2. p \in Seq(Steps) /\ p # <<>> /\ Parent(p) = a /\ LastStep(p) = s
    BY <1>1, StepsOfPaths
<1> HIDE DEF p
<1>3. Place(t, p)
    BY <1>2 DEF Place, Kind
<1> QED
    BY <1>2, <1>3 DEF p

NextElement(t, a) == Append(a, At(Cardinality(Children(t, a))))

LEMMA NextIsPlace ==
    ASSUME NEW t, Tree(t), NEW a \in DOMAIN t, t[a] = "arr"
    PROVE  NextElement(t, a) \in Seq(Steps) /\ Place(t, NextElement(t, a)) /\ NextElement(t, a) \notin DOMAIN t
<1>1. a \in Seq(Steps) /\ DOMAIN t \subseteq Seq(Steps)
    BY DEF Tree
<1>2. PICK m \in Nat : Children(t, a) = Row(a, m)
    BY DEF Tree, InARow
<1>3. Cardinality(Children(t, a)) = m
    BY <1>1, <1>2, RowIsCounted
<1> DEFINE x == At(m)
           p == Append(a, x)
<1>4. NextElement(t, a) = p
    BY <1>3 DEF NextElement
<1>5. x \in Steps /\ x[1] = "at" /\ x[2] = m
    BY AtIsAStep
<1> HIDE DEF x
<1>6. p \in Seq(Steps) /\ p # <<>> /\ Parent(p) = a /\ LastStep(p) = x
    BY <1>1, <1>5, StepsOfPaths
<1> HIDE DEF p
<1>7. Kind(x) = "arr"
    BY <1>5 DEF Kind
<1>8. Place(t, p)
    BY <1>2, <1>5, <1>6, <1>7 DEF Place
<1>9. p \notin DOMAIN t
    <2>1. ASSUME p \in DOMAIN t PROVE FALSE
        <3>1. Children(t, a) = {q \in DOMAIN t \ {<<>>} : Parent(q) = a}
            BY <1>1, ChildrenByParent
        <3>2. p \in Row(a, m)
            BY <1>2, <1>6, <2>1, <3>1
        <3>3. {LastStep(q)[2] : q \in Row(a, m)} = 0..(m - 1)
            BY <1>1, RowIsCounted
        <3>4. LastStep(p)[2] \in {LastStep(q)[2] : q \in Row(a, m)}
            BY <3>2
        <3>5. m \in 0..(m - 1)
            BY <1>5, <1>6, <3>3, <3>4
        <3> QED
            BY <3>5
    <2> QED
        BY <2>1
<1> QED
    BY <1>4, <1>6, <1>8, <1>9

LEMMA PutElsewhere ==
    ASSUME NEW t, Tree(t), NEW v, Tree(v), NEW p \in Seq(Steps), NEW q \in DOMAIN t, ~Begins(p, q)
    PROVE  Keeps(t, Put(t, p, v), q)
<1>1. DOMAIN t \subseteq Seq(Steps) /\ DOMAIN v \subseteq Seq(Steps)
    BY DEF Tree
<1>2. Carries(Put(t, p, v), t, p, v)
    BY <1>1, PutIsExact
<1> QED
    BY <1>2 DEF Carries, Keeps

LEMMA PutStands ==
    ASSUME NEW t, Tree(t), NEW v, Tree(v), NEW p \in Seq(Steps)
    PROVE  p \in DOMAIN Put(t, p, v) /\ Put(t, p, v)[p] = v[<<>>]
<1>1. DOMAIN t \subseteq Seq(Steps) /\ DOMAIN v \subseteq Seq(Steps) /\ <<>> \in DOMAIN v
    BY DEF Tree, Rooted
<1>2. Carries(Put(t, p, v), t, p, v)
    BY <1>1, PutIsExact
<1>3. p \o <<>> = p
    BY PathJoin
<1> QED
    BY <1>1, <1>2, <1>3 DEF Carries

LEMMA NewIsElsewhere ==
    ASSUME NEW t, Tree(t), NEW p \in Seq(Steps), p \notin DOMAIN t, NEW q \in DOMAIN t
    PROVE  ~Begins(p, q)
<1>1. IsTree(t) /\ DOMAIN t \subseteq Seq(Steps)
    BY TreeIsTree DEF Tree
<1>2. Under(t, p) = {}
    BY <1>1, NothingBelow
<1> QED
    BY <1>2 DEF Under

LEMMA PushIsTree ==
    ASSUME NEW t, Tree(t), NEW v, Tree(v), NEW a \in DOMAIN t, t[a] = "arr"
    PROVE  Tree(Push(t, a, v)) /\ \A q \in DOMAIN t : Keeps(t, Push(t, a, v), q)
<1>1. Push(t, a, v) = Put(t, NextElement(t, a), v)
    BY DEF Push, NextElement
<1>2. NextElement(t, a) \in Seq(Steps) /\ Place(t, NextElement(t, a)) /\ NextElement(t, a) \notin DOMAIN t
    BY NextIsPlace
<1>3. Tree(Put(t, NextElement(t, a), v))
    BY <1>2, PutKeepsTree
<1>4. ASSUME NEW q \in DOMAIN t PROVE Keeps(t, Put(t, NextElement(t, a), v), q)
    BY <1>2, NewIsElsewhere, PutElsewhere
<1> QED
    BY <1>1, <1>3, <1>4

LEMMA AsObjectIsTree ==
    ASSUME NEW t, Tree(t), NEW a \in DOMAIN t
    PROVE  Tree(AsObject(t, a)) /\ a \in DOMAIN AsObject(t, a) /\ AsObject(t, a)[a] = "obj"
<1>1. CASE t[a] = "obj"
    BY <1>1 DEF AsObject
<1>2. CASE t[a] # "obj"
    <2>1. AsObject(t, a) = Put(t, a, Leaf("obj"))
        BY <1>2 DEF AsObject
    <2>2. a \in Seq(Steps) /\ Place(t, a) /\ Tree(Leaf("obj")) /\ Leaf("obj")[<<>>] = "obj"
        BY StandsIsPlace, LeafIsTree
    <2> QED
        BY <2>1, <2>2, PutKeepsTree, PutStands
<1> QED
    BY <1>1, <1>2

LEMMA CutIsTree ==
    ASSUME NEW t, Tree(t), NEW p \in DOMAIN t, p # <<>>, Kind(LastStep(p)) = "obj"
    PROVE  Tree(Cut(t, p)) /\ \A q \in DOMAIN t : ~Begins(p, q) => Keeps(t, Cut(t, p), q)
<1> DEFINE g == Cut(t, p)
<1>1. DOMAIN t \subseteq Seq(Steps) /\ Rooted(t) /\ p \in Seq(Steps)
    BY DEF Tree
<1>2. g = [q \in DOMAIN g |-> g[q]] /\ (\A q : q \in DOMAIN g <=> q \in DOMAIN t /\ ~Begins(p, q)) /\ \A q \in DOMAIN g : g[q] = t[q]
    BY DEF Cut, Under
<1> HIDE DEF g
<1>3. ASSUME NEW q \in DOMAIN g, q # <<>> PROVE Parent(q) \in DOMAIN g /\ g[Parent(q)] = Kind(LastStep(q))
    <2>1. Parent(q) \in DOMAIN t /\ t[Parent(q)] = Kind(LastStep(q)) /\ q \in Seq(Steps)
        BY <1>1, <1>2, <1>3 DEF Rooted
    <2>2. ~Begins(p, Parent(q))
        BY <1>1, <1>2, <1>3, <2>1, PathBegins
    <2> QED
        BY <1>2, <2>1, <2>2
<1>4. <<>> \in DOMAIN g
    <2>1. Len(p) > Len(<<>>)
        BY <1>1
    <2>2. ~Begins(p, <<>>)
        BY <2>1 DEF Begins
    <2> QED
        BY <1>1, <1>2, <2>2 DEF Rooted
<1>5. ASSUME NEW a \in DOMAIN g, g[a] = "arr" PROVE InARow(g, a)
    <2>1. a \in DOMAIN t /\ t[a] = "arr" /\ a \in Seq(Steps) /\ ~Begins(p, a)
        BY <1>1, <1>2, <1>5
    <2>2. DOMAIN g \subseteq Seq(Steps)
        BY <1>1, <1>2
    <2>3. Children(g, a) = {q \in DOMAIN g \ {<<>>} : Parent(q) = a} /\ Children(t, a) = {q \in DOMAIN t \ {<<>>} : Parent(q) = a}
        BY <1>1, <2>1, <2>2, ChildrenByParent
    <2>4. ASSUME NEW q \in DOMAIN t, q # <<>>, Parent(q) = a PROVE q \in DOMAIN g
        <3>1. q \in Seq(Steps)
            BY <1>1
        <3>2. p # q
            <4>1. p = q => t[a] = "obj"
                BY <1>1, <2>4 DEF Rooted
            <4> QED
                BY <2>1, <4>1
        <3>3. ~Begins(p, q)
            BY <1>1, <2>1, <2>4, <3>1, <3>2, PathBegins
        <3> QED
            BY <1>2, <3>3
    <2>5. Children(g, a) = Children(t, a)
        BY <1>2, <2>3, <2>4
    <2>6. InARow(t, a)
        BY <2>1 DEF Tree
    <2> QED
        BY <2>5, <2>6 DEF InARow
<1>6. Tree(g)
    BY <1>1, <1>2, <1>3, <1>4, <1>5 DEF Tree, Rooted
<1> QED
    BY <1>2, <1>6 DEF g, Keeps


-----------------------------------------------------------------------------
(* An element of an array goes, and what stood behind it moves up.            *)
LEMMA ReplacedStep ==
    ASSUME NEW S, NEW r \in Seq(S), NEW n \in 1..Len(r), NEW x \in S
    PROVE  /\ [r EXCEPT ![n] = x] \in Seq(S) /\ Len([r EXCEPT ![n] = x]) = Len(r) /\ [r EXCEPT ![n] = x][n] = x
           /\ \A k \in 1..Len(r) : k # n => [r EXCEPT ![n] = x][k] = r[k]
    OBVIOUS

LEMMA ReplacedPath ==
    ASSUME NEW S, NEW r \in Seq(S), NEW n \in 1..Len(r), NEW x \in S
    PROVE  /\ SubSeq([r EXCEPT ![n] = x], 1, n - 1) = SubSeq(r, 1, n - 1)
           /\ Len(r) > n => Parent([r EXCEPT ![n] = x]) = [Parent(r) EXCEPT ![n] = x] /\ LastStep([r EXCEPT ![n] = x]) = LastStep(r)
           /\ Len(r) = n => Parent([r EXCEPT ![n] = x]) = Parent(r) /\ LastStep([r EXCEPT ![n] = x]) = x
<1> DEFINE b == [r EXCEPT ![n] = x]
<1>1. /\ b \in Seq(S) /\ Len(b) = Len(r) /\ b[n] = x /\ Len(r) \in Nat \ {0} /\ n \in Nat \ {0} /\ n <= Len(r)
      /\ \A k \in 1..Len(r) : k # n => b[k] = r[k]
    BY ReplacedStep
<1> HIDE DEF b
<1>2. ASSUME NEW m \in Nat, m <= Len(r), m < n PROVE SubSeq(b, 1, m) = SubSeq(r, 1, m)
    <2> DEFINE u == SubSeq(b, 1, m)
               v == SubSeq(r, 1, m)
    <2>1. u \in Seq(S) /\ Len(u) = m /\ \A k \in 1..m : u[k] = b[k]
        BY <1>1, <1>2, Prefix
    <2>2. v \in Seq(S) /\ Len(v) = m /\ \A k \in 1..m : v[k] = r[k]
        BY <1>1, <1>2, Prefix
    <2>3. \A k \in 1..m : k \in 1..Len(r) /\ k # n
        BY <1>1, <1>2
    <2> HIDE DEF u, v
    <2>4. \A k \in 1..m : u[k] = v[k]
        BY <1>1, <2>1, <2>2, <2>3
    <2>5. u = v
        BY <2>1, <2>2, <2>4
    <2> QED
        BY <2>5 DEF u, v
<1>3. SubSeq(b, 1, n - 1) = SubSeq(r, 1, n - 1)
    <2>1. n - 1 \in Nat /\ n - 1 <= Len(r) /\ n - 1 < n
        BY <1>1
    <2> QED
        BY <1>2, <2>1
<1>4. ASSUME Len(r) > n PROVE Parent(b) = [Parent(r) EXCEPT ![n] = x] /\ LastStep(b) = LastStep(r)
    <2> DEFINE m == Len(r) - 1
               u == SubSeq(b, 1, m)
               v == SubSeq(r, 1, m)
    <2>1. m \in Nat /\ m <= Len(r) /\ n \in 1..m /\ Len(r) # n
        BY <1>1, <1>4
    <2> HIDE DEF m
    <2>2. u \in Seq(S) /\ Len(u) = m /\ \A k \in 1..m : u[k] = b[k]
        BY <1>1, <2>1, Prefix
    <2>3. v \in Seq(S) /\ Len(v) = m /\ \A k \in 1..m : v[k] = r[k]
        BY <1>1, <2>1, Prefix
    <2>4. \A k \in 1..m : k \in 1..Len(r)
        BY <1>1, <2>1
    <2> HIDE DEF u, v
    <2> DEFINE w == [v EXCEPT ![n] = x]
    <2>5. w \in Seq(S) /\ Len(w) = m /\ w[n] = x /\ \A k \in 1..m : k # n => w[k] = v[k]
        BY <2>1, <2>3, ReplacedStep
    <2> HIDE DEF w
    <2>6. ASSUME NEW k \in 1..m PROVE u[k] = w[k]
        <3>1. CASE k = n
            BY <1>1, <2>1, <2>2, <2>5, <3>1
        <3>2. CASE k # n
            BY <1>1, <2>2, <2>3, <2>4, <2>5, <3>2
        <3> QED
            BY <3>1, <3>2
    <2>7. u = w
        BY <2>2, <2>5, <2>6
    <2>8. Parent(b) = u /\ Parent(r) = v
        BY <1>1 DEF Parent, u, v, m
    <2>9. LastStep(b) = LastStep(r)
        BY <1>1, <2>1 DEF LastStep
    <2> QED
        BY <2>7, <2>8, <2>9 DEF w
<1>5. ASSUME Len(r) = n PROVE Parent(b) = Parent(r) /\ LastStep(b) = x
    BY <1>1, <1>3, <1>5 DEF Parent, LastStep
<1> QED
    BY <1>3, <1>4, <1>5 DEF b


(* A path that begins with another stands on the child it goes through.       *)
LEMMA PrefixStands ==
    ASSUME NEW t, Tree(t), NEW q \in DOMAIN t, NEW c \in Seq(Steps), Begins(c, q)
    PROVE  c \in DOMAIN t
    BY NewIsElsewhere

Elder(a, q) == q[Len(a) + 1]

LEMMA ThroughAChild ==
    ASSUME NEW a \in Seq(Steps), NEW q \in Seq(Steps), Begins(a, q), q # a
    PROVE  /\ Len(q) >= Len(a) + 1 /\ Elder(a, q) \in Steps
           /\ Append(a, Elder(a, q)) \in Seq(Steps) /\ Begins(Append(a, Elder(a, q)), q)
           /\ \A x \in Steps : Begins(Append(a, x), q) => x = Elder(a, q)
<1> DEFINE n == Len(a) + 1
           c == SubSeq(q, 1, n)
<1>1. Len(a) \in Nat /\ Len(q) \in Nat /\ Len(a) <= Len(q) /\ SubSeq(q, 1, Len(a)) = a /\ SubSeq(q, 1, Len(q)) = q
    BY DEF Begins
<1>2. Len(a) # Len(q)
    <2>1. Len(a) = Len(q) => SubSeq(q, 1, Len(a)) = SubSeq(q, 1, Len(q))
        OBVIOUS
    <2> QED
        BY <1>1, <2>1
<1>3. n \in Nat /\ n <= Len(q) /\ n \in 1..Len(q) /\ Len(a) = n - 1 /\ n # 0
    <2>0. Len(a) \in Nat /\ Len(q) \in Nat /\ Len(a) <= Len(q)
        BY DEF Begins
    <2>1. Len(a) < Len(q)
        BY <1>2, <2>0
    <2>2. n \in Nat /\ n # 0 /\ n <= Len(q)
        BY <2>0, <2>1
    <2>3. Len(a) = n - 1 /\ n \in 1..Len(q)
        BY <2>0, <2>2
    <2> QED
        BY <2>2, <2>3
<1>4. q[n] \in Steps
    BY <1>3
<1> HIDE DEF n
<1>5. c \in Seq(Steps) /\ Len(c) = n /\ \A k \in 1..n : c[k] = q[k]
    BY <1>3, Prefix
<1>6. Begins(c, q)
    BY <1>3, <1>5 DEF Begins
<1>7. c # <<>> /\ LastStep(c) = q[n]
    BY <1>3, <1>5 DEF LastStep
<1>8. Parent(c) = a
    <2>1. Parent(c) = SubSeq(c, 1, n - 1)
        BY <1>5 DEF Parent
    <2>2. SubSeq(SubSeq(q, 1, n), 1, n - 1) = SubSeq(q, 1, n - 1)
        <3>1. n - 1 \in Nat /\ n - 1 <= n
            BY <1>3
        <3> QED
            BY <1>3, <3>1, PrefixOfPrefix
    <2> QED
        BY <1>1, <1>3, <2>1, <2>2
<1>9. c = Append(a, q[n])
    BY <1>5, <1>7, <1>8, PathParent
<1>10. ASSUME NEW x \in Steps, Begins(Append(a, x), q) PROVE x = q[n]
    <2> DEFINE b == Append(a, x)
    <2>1. b \in Seq(Steps) /\ Len(b) = n /\ b[n] = x
        BY <1>3
    <2> HIDE DEF b
    <2>2. SubSeq(q, 1, n) = b
        BY <1>10, <2>1 DEF Begins, b
    <2> QED
        BY <1>3, <1>5, <2>1, <2>2
<1> QED
    BY <1>3, <1>4, <1>5, <1>6, <1>9, <1>10 DEF Elder, n

LEMMA ElementsOnly ==
    ASSUME NEW t, Tree(t), NEW a \in DOMAIN t, t[a] = "arr", NEW q \in DOMAIN t, Begins(a, q), q # a
    PROVE  \E j \in Nat : Elder(a, q) = At(j) /\ Append(a, At(j)) \in DOMAIN t
<1>1. a \in Seq(Steps) /\ q \in Seq(Steps) /\ Rooted(t)
    BY DEF Tree
<1> DEFINE x == Elder(a, q)
           c == Append(a, x)
<1>2. x \in Steps /\ c \in Seq(Steps) /\ Begins(c, q)
    BY <1>1, ThroughAChild
<1> HIDE DEF x
<1>3. c # <<>> /\ Parent(c) = a /\ LastStep(c) = x
    BY <1>1, <1>2, StepsOfPaths
<1> HIDE DEF c
<1>4. c \in DOMAIN t
    BY <1>2, PrefixStands
<1>5. Kind(x) = "arr"
    BY <1>1, <1>3, <1>4 DEF Rooted
<1>6. x = At(x[2]) /\ x[2] \in Nat
    BY <1>2, <1>5, StepKinds DEF Kind
<1> QED
    BY <1>4, <1>6 DEF x, c


Later(t, a, i, q) == q \in DOMAIN t /\ Begins(a, q) /\ Len(q) >= Len(a) + 1 /\ q[Len(a) + 1][2] > i
Stays(t, a, i, q) == q \in DOMAIN t /\ ~Later(t, a, i, q) /\ ~Begins(Append(a, At(i)), q)
Down(a, r) == [r EXCEPT ![Len(a) + 1] = At(r[Len(a) + 1][2] - 1)]
Up(a, r)   == [r EXCEPT ![Len(a) + 1] = At(r[Len(a) + 1][2] + 1)]
AnArray(t, a) == Tree(t) /\ a \in DOMAIN t /\ t[a] = "arr"

(* r goes through element j of the array at a, j > i, and moves to j - 1.     *)
Moves(t, a, i, r, j) ==
    /\ j \in Nat \ {0} /\ j > i /\ Append(a, At(j)) \in DOMAIN t
    /\ r \in Seq(Steps) /\ Len(a) + 1 \in 1..Len(r) /\ r[Len(a) + 1] = At(j)
    /\ Down(a, r) = [r EXCEPT ![Len(a) + 1] = At(j - 1)]
    /\ Down(a, r) \in Seq(Steps) /\ Len(Down(a, r)) = Len(r) /\ Down(a, r)[Len(a) + 1] = At(j - 1)
    /\ Begins(a, Down(a, r)) /\ Down(a, r) # a /\ Up(a, Down(a, r)) = r

LEMMA LaterMoves ==
    ASSUME NEW t, NEW a, AnArray(t, a), NEW i \in Nat, NEW r, Later(t, a, i, r)
    PROVE  \E j \in Nat : Moves(t, a, i, r, j)
<1> DEFINE n == Len(a) + 1
<1>1. a \in Seq(Steps) /\ r \in Seq(Steps) /\ r \in DOMAIN t /\ Begins(a, r) /\ a \in DOMAIN t /\ Tree(t) /\ t[a] = "arr"
    BY DEF Tree, Later, AnArray
<1>2. Len(a) \in Nat /\ Len(r) \in Nat /\ Len(r) >= n /\ r[n][2] > i
    BY <1>1 DEF Later
<1>3. n \in 1..Len(r) /\ r # a /\ n - 1 = Len(a) /\ n \in Nat /\ n # 0
    BY <1>2
<1>4. PICK j \in Nat : Elder(a, r) = At(j) /\ Append(a, At(j)) \in DOMAIN t
    BY <1>1, <1>3, ElementsOnly
<1>5. r[n] = At(j)
    BY <1>4 DEF Elder
<1>6. At(j)[2] = j
    BY AtIsAStep
<1>7. j > i /\ j - 1 \in Nat /\ j # 0
    BY <1>2, <1>5, <1>6
<1>8. At(j - 1) \in Steps /\ At(j - 1)[2] = j - 1 /\ At(j) \in Steps
    BY <1>7, AtIsAStep
<1>9. Down(a, r) = [r EXCEPT ![n] = At(j - 1)]
    BY <1>5, <1>6 DEF Down
<1> DEFINE x == At(j - 1)
           b == [r EXCEPT ![n] = x]
<1>10. x \in Steps /\ x[2] = j - 1
    BY <1>8
<1> HIDE DEF n, x
<1>11. b \in Seq(Steps) /\ Len(b) = Len(r) /\ b[n] = x /\ \A k \in 1..Len(r) : k # n => b[k] = r[k]
    BY <1>1, <1>3, <1>10, ReplacedStep
<1>12. SubSeq(b, 1, n - 1) = SubSeq(r, 1, n - 1)
    BY <1>1, <1>3, <1>10, ReplacedPath
<1> DEFINE u == [b EXCEPT ![n] = At(b[n][2] + 1)]
<1>13. u = r
    <2>1. b[n][2] + 1 = j
        BY <1>10, <1>11
    <2> HIDE DEF b
    <2>2. u = [b EXCEPT ![n] = At(j)]
        BY <2>1
    <2> DEFINE y == At(j)
               w == [b EXCEPT ![n] = y]
    <2>3. y \in Steps /\ y = r[n]
        BY <1>5, <1>8
    <2> HIDE DEF y
    <2>4. w \in Seq(Steps) /\ Len(w) = Len(b) /\ w[n] = y /\ \A k \in 1..Len(b) : k # n => w[k] = b[k]
        BY <1>3, <1>11, <2>3, ReplacedStep
    <2> HIDE DEF w
    <2>5. \A k \in 1..Len(r) : w[k] = r[k]
        BY <1>11, <2>3, <2>4
    <2>6. w = r
        BY <1>1, <1>11, <2>4, <2>5
    <2> QED
        BY <2>2, <2>6 DEF w, y
<1> HIDE DEF b
<1>14. Down(a, r) = b
    BY <1>9 DEF b, x
<1>15. Up(a, b) = u
    BY DEF Up, n
<1>16. Begins(a, b)
    <2>1. SubSeq(r, 1, Len(a)) = a
        BY <1>1 DEF Begins
    <2>2. SubSeq(b, 1, Len(a)) = a
        BY <1>3, <1>12, <2>1
    <2>3. Len(a) <= Len(b)
        BY <1>2, <1>3, <1>11
    <2> QED
        BY <2>2, <2>3 DEF Begins
<1>17. b # a
    BY <1>2, <1>3, <1>11
<1>18. Moves(t, a, i, r, j)
    <2>1. Down(a, r) \in Seq(Steps) /\ Len(Down(a, r)) = Len(r) /\ Down(a, r)[n] = At(j - 1)
        BY <1>11, <1>14 DEF x
    <2>2. Begins(a, Down(a, r)) /\ Down(a, r) # a /\ Up(a, Down(a, r)) = r
        BY <1>13, <1>14, <1>15, <1>16, <1>17
    <2> QED
        BY <1>1, <1>3, <1>4, <1>5, <1>7, <1>9, <2>1, <2>2 DEF Moves, n
<1> QED
    BY <1>18

LEMMA DownGoes ==
    ASSUME NEW t, NEW a, AnArray(t, a), NEW i \in Nat, NEW r, Later(t, a, i, r)
    PROVE  ~Stays(t, a, i, Down(a, r))
<1> DEFINE b == Down(a, r)
<1>1. PICK j \in Nat : Moves(t, a, i, r, j)
    BY LaterMoves
<1>2. b \in Seq(Steps) /\ Len(b) = Len(r) /\ b[Len(a) + 1] = At(j - 1) /\ Begins(a, b) /\ b # a /\ j > i /\ j \in Nat \ {0}
    BY <1>1 DEF Moves
<1>3. a \in Seq(Steps)
    BY DEF AnArray, Tree
<1> HIDE DEF b
<1>4. Len(b) >= Len(a) + 1 /\ Begins(Append(a, Elder(a, b)), b) /\ Elder(a, b) = At(j - 1)
    BY <1>2, <1>3, ThroughAChild DEF Elder
<1>5. CASE j - 1 = i
    BY <1>4, <1>5 DEF Stays, b
<1>6. CASE j - 1 # i
    <2>1. j - 1 \in Nat /\ j - 1 > i
        BY <1>2, <1>6
    <2>2. At(j - 1)[2] = j - 1
        BY <2>1, AtIsAStep
    <2>3. b \in DOMAIN t => Later(t, a, i, b)
        BY <1>2, <1>4, <2>1, <2>2 DEF Later
    <2> QED
        BY <2>3 DEF Stays, b
<1> QED
    BY <1>5, <1>6


Shifted(g, t, a, i) ==
    /\ g = [q \in DOMAIN g |-> g[q]] /\ DOMAIN g \subseteq Seq(Steps)
    /\ \A q : Stays(t, a, i, q) => q \in DOMAIN g /\ g[q] = t[q]
    /\ \A r : Later(t, a, i, r) => Down(a, r) \in DOMAIN g /\ g[Down(a, r)] = t[r]
    /\ \A q \in DOMAIN g : Stays(t, a, i, q) \/ \E r : Later(t, a, i, r) /\ q = Down(a, r)

LEMMA ShiftIsExact ==
    ASSUME NEW t, NEW a, AnArray(t, a), NEW i \in Nat
    PROVE  Shifted(Shift(t, a, i), t, a, i)
<1> DEFINE L == {q \in Under(t, a) : Len(q) >= Len(a) + 1 /\ q[Len(a) + 1][2] > i}
           K == DOMAIN t \ (L \cup Under(t, Append(a, At(i))))
           g == Shift(t, a, i)
<1>1. g = [q \in K \cup {Down(a, r) : r \in L} |-> IF q \in K THEN t[q] ELSE t[Up(a, q)]]
    BY DEF Shift, Down, Up
<1>2. \A q : q \in L <=> Later(t, a, i, q)
    BY DEF Later, Under
<1>3. \A q : q \in K <=> Stays(t, a, i, q)
    BY <1>2 DEF Stays, Under, Later
<1>4. DOMAIN t \subseteq Seq(Steps)
    BY DEF AnArray, Tree
<1> HIDE DEF L, K, g
<1>5. DOMAIN g = K \cup {Down(a, r) : r \in L}
    BY <1>1
<1>6. ASSUME NEW r, Later(t, a, i, r) PROVE Down(a, r) \in DOMAIN g /\ g[Down(a, r)] = t[r] /\ Down(a, r) \in Seq(Steps)
    <2>1. PICK j \in Nat : Moves(t, a, i, r, j)
        BY <1>6, LaterMoves
    <2>2. Down(a, r) \in Seq(Steps) /\ Up(a, Down(a, r)) = r
        BY <2>1 DEF Moves
    <2>3. Down(a, r) \notin K
        BY <1>3, <1>6, DownGoes
    <2>4. Down(a, r) \in {Down(a, s) : s \in L}
        BY <1>2, <1>6
    <2> DEFINE b == Down(a, r)
    <2> HIDE DEF b
    <2>5. b \notin K /\ b \in {Down(a, s) : s \in L} /\ Up(a, b) = r
        BY <2>2, <2>3, <2>4 DEF b
    <2>6. b \in DOMAIN g /\ g[b] = t[r]
        BY <1>1, <2>5
    <2> QED
        BY <2>2, <2>6 DEF b
<1>7. \A q : Stays(t, a, i, q) => q \in DOMAIN g /\ g[q] = t[q]
    BY <1>1, <1>3
<1>8. \A q \in DOMAIN g : Stays(t, a, i, q) \/ \E r : Later(t, a, i, r) /\ q = Down(a, r)
    BY <1>2, <1>3, <1>5
<1>9. DOMAIN g \subseteq Seq(Steps)
    BY <1>4, <1>6, <1>8 DEF Stays
<1>10. g = [q \in DOMAIN g |-> g[q]]
    BY <1>1
<1> QED
    BY <1>6, <1>7, <1>8, <1>9, <1>10 DEF Shifted, g

(* Parents and children while the elements move.                              *)
LEMMA DownsParent ==
    ASSUME NEW t, NEW a, AnArray(t, a), NEW i \in Nat, NEW r, Later(t, a, i, r)
    PROVE  /\ r \in DOMAIN t /\ r \in Seq(Steps) /\ r # <<>> /\ Down(a, r) # <<>>
           /\ \/ \E j \in Nat \ {0} : /\ j > i /\ r = Append(a, At(j)) /\ Down(a, r) = Append(a, At(j - 1)) /\ Parent(r) = a
                                      /\ Parent(Down(a, r)) = a /\ LastStep(Down(a, r)) = At(j - 1)
              \/ Later(t, a, i, Parent(r)) /\ Parent(Down(a, r)) = Down(a, Parent(r)) /\ LastStep(Down(a, r)) = LastStep(r)
                 /\ Parent(Down(a, r)) # a
<1> DEFINE n == Len(a) + 1
           b == Down(a, r)
<1>1. PICK j \in Nat : Moves(t, a, i, r, j)
    BY LaterMoves
<1>2. /\ j \in Nat \ {0} /\ j > i /\ r \in Seq(Steps) /\ n \in 1..Len(r) /\ r[n] = At(j) /\ b = [r EXCEPT ![n] = At(j - 1)]
      /\ b \in Seq(Steps) /\ Len(b) = Len(r) /\ Begins(a, b)
    BY <1>1 DEF Moves
<1>3. a \in Seq(Steps) /\ Len(a) \in Nat /\ Len(r) \in Nat /\ n \in Nat \ {0} /\ n - 1 = Len(a) /\ Tree(t) /\ Rooted(t)
    BY <1>2 DEF AnArray, Tree
<1>4. j - 1 \in Nat /\ At(j - 1) \in Steps /\ At(j) \in Steps /\ At(j)[2] = j
    <2>1. j - 1 \in Nat
        BY <1>2
    <2> QED
        BY <2>1, AtIsAStep
<1>5. r \in DOMAIN t /\ Begins(a, r)
    BY DEF Later
<1>6. r # <<>> /\ b # <<>>
    <2>1. Len(r) # 0
        BY <1>2, <1>3
    <2> QED
        BY <1>2, <2>1
<1> DEFINE x == At(j - 1)
<1>7. x \in Steps /\ b = [r EXCEPT ![n] = x]
    BY <1>2, <1>4
<1> HIDE DEF x, n
<1>11. r \in Seq(Steps) /\ n \in 1..Len(r) /\ x \in Steps
    BY <1>2, <1>7
<1>12. /\ Len(r) > n => Parent([r EXCEPT ![n] = x]) = [Parent(r) EXCEPT ![n] = x] /\ LastStep([r EXCEPT ![n] = x]) = LastStep(r)
       /\ Len(r) = n => Parent([r EXCEPT ![n] = x]) = Parent(r) /\ LastStep([r EXCEPT ![n] = x]) = x
    BY <1>11, ReplacedPath
<1>13. /\ Len(r) > n => Parent(b) = [Parent(r) EXCEPT ![n] = x] /\ LastStep(b) = LastStep(r)
       /\ Len(r) = n => Parent(b) = Parent(r) /\ LastStep(b) = x
    BY <1>7, <1>12
<1> HIDE DEF b
<1>8. CASE Len(r) = n
    <2>1. Parent(b) = Parent(r) /\ LastStep(b) = x
        BY <1>8, <1>13
    <2>2. Parent(r) = SubSeq(r, 1, Len(a)) /\ LastStep(r) = At(j)
        BY <1>2, <1>3, <1>8 DEF Parent, LastStep
    <2>3. SubSeq(r, 1, Len(a)) = a
        BY <1>5 DEF Begins
    <2>4. r = Append(a, At(j)) /\ b = Append(a, x)
        BY <1>2, <1>6, <2>1, <2>2, <2>3, PathParent
    <2> QED
        BY <1>2, <1>5, <1>6, <2>1, <2>2, <2>3, <2>4 DEF b, x
<1>9. CASE Len(r) > n
    <2>1. Parent(b) = [Parent(r) EXCEPT ![n] = x] /\ LastStep(b) = LastStep(r)
        BY <1>9, <1>13
    <2> DEFINE u == Parent(r)
               m == Len(r) - 1
    <2>2. u \in Seq(Steps) /\ Len(u) = m /\ u \in DOMAIN t
        BY <1>2, <1>3, <1>5, <1>6, PathParent DEF Rooted
    <2>3. m \in Nat /\ m <= Len(r) /\ n \in 1..m
        BY <1>2, <1>3, <1>9
    <2>4. u = SubSeq(r, 1, m)
        BY DEF Parent
    <2> HIDE DEF u, m
    <2>5. u[n] = At(j)
        BY <1>2, <2>3, <2>4, Prefix
    <2>6. Begins(a, u)
        <3>1. a # r
            BY <1>3, <1>9
        <3> QED
            BY <1>2, <1>3, <1>5, <1>6, <3>1, PathBegins DEF u
    <2>7. Later(t, a, i, u)
        <3>1. Len(u) >= Len(a) + 1
            BY <2>2, <2>3 DEF n
        <3>2. u[Len(a) + 1][2] > i
            BY <1>2, <1>4, <2>5 DEF n
        <3> QED
            BY <2>2, <2>6, <3>1, <3>2 DEF Later
    <2>8. Down(a, u) = [u EXCEPT ![n] = x]
        BY <1>4, <2>5 DEF Down, n, x
    <2>9. Parent(b) # a
        <3>1. Len(Parent(b)) = Len(b) - 1
            BY <1>2, <1>6, PathParent
        <3>2. Len(Parent(b)) # Len(a)
            BY <1>2, <1>3, <1>9, <3>1
        <3> QED
            BY <3>2
    <2> QED
        BY <1>2, <1>5, <1>6, <2>1, <2>7, <2>8, <2>9 DEF b, u
<1>10. Len(r) = n \/ Len(r) > n
    BY <1>2, <1>3
<1> QED
    BY <1>8, <1>9, <1>10


LEMMA ParentsElder ==
    ASSUME NEW a \in Seq(Steps), NEW q \in Seq(Steps), q # <<>>, Begins(a, Parent(q))
    PROVE  Begins(a, q) /\ q # a /\ (Parent(q) # a => Elder(a, q) = Elder(a, Parent(q)))
<1> DEFINE u == Parent(q)
           m == Len(q) - 1
<1>1. u \in Seq(Steps) /\ Len(u) = m /\ u = SubSeq(q, 1, m) /\ Begins(a, u)
    BY PathParent DEF Parent
<1>2. Len(q) \in Nat \ {0} /\ m \in Nat /\ m <= Len(q) /\ Len(a) \in Nat
    OBVIOUS
<1>3. Begins(a, q)
    BY PathBegins
<1>4. Len(a) <= Len(u)
    BY <1>1 DEF Begins
<1>5. q # a
    BY <1>1, <1>2, <1>4
<1>6. ASSUME u # a PROVE Elder(a, q) = Elder(a, u)
    <2>1. Len(u) >= Len(a) + 1
        BY <1>1, <1>6, ThroughAChild
    <2> HIDE DEF u, m
    <2>2. Len(a) + 1 \in 1..m
        BY <1>1, <1>2, <2>1
    <2> QED
        BY <1>1, <1>2, <2>2, Prefix DEF Elder
<1> QED
    BY <1>3, <1>5, <1>6

LEMMA LaterByElder ==
    ASSUME NEW t, NEW a, AnArray(t, a), NEW i \in Nat, NEW q \in DOMAIN t
    PROVE  /\ Later(t, a, i, q) <=> Begins(a, q) /\ q # a /\ Elder(a, q)[2] > i
           /\ Begins(Append(a, At(i)), q) <=> Begins(a, q) /\ q # a /\ Elder(a, q) = At(i)
<1>1. a \in Seq(Steps) /\ q \in Seq(Steps)
    BY DEF AnArray, Tree
<1>2. Len(a) \in Nat /\ At(i) \in Steps
    BY <1>1, AtIsAStep
<1>3. ASSUME Begins(a, q), q # a
      PROVE  /\ Len(q) >= Len(a) + 1 /\ Begins(Append(a, Elder(a, q)), q)
             /\ Begins(Append(a, At(i)), q) => At(i) = Elder(a, q)
    BY <1>1, <1>2, <1>3, ThroughAChild
<1>4. Len(q) >= Len(a) + 1 => q # a
    BY <1>2
<1>5. ASSUME Begins(Append(a, At(i)), q) PROVE Begins(a, q) /\ q # a
    <2> DEFINE b == Append(a, At(i))
    <2>1. b \in Seq(Steps) /\ b # <<>> /\ Parent(b) = a /\ Len(b) = Len(a) + 1
        BY <1>1, <1>2, StepsOfPaths
    <2> HIDE DEF b
    <2>2. Len(b) <= Len(q) /\ SubSeq(q, 1, Len(b)) = b
        BY <1>5 DEF Begins, b
    <2>3. Len(q) \in Nat /\ Len(a) <= Len(b) /\ Len(b) \in Nat /\ Len(b) <= Len(q)
        BY <1>1, <1>2, <2>1, <2>2
    <2>4. SubSeq(b, 1, Len(a)) = a
        BY <1>2, <2>1 DEF Parent
    <2>5. SubSeq(SubSeq(q, 1, Len(b)), 1, Len(a)) = SubSeq(q, 1, Len(a))
        BY <1>1, <1>2, <2>3, PrefixOfPrefix
    <2>6. Len(a) <= Len(q) /\ q # a
        BY <1>2, <2>1, <2>3
    <2> QED
        BY <2>2, <2>4, <2>5, <2>6 DEF Begins
<1> QED
    BY <1>3, <1>4, <1>5 DEF Later, Elder

LEMMA ParentStays ==
    ASSUME NEW t, NEW a, AnArray(t, a), NEW i \in Nat, NEW q \in DOMAIN t, q # <<>>
    PROVE  /\ Parent(q) \in DOMAIN t
           /\ Stays(t, a, i, q) => Stays(t, a, i, Parent(q))
           /\ Stays(t, a, i, Parent(q)) /\ Parent(q) # a => Stays(t, a, i, q)
           /\ Later(t, a, i, Parent(q)) => Later(t, a, i, q)
<1> DEFINE u == Parent(q)
<1>1. a \in Seq(Steps) /\ q \in Seq(Steps) /\ u \in DOMAIN t /\ u \in Seq(Steps)
    BY DEF AnArray, Tree, Rooted
<1>2. Begins(a, u) => Begins(a, q) /\ q # a /\ (u # a => Elder(a, q) = Elder(a, u))
    BY <1>1, ParentsElder
<1>3. Begins(a, q) /\ q # a => Begins(a, u)
    BY <1>1, PathBegins
<1>4. /\ Later(t, a, i, q) <=> Begins(a, q) /\ q # a /\ Elder(a, q)[2] > i
      /\ Begins(Append(a, At(i)), q) <=> Begins(a, q) /\ q # a /\ Elder(a, q) = At(i)
    BY LaterByElder
<1> HIDE DEF u
<1>5. /\ Later(t, a, i, u) <=> Begins(a, u) /\ u # a /\ Elder(a, u)[2] > i
      /\ Begins(Append(a, At(i)), u) <=> Begins(a, u) /\ u # a /\ Elder(a, u) = At(i)
    BY <1>1, LaterByElder
<1>6. Stays(t, a, i, q) => Stays(t, a, i, u)
    BY <1>1, <1>2, <1>4, <1>5 DEF Stays
<1>7. Stays(t, a, i, u) /\ u # a => Stays(t, a, i, q)
    BY <1>1, <1>2, <1>3, <1>4, <1>5 DEF Stays
<1>8. Later(t, a, i, u) => Later(t, a, i, q)
    BY <1>1, <1>2, <1>4, <1>5
<1> QED
    BY <1>1, <1>6, <1>7, <1>8 DEF u

LEMMA ElsewhereStays ==
    ASSUME NEW t, NEW a, AnArray(t, a), NEW i \in Nat, NEW q \in DOMAIN t, q = a \/ ~Begins(a, q)
    PROVE  Stays(t, a, i, q)
    BY LaterByElder DEF Stays


LEMMA ShiftIsTree ==
    ASSUME NEW t, NEW a, AnArray(t, a), NEW i \in Nat, Append(a, At(i)) \in DOMAIN t
    PROVE  Tree(Shift(t, a, i)) /\ \A q \in DOMAIN t : q = a \/ ~Begins(a, q) => Keeps(t, Shift(t, a, i), q)
<1> DEFINE g == Shift(t, a, i)
           S(q) == Stays(t, a, i, q)
           L(q) == Later(t, a, i, q)
<1>0. Shifted(g, t, a, i)
    BY ShiftIsExact
<1>1. /\ g = [q \in DOMAIN g |-> g[q]] /\ DOMAIN g \subseteq Seq(Steps)
      /\ \A q : S(q) => q \in DOMAIN g /\ g[q] = t[q]
      /\ \A r : L(r) => Down(a, r) \in DOMAIN g /\ g[Down(a, r)] = t[r]
      /\ \A q \in DOMAIN g : S(q) \/ \E r : L(r) /\ q = Down(a, r)
    BY <1>0 DEF Shifted
<1>2. Tree(t) /\ a \in DOMAIN t /\ t[a] = "arr" /\ a \in Seq(Steps) /\ Rooted(t) /\ DOMAIN t \subseteq Seq(Steps) /\ <<>> \in DOMAIN t
    BY DEF AnArray, Tree, Rooted
<1>3. \A q : S(q) => q \in DOMAIN t
    BY DEF Stays
<1>4. \A r : L(r) => ~S(Down(a, r))
    BY DownGoes
<1>5. \A q \in DOMAIN t : q = a \/ ~Begins(a, q) => S(q)
    BY ElsewhereStays
<1>6. \A q \in DOMAIN t : q # <<>> => /\ Parent(q) \in DOMAIN t
                                      /\ S(q) => S(Parent(q))
                                      /\ S(Parent(q)) /\ Parent(q) # a => S(q)
                                      /\ L(Parent(q)) => L(q)
    BY ParentStays
<1>7. ASSUME NEW r, L(r)
      PROVE  /\ r \in DOMAIN t /\ r \in Seq(Steps) /\ r # <<>> /\ Down(a, r) # <<>>
             /\ \/ \E j \in Nat \ {0} : /\ j > i /\ r = Append(a, At(j)) /\ Down(a, r) = Append(a, At(j - 1)) /\ Parent(r) = a
                                        /\ Parent(Down(a, r)) = a /\ LastStep(Down(a, r)) = At(j - 1)
                \/ L(Parent(r)) /\ Parent(Down(a, r)) = Down(a, Parent(r)) /\ LastStep(Down(a, r)) = LastStep(r)
                   /\ Parent(Down(a, r)) # a
    BY <1>7, DownsParent
<1>8. ASSUME NEW r, L(r) PROVE Up(a, Down(a, r)) = r /\ Down(a, r) \in Seq(Steps)
    <2>1. \E j \in Nat : Moves(t, a, i, r, j)
        BY <1>8, LaterMoves
    <2> QED
        BY <2>1 DEF Moves
<1>9. \A j \in Nat : At(j) \in Steps /\ Kind(At(j)) = "arr" /\ At(j)[2] = j
    BY AtIsAStep DEF Kind
<1>10. S(a)
    BY <1>2, <1>5
<1>11. <<>> \in DOMAIN g
    <2>1. a = <<>> \/ ~Begins(a, <<>>)
        <3>1. a # <<>> => Len(a) > Len(<<>>)
            BY <1>2
        <3> QED
            BY <3>1 DEF Begins
    <2> QED
        BY <1>1, <1>2, <1>5, <2>1
<1> HIDE DEF g, S, L
<1>12. ASSUME NEW q \in DOMAIN g, q # <<>> PROVE Parent(q) \in DOMAIN g /\ g[Parent(q)] = Kind(LastStep(q))
    <2>1. CASE S(q)
        <3>1. q \in DOMAIN t /\ S(Parent(q))
            BY <1>3, <1>6, <1>12, <2>1
        <3>2. t[Parent(q)] = Kind(LastStep(q))
            BY <1>2, <1>12, <3>1 DEF Rooted
        <3> QED
            BY <1>1, <3>1, <3>2
    <2>2. ASSUME NEW r, L(r), q = Down(a, r) PROVE Parent(q) \in DOMAIN g /\ g[Parent(q)] = Kind(LastStep(q))
        <3>1. ASSUME NEW j \in Nat \ {0}, Parent(q) = a, LastStep(q) = At(j - 1)
              PROVE  Parent(q) \in DOMAIN g /\ g[Parent(q)] = Kind(LastStep(q))
            <4>1. j - 1 \in Nat
                BY <3>1
            <4>2. Kind(LastStep(q)) = "arr"
                BY <1>9, <3>1, <4>1
            <4> QED
                BY <1>1, <1>2, <1>10, <3>1, <4>2
        <3>2. ASSUME L(Parent(r)), Parent(q) = Down(a, Parent(r)), LastStep(q) = LastStep(r)
              PROVE  Parent(q) \in DOMAIN g /\ g[Parent(q)] = Kind(LastStep(q))
            <4>1. t[Parent(r)] = Kind(LastStep(r))
                BY <1>2, <1>7, <2>2 DEF Rooted
            <4> QED
                BY <1>1, <3>2, <4>1
        <3> QED
            BY <1>7, <2>2, <3>1, <3>2
    <2> QED
        BY <1>1, <2>1, <2>2
<1>13. ASSUME NEW b \in DOMAIN g, g[b] = "arr" PROVE InARow(g, b)
    <2> DEFINE G == {q \in DOMAIN g \ {<<>>} : Parent(q) = b}
    <2>1. b \in Seq(Steps) /\ Children(g, b) = G
        BY <1>1, ChildrenByParent
    <2>2. CASE b = a
        <3>1. PICK m \in Nat : Children(t, a) = Row(a, m)
            BY <1>2 DEF Tree, InARow
        <3>2. \A q : q \in Row(a, m) <=> q \in DOMAIN t /\ q # <<>> /\ Parent(q) = a
            BY <1>2, <3>1, ChildrenByParent
        <3>3. ASSUME NEW j \in Nat, Append(a, At(j)) \in DOMAIN t
              PROVE  /\ j < m
                     /\ L(Append(a, At(j))) <=> j > i
                     /\ S(Append(a, At(j))) <=> j < i
                     /\ Append(a, At(j)) # <<>> /\ Parent(Append(a, At(j))) = a
            <4> DEFINE x == At(j)
                       p == Append(a, x)
            <4>1. x \in Steps /\ x[2] = j
                BY <1>9
            <4>2. i = j <=> At(i) = x
                BY <1>9
            <4> HIDE DEF x
            <4>3. p \in Seq(Steps) /\ p # <<>> /\ Parent(p) = a /\ LastStep(p) = x /\ Begins(a, p) /\ Len(p) = Len(a) + 1
                BY <1>2, <4>1, StepsOfPaths
            <4>4. Elder(a, p) = x /\ p # a
                BY <1>2, <4>1, <4>3 DEF Elder
            <4>5. p \in DOMAIN t
                BY <3>3 DEF x
            <4> HIDE DEF p
            <4>6. /\ Later(t, a, i, p) <=> Begins(a, p) /\ p # a /\ Elder(a, p)[2] > i
                  /\ Begins(Append(a, At(i)), p) <=> Begins(a, p) /\ p # a /\ Elder(a, p) = At(i)
                BY <4>5, LaterByElder
            <4>7. L(p) <=> j > i
                BY <4>1, <4>3, <4>4, <4>6 DEF L
            <4>8. S(p) <=> ~(j > i) /\ j # i
                BY <4>2, <4>3, <4>4, <4>5, <4>6, <4>7 DEF S, L, Stays
            <4>9. j \in 0..(m - 1)
                <5>1. p \in Row(a, m)
                    BY <3>2, <4>3, <4>5
                <5>2. {LastStep(q)[2] : q \in Row(a, m)} = 0..(m - 1)
                    BY <1>2, RowIsCounted
                <5>3. LastStep(p)[2] \in {LastStep(q)[2] : q \in Row(a, m)}
                    BY <5>1
                <5> QED
                    BY <4>1, <4>3, <5>2, <5>3
            <4> QED
                BY <4>3, <4>7, <4>8, <4>9 DEF p, x
        <3>4. i < m /\ m - 1 \in Nat
            BY <3>1, <3>3
        <3>5. ASSUME NEW q \in G PROVE q \in Row(a, m - 1)
            <4>1. q \in DOMAIN g /\ q # <<>> /\ Parent(q) = a
                BY <2>2
            <4>2. CASE S(q)
                <5>1. q \in Row(a, m)
                    BY <1>3, <3>2, <4>1, <4>2
                <5>2. PICK j \in 0..(m - 1) : q = Append(a, At(j))
                    BY <5>1 DEF Row
                <5>3. j \in Nat /\ j < i
                    BY <1>3, <3>3, <4>2, <5>2
                <5>4. j \in 0..((m - 1) - 1)
                    BY <3>1, <3>4, <5>3
                <5> QED
                    BY <5>2, <5>4 DEF Row
            <4>3. ASSUME NEW r, L(r), q = Down(a, r) PROVE q \in Row(a, m - 1)
                <5>1. PICK j \in Nat \ {0} : r = Append(a, At(j)) /\ q = Append(a, At(j - 1))
                    BY <1>7, <4>1, <4>3
                <5>2. j < m
                    BY <1>7, <3>3, <4>3, <5>1
                <5>3. j - 1 \in 0..((m - 1) - 1)
                    BY <3>1, <5>2
                <5> QED
                    BY <5>1, <5>3 DEF Row
            <4> QED
                BY <1>1, <4>1, <4>2, <4>3
        <3>6. ASSUME NEW j \in 0..((m - 1) - 1) PROVE Append(a, At(j)) \in G
            <4>1. j \in Nat /\ j \in 0..(m - 1) /\ j + 1 \in 0..(m - 1) /\ j + 1 \in Nat /\ j + 1 # 0 /\ (j + 1) - 1 = j
                BY <3>1
            <4>2. Append(a, At(j)) \in DOMAIN t /\ Append(a, At(j + 1)) \in DOMAIN t
                <5>1. Append(a, At(j)) \in Row(a, m) /\ Append(a, At(j + 1)) \in Row(a, m)
                    BY <4>1 DEF Row
                <5> QED
                    BY <3>2, <5>1
            <4>3. Append(a, At(j)) # <<>> /\ Parent(Append(a, At(j))) = a
                BY <3>3, <4>1, <4>2
            <4>4. CASE j < i
                BY <1>1, <2>2, <3>3, <4>1, <4>2, <4>3, <4>4
            <4>5. CASE ~(j < i)
                <5>1. L(Append(a, At(j + 1)))
                    <6>1. j + 1 > i
                        BY <4>1, <4>5
                    <6> QED
                        BY <3>3, <4>1, <4>2, <6>1
                <5>2. Down(a, Append(a, At(j + 1))) = Append(a, At(j))
                    <6> DEFINE r == Append(a, At(j + 1))
                    <6>1. L(r) /\ Parent(r) = a /\ ~L(a)
                        BY <1>10, <3>3, <4>1, <4>2, <5>1 DEF L, S, Stays
                    <6> HIDE DEF r
                    <6>2. PICK k \in Nat \ {0} : r = Append(a, At(k)) /\ Down(a, r) = Append(a, At(k - 1))
                        BY <1>7, <6>1
                    <6>3. k = j + 1
                        <7>1. At(k) \in Steps /\ At(j + 1) \in Steps /\ At(k)[2] = k /\ At(j + 1)[2] = j + 1
                            BY <1>9, <4>1
                        <7>2. LastStep(r) = At(k)
                            BY <1>2, <6>2, <7>1, StepsOfPaths
                        <7>3. LastStep(r) = At(j + 1)
                            BY <1>2, <7>1, StepsOfPaths DEF r
                        <7> QED
                            BY <7>1, <7>2, <7>3
                    <6> QED
                        BY <4>1, <6>2, <6>3 DEF r
                <5>3. Append(a, At(j)) \in DOMAIN g
                    BY <1>1, <5>1, <5>2
                <5> QED
                    BY <2>2, <4>3, <5>3
            <4> QED
                BY <4>4, <4>5
        <3>7. G = Row(a, m - 1)
            BY <3>5, <3>6 DEF Row
        <3> QED
            BY <2>1, <2>2, <3>4, <3>7 DEF InARow
    <2>3. CASE S(b) /\ b # a
        <3>1. b \in DOMAIN t /\ t[b] = "arr"
            BY <1>1, <1>3, <1>13, <2>3
        <3>2. InARow(t, b) /\ Children(t, b) = {q \in DOMAIN t \ {<<>>} : Parent(q) = b}
            BY <1>2, <2>1, <3>1, ChildrenByParent DEF Tree
        <3>3. ASSUME NEW q \in G PROVE q \in DOMAIN t
            <4>1. ASSUME NEW r, L(r), q = Down(a, r) PROVE FALSE
                BY <1>4, <1>7, <2>3, <4>1
            <4> QED
                BY <1>1, <1>3, <4>1
        <3>4. \A q \in DOMAIN t : q # <<>> /\ Parent(q) = b => q \in DOMAIN g
            BY <1>1, <1>6, <2>3
        <3>5. G = Children(t, b)
            BY <3>2, <3>3, <3>4
        <3> QED
            BY <2>1, <3>2, <3>5 DEF InARow
    <2>4. ASSUME NEW r, L(r), b = Down(a, r) PROVE InARow(g, b)
        <3>1. r \in DOMAIN t /\ r \in Seq(Steps) /\ t[r] = "arr"
            BY <1>1, <1>7, <1>13, <2>4
        <3>2. PICK m \in Nat : Children(t, r) = Row(r, m)
            BY <1>2, <3>1 DEF Tree, InARow
        <3>3. \A q : q \in Row(r, m) <=> q \in DOMAIN t /\ q # <<>> /\ Parent(q) = r
            BY <1>2, <3>1, <3>2, ChildrenByParent
        <3>4. ~S(b)
            BY <1>4, <2>4
        <3>5. ~S(r) /\ r # a
            BY <1>10, <2>4 DEF S, L, Stays
        <3>6. b # a
            BY <1>10, <3>4
        <3>7. ASSUME NEW q \in G PROVE q \in Row(b, m)
            <4>1. q \in DOMAIN g /\ q # <<>> /\ Parent(q) = b /\ q \in Seq(Steps)
                BY <1>1
            <4>2. ~S(q)
                BY <1>3, <1>6, <3>4, <4>1
            <4>3. PICK s : L(s) /\ q = Down(a, s)
                BY <1>1, <4>1, <4>2
            <4>4. L(Parent(s)) /\ b = Down(a, Parent(s)) /\ LastStep(q) = LastStep(s) /\ s \in DOMAIN t /\ s # <<>> /\ s \in Seq(Steps)
                BY <1>7, <3>6, <4>1, <4>3
            <4>5. Parent(s) = r
                <5>1. Up(a, Down(a, Parent(s))) = Parent(s)
                    BY <1>8, <4>4
                <5>2. Up(a, Down(a, r)) = r
                    BY <1>8, <2>4
                <5> QED
                    BY <2>4, <4>4, <5>1, <5>2
            <4>6. s \in Row(r, m)
                BY <3>3, <4>4, <4>5
            <4>7. PICK k \in 0..(m - 1) : s = Append(r, At(k))
                BY <4>6 DEF Row
            <4>8. LastStep(s) = At(k)
                <5>1. At(k) \in Steps
                    BY <1>9
                <5> QED
                    BY <3>1, <4>7, <5>1, StepsOfPaths
            <4>9. q = Append(b, At(k))
                BY <4>1, <4>4, <4>8, PathParent
            <4> QED
                BY <4>9 DEF Row
        <3>8. ASSUME NEW k \in 0..(m - 1) PROVE Append(b, At(k)) \in G
            <4> DEFINE s == Append(r, At(k))
            <4>1. At(k) \in Steps
                BY <1>9
            <4>2. LastStep(s) = At(k)
                BY <3>1, <4>1, StepsOfPaths
            <4>3. s \in Row(r, m)
                BY DEF Row
            <4> HIDE DEF s
            <4>4. s \in DOMAIN t /\ s # <<>> /\ Parent(s) = r
                BY <3>3, <4>3
            <4>5. L(s)
                BY <1>6, <2>4, <4>4
            <4>6. Down(a, s) \in DOMAIN g /\ Down(a, s) # <<>> /\ Parent(Down(a, s)) = b /\ LastStep(Down(a, s)) = At(k)
                BY <1>1, <1>7, <2>4, <3>5, <4>2, <4>4, <4>5
            <4>7. Down(a, s) = Append(b, At(k))
                <5>1. Down(a, s) \in Seq(Steps)
                    BY <1>8, <4>5
                <5> QED
                    BY <4>6, <5>1, PathParent
            <4> QED
                BY <4>6, <4>7
        <3>9. G = Row(b, m)
            BY <3>7, <3>8 DEF Row
        <3> QED
            BY <2>1, <3>9 DEF InARow
    <2> QED
        BY <1>1, <2>2, <2>3, <2>4
<1>14. Tree(g)
    BY <1>1, <1>11, <1>12, <1>13 DEF Tree, Rooted
<1>15. \A q \in DOMAIN t : q = a \/ ~Begins(a, q) => Keeps(t, g, q)
    BY <1>1, <1>5 DEF Keeps
<1> QED
    BY <1>14, <1>15 DEF g


-----------------------------------------------------------------------------
(* One step of the walk to the parent of a path's last step.                  *)
Tokens == Steps \cup {ToEnd}

LEMMA TokenKinds ==
    /\ \A s \in Tokens : s \in Steps \/ s = ToEnd
    /\ \A s \in Tokens : s[1] = "key" => s \in Steps /\ Kind(s) = "obj" /\ s # ToEnd
    /\ \A s \in Tokens : s[1] = "at" => s \in Steps /\ Kind(s) = "arr" /\ s # ToEnd /\ s[2] \in Nat /\ s = At(s[2])
    /\ \A s \in Tokens : s # ToEnd => s[1] = "key" \/ s[1] = "at"
    /\ ToEnd[1] = "end"
<1>1. ToEnd[1] = "end"
    BY DEF ToEnd
<1>2. \A s \in Tokens : s \in Steps \/ s = ToEnd
    BY DEF Tokens
<1>3. \A s \in Tokens : s[1] = "key" => s \in Steps /\ Kind(s) = "obj" /\ s # ToEnd
    BY <1>1, <1>2 DEF Kind
<1>4. \A s \in Tokens : s[1] = "at" => s \in Steps /\ Kind(s) = "arr" /\ s # ToEnd /\ s[2] \in Nat /\ s = At(s[2])
    BY <1>1, <1>2, StepKinds DEF Kind
<1>5. \A s \in Tokens : s # ToEnd => s[1] = "key" \/ s[1] = "at"
    BY <1>2, StepKinds
<1> QED
    BY <1>1, <1>2, <1>3, <1>4, <1>5

(* The path p goes through q, as an object where q does.                      *)
Spares(p, q) ==
    /\ OffThePath(p, q)
    /\ \A n \in 0..(Len(p) - 1) : Begins(SubSeq(p, 1, n), q) /\ Len(q) > n => p[n + 1][1] = q[n + 1][1]

LEMMA BeginsMore ==
    ASSUME NEW S, NEW p \in Seq(S), NEW m \in Nat, m <= Len(p)
    PROVE  Begins(SubSeq(p, 1, m), p)
<1>1. SubSeq(p, 1, m) \in Seq(S) /\ Len(SubSeq(p, 1, m)) = m
    BY Prefix
<1> QED
    BY <1>1 DEF Begins

(* A node on the way of p is an object, if q runs through it.                 *)
LEMMA AsObjectKeeps ==
    ASSUME NEW t, Tree(t), NEW q \in DOMAIN t, NEW p \in Seq(Tokens), Spares(p, q),
           NEW m \in Nat, m < Len(p), SubSeq(p, 1, m) \in DOMAIN t, p[m + 1][1] = "key"
    PROVE  Keeps(t, AsObject(t, SubSeq(p, 1, m)), q)
<1> DEFINE a == SubSeq(p, 1, m)
<1>1. Len(p) \in Nat /\ m <= Len(p) /\ m \in 0..(Len(p) - 1)
    OBVIOUS
<1>2. a \in Seq(Steps) /\ q \in Seq(Steps) /\ Len(a) = m /\ Begins(a, p) /\ a \in DOMAIN t /\ Rooted(t)
    <2>1. a \in Seq(Steps) /\ q \in Seq(Steps) /\ a \in DOMAIN t /\ Rooted(t)
        BY DEF Tree
    <2>2. Len(a) = m
        BY <1>1, Prefix
    <2>3. Begins(a, p)
        BY <1>1, BeginsMore
    <2> QED
        BY <2>1, <2>2, <2>3
<1>3. q # a
    BY <1>2 DEF Spares, OffThePath
<1>4. Begins(a, q) /\ Len(q) > m => p[m + 1][1] = q[m + 1][1]
    BY <1>1 DEF Spares
<1> HIDE DEF a
<1>5. CASE ~Begins(a, q)
    <2>1. Tree(Leaf("obj"))
        BY LeafIsTree
    <2>2. AsObject(t, a) = t \/ AsObject(t, a) = Put(t, a, Leaf("obj"))
        BY DEF AsObject
    <2>3. Keeps(t, t, q)
        BY DEF Keeps
    <2>4. Keeps(t, Put(t, a, Leaf("obj")), q)
        BY <1>2, <1>5, <2>1, PutElsewhere
    <2> QED
        BY <2>2, <2>3, <2>4 DEF a
<1>6. CASE Begins(a, q)
    <2> DEFINE x == Elder(a, q)
               c == Append(a, x)
    <2>1. Len(q) >= Len(a) + 1 /\ x \in Steps /\ c \in Seq(Steps) /\ Begins(c, q)
        BY <1>2, <1>3, <1>6, ThroughAChild
    <2>2. x[1] = "key"
        <3>1. Len(q) > m
            BY <1>2, <2>1
        <3> QED
            BY <1>2, <1>4, <1>6, <3>1 DEF Elder
    <2>3. c # <<>> /\ Parent(c) = a /\ LastStep(c) = x
        BY <1>2, <2>1, StepsOfPaths
    <2> HIDE DEF c, x
    <2>4. c \in DOMAIN t
        BY <2>1, PrefixStands
    <2>5. t[a] = "obj"
        BY <1>2, <2>2, <2>3, <2>4 DEF Rooted, Kind
    <2>6. AsObject(t, a) = t
        BY <2>5 DEF AsObject
    <2> QED
        BY <2>6 DEF Keeps, a
<1> QED
    BY <1>5, <1>6

(* Where the walk stands after m steps of p, from the tree t.                 *)
Walking(n, t, p, m) ==
    /\ n = [tree |-> n.tree, at |-> n.at, found |-> n.found] /\ n.found \in BOOLEAN
    /\ Tree(n.tree) /\ n.at \in DOMAIN n.tree
    /\ n.found => n.at = SubSeq(p, 1, m)
    /\ \A q \in DOMAIN t : Spares(p, q) => Keeps(t, n.tree, q)

LEMMA EnterWalks ==
    ASSUME NEW t, NEW p \in Seq(Tokens), NEW m \in Nat, m < Len(p), NEW n, Walking(n, t, p, m)
    PROVE  Walking(Enter(n, p[m + 1]), t, p, m + 1)
<1> DEFINE s == p[m + 1]
           a == n.at
           b == Append(a, s)
           u == AsObject(n.tree, a)
           e == Enter(n, s)
           w == IF b \in DOMAIN u THEN u ELSE Put(u, b, Leaf("null"))
           p2 == SubSeq(p, 1, m + 1)
<1>0. n = [tree |-> n.tree, at |-> n.at, found |-> n.found] /\ n.found \in BOOLEAN /\ Tree(n.tree) /\ n.at \in DOMAIN n.tree
    BY DEF Walking
<1>1. Len(p) \in Nat /\ m + 1 \in 1..Len(p) /\ m + 1 <= Len(p) /\ m + 1 \in Nat /\ m <= Len(p) /\ s \in Tokens
    OBVIOUS
<1>2. n.found => a = SubSeq(p, 1, m) /\ p2 = b
    <2>1. SubSeq(p, 1, m + 1) = Append(SubSeq(p, 1, m), p[m + 1])
        <3> DEFINE c == SubSeq(p, 1, m + 1)
        <3>1. c \in Seq(Tokens) /\ Len(c) = m + 1 /\ \A k \in 1..(m + 1) : c[k] = p[k]
            BY <1>1, Prefix
        <3>2. SubSeq(c, 1, m) = SubSeq(p, 1, m)
            BY <1>1, PrefixOfPrefix
        <3> HIDE DEF c
        <3>3. c # <<>> /\ Parent(c) = SubSeq(p, 1, m) /\ LastStep(c) = p[m + 1]
            BY <1>1, <3>1, <3>2 DEF Parent, LastStep
        <3>4. c = Append(SubSeq(p, 1, m), p[m + 1])
            BY <3>1, <3>3, PathParent
        <3> QED
            BY <3>4 DEF c
    <2> QED
        BY <2>1 DEF Walking
<1>3. \A q \in DOMAIN t : Spares(p, q) => Keeps(t, n.tree, q)
    BY DEF Walking
<1> HIDE DEF p2
<1>4. CASE ~n.found \/ s = ToEnd
    <2>0. ToEnd[1] # "at" /\ ToEnd[1] # "key"
        BY TokenKinds
    <2>1. e = [n EXCEPT !.found = FALSE]
        BY <1>4, <2>0 DEF Enter
    <2>2. e = [tree |-> n.tree, at |-> n.at, found |-> FALSE]
        BY <1>0, <2>1
    <2> QED
        BY <1>0, <1>3, <2>2 DEF Walking
<1>5. CASE n.found /\ s[1] = "at"
    <2>1. s # ToEnd /\ ToEnd[1] = "end"
        BY <1>1, <1>5, TokenKinds
    <2>2. e = [n EXCEPT !.found = b \in DOMAIN n.tree, !.at = IF b \in DOMAIN n.tree THEN b ELSE n.at]
        BY <1>5, <2>1 DEF Enter
    <2> HIDE DEF b
    <2>3. e = [tree |-> n.tree, at |-> IF b \in DOMAIN n.tree THEN b ELSE n.at, found |-> b \in DOMAIN n.tree]
        BY <1>0, <2>2
    <2> HIDE DEF e
    <2>4. e.tree = n.tree /\ e.at = (IF b \in DOMAIN n.tree THEN b ELSE n.at) /\ e.found = (b \in DOMAIN n.tree)
        BY <2>3
    <2>5. e.found \in BOOLEAN /\ Tree(e.tree) /\ e.at \in DOMAIN e.tree
        BY <1>0, <2>4
    <2>6. e.found => e.at = p2
        BY <1>2, <1>5, <2>4
    <2>7. e = [tree |-> e.tree, at |-> e.at, found |-> e.found]
        BY <2>3
    <2>8. \A q \in DOMAIN t : Spares(p, q) => Keeps(t, e.tree, q)
        BY <1>3, <2>4
    <2> QED
        BY <2>5, <2>6, <2>7, <2>8 DEF Walking, e, p2
<1>6. CASE n.found /\ s[1] = "key"
    <2>1. s # ToEnd /\ ToEnd[1] = "end" /\ s \in Steps
        BY <1>1, <1>6, TokenKinds
    <2>2. e = [n EXCEPT !.tree = w, !.at = b]
        BY <1>6, <2>1 DEF Enter
    <2>3. Tree(u) /\ a \in DOMAIN u /\ u[a] = "obj"
        BY <1>0, AsObjectIsTree
    <2>4. \A q \in DOMAIN t : Spares(p, q) => Keeps(t, u, q)
        <3> SUFFICES ASSUME NEW q \in DOMAIN t, Spares(p, q) PROVE Keeps(t, u, q)
            OBVIOUS
        <3>1. Keeps(t, n.tree, q)
            BY <1>3
        <3>2. q \in DOMAIN n.tree /\ SubSeq(p, 1, m) \in DOMAIN n.tree /\ p[m + 1][1] = "key"
            BY <1>0, <1>2, <1>6, <3>1 DEF Keeps
        <3>3. Keeps(n.tree, AsObject(n.tree, SubSeq(p, 1, m)), q)
            BY <1>0, <3>2, AsObjectKeeps
        <3> QED
            BY <1>2, <1>6, <3>1, <3>3 DEF Keeps
    <2> HIDE DEF u
    <2>5. b \in Seq(Steps) /\ Place(u, b)
        BY <1>6, <2>1, <2>3, KeyIsPlace
    <2> HIDE DEF b
    <2>6. Tree(w) /\ b \in DOMAIN w /\ \A q \in DOMAIN t : Spares(p, q) => Keeps(t, w, q)
        <3>1. CASE b \in DOMAIN u
            BY <2>3, <2>4, <3>1
        <3>2. CASE b \notin DOMAIN u
            <4>1. Tree(Leaf("null")) /\ w = Put(u, b, Leaf("null"))
                BY <3>2, LeafIsTree
            <4>2. Tree(w) /\ b \in DOMAIN w
                BY <2>3, <2>5, <4>1, PutKeepsTree, PutStands
            <4>3. \A q \in DOMAIN u : Keeps(u, w, q)
                <5> SUFFICES ASSUME NEW q \in DOMAIN u PROVE Keeps(u, Put(u, b, Leaf("null")), q)
                    BY <4>1
                <5>1. ~Begins(b, q)
                    BY <2>3, <2>5, <3>2, NewIsElsewhere
                <5> QED
                    BY <2>3, <2>5, <4>1, <5>1, PutElsewhere
            <4> QED
                BY <2>4, <4>2, <4>3 DEF Keeps
        <3> QED
            BY <3>1, <3>2
    <2> HIDE DEF w
    <2>7. e = [tree |-> w, at |-> b, found |-> n.found]
        BY <1>0, <2>2
    <2> HIDE DEF e
    <2>8. e.tree = w /\ e.at = b /\ e.found = n.found
        BY <2>7
    <2>9. e.found => e.at = p2
        BY <1>2, <2>8
    <2>10. e = [tree |-> e.tree, at |-> e.at, found |-> e.found]
        BY <2>7
    <2> QED
        BY <1>0, <2>6, <2>8, <2>9, <2>10 DEF Walking, e, p2
<1>7. s = ToEnd \/ s[1] = "at" \/ s[1] = "key"
    BY <1>1, TokenKinds
<1>8. Walking(e, t, p, m + 1)
    BY <1>0, <1>4, <1>5, <1>6, <1>7
<1> QED
    BY <1>8


IsWalk(f, steps, N, b) == f = [n \in 0..N |-> IF n = 0 THEN b ELSE Enter(f[n - 1], steps[n])]

LEMMA WalkExists ==
    ASSUME NEW steps, NEW N \in Nat, NEW b
    PROVE  \E f : IsWalk(f, steps, N, b)
<1> DEFINE Ok(f, n) == f[0] = b /\ \A m \in 1..n : f[m] = Enter(f[m - 1], steps[m])
           P == {n \in 0..N : \E f : Ok(f, n)}
<1>1. 0 \in P
    <2>1. Ok([n \in 0..0 |-> b], 0)
        OBVIOUS
    <2> HIDE DEF Ok
    <2> QED
        BY <2>1
<1>2. ASSUME NEW n \in P, n < N PROVE n + 1 \in P
    <2>1. PICK f : Ok(f, n)
        OBVIOUS
    <2> DEFINE g == [m \in 0..(n + 1) |-> IF m = n + 1 THEN Enter(f[n], steps[n + 1]) ELSE f[m]]
    <2>2. n \in Nat /\ n + 1 \in 0..N
        BY <1>2
    <2>3. g[0] = b
        BY <2>1, <2>2
    <2>4. ASSUME NEW m \in 1..(n + 1) PROVE g[m] = Enter(g[m - 1], steps[m])
        <3>1. m - 1 \in 0..n /\ g[m - 1] = f[m - 1]
            BY <2>2
        <3>2. CASE m = n + 1
            <4>1. g[m] = Enter(f[n], steps[n + 1])
                BY <2>2, <3>2
            <4>2. m - 1 = n
                BY <2>2, <3>2
            <4> QED
                BY <3>1, <3>2, <4>1, <4>2
        <3>3. CASE m \in 1..n
            <4>1. g[m] = f[m] /\ f[m] = Enter(f[m - 1], steps[m])
                BY <2>1, <2>2, <3>3
            <4> QED
                BY <3>1, <4>1
        <3> QED
            BY <2>2, <3>2, <3>3
    <2> HIDE DEF g
    <2>5. Ok(g, n + 1)
        BY <2>3, <2>4
    <2> HIDE DEF Ok
    <2> QED
        BY <2>2, <2>5
<1>3. P = 0..N
    <2> HIDE DEF Ok
    <2> QED
        BY <1>1, <1>2, InductionUpTo
<1>4. PICK f : Ok(f, N)
    BY <1>3
<1> DEFINE g == [n \in 0..N |-> f[n]]
<1>5. \A n \in 0..N : n = 0 \/ (n \in 1..N /\ n - 1 \in 0..N /\ n # 0)
    OBVIOUS
<1>6. ASSUME NEW n \in 0..N PROVE g[n] = IF n = 0 THEN b ELSE Enter(g[n - 1], steps[n])
    <2>1. CASE n = 0
        BY <1>4, <2>1
    <2>2. CASE n \in 1..N /\ n - 1 \in 0..N /\ n # 0
        <3>1. f[n] = Enter(f[n - 1], steps[n]) /\ g[n - 1] = f[n - 1] /\ g[n] = f[n]
            BY <1>4, <2>2
        <3> QED
            BY <2>2, <3>1
    <2> QED
        BY <1>5, <2>1, <2>2
<1>7. g = [n \in 0..N |-> IF n = 0 THEN b ELSE Enter(g[n - 1], steps[n])]
    BY <1>6
<1> HIDE DEF g
<1>8. IsWalk(g, steps, N, b)
    BY <1>7 DEF IsWalk
<1> QED
    BY <1>8

LEMMA NavigateWalks ==
    ASSUME NEW t, Tree(t), NEW p \in Seq(Tokens), p # <<>>
    PROVE  Walking(Navigate(t, Parent(p)), t, p, Len(p) - 1)
<1> DEFINE steps == Parent(p)
           N == Len(p) - 1
           b == [tree |-> t, at |-> <<>>, found |-> TRUE]
           u == CHOOSE g : IsWalk(g, steps, N, b)
<1>1. N \in Nat /\ N <= Len(p) /\ Len(steps) = N /\ steps = SubSeq(p, 1, N) /\ Len(p) \in Nat /\ N < Len(p)
    BY PathParent DEF Parent
<1>2. Navigate(t, steps) = u[N]
    BY <1>1 DEF Navigate, IsWalk
<1>3. \A n \in 1..N : steps[n] = p[n]
    BY <1>1, Prefix
<1> HIDE DEF N, steps
<1>4. IsWalk(u, steps, N, b)
    <2> HIDE DEF b
    <2>1. \E g : IsWalk(g, steps, N, b)
        BY <1>1, WalkExists
    <2> QED
        BY <2>1
<1> HIDE DEF u
<1>5. u[0] = b /\ \A n \in 1..N : u[n] = Enter(u[n - 1], p[n])
    <2>1. \A n \in 0..N : u[n] = IF n = 0 THEN b ELSE Enter(u[n - 1], steps[n])
        BY <1>4 DEF IsWalk
    <2>2. \A n \in 1..N : n \in 0..N /\ n # 0
        BY <1>1
    <2>3. 0 \in 0..N
        BY <1>1
    <2>4. u[0] = b
        BY <2>1, <2>3
    <2>5. \A n \in 1..N : u[n] = Enter(u[n - 1], p[n])
        BY <1>3, <2>1, <2>2
    <2> QED
        BY <2>4, <2>5
<1> DEFINE W(n) == Walking(u[n], t, p, n)
           P == {n \in 0..N : W(n)}
<1>6. 0 \in P
    <2>1. SubSeq(p, 1, 0) = <<>>
        OBVIOUS
    <2>2. <<>> \in DOMAIN t
        BY DEF Tree, Rooted
    <2>3. \A q \in DOMAIN t : Keeps(t, t, q)
        BY DEF Keeps
    <2>4. W(0)
        BY <1>5, <2>1, <2>2, <2>3 DEF Walking
    <2> HIDE DEF W
    <2> QED
        BY <1>1, <2>4
<1>7. ASSUME NEW n \in P, n < N PROVE n + 1 \in P
    <2>1. n \in Nat /\ n + 1 \in 1..N /\ n + 1 \in 0..N /\ n < Len(p) /\ (n + 1) - 1 = n
        BY <1>1, <1>7
    <2>2. W(n)
        OBVIOUS
    <2>3. Walking(Enter(u[n], p[n + 1]), t, p, n + 1)
        BY <2>1, <2>2, EnterWalks
    <2>4. u[n + 1] = Enter(u[n], p[n + 1])
        BY <1>5, <2>1
    <2>5. W(n + 1)
        BY <2>3, <2>4
    <2> HIDE DEF W
    <2> QED
        BY <2>1, <2>5
<1>8. P = 0..N
    <2> HIDE DEF W
    <2> QED
        BY <1>1, <1>6, <1>7, InductionUpTo
<1>9. W(N)
    <2> HIDE DEF W
    <2>1. N \in 0..N
        BY <1>1
    <2> QED
        BY <1>8, <2>1
<1> QED
    BY <1>2, <1>9 DEF N, steps


-----------------------------------------------------------------------------
(* What is put at a place is read there.                                      *)
LEMMA PutIsRead ==
    ASSUME NEW t, Tree(t), NEW v, Tree(v), NEW p \in Seq(Steps)
    PROVE  Subtree(Put(t, p, v), p) = v
<1> DEFINE g == Put(t, p, v)
<1>1. DOMAIN t \subseteq Seq(Steps) /\ DOMAIN v \subseteq Seq(Steps) /\ v = [r \in DOMAIN v |-> v[r]]
    BY DEF Tree
<1>2. Carries(g, t, p, v)
    BY <1>1, PutIsExact
<1>3. /\ \A r \in DOMAIN v : p \o r \in DOMAIN g /\ g[p \o r] = v[r]
      /\ \A q \in DOMAIN g : (q \in DOMAIN t /\ ~Begins(p, q)) \/ (\E r \in DOMAIN v : q = p \o r)
    BY <1>2 DEF Carries
<1>4. \A r \in DOMAIN v : Begins(p, p \o r) /\ Below(p, p \o r) = r
    BY <1>1, PathJoin
<1> HIDE DEF g
<1>5. \A q : q \in Under(g, p) <=> q \in DOMAIN g /\ Begins(p, q)
    BY DEF Under
<1>6. {Below(p, r) : r \in Under(g, p)} = DOMAIN v
    <2>1. \A r \in DOMAIN v : p \o r \in Under(g, p) /\ Below(p, p \o r) = r
        BY <1>3, <1>4, <1>5
    <2>2. ASSUME NEW q \in Under(g, p) PROVE Below(p, q) \in DOMAIN v
        <3>1. PICK r \in DOMAIN v : q = p \o r
            BY <1>3, <1>5
        <3> QED
            BY <1>4, <3>1
    <2> QED
        BY <2>1, <2>2
<1>7. Subtree(g, p) = [q \in DOMAIN v |-> g[p \o q]]
    BY <1>6 DEF Subtree
<1>8. [q \in DOMAIN v |-> g[p \o q]] = [q \in DOMAIN v |-> v[q]]
    BY <1>3
<1> QED
    BY <1>1, <1>7, <1>8 DEF g

(* The path p of an operation, from its parent on.                            *)
Reached(t, p) == Tree(t) /\ p \in Seq(Tokens) /\ p # <<>> /\ Parent(p) \in DOMAIN t

LEMMA Targets ==
    ASSUME NEW t, NEW p, Reached(t, p)
    PROVE  /\ Parent(p) \in Seq(Steps) /\ LastStep(p) \in Tokens /\ p = Append(Parent(p), LastStep(p))
           /\ LastStep(p) # ToEnd => LastStep(p) \in Steps /\ p \in Seq(Steps)
           /\ Begins(Parent(p), p)
<1>1. Tree(t) /\ p \in Seq(Tokens) /\ p # <<>> /\ Parent(p) \in DOMAIN t
    BY DEF Reached
<1> DEFINE a == Parent(p)
           s == LastStep(p)
<1>2. a \in Seq(Steps) /\ s \in Tokens /\ p = Append(a, s)
    BY <1>1, PathParent DEF Tree
<1>3. Begins(a, p)
    <2>1. Len(p) - 1 \in Nat /\ Len(p) - 1 <= Len(p)
        BY <1>1
    <2> QED
        BY <1>1, <2>1, BeginsMore DEF Parent
<1> HIDE DEF a, s
<1>4. s # ToEnd => s \in Steps /\ p \in Seq(Steps)
    BY <1>2, TokenKinds
<1> QED
    BY <1>2, <1>3, <1>4 DEF a, s

LEMMA ParentAsObject ==
    ASSUME NEW t, NEW p, Reached(t, p), LastStep(p)[1] = "key"
    PROVE  /\ Tree(AsObject(t, Parent(p))) /\ Parent(p) \in DOMAIN AsObject(t, Parent(p)) /\ AsObject(t, Parent(p))[Parent(p)] = "obj"
           /\ Place(AsObject(t, Parent(p)), p)
           /\ \A q \in DOMAIN t : Spares(p, q) => Keeps(t, AsObject(t, Parent(p)), q)
<1> DEFINE a == Parent(p)
           s == LastStep(p)
           u == AsObject(t, a)
           m == Len(p) - 1
<1>1. Tree(t) /\ p \in Seq(Tokens) /\ p # <<>> /\ a \in DOMAIN t
    BY DEF Reached
<1>2. a \in Seq(Steps) /\ s \in Tokens /\ p = Append(a, s)
    BY Targets
<1>3. Tree(u) /\ a \in DOMAIN u /\ u[a] = "obj"
    BY <1>1, AsObjectIsTree
<1>4. s \in Steps
    BY <1>2, TokenKinds
<1>5. m \in Nat /\ m < Len(p) /\ SubSeq(p, 1, m) = a /\ p[m + 1] = s
    BY <1>1 DEF Parent, LastStep
<1>6. \A q \in DOMAIN t : Spares(p, q) => Keeps(t, u, q)
    <2> SUFFICES ASSUME NEW q \in DOMAIN t, Spares(p, q) PROVE Keeps(t, u, q)
        OBVIOUS
    <2>1. SubSeq(p, 1, m) \in DOMAIN t /\ p[m + 1][1] = "key"
        BY <1>1, <1>5
    <2> HIDE DEF m
    <2>2. Keeps(t, AsObject(t, SubSeq(p, 1, m)), q)
        BY <1>1, <1>5, <2>1, AsObjectKeeps
    <2> QED
        BY <1>5, <2>2
<1> HIDE DEF u, s, a
<1>7. Place(u, p)
    <2>1. s[1] = "key"
        BY DEF s
    <2>2. Place(u, Append(a, s))
        BY <1>3, <1>4, <2>1, KeyIsPlace
    <2> QED
        BY <1>2, <2>2
<1> QED
    BY <1>3, <1>6, <1>7 DEF u, a, s

(* What an operation leaves: a tree, with what the path spares.               *)
Sound(g, t, p) == Tree(g) /\ \A q \in DOMAIN t : Spares(p, q) => Keeps(t, g, q)

LEMMA PutIsSound ==
    ASSUME NEW t, Tree(t), NEW u, Tree(u), NEW v, Tree(v), NEW p \in Seq(Steps), Place(u, p),
           \A q \in DOMAIN t : Spares(p, q) => Keeps(t, u, q)
    PROVE  Sound(Put(u, p, v), t, p)
<1>1. Tree(Put(u, p, v))
    BY PutKeepsTree
<1>2. ASSUME NEW q \in DOMAIN t, Spares(p, q) PROVE Keeps(t, Put(u, p, v), q)
    <2>1. Keeps(t, u, q) /\ ~Begins(p, q)
        BY <1>2 DEF Spares, OffThePath
    <2>2. Keeps(u, Put(u, p, v), q)
        BY <2>1, PutElsewhere DEF Keeps
    <2> QED
        BY <2>1, <2>2 DEF Keeps
<1> QED
    BY <1>1, <1>2 DEF Sound

LEMMA SetAtIsSound ==
    ASSUME NEW t, NEW p, Reached(t, p), NEW v, Tree(v)
    PROVE  /\ Sound(SetAt(t, Parent(p), LastStep(p), v).body, t, p)
           /\ SetAt(t, Parent(p), LastStep(p), v).ok /\ LastStep(p) # ToEnd
                 => Subtree(SetAt(t, Parent(p), LastStep(p), v).body, p) = v
<1> DEFINE a == Parent(p)
           s == LastStep(p)
           r == SetAt(t, a, s, v)
<1>1. Tree(t) /\ p \in Seq(Tokens) /\ p # <<>> /\ a \in DOMAIN t
    BY DEF Reached
<1>2. a \in Seq(Steps) /\ s \in Tokens /\ p = Append(a, s) /\ (s # ToEnd => s \in Steps /\ p \in Seq(Steps))
    BY Targets
<1>3. s = ToEnd \/ s[1] = "at" \/ s[1] = "key"
    BY <1>2, TokenKinds
<1>4. ToEnd[1] = "end"
    BY TokenKinds
<1>5. \A q \in DOMAIN t : Keeps(t, t, q)
    BY DEF Keeps
<1> HIDE DEF a, s
<1>6. CASE s[1] = "key"
    <2>1. r = Done(Put(AsObject(t, a), p, v)) /\ s # ToEnd
        BY <1>2, <1>4, <1>6 DEF SetAt
    <2>2. r.body = Put(AsObject(t, a), p, v)
        BY <2>1 DEF Done
    <2>3. Tree(AsObject(t, a)) /\ Place(AsObject(t, a), p) /\ \A q \in DOMAIN t : Spares(p, q) => Keeps(t, AsObject(t, a), q)
        BY <1>6, ParentAsObject DEF a, s
    <2> DEFINE u == AsObject(t, a)
    <2> HIDE DEF u, r
    <2>4. p \in Seq(Steps) /\ Tree(u) /\ r.body = Put(u, p, v)
        BY <1>2, <2>1, <2>2, <2>3 DEF u
    <2>5. Place(u, p) /\ \A q \in DOMAIN t : Spares(p, q) => Keeps(t, u, q)
        BY <2>3 DEF u
    <2>6. Sound(Put(u, p, v), t, p)
        BY <1>1, <2>4, <2>5, PutIsSound
    <2>7. Subtree(Put(u, p, v), p) = v
        BY <2>4, PutIsRead
    <2> QED
        BY <2>4, <2>6, <2>7 DEF a, s, r
<1>7. CASE s[1] = "at"
    <2>1. s # ToEnd
        BY <1>4, <1>7
    <2>2. CASE p \in DOMAIN t
        <3>1. r = Done(Put(t, p, v))
            BY <1>2, <1>7, <2>1, <2>2 DEF SetAt
        <3>2. r.body = Put(t, p, v)
            BY <3>1 DEF Done
        <3>3. Place(t, p)
            BY <1>1, <2>2, StandsIsPlace
        <3> HIDE DEF r
        <3>4. Sound(Put(t, p, v), t, p)
            BY <1>1, <1>2, <1>5, <2>1, <3>3, PutIsSound
        <3>5. Subtree(Put(t, p, v), p) = v
            BY <1>1, <1>2, <2>1, PutIsRead
        <3> QED
            BY <3>2, <3>4, <3>5 DEF a, s, r
    <2>3. CASE p \notin DOMAIN t
        <3>1. r = Failed(t)
            BY <1>2, <1>7, <2>1, <2>3 DEF SetAt
        <3>2. r.body = t /\ r.ok = FALSE
            BY <3>1 DEF Failed
        <3> QED
            BY <1>1, <1>5, <3>2 DEF Sound, a, s
    <2> QED
        BY <2>2, <2>3
<1>8. CASE s = ToEnd
    <2>1. (r = Done(Push(t, a, v)) /\ t[a] = "arr") \/ r = Failed(t)
        BY <1>4, <1>8 DEF SetAt
    <2>2. CASE r = Done(Push(t, a, v)) /\ t[a] = "arr"
        <3>1. r.body = Push(t, a, v)
            BY <2>2 DEF Done
        <3> QED
            BY <1>1, <1>8, <2>2, <3>1, PushIsTree DEF Sound, a, s
    <2>3. CASE r = Failed(t)
        <3>1. r.body = t
            BY <2>3 DEF Failed
        <3> QED
            BY <1>1, <1>5, <1>8, <3>1 DEF Sound, a, s
    <2> QED
        BY <2>1, <2>2, <2>3
<1> QED
    BY <1>3, <1>6, <1>7, <1>8


LEMMA AppendAtIsSound ==
    ASSUME NEW t, NEW p, Reached(t, p), NEW v, Tree(v)
    PROVE  Sound(AppendAt(t, Parent(p), LastStep(p), v).body, t, p)
<1> DEFINE a == Parent(p)
           s == LastStep(p)
           b == IF s = ToEnd THEN a ELSE p
           r == AppendAt(t, a, s, v)
           w == Put(t, p, Leaf("arr"))
<1>1. Tree(t) /\ p \in Seq(Tokens) /\ p # <<>> /\ a \in DOMAIN t
    BY DEF Reached
<1>2. a \in Seq(Steps) /\ s \in Tokens /\ p = Append(a, s) /\ (s # ToEnd => s \in Steps /\ p \in Seq(Steps))
    BY Targets
<1>3. ToEnd[1] = "end"
    BY TokenKinds
<1> HIDE DEF a, s
<1>4. \/ b \in DOMAIN t /\ t[b] = "arr" /\ r = Done(Push(t, b, v))
      \/ b \notin DOMAIN t /\ s[1] = "key" /\ t[a] = "obj" /\ r = Done(Push(Put(t, b, Leaf("arr")), b, v))
      \/ r = Failed(t)
    BY <1>2 DEF AppendAt
<1>5. CASE b \in DOMAIN t /\ t[b] = "arr" /\ r = Done(Push(t, b, v))
    <2> HIDE DEF b
    <2>1. r.body = Push(t, b, v)
        BY <1>5 DEF Done
    <2> QED
        BY <1>1, <1>5, <2>1, PushIsTree DEF Sound, a, s
<1>6. CASE b \notin DOMAIN t /\ s[1] = "key" /\ t[a] = "obj" /\ r = Done(Push(Put(t, b, Leaf("arr")), b, v))
    <2>1. s # ToEnd /\ b = p /\ s \in Steps
        BY <1>2, <1>3, <1>6
    <2>2. p \in Seq(Steps) /\ Place(t, p) /\ p \notin DOMAIN t
        <3>1. Place(t, Append(a, s))
            BY <1>1, <1>6, <2>1, KeyIsPlace
        <3> QED
            BY <1>2, <1>6, <2>1, <3>1
    <2>3. Tree(Leaf("arr")) /\ Leaf("arr")[<<>>] = "arr"
        BY LeafIsTree
    <2>4. Tree(w) /\ p \in DOMAIN w /\ w[p] = "arr"
        BY <1>1, <2>2, <2>3, PutKeepsTree, PutStands
    <2>5. \A q \in DOMAIN t : Keeps(t, w, q)
        <3> SUFFICES ASSUME NEW q \in DOMAIN t PROVE Keeps(t, w, q)
            OBVIOUS
        <3>1. ~Begins(p, q)
            BY <1>1, <2>2, NewIsElsewhere
        <3> QED
            BY <1>1, <2>2, <2>3, <3>1, PutElsewhere
    <2>6. r.body = Push(w, p, v)
        BY <1>6, <2>1 DEF Done
    <2> HIDE DEF w, r
    <2>7. Tree(Push(w, p, v)) /\ \A q \in DOMAIN w : Keeps(w, Push(w, p, v), q)
        BY <2>4, PushIsTree
    <2>8. \A q \in DOMAIN t : Keeps(t, Push(w, p, v), q)
        BY <2>5, <2>7 DEF Keeps
    <2> QED
        BY <2>6, <2>7, <2>8 DEF Sound, a, s, r
<1>7. CASE r = Failed(t)
    <2>1. r.body = t
        BY <1>7 DEF Failed
    <2> QED
        BY <1>1, <2>1 DEF Sound, Keeps, a, s
<1> QED
    BY <1>4, <1>5, <1>6, <1>7

LEMMA DeleteAtIsSound ==
    ASSUME NEW t, NEW p, Reached(t, p)
    PROVE  /\ Tree(DeleteAt(t, Parent(p), LastStep(p)).body)
           /\ \A q \in DOMAIN t : Spares(p, q) /\ (LastStep(p)[1] = "at" => ~Begins(Parent(p), q))
                 => Keeps(t, DeleteAt(t, Parent(p), LastStep(p)).body, q)
<1> DEFINE a == Parent(p)
           s == LastStep(p)
           r == DeleteAt(t, a, s)
<1>1. Tree(t) /\ p \in Seq(Tokens) /\ p # <<>> /\ a \in DOMAIN t
    BY DEF Reached
<1>2. a \in Seq(Steps) /\ s \in Tokens /\ p = Append(a, s)
    BY Targets
<1> HIDE DEF a, s
<1>3. CASE p \notin DOMAIN t
    <2>1. r = Failed(t)
        BY <1>2, <1>3 DEF DeleteAt
    <2>2. r.body = t
        BY <2>1 DEF Failed
    <2> QED
        BY <1>1, <2>2 DEF Keeps, a, s
<1>4. CASE p \in DOMAIN t
    <2>1. s \in Steps /\ t[a] = Kind(s)
        BY <1>1, <1>4, PathParent DEF Tree, Rooted, a, s
    <2>2. s[1] = "key" \/ (s[1] = "at" /\ s[2] \in Nat /\ s = At(s[2]))
        BY <2>1, StepKinds
    <2>3. CASE s[1] = "key"
        <3>1. r = Done(Cut(t, p))
            BY <1>2, <1>4, <2>3 DEF DeleteAt
        <3>2. r.body = Cut(t, p)
            BY <3>1 DEF Done
        <3>3. Kind(s) = "obj"
            BY <2>3 DEF Kind
        <3>4. Tree(Cut(t, p)) /\ \A q \in DOMAIN t : ~Begins(p, q) => Keeps(t, Cut(t, p), q)
            BY <1>1, <1>4, <3>3, CutIsTree DEF s
        <3>5. \A q \in DOMAIN t : Spares(p, q) => ~Begins(p, q)
            BY DEF Spares, OffThePath
        <3> QED
            BY <3>2, <3>4, <3>5 DEF a, s
    <2>4. CASE s[1] = "at" /\ s[2] \in Nat /\ s = At(s[2])
        <3>1. r = Done(Shift(t, a, s[2]))
            BY <1>2, <1>4, <2>4 DEF DeleteAt
        <3>2. r.body = Shift(t, a, s[2])
            BY <3>1 DEF Done
        <3>3. AnArray(t, a)
            BY <1>1, <2>1, <2>4 DEF AnArray, Kind
        <3>4. Append(a, At(s[2])) \in DOMAIN t
            BY <1>2, <1>4, <2>4
        <3>5. Tree(Shift(t, a, s[2])) /\ \A q \in DOMAIN t : q = a \/ ~Begins(a, q) => Keeps(t, Shift(t, a, s[2]), q)
            BY <2>4, <3>3, <3>4, ShiftIsTree
        <3> QED
            BY <2>4, <3>2, <3>5 DEF a, s
    <2> QED
        BY <2>2, <2>3, <2>4
<1> QED
    BY <1>3, <1>4

(* An operation on the body.                                                  *)
IsOperation(op) == op.op \in {"set", "append", "delete"} /\ Tree(op.value)

Spared(op, p, q) == Spares(p, q) /\ (op.op = "delete" /\ LastStep(p)[1] = "at" => ~Begins(Parent(p), q))

LEMMA ApplyBodyIsSound ==
    ASSUME NEW t, Tree(t), NEW op, IsOperation(op), NEW p \in Seq(Tokens)
    PROVE  /\ Tree(ApplyBody(t, op, p).body)
           /\ \A q \in DOMAIN t : Spared(op, p, q) => Keeps(t, ApplyBody(t, op, p).body, q)
           /\ (op.op = "set" /\ p # <<>> /\ p \in Seq(Steps) /\ ApplyBody(t, op, p).ok) => Subtree(ApplyBody(t, op, p).body, p) = op.value
<1> DEFINE r == ApplyBody(t, op, p)
           n == Navigate(t, Parent(p))
           s == LastStep(p)
<1>1. op.op \in {"set", "append", "delete"} /\ Tree(op.value)
    BY DEF IsOperation
<1>2. CASE p = <<>>
    <2>1. r = Done(op.value) \/ r = Failed(t)
        BY <1>2 DEF ApplyBody
    <2>2. Tree(r.body)
        BY <1>1, <2>1 DEF Done, Failed
    <2>3. ASSUME NEW q \in DOMAIN t, Spared(op, p, q) PROVE FALSE
        <3>1. q \in Seq(Steps)
            BY DEF Tree
        <3>2. Begins(<<>>, q)
            BY <3>1 DEF Begins
        <3> QED
            BY <1>2, <2>3, <3>2 DEF Spared, Spares, OffThePath
    <2> QED
        BY <1>2, <2>2, <2>3
<1>3. CASE p # <<>>
    <2>1. Walking(n, t, p, Len(p) - 1)
        BY <1>3, NavigateWalks
    <2>2. n.found \in BOOLEAN /\ Tree(n.tree) /\ n.at \in DOMAIN n.tree /\ (n.found => n.at = Parent(p))
          /\ \A q \in DOMAIN t : Spares(p, q) => Keeps(t, n.tree, q)
        BY <2>1 DEF Walking, Parent
    <2>3. /\ ~n.found => r = Failed(n.tree)
          /\ n.found /\ op.op = "set" => r = SetAt(n.tree, n.at, s, op.value)
          /\ n.found /\ op.op = "append" => r = AppendAt(n.tree, n.at, s, op.value)
          /\ n.found /\ op.op = "delete" => r = DeleteAt(n.tree, n.at, s)
        BY <1>3, <2>2 DEF ApplyBody
    <2> HIDE DEF n, r
    <2>4. n.found => Reached(n.tree, p)
        BY <1>3, <2>2 DEF Reached
    <2>5. ASSUME NEW g, Sound(g, n.tree, p) PROVE Tree(g) /\ \A q \in DOMAIN t : Spares(p, q) => Keeps(t, g, q)
        BY <2>2, <2>5 DEF Sound, Keeps
    <2>6. \A q : Spared(op, p, q) => Spares(p, q)
        BY DEF Spared
    <2>7. CASE ~n.found
        <3>1. r.body = n.tree /\ r.ok = FALSE
            BY <2>3, <2>7 DEF Failed
        <3> QED
            BY <2>2, <2>6, <3>1 DEF r
    <2>8. CASE n.found /\ op.op = "set"
        <3>1. r = SetAt(n.tree, Parent(p), s, op.value)
            BY <2>2, <2>3, <2>8
        <3>2. Sound(r.body, n.tree, p) /\ (r.ok /\ s # ToEnd => Subtree(r.body, p) = op.value)
            BY <1>1, <2>4, <2>8, <3>1, SetAtIsSound
        <3>3. p \in Seq(Steps) => s # ToEnd
            <4>1. p \in Seq(Steps) => s \in Steps
                BY <1>3, PathParent
            <4>2. ToEnd \notin Steps
                BY StepKinds, TokenKinds
            <4> QED
                BY <4>1, <4>2
        <3> QED
            BY <2>5, <2>6, <3>2, <3>3 DEF r
    <2>9. CASE n.found /\ op.op = "append"
        <3>1. r = AppendAt(n.tree, Parent(p), s, op.value)
            BY <2>2, <2>3, <2>9
        <3>2. Sound(r.body, n.tree, p)
            BY <1>1, <2>4, <2>9, <3>1, AppendAtIsSound
        <3> QED
            BY <2>5, <2>6, <2>9, <3>2 DEF r
    <2>10. CASE n.found /\ op.op = "delete"
        <3>1. r = DeleteAt(n.tree, Parent(p), s)
            BY <2>2, <2>3, <2>10
        <3>2. /\ Tree(r.body)
              /\ \A q \in DOMAIN n.tree : Spares(p, q) /\ (s[1] = "at" => ~Begins(Parent(p), q)) => Keeps(n.tree, r.body, q)
            BY <2>4, <2>10, <3>1, DeleteAtIsSound
        <3>3. \A q \in DOMAIN t : Spared(op, p, q) => Keeps(t, r.body, q)
            BY <2>2, <2>10, <3>2 DEF Spared, Keeps
        <3> QED
            BY <2>10, <3>2, <3>3 DEF r
    <2> QED
        BY <1>1, <2>2, <2>7, <2>8, <2>9, <2>10
<1> QED
    BY <1>2, <1>3


-----------------------------------------------------------------------------
(* Whole operations on a response.                                            *)
Spelt == Steps \cup {ToEnd, NoNumber}
ReadStep(steps, s) == IF s = NoNumber THEN steps ELSE Append(steps, s)

LEMMA TokenizeType ==
    ASSUME NEW path \in Seq(Spelt)
    PROVE  Tokenize(path) \in Seq(Tokens)
<1> DEFINE N == Len(path)
           X == Seq(Tokens)
           Def(g) == g = [n \in 0..N |-> IF n = 0 THEN <<>> ELSE ReadStep(g[n - 1], path[n])]
           u == CHOOSE g : Def(g)
<1>1. N \in Nat /\ (\A n \in 1..N : path[n] \in Spelt) /\ <<>> \in X
    OBVIOUS
<1>2. Tokenize(path) = u[N]
    BY DEF Tokenize, ReadStep
<1>3. \A steps \in X, s \in Spelt : ReadStep(steps, s) \in X
    BY DEF ReadStep, Spelt, Tokens
<1> HIDE DEF X
<1>4. \E f \in [0..N -> X] : Def(f)
    <2> DEFINE F == [x \in Nat \X X |-> IF x[1] \in 1..N THEN ReadStep(x[2], path[x[1]]) ELSE x[2]]
    <2>1. F \in [Nat \X X -> X]
        <3>1. ASSUME NEW n \in Nat, NEW p \in X
              PROVE  (IF n \in 1..N THEN ReadStep(p, path[n]) ELSE p) \in X
            BY <1>1, <1>3
        <3> HIDE DEF N
        <3> QED
            BY <3>1
    <2>2. \A n \in 1..N, p \in X : F[<<n, p>>] = ReadStep(p, path[n])
        BY <1>1
    <2> HIDE DEF F, N
    <2>3. PICK f \in [0..N -> X] : f[0] = <<>> /\ \A n \in 1..N : f[n] = F[<<n, f[n - 1]>>]
        <3>1. \E f : Follows(f, X, N, <<>>, F)
            BY <1>1, <2>1, StepByStep
        <3> QED
            BY <3>1 DEF Follows
    <2>4. \A n \in 1..N : f[n] = ReadStep(f[n - 1], path[n])
        <3>1. \A n \in 1..N : n - 1 \in 0..N
            BY <1>1
        <3> QED
            BY <2>2, <2>3, <3>1
    <2>5. \A n \in 0..N : n = 0 \/ n \in 1..N
        BY <1>1
    <2>6. Def(f)
        BY <2>3, <2>4, <2>5
    <2> QED
        BY <2>6
<1>5. Def(u)
    <2> HIDE DEF Def
    <2> QED
        BY <1>4
<1> HIDE DEF u
<1>6. \A n \in 0..N : u[n] = IF n = 0 THEN <<>> ELSE ReadStep(u[n - 1], path[n])
    BY <1>5
<1> DEFINE P == {n \in 0..N : u[n] \in X}
<1>7. 0 \in P
    BY <1>1, <1>6
<1>8. ASSUME NEW n \in P, n < N PROVE n + 1 \in P
    <2>1. n + 1 \in 0..N /\ n + 1 \in 1..N /\ n + 1 # 0 /\ (n + 1) - 1 = n
        BY <1>1, <1>8
    <2>2. u[n + 1] = ReadStep(u[n], path[n + 1]) /\ u[n] \in X /\ path[n + 1] \in Spelt
        BY <1>1, <1>6, <2>1
    <2> QED
        BY <1>3, <2>1, <2>2
<1>9. P = 0..N
    BY <1>1, <1>7, <1>8, InductionUpTo
<1>10. N \in 0..N
    BY <1>1
<1> QED
    BY <1>2, <1>9, <1>10 DEF X

IsReply(r) ==
    /\ r = [status |-> r.status, headers |-> r.headers, body |-> r.body]
    /\ r.status \in 0..599 /\ Tree(r.body)

LEMMA ApplyStatusIsReply ==
    ASSUME NEW r, IsReply(r), NEW op, NEW tail
    PROVE  IsReply(ApplyStatus(r, op, tail).reply) /\ ApplyStatus(r, op, tail).reply.body = r.body
<1> DEFINE n == StatusOf(op.value[<<>>])
           e == ApplyStatus(r, op, tail).reply
<1>1. n = <<>> \/ n = <<404>> \/ n = <<599>> \/ n = <<42>>
    BY DEF StatusOf
<1>2. (n # <<>> /\ e = [r EXCEPT !.status = n[1]]) \/ e = r
    BY DEF ApplyStatus
<1> HIDE DEF n, e
<1>3. CASE n # <<>> /\ e = [r EXCEPT !.status = n[1]]
    <2>0. n[1] \in 0..599
        <3>1. n = <<404>> => n[1] = 404
            OBVIOUS
        <3>2. n = <<599>> => n[1] = 599
            OBVIOUS
        <3>3. n = <<42>> => n[1] = 42
            OBVIOUS
        <3> QED
            BY <1>1, <1>3, <3>1, <3>2, <3>3
    <2> DEFINE m == n[1]
    <2> HIDE DEF m
    <2>1. e = [status |-> m, headers |-> r.headers, body |-> r.body]
        BY <1>3 DEF IsReply, m
    <2>2. e.status = m /\ e.headers = r.headers /\ e.body = r.body
        BY <2>1
    <2>3. m \in 0..599
        BY <2>0 DEF m
    <2> QED
        BY <2>1, <2>2, <2>3 DEF IsReply, e
<1> QED
    BY <1>2, <1>3 DEF e

LEMMA ApplyHeadersIsReply ==
    ASSUME NEW r, IsReply(r), NEW op, NEW tail
    PROVE  IsReply(ApplyHeaders(r, op, tail).reply) /\ ApplyHeaders(r, op, tail).reply.body = r.body
<1> DEFINE e == ApplyHeaders(r, op, tail).reply
           name == Head(tail)[2]
           new == op.value[<<>>]
<1>1. \/ e = r
      \/ e = [r EXCEPT !.headers = SelectSeq(@, LAMBDA h : h[1] # name)]
      \/ e = [r EXCEPT !.headers = Append(@, <<name, new>>)]
      \/ e = [r EXCEPT !.headers[FirstNamed(r.headers, name)] = <<name, new>>]
    BY DEF ApplyHeaders
<1>2. e = r \/ \E h : e = [r EXCEPT !.headers = h]
    BY <1>1
<1> HIDE DEF e
<1>3. ASSUME NEW h, e = [r EXCEPT !.headers = h] PROVE IsReply(e) /\ e.body = r.body
    <2>1. e = [status |-> r.status, headers |-> h, body |-> r.body]
        BY <1>3 DEF IsReply
    <2>2. e.status = r.status /\ e.headers = h /\ e.body = r.body
        BY <2>1
    <2> QED
        BY <2>1, <2>2 DEF IsReply
<1> QED
    BY <1>2, <1>3 DEF e

IsPatchOp(op) == IsOperation(op) /\ op.path \in Seq(Spelt)

LEMMA ApplyIsSound ==
    ASSUME NEW r, IsReply(r), NEW op, IsPatchOp(op)
    PROVE  /\ IsReply(Apply(r, op).reply)
           /\ \A q \in DOMAIN r.body : Spared(op, Target(op), q) => Keeps(r.body, Apply(r, op).reply.body, q)
           /\ (/\ op.op = "set" /\ Tokenize(op.path) = op.path /\ op.path \in Seq(Steps) /\ Apply(r, op).ok
               /\ Head(op.path) # Key("status") /\ Head(op.path) # Key("headers") /\ BodySteps(op.path) # <<>>)
                 => Subtree(Apply(r, op).reply.body, BodySteps(op.path)) = op.value
<1> DEFINE steps == Tokenize(op.path)
           p == BodySteps(steps)
           a == Apply(r, op)
           b == ApplyBody(r.body, op, p)
<1>1. steps \in Seq(Tokens) /\ IsOperation(op) /\ Tree(r.body)
    BY TokenizeType DEF IsPatchOp, IsReply
<1>2. \A q \in DOMAIN r.body : Keeps(r.body, r.body, q)
    BY DEF Keeps
<1>3. Key("status") # Key("headers") /\ Key("status")[1] = "key" /\ Key("headers")[1] = "key"
    BY DEF Key
<1> HIDE DEF steps
<1>4. CASE steps = <<>> \/ Head(steps)[1] # "key"
    <2>1. a = [ok |-> FALSE, reply |-> r]
        BY <1>3, <1>4 DEF Apply, steps
    <2>2. a.reply = r /\ a.ok = FALSE
        BY <2>1
    <2> QED
        BY <1>2, <2>2
<1>5. CASE steps # <<>> /\ Head(steps) = Key("status")
    <2>1. a = ApplyStatus(r, op, Tail(steps))
        BY <1>3, <1>5 DEF Apply, steps
    <2>2. IsReply(a.reply) /\ a.reply.body = r.body
        BY <2>1, ApplyStatusIsReply
    <2> QED
        BY <1>2, <1>5, <2>2 DEF steps
<1>6. CASE steps # <<>> /\ Head(steps) = Key("headers")
    <2>1. a = ApplyHeaders(r, op, Tail(steps))
        BY <1>3, <1>6 DEF Apply, steps
    <2>2. IsReply(a.reply) /\ a.reply.body = r.body
        BY <2>1, ApplyHeadersIsReply
    <2> QED
        BY <1>2, <1>6, <2>2 DEF steps
<1>7. CASE steps # <<>> /\ Head(steps)[1] = "key" /\ Head(steps) # Key("status") /\ Head(steps) # Key("headers")
    <2>1. a = [ok |-> b.ok, reply |-> [r EXCEPT !.body = b.body]]
        BY <1>7 DEF Apply, steps
    <2>2. p \in Seq(Tokens) /\ Target(op) = p
        <3>1. Tail(steps) \in Seq(Tokens)
            BY <1>1, <1>7
        <3> QED
            BY <1>1, <1>7, <3>1 DEF BodySteps, Target, steps
    <2>3. /\ Tree(b.body)
          /\ \A q \in DOMAIN r.body : Spared(op, p, q) => Keeps(r.body, b.body, q)
          /\ (op.op = "set" /\ p # <<>> /\ p \in Seq(Steps) /\ b.ok) => Subtree(b.body, p) = op.value
        BY <1>1, <2>2, ApplyBodyIsSound
    <2> HIDE DEF b, a
    <2>4. a.ok = b.ok /\ a.reply = [r EXCEPT !.body = b.body]
        BY <2>1
    <2>5. a.reply = [status |-> r.status, headers |-> r.headers, body |-> b.body]
        BY <2>4 DEF IsReply
    <2>6. a.reply.status = r.status /\ a.reply.headers = r.headers /\ a.reply.body = b.body
        BY <2>5
    <2>7. IsReply(a.reply)
        BY <2>3, <2>5, <2>6 DEF IsReply
    <2>8. steps \in Seq(Steps) => p \in Seq(Steps)
        <3>1. steps \in Seq(Steps) => Tail(steps) \in Seq(Steps)
            BY <1>7
        <3> QED
            BY <3>1 DEF BodySteps
    <2>9. \A q \in DOMAIN r.body : Spared(op, Target(op), q) => Keeps(r.body, a.reply.body, q)
        BY <2>2, <2>3, <2>6
    <2>10. (op.op = "set" /\ steps \in Seq(Steps) /\ a.ok /\ p # <<>>) => Subtree(a.reply.body, p) = op.value
        BY <2>3, <2>4, <2>6, <2>8
    <2> QED
        BY <2>7, <2>9, <2>10 DEF a, steps
<1> QED
    BY <1>4, <1>5, <1>6, <1>7


-----------------------------------------------------------------------------
(* A list of patches at work.                                                 *)
PatchInv ==
    /\ IsReply(reply) /\ Tree(origin.body) /\ origin.text \in Texts
    /\ todo \in Seq(PatchOps)
    /\ patching \in {"start", "json", "other", "sent", "raw"}
    /\ patching = "start" => reply = [status |-> origin.status, headers |-> origin.headers, body |-> origin.body]
    /\ patching = "other" => ~Broken(origin)
    /\ ServedAsIs

LEMMA PatchOpIsOne ==
    ASSUME NEW op \in PatchOps
    PROVE  IsPatchOp(op)
<1>1. IsPatch(op)
    BY PatchAssumption
<1>2. Tree(op.value)
    BY <1>1, BodyIsTree DEF IsPatch
<1>3. op.op \in {"set", "append", "delete"} /\ op.path \in Seq(Spelt)
    BY <1>1 DEF IsPatch, Spelt
<1> QED
    BY <1>2, <1>3 DEF IsPatchOp, IsOperation

LEMMA PatchInvInit == PatchInit => PatchInv
<1> SUFFICES ASSUME PatchInit PROVE PatchInv
    OBVIOUS
<1>1. PICK h \in ReplyHeaders, b \in ReplyBodies, text \in Texts :
          origin = [status |-> 200, headers |-> h, body |-> b, text |-> text]
    BY DEF PatchInit
<1>2. origin.status = 200 /\ origin.body = b /\ origin.text \in Texts
    BY <1>1
<1>3. Tree(b)
    BY PatchAssumption, BodyIsTree
<1>4. reply = [status |-> origin.status, headers |-> origin.headers, body |-> origin.body] /\ patching = "start"
    BY DEF PatchInit
<1>5. reply.status = 200 /\ reply.headers = origin.headers /\ reply.body = b
    BY <1>2, <1>4
<1>6. IsReply(reply)
    <2>1. 200 \in 0..599
        OBVIOUS
    <2> QED
        BY <1>2, <1>3, <1>4, <1>5, <2>1 DEF IsReply
<1>7. todo \in Seq(PatchOps)
    BY PatchAssumption DEF PatchInit
<1>8. ServedAsIs
    BY <1>4 DEF ServedAsIs
<1> QED
    BY <1>2, <1>3, <1>4, <1>6, <1>7, <1>8 DEF PatchInv

LEMMA AnotherBody ==
    ASSUME NEW r, IsReply(r), NEW b, Tree(b), NEW e, e = [r EXCEPT !.body = b]
    PROVE  IsReply(e) /\ e.status = r.status /\ e.headers = r.headers /\ e.body = b
<1>1. e = [status |-> r.status, headers |-> r.headers, body |-> b]
    BY DEF IsReply
<1>2. e.status = r.status /\ e.headers = r.headers /\ e.body = b
    BY <1>1
<1> QED
    BY <1>1, <1>2 DEF IsReply

LEMMA PatchInvNext == PatchInv /\ [PatchNext]_patchVars => PatchInv'
<1> SUFFICES ASSUME PatchInv, [PatchNext]_patchVars PROVE PatchInv'
    OBVIOUS
<1>1. /\ IsReply(reply) /\ Tree(origin.body) /\ origin.text \in Texts /\ todo \in Seq(PatchOps)
      /\ patching = "start" => reply = [status |-> origin.status, headers |-> origin.headers, body |-> origin.body]
      /\ patching = "other" => ~Broken(origin)
    BY DEF PatchInv
<1>2. CASE Parse
    <2> DEFINE b == IF patching' = "other" THEN Leaf("null") ELSE reply.body
    <2>1. patching = "start" /\ reply' = [reply EXCEPT !.body = b] /\ UNCHANGED <<origin, todo>>
        BY <1>2 DEF Parse
    <2>2. Tree(b)
        BY <1>1, LeafIsTree DEF IsReply
    <2>3. /\ patching' = "raw" => b = origin.body
          /\ reply.status = origin.status /\ reply.headers = origin.headers
        BY <1>1, <2>1
    <2> HIDE DEF b
    <2>4. IsReply(reply)' /\ reply'.status = reply.status /\ reply'.headers = reply.headers /\ reply'.body = b
        <3>1. IsReply(reply') /\ reply'.status = reply.status /\ reply'.headers = reply.headers /\ reply'.body = b
            BY <1>1, <2>1, <2>2, AnotherBody
        <3> QED
            BY <3>1 DEF IsReply
    <2>5. /\ patching' \in {"other", "json", "raw"}
          /\ patching' = "other" => ~Broken(origin)
        BY <1>1, <1>2 DEF Parse
    <2>6. ServedAsIs'
        BY <2>1, <2>3, <2>4, <2>5 DEF ServedAsIs, Broken
    <2>7. (Tree(origin.body) /\ origin.text \in Texts /\ todo \in Seq(PatchOps))'
        BY <1>1, <2>1
    <2>8. (patching = "other" => ~Broken(origin))'
        BY <2>1, <2>5 DEF Broken
    <2> QED
        BY <2>4, <2>5, <2>6, <2>7, <2>8 DEF PatchInv
<1>3. CASE ApplyNext
    <2>1. /\ patching \in {"json", "other"} /\ todo # <<>> /\ reply' = Apply(reply, Head(todo)).reply /\ todo' = Tail(todo)
          /\ UNCHANGED <<origin, patching>>
        BY <1>3 DEF ApplyNext
    <2>2. IsPatchOp(Head(todo)) /\ Tail(todo) \in Seq(PatchOps)
        BY <1>1, <2>1, PatchOpIsOne
    <2>3. IsReply(Apply(reply, Head(todo)).reply)
        BY <1>1, <2>2, ApplyIsSound
    <2>4. IsReply(reply)'
        BY <2>1, <2>3 DEF IsReply
    <2>5. ServedAsIs'
        BY <2>1 DEF ServedAsIs, Broken
    <2>6. (Tree(origin.body) /\ origin.text \in Texts /\ todo \in Seq(PatchOps))'
        BY <1>1, <2>1, <2>2
    <2>7. (patching = "other" => ~Broken(origin))'
        BY <1>1, <2>1 DEF Broken
    <2> QED
        BY <2>1, <2>4, <2>5, <2>6, <2>7 DEF PatchInv
<1>4. CASE Serialize
    <2> DEFINE b == IF patching = "json" THEN reply.body ELSE origin.body
    <2>1. /\ patching \in {"json", "other"} /\ patching' = (IF patching = "json" THEN "sent" ELSE "raw")
          /\ reply' = [reply EXCEPT !.body = b] /\ UNCHANGED <<origin, todo>>
        BY <1>4 DEF Serialize
    <2>2. Tree(b)
        BY <1>1 DEF IsReply
    <2>3. patching = "other" => b = origin.body
        OBVIOUS
    <2> HIDE DEF b
    <2>4. IsReply(reply)' /\ reply'.status = reply.status /\ reply'.headers = reply.headers /\ reply'.body = b
        <3>1. IsReply(reply') /\ reply'.status = reply.status /\ reply'.headers = reply.headers /\ reply'.body = b
            BY <1>1, <2>1, <2>2, AnotherBody
        <3> QED
            BY <3>1 DEF IsReply
    <2>5. ServedAsIs'
        BY <1>1, <2>1, <2>3, <2>4 DEF ServedAsIs, Broken
    <2>6. (Tree(origin.body) /\ origin.text \in Texts /\ todo \in Seq(PatchOps))'
        BY <1>1, <2>1
    <2> QED
        BY <2>1, <2>4, <2>5, <2>6 DEF PatchInv
<1>5. CASE UNCHANGED patchVars
    BY <1>5 DEF PatchInv, patchVars, IsReply, ServedAsIs, Broken
<1> QED
    BY <1>2, <1>3, <1>4, <1>5 DEF PatchNext

(* The invariant of the operations, whatever list of them a rule holds: the   *)
(* body is a tree, and what is not parsed goes out as it came.                *)
THEOREM PatchInvariant == PatchSpec => []PatchInv
    BY PatchInvInit, PatchInvNext, PTL DEF PatchSpec

LEMMA SubtreeStands ==
    ASSUME NEW g, Tree(g), NEW v, Tree(v), NEW p \in Seq(Steps), Subtree(g, p) = v
    PROVE  p \in DOMAIN g
<1>1. DOMAIN v = {Below(p, r) : r \in Under(g, p)}
    BY DEF Subtree
<1>2. <<>> \in DOMAIN v
    BY DEF Tree, Rooted
<1>3. PICK r \in Under(g, p) : Below(p, r) = <<>>
    BY <1>1, <1>2
<1>4. r \in DOMAIN g /\ Begins(p, r) /\ r \in Seq(Steps)
    BY DEF Under, Tree
<1>5. r = p \o <<>> /\ p \o <<>> = p
    BY <1>3, <1>4, PathSplit, PathJoin
<1> QED
    BY <1>4, <1>5

(* PatchesDoWhatTheySay for every list of operations, every response and      *)
(* every path: what a set reports done is read at its path, what a path       *)
(* spares stays, the body remains a tree and what is no JSON goes out as it   *)
(* came.                                                                      *)
THEOREM PatchesKeepTheirWord == PatchSpec => PatchesDoWhatTheySay
<1>1. PatchInv /\ [PatchNext]_patchVars =>
        [ApplyNext =>
            LET op == Head(todo) IN
            (/\ op.op = "set" /\ Condition(op) /\ Apply(reply, op).ok
             /\ Head(op.path) \notin {Key("status"), Key("headers")})
               => Reads(reply'.body, op.path) = <<op.value>>]_patchVars
    <2> DEFINE op == Head(todo)
               p == BodySteps(op.path)
    <2> SUFFICES ASSUME PatchInv, ApplyNext, op.op = "set", Condition(op), Apply(reply, op).ok,
                        Head(op.path) \notin {Key("status"), Key("headers")}
                 PROVE  Reads(reply'.body, op.path) = <<op.value>>
        OBVIOUS
    <2>1. IsReply(reply) /\ todo \in Seq(PatchOps) /\ todo # <<>> /\ reply' = Apply(reply, op).reply
        BY DEF PatchInv, ApplyNext
    <2>2. IsPatchOp(op)
        BY <2>1, PatchOpIsOne
    <2>3. Tokenize(op.path) = op.path /\ ~ \E i \in DOMAIN op.path : op.path[i] = ToEnd
        BY DEF Condition
    <2>4. op.path \in Seq(Steps)
        <3>1. op.path \in Seq(Tokens)
            BY <2>2, <2>3, TokenizeType DEF IsPatchOp
        <3>2. \A i \in 1..Len(op.path) : op.path[i] \in Steps
            BY <2>3, <3>1, TokenKinds
        <3> QED
            BY <3>1, <3>2
    <2> HIDE DEF op
    <2>5. op.path # <<>> /\ ConditionPath(op.path) = p
        <3>1. op.path # <<>> /\ (Head(op.path) = Key("body") => Len(op.path) > 1 /\ op.path[2][1] = "key")
            BY DEF Condition
        <3>2. op.path[1] = Head(op.path)
            BY <2>4, <3>1
        <3> QED
            BY <3>1, <3>2 DEF ConditionPath, BodySteps
    <2>6. p # <<>> /\ p \in Seq(Steps) /\ Reads(reply'.body, op.path) = IF p \in DOMAIN reply'.body THEN <<Subtree(reply'.body, p)>> ELSE <<>>
        <3>1. p # <<>> /\ p \in Seq(Steps)
            <4> DEFINE w == op.path
            <4>1. w \in Seq(Steps) /\ w # <<>> /\ (p = w \/ p = Tail(w))
                BY <2>4, <2>5 DEF BodySteps
            <4>2. Len(w) > 1 \/ p = w
                BY <2>5 DEF ConditionPath
            <4> HIDE DEF w, p
            <4>3. CASE p = w
                BY <4>1, <4>3
            <4>4. CASE p = Tail(w) /\ Len(w) > 1
                <5>1. p \in Seq(Steps) /\ Len(p) = Len(w) - 1 /\ Len(w) \in Nat
                    BY <4>1, <4>4
                <5>2. Len(p) # 0
                    BY <4>4, <5>1
                <5> QED
                    BY <5>1, <5>2
            <4> QED
                BY <4>1, <4>2, <4>3, <4>4
        <3> QED
            BY <2>5, <3>1 DEF Reads
    <2>7. Subtree(reply'.body, p) = op.value /\ IsReply(reply')
        BY <2>1, <2>2, <2>3, <2>4, <2>6, ApplyIsSound
    <2>8. p \in DOMAIN reply'.body
        <3>1. Tree(reply'.body) /\ Tree(op.value)
            BY <2>2, <2>7 DEF IsReply, IsPatchOp, IsOperation
        <3> HIDE DEF p
        <3> QED
            BY <2>6, <2>7, <3>1, SubtreeStands
    <2> QED
        BY <2>6, <2>7, <2>8
<1>2. PatchInv /\ [PatchNext]_patchVars =>
        [ApplyNext =>
            LET op == Head(todo)
                p  == Target(op)
            IN  \A q \in DOMAIN reply.body :
                  (/\ OffThePath(p, q) /\ GoesThroughAs(reply.body, p, q)
                   /\ (op.op = "delete" /\ LastStep(p)[1] = "at" => ~Begins(Parent(p), q)))
                     => q \in DOMAIN reply'.body /\ reply'.body[q] = reply.body[q]]_patchVars
    <2> DEFINE op == Head(todo)
               p == Target(op)
    <2> SUFFICES ASSUME PatchInv, ApplyNext, NEW q \in DOMAIN reply.body, OffThePath(p, q), GoesThroughAs(reply.body, p, q),
                        op.op = "delete" /\ LastStep(p)[1] = "at" => ~Begins(Parent(p), q)
                 PROVE  q \in DOMAIN reply'.body /\ reply'.body[q] = reply.body[q]
        OBVIOUS
    <2>1. IsReply(reply) /\ todo \in Seq(PatchOps) /\ todo # <<>> /\ reply' = Apply(reply, op).reply
        BY DEF PatchInv, ApplyNext
    <2>2. IsPatchOp(op)
        BY <2>1, PatchOpIsOne
    <2>3. Spared(op, p, q)
        BY DEF Spared, Spares, GoesThroughAs
    <2>4. Keeps(reply.body, Apply(reply, op).reply.body, q)
        BY <2>1, <2>2, <2>3, ApplyIsSound
    <2> QED
        BY <2>1, <2>4 DEF Keeps
<1>3. PatchInv /\ PatchInv' => BodyStaysATree' /\ ServedAsIs'
    <2>1. PatchInv' => IsReply(reply') /\ ServedAsIs'
        BY DEF PatchInv, IsReply
    <2>2. PatchInv' => BodyStaysATree'
        BY <2>1, TreeIsTree DEF BodyStaysATree, IsReply
    <2> QED
        BY <2>1, <2>2
<1>4. PatchSpec => SetIsRead
    BY <1>1, PatchInvariant, PTL DEF PatchSpec, SetIsRead
<1>5. PatchSpec => PatchKeepsToItsPath
    BY <1>2, PatchInvariant, PTL DEF PatchSpec, PatchKeepsToItsPath
<1>6. PatchSpec => [][BodyStaysATree' /\ ServedAsIs']_patchVars
    BY <1>3, PatchInvariant, PTL DEF PatchSpec
<1> QED
    BY <1>4, <1>5, <1>6 DEF PatchesDoWhatTheySay
=============================================================================
