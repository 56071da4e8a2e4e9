------------------------ MODULE TranscriptShownProofs ------------------------
(***************************************************************************)
(* What the transcript shows, for every log, every page size and every     *)
(* order of the steps: the text of every message once and in order         *)
(* (TranscriptIsWhole), and every tool call as the updates of the agent    *)
(* leave it (ToolsShown).                                                  *)
(*                                                                         *)
(* Both compare the result of folding the client's code over the log with  *)
(* what the agent said.  The argument has three parts:                     *)
(*   - SaidInv: the journal, followed by the channel, holds the updates    *)
(*     that were said, in order and normalised;                            *)
(*   - ShownInv: the transcript stands for the events of a range of the    *)
(*     log (Holds), and the inbox holds the events after it (Waiting);     *)
(*     pages extend the range below, live events above;                    *)
(*   - when the client rests with everything paged in, the range is the    *)
(*     whole log, and the two views agree.                                 *)
(* Facts about every sequence are proved from a least counterexample       *)
(* (LeastOf): the first length at which the fact fails cannot be 0 and     *)
(* cannot follow one at which it holds.                                    *)
(***************************************************************************)
EXTENDS TranscriptProofs, FiniteSetTheorems

-----------------------------------------------------------------------------
(* Sequences of sequences *)

LEMMA SeqSame ==
    ASSUME NEW s, NEW t, IsSeq(s), IsSeq(t), Len(s) = Len(t),
           \A i \in 1..Len(s) : s[i] = t[i]
    PROVE  s = t
<1>1. PICK S : s \in Seq(S)
    BY DEF IsSeq
<1>2. PICK T : t \in Seq(T)
    BY DEF IsSeq
<1>3. s = [i \in 1..Len(s) |-> s[i]] /\ t = [i \in 1..Len(t) |-> t[i]]
    BY <1>1, <1>2
<1>4. QED
    BY <1>3

LEMMA SeqEmpty ==
    ASSUME NEW s, IsSeq(s), Len(s) = 0
    PROVE  s = <<>>
BY SeqSame, SeqNone

LEMMA ConcatAssociates ==
    \A s, t, u : IsSeq(s) /\ IsSeq(t) /\ IsSeq(u) => (s \o t) \o u = s \o (t \o u)
<1> SUFFICES ASSUME NEW s, NEW t, NEW u, IsSeq(s), IsSeq(t), IsSeq(u)
             PROVE  (s \o t) \o u = s \o (t \o u)
    BY SMTT(30)
<1> DEFINE l == (s \o t) \o u
           r == s \o (t \o u)
<1>1. Len(s) \in Nat /\ Len(t) \in Nat /\ Len(u) \in Nat
    BY SeqFacts
<1>2. /\ IsSeq(s \o t) /\ Len(s \o t) = Len(s) + Len(t)
      /\ \A i \in 1..Len(s) : (s \o t)[i] = s[i]
      /\ \A i \in 1..Len(t) : (s \o t)[Len(s) + i] = t[i]
    BY SeqConcat
<1>3. /\ IsSeq(t \o u) /\ Len(t \o u) = Len(t) + Len(u)
      /\ \A i \in 1..Len(t) : (t \o u)[i] = t[i]
      /\ \A i \in 1..Len(u) : (t \o u)[Len(t) + i] = u[i]
    BY SeqConcat
<1>4. /\ IsSeq(l) /\ Len(l) = Len(s) + Len(t) + Len(u)
      /\ \A i \in 1..(Len(s) + Len(t)) : l[i] = (s \o t)[i]
      /\ \A i \in 1..Len(u) : l[Len(s) + Len(t) + i] = u[i]
    BY <1>1, <1>2, SeqConcat
<1>5. /\ IsSeq(r) /\ Len(r) = Len(s) + Len(t) + Len(u)
      /\ \A i \in 1..Len(s) : r[i] = s[i]
      /\ \A i \in 1..(Len(t) + Len(u)) : r[Len(s) + i] = (t \o u)[i]
    BY <1>1, <1>3, SeqConcat
<1> HIDE DEF l, r
<1>6. ASSUME NEW i \in 1..(Len(s) + Len(t) + Len(u)) PROVE l[i] = r[i]
    <2>1. CASE i <= Len(s)
        <3>1. i \in 1..Len(s) /\ i \in 1..(Len(s) + Len(t))
            BY <1>1, <2>1
        <3>2. QED
            BY <1>2, <1>4, <1>5, <3>1
    <2>2. CASE i > Len(s) /\ i <= Len(s) + Len(t)
        <3>1. PICK j \in 1..Len(t) : i = Len(s) + j
            <4>1. i - Len(s) \in 1..Len(t) /\ i = Len(s) + (i - Len(s))
                BY <1>1, <2>2
            <4>2. QED
                BY <4>1
        <3>2. l[i] = t[j]
            BY <1>1, <1>2, <1>4, <3>1
        <3>3. r[i] = t[j]
            BY <1>1, <1>3, <1>5, <3>1
        <3>4. QED
            BY <3>2, <3>3
    <2>3. CASE i > Len(s) + Len(t)
        <3>1. PICK j \in 1..Len(u) : i = Len(s) + Len(t) + j
            <4>1. i - (Len(s) + Len(t)) \in 1..Len(u) /\ i = Len(s) + Len(t) + (i - (Len(s) + Len(t)))
                BY <1>1, <2>3
            <4>2. QED
                BY <4>1
        <3>2. l[i] = u[j]
            BY <1>4, <3>1
        <3>3. Len(t) + j \in 1..(Len(t) + Len(u)) /\ i = Len(s) + (Len(t) + j)
            BY <1>1, <3>1
        <3>4. r[i] = (t \o u)[Len(t) + j]
            BY <1>5, <3>3
        <3>5. QED
            BY <1>3, <3>2, <3>4
    <2>4. QED
        BY <1>1, <2>1, <2>2, <2>3
<1>7. l = r
    BY <1>4, <1>5, <1>6, SeqSame
<1>8. QED
    BY <1>7 DEF l, r

LEMMA ConcatNone == \A s : IsSeq(s) => s \o <<>> = s /\ <<>> \o s = s
<1> SUFFICES ASSUME NEW s, IsSeq(s) PROVE s \o <<>> = s /\ <<>> \o s = s
    OBVIOUS
<1>1. PICK S : s \in Seq(S)
    BY DEF IsSeq
<1>2. QED
    BY <1>1

\* The first k prefixes of s, flattened.
Flattens(s, k, f) == f = [i \in 1..k |-> IF i = 1 THEN s[i] ELSE f[i - 1] \o s[i]]

LEMMA FlattensExist == \A s : \A k \in Nat : \E f : Flattens(s, k, f)
<1> SUFFICES ASSUME NEW s PROVE \A k \in Nat : \E f : Flattens(s, k, f)
    OBVIOUS
<1> DEFINE T == {k \in Nat : ~ \E f : Flattens(s, k, f)}
<1>1. SUFFICES ASSUME T # {} PROVE FALSE
    OBVIOUS
<1>2. PICK k \in T : \A y \in T : k <= y
    <2>1. T \in SUBSET Nat
        OBVIOUS
    <2> HIDE DEF T
    <2>2. QED
        BY <1>1, <2>1, LeastOf
<1>3. CASE k = 0
    <2> DEFINE f == [i \in 1..0 |-> s[i]]
    <2>1. Flattens(s, 0, f)
        BY DEF Flattens
    <2>2. QED
        BY <1>2, <1>3, <2>1
<1>4. CASE k # 0
    <2>1. k \in Nat /\ k - 1 \in Nat /\ k - 1 \notin T
        BY <1>2, <1>4
    <2>2. PICK g : Flattens(s, k - 1, g)
        BY <2>1
    <2>3. \A i \in 1..(k - 1) : g[i] = IF i = 1 THEN s[i] ELSE g[i - 1] \o s[i]
        BY <2>2 DEF Flattens
    <2> DEFINE f == [i \in 1..k |-> IF i < k THEN g[i] ELSE IF i = 1 THEN s[i] ELSE g[i - 1] \o s[i]]
    <2>4. \A i \in 1..k : f[i] = IF i = 1 THEN s[i] ELSE f[i - 1] \o s[i]
        BY <2>1, <2>3
    <2>5. DOMAIN f = 1..k /\ f = [i \in 1..k |-> f[i]]
        OBVIOUS
    <2> HIDE DEF f
    <2>6. Flattens(s, k, f)
        BY <2>4, <2>5 DEF Flattens
    <2>7. QED
        BY <1>2, <2>6
<1>5. QED
    BY <1>3, <1>4

LEMMA FlattenIs ==
    ASSUME NEW s, Len(s) \in Nat, Len(s) # 0
    PROVE  \E f : Flattens(s, Len(s), f) /\ FlattenSeq(s) = f[Len(s)]
<1> DEFINE Is(f) == f = [i \in 1..Len(s) |-> IF i = 1 THEN s[i] ELSE f[i - 1] \o s[i]]
           flatten == CHOOSE f : Is(f)
<1>1. FlattenSeq(s) = flatten[Len(s)]
    BY DEF FlattenSeq
<1>2. \E f : Is(f)
    BY FlattensExist DEF Flattens
<1>3. Is(flatten)
    <2> HIDE DEF Is
    <2> QED  BY <1>2
<1> HIDE DEF flatten
<1>4. Flattens(s, Len(s), flatten)
    BY <1>3 DEF Flattens
<1>5. QED
    BY <1>1, <1>4

LEMMA FlattensAgree ==
    \A s, t, f, g : \A m, n \in Nat :
        m <= n /\ (\A i \in 1..m : s[i] = t[i]) /\ Flattens(s, m, f) /\ Flattens(t, n, g)
        => \A i \in 1..m : f[i] = g[i]
<1> SUFFICES ASSUME NEW s, NEW t, NEW f, NEW g, NEW m \in Nat, NEW n \in Nat, m <= n,
                    \A i \in 1..m : s[i] = t[i], Flattens(s, m, f), Flattens(t, n, g)
             PROVE  \A i \in 1..m : f[i] = g[i]
    OBVIOUS
<1> DEFINE T == {i \in 1..m : f[i] # g[i]}
<1>1. SUFFICES ASSUME T # {} PROVE FALSE
    OBVIOUS
<1>2. PICK k \in T : \A y \in T : k <= y
    <2>1. T \in SUBSET Nat
        OBVIOUS
    <2> HIDE DEF T
    <2>2. QED
        BY <1>1, <2>1, LeastOf
<1>3. k \in 1..m /\ k \in 1..n /\ s[k] = t[k] /\ f[k] # g[k]
    BY <1>2
<1>4. /\ f[k] = IF k = 1 THEN s[k] ELSE f[k - 1] \o s[k]
      /\ g[k] = IF k = 1 THEN t[k] ELSE g[k - 1] \o t[k]
    BY <1>3 DEF Flattens
<1>5. k # 1
    BY <1>3, <1>4
<1>6. k - 1 \in 1..m /\ k - 1 \notin T
    BY <1>2, <1>3, <1>5
<1>7. f[k - 1] = g[k - 1]
    BY <1>6
<1>8. QED
    BY <1>3, <1>4, <1>7

LEMMA FlattenEmpty == \A s : Len(s) = 0 => FlattenSeq(s) = s
BY DEF FlattenSeq

\* One more sequence at the end.
LEMMA FlattenLast ==
    ASSUME NEW s, NEW r, IsSeq(s), IsSeq(r), Len(s) = Len(r) + 1,
           \A i \in 1..Len(r) : s[i] = r[i], IsSeq(s[Len(s)])
    PROVE  FlattenSeq(s) = FlattenSeq(r) \o s[Len(s)]
<1>1. Len(r) \in Nat /\ Len(s) \in Nat /\ Len(s) # 0
    BY SeqFacts
<1>2. PICK f : Flattens(s, Len(s), f) /\ FlattenSeq(s) = f[Len(s)]
    BY <1>1, FlattenIs
<1>3. Len(s) \in 1..Len(s)
    BY <1>1
<1>4. f[Len(s)] = IF Len(s) = 1 THEN s[Len(s)] ELSE f[Len(s) - 1] \o s[Len(s)]
    BY <1>2, <1>3 DEF Flattens
<1>5. CASE Len(r) = 0
    <2>1. FlattenSeq(r) = <<>>
        BY <1>5, FlattenEmpty, SeqEmpty
    <2>2. FlattenSeq(s) = s[Len(s)]
        BY <1>1, <1>2, <1>4, <1>5
    <2>3. QED
        BY <2>1, <2>2, ConcatNone
<1>6. CASE Len(r) # 0
    <2>1. PICK g : Flattens(r, Len(r), g) /\ FlattenSeq(r) = g[Len(r)]
        BY <1>1, <1>6, FlattenIs
    <2>2. Len(r) \in 1..Len(r) /\ Len(r) <= Len(s)
        BY <1>1, <1>6
    <2>3. g[Len(r)] = f[Len(r)]
        <3>1. \A i \in 1..Len(r) : r[i] = s[i]
            OBVIOUS
        <3>2. \A i \in 1..Len(r) : g[i] = f[i]
            BY <1>1, <1>2, <2>1, <2>2, <3>1, FlattensAgree
        <3>3. QED
            BY <2>2, <3>2
    <2>4. Len(s) - 1 = Len(r) /\ Len(s) # 1
        BY <1>1, <1>6
    <2>5. QED
        BY <1>2, <1>4, <2>1, <2>3, <2>4
<1>7. QED
    BY <1>5, <1>6

\* All but the last element.
LEMMA SeqFront ==
    ASSUME NEW s, IsSeq(s), Len(s) # 0
    PROVE  \E r : /\ IsSeq(r) /\ Len(s) = Len(r) + 1 /\ Len(r) = Len(s) - 1
                  /\ \A i \in 1..Len(r) : s[i] = r[i]
<1>1. PICK S : s \in Seq(S)
    BY DEF IsSeq
<1> DEFINE r == [i \in 1..(Len(s) - 1) |-> s[i]]
<1>2. Len(s) - 1 \in Nat /\ r \in [1..(Len(s) - 1) -> S]
    BY <1>1
<1>3. \A i \in 1..(Len(s) - 1) : s[i] = r[i]
    OBVIOUS
<1> HIDE DEF r
<1>4. IsSeq(r) /\ Len(r) = Len(s) - 1
    BY <1>2, FcnIsSeq
<1>5. QED
    BY <1>2, <1>3, <1>4

IsSeqs(s) == IsSeq(s) /\ \A i \in 1..Len(s) : IsSeq(s[i])

LEMMA FlattenTyped == \A s : IsSeqs(s) => IsSeq(FlattenSeq(s))
<1> DEFINE T == {n \in Nat : \E s : IsSeqs(s) /\ Len(s) = n /\ ~ IsSeq(FlattenSeq(s))}
<1>1. SUFFICES T = {}
    <2>1. \A s : IsSeqs(s) => Len(s) \in Nat
        BY SeqFacts DEF IsSeqs
    <2>2. QED
        BY <2>1
<1>2. SUFFICES ASSUME T # {} PROVE FALSE
    OBVIOUS
<1>3. PICK n \in T : \A y \in T : n <= y
    <2>1. T \in SUBSET Nat
        OBVIOUS
    <2> HIDE DEF T
    <2>2. QED
        BY <1>2, <2>1, LeastOf
<1>4. PICK s : IsSeqs(s) /\ Len(s) = n /\ ~ IsSeq(FlattenSeq(s))
    BY <1>3
<1>5. IsSeq(s) /\ n \in Nat /\ \A i \in 1..n : IsSeq(s[i])
    BY <1>3, <1>4 DEF IsSeqs
<1>6. n # 0
    BY <1>4, <1>5, FlattenEmpty
<1>7. PICK r : /\ IsSeq(r) /\ Len(s) = Len(r) + 1 /\ Len(r) = Len(s) - 1
               /\ \A i \in 1..Len(r) : s[i] = r[i]
    BY <1>4, <1>5, <1>6, SeqFront
<1>8. n - 1 \in Nat /\ n - 1 \notin T /\ IsSeq(s[Len(s)])
    BY <1>3, <1>4, <1>5, <1>6
<1>9. IsSeqs(r)
    BY <1>4, <1>5, <1>7 DEF IsSeqs
<1>10. IsSeq(FlattenSeq(r))
    BY <1>4, <1>7, <1>8, <1>9
<1>11. FlattenSeq(s) = FlattenSeq(r) \o s[Len(s)]
    BY <1>5, <1>7, <1>8, FlattenLast
<1>12. QED
    BY <1>4, <1>8, <1>10, <1>11, SeqConcat

LEMMA FlattenConcat ==
    \A s, t : IsSeqs(s) /\ IsSeqs(t) => FlattenSeq(s \o t) = FlattenSeq(s) \o FlattenSeq(t)
<1> SUFFICES ASSUME NEW s, IsSeqs(s)
             PROVE  \A t : IsSeqs(t) => FlattenSeq(s \o t) = FlattenSeq(s) \o FlattenSeq(t)
    OBVIOUS
<1> DEFINE Good(t) == FlattenSeq(s \o t) = FlattenSeq(s) \o FlattenSeq(t)
           T == {n \in Nat : \E t : IsSeqs(t) /\ Len(t) = n /\ ~ Good(t)}
<1>1. SUFFICES T = {}
    <2>1. \A t : IsSeqs(t) => Len(t) \in Nat
        BY SeqFacts DEF IsSeqs
    <2>2. QED
        BY <2>1
<1>2. SUFFICES ASSUME T # {} PROVE FALSE
    OBVIOUS
<1>3. PICK n \in T : \A y \in T : n <= y
    <2>1. T \in SUBSET Nat
        OBVIOUS
    <2> HIDE DEF T
    <2>2. QED
        BY <1>2, <2>1, LeastOf
<1>4. PICK t : IsSeqs(t) /\ Len(t) = n /\ ~ Good(t)
    BY <1>3
<1>5. /\ IsSeq(s) /\ IsSeq(t) /\ n \in Nat /\ \A i \in 1..n : IsSeq(t[i])
      /\ Len(s) \in Nat /\ IsSeq(FlattenSeq(s))
    BY <1>3, <1>4, SeqFacts, FlattenTyped DEF IsSeqs
<1>6. n # 0
    <2>1. SUFFICES ASSUME n = 0 PROVE FALSE
        OBVIOUS
    <2>2. t = <<>> /\ FlattenSeq(t) = <<>>
        BY <1>4, <1>5, <2>1, SeqEmpty, FlattenEmpty
    <2>3. s \o t = s /\ FlattenSeq(s) \o FlattenSeq(t) = FlattenSeq(s)
        BY <1>5, <2>2, ConcatNone
    <2>4. QED
        BY <1>4, <2>3
<1>7. PICK r : /\ IsSeq(r) /\ Len(t) = Len(r) + 1 /\ Len(r) = Len(t) - 1
               /\ \A i \in 1..Len(r) : t[i] = r[i]
    BY <1>4, <1>5, <1>6, SeqFront
<1>8. n - 1 \in Nat /\ n - 1 \notin T /\ IsSeq(t[Len(t)])
    <2> HIDE DEF Good
    <2>1. n - 1 \in Nat /\ ~ (n <= n - 1) /\ n \in 1..n
        BY <1>5, <1>6
    <2>2. n - 1 \notin T
        <3> HIDE DEF T
        <3> QED  BY <1>3, <2>1
    <2>3. QED
        BY <1>4, <1>5, <2>1, <2>2
<1>9. IsSeqs(r)
    BY <1>4, <1>5, <1>7 DEF IsSeqs
<1>10. Good(r)
    BY <1>4, <1>7, <1>8, <1>9
<1>11. FlattenSeq(t) = FlattenSeq(r) \o t[Len(t)]
    BY <1>5, <1>7, <1>8, FlattenLast
<1>12. FlattenSeq(s \o t) = FlattenSeq(s \o r) \o t[Len(t)]
    <2>1. /\ IsSeq(s \o t) /\ Len(s \o t) = Len(s) + Len(t)
          /\ \A i \in 1..Len(s) : (s \o t)[i] = s[i]
          /\ \A i \in 1..Len(t) : (s \o t)[Len(s) + i] = t[i]
        BY <1>5, SeqConcat
    <2>2. /\ IsSeq(s \o r) /\ Len(s \o r) = Len(s) + Len(r)
          /\ \A i \in 1..Len(s) : (s \o r)[i] = s[i]
          /\ \A i \in 1..Len(r) : (s \o r)[Len(s) + i] = r[i]
        BY <1>5, <1>7, SeqConcat
    <2>3. ASSUME NEW i \in 1..Len(s \o r) PROVE (s \o t)[i] = (s \o r)[i]
        <3>1. CASE i <= Len(s)
            BY <1>4, <1>5, <1>7, <2>1, <2>2, <3>1
        <3>2. CASE i > Len(s)
            <4>1. i - Len(s) \in 1..Len(r) /\ i - Len(s) \in 1..Len(t) /\ i = Len(s) + (i - Len(s))
                BY <1>4, <1>5, <1>7, <2>2, <3>2, SMT
            <4>2. (s \o t)[i] = t[i - Len(s)] /\ (s \o r)[i] = r[i - Len(s)]
                BY <2>1, <2>2, <4>1
            <4>3. QED
                BY <1>7, <4>1, <4>2
        <3>3. QED
            BY <1>5, <2>2, <1>4, <1>7, <3>1, <3>2
    <2>4. Len(s \o t) = Len(s \o r) + 1 /\ (s \o t)[Len(s \o t)] = t[Len(t)]
        <3>1. Len(t) \in 1..Len(t)
            BY <1>4, <1>5, <1>6
        <3>2. QED
            BY <1>4, <1>5, <1>7, <2>1, <2>2, <3>1
    <2> DEFINE a == s \o t
               b == s \o r
               x == t[Len(t)]
    <2>5. IsSeq(a) /\ IsSeq(b) /\ Len(a) = Len(b) + 1 /\ a[Len(a)] = x /\ IsSeq(x)
        BY <1>8, <2>1, <2>2, <2>4
    <2>6. \A i \in 1..Len(b) : a[i] = b[i]
        BY <2>3
    <2> HIDE DEF a, b, x
    <2>7. IsSeq(a[Len(a)])
        BY ONLY <2>5
    <2>8. FlattenSeq(a) = FlattenSeq(b) \o a[Len(a)]
        BY ONLY <2>5, <2>6, <2>7, FlattenLast
    <2>9. QED
        BY <2>5, <2>8 DEF a, b, x
<1>13. IsSeq(FlattenSeq(r))
    BY <1>9, FlattenTyped
<1>14. (FlattenSeq(s) \o FlattenSeq(r)) \o t[Len(t)] = FlattenSeq(s) \o (FlattenSeq(r) \o t[Len(t)])
    <2>1. IsSeq(FlattenSeq(s)) /\ IsSeq(FlattenSeq(r)) /\ IsSeq(t[Len(t)])
        BY <1>5, <1>8, <1>13
    <2> DEFINE a == FlattenSeq(s)
               b == FlattenSeq(r)
               c == t[Len(t)]
    <2>2. IsSeq(a) /\ IsSeq(b) /\ IsSeq(c)
        BY <2>1
    <2> HIDE DEF a, b, c
    <2>3. (a \o b) \o c = a \o (b \o c)
        BY <2>2, ConcatAssociates, SMTT(30)
    <2>4. QED
        BY <2>3 DEF a, b, c
<1>15. QED
    BY <1>4, <1>10, <1>11, <1>12, <1>14

-----------------------------------------------------------------------------
(* The sequences F[lo] to F[hi], one after the other *)

Parts(F, lo, hi) == [i \in 1..(hi - lo + 1) |-> F[lo + i - 1]]
Cat(F, lo, hi) == FlattenSeq(Parts(F, lo, hi))

\* An interval that is not empty or ends just before its start, of sequences.
Spans(F, lo, hi) ==
    /\ lo \in Nat \ {0} /\ hi \in Nat /\ lo <= hi + 1
    /\ \A i \in lo..hi : IsSeq(F[i])

LEMMA PartsTyped ==
    \A F, lo, hi : Spans(F, lo, hi) =>
        /\ IsSeqs(Parts(F, lo, hi)) /\ Len(Parts(F, lo, hi)) = hi - lo + 1
        /\ \A i \in 1..(hi - lo + 1) : Parts(F, lo, hi)[i] = F[lo + i - 1]
<1> SUFFICES ASSUME NEW F, NEW lo, NEW hi, Spans(F, lo, hi)
             PROVE  /\ IsSeqs(Parts(F, lo, hi)) /\ Len(Parts(F, lo, hi)) = hi - lo + 1
                    /\ \A i \in 1..(hi - lo + 1) : Parts(F, lo, hi)[i] = F[lo + i - 1]
    OBVIOUS
<1> DEFINE n == hi - lo + 1
           p == Parts(F, lo, hi)
           S == {F[lo + i - 1] : i \in 1..n}
<1>1. n \in Nat /\ lo \in Nat /\ hi \in Nat
    BY DEF Spans
<1>2. p \in [1..n -> S] /\ \A i \in 1..n : p[i] = F[lo + i - 1]
    BY DEF Parts
<1>3. \A i \in 1..n : lo + i - 1 \in lo..hi
    BY <1>1
<1> HIDE DEF p, S
<1>4. IsSeq(p) /\ Len(p) = n
    BY <1>1, <1>2, FcnIsSeq
<1>5. \A i \in 1..n : IsSeq(p[i])
    BY <1>2, <1>3 DEF Spans
<1>6. QED
    BY <1>2, <1>4, <1>5 DEF p, IsSeqs

LEMMA CatTyped == \A F, lo, hi : Spans(F, lo, hi) => IsSeq(Cat(F, lo, hi))
BY PartsTyped, FlattenTyped DEF Cat

LEMMA CatNone == \A F : \A lo \in Nat \ {0} : Cat(F, lo, lo - 1) = <<>>
<1> SUFFICES ASSUME NEW F, NEW lo \in Nat \ {0} PROVE Cat(F, lo, lo - 1) = <<>>
    OBVIOUS
<1>1. Spans(F, lo, lo - 1)
    BY DEF Spans
<1>2. Len(Parts(F, lo, lo - 1)) = 0 /\ IsSeq(Parts(F, lo, lo - 1))
    BY <1>1, PartsTyped DEF IsSeqs
<1>3. QED
    BY <1>2, SeqEmpty, FlattenEmpty DEF Cat

LEMMA CatLast ==
    \A F, lo, hi : Spans(F, lo, hi) /\ lo <= hi => Cat(F, lo, hi) = Cat(F, lo, hi - 1) \o F[hi]
<1> SUFFICES ASSUME NEW F, NEW lo, NEW hi, Spans(F, lo, hi), lo <= hi
             PROVE  Cat(F, lo, hi) = Cat(F, lo, hi - 1) \o F[hi]
    OBVIOUS
<1> DEFINE s == Parts(F, lo, hi)
           r == Parts(F, lo, hi - 1)
<1>1. lo \in Nat \ {0} /\ hi \in Nat /\ hi - 1 \in Nat /\ hi \in lo..hi /\ lo..(hi - 1) \subseteq lo..hi
    BY DEF Spans
<1>2. Spans(F, lo, hi - 1) /\ IsSeq(F[hi])
    BY <1>1 DEF Spans
<1>3. IsSeq(s) /\ Len(s) = hi - lo + 1 /\ \A i \in 1..(hi - lo + 1) : s[i] = F[lo + i - 1]
    BY PartsTyped DEF IsSeqs
<1>4. IsSeq(r) /\ Len(r) = hi - 1 - lo + 1 /\ \A i \in 1..(hi - 1 - lo + 1) : r[i] = F[lo + i - 1]
    BY <1>2, PartsTyped DEF IsSeqs
<1> HIDE DEF s, r
<1>5. Len(s) = Len(r) + 1 /\ s[Len(s)] = F[hi] /\ \A i \in 1..Len(r) : s[i] = r[i]
    <2>1. Len(s) = Len(r) + 1 /\ Len(r) = hi - lo /\ Len(s) \in 1..(hi - lo + 1) /\ lo + Len(s) - 1 = hi
        BY <1>1, <1>3, <1>4, SMTT(30)
    <2>2. s[Len(s)] = F[hi]
        BY <1>3, <2>1
    <2>3. ASSUME NEW i \in 1..Len(r) PROVE s[i] = r[i]
        <3>1. i \in 1..(hi - 1 - lo + 1) /\ i \in 1..(hi - lo + 1)
            BY <1>1, <2>1
        <3>2. QED
            BY <1>3, <1>4, <3>1
    <2>4. QED
        BY <2>1, <2>2, <2>3
<1>6. FlattenSeq(s) = FlattenSeq(r) \o s[Len(s)]
    BY <1>2, <1>3, <1>4, <1>5, FlattenLast
<1>7. QED
    BY <1>5, <1>6 DEF Cat, s, r

LEMMA CatOne ==
    \A F : \A lo \in Nat \ {0} : IsSeq(F[lo]) => Cat(F, lo, lo) = F[lo]
<1> SUFFICES ASSUME NEW F, NEW lo \in Nat \ {0}, IsSeq(F[lo]) PROVE Cat(F, lo, lo) = F[lo]
    OBVIOUS
<1>1. Spans(F, lo, lo) /\ lo <= lo
    BY DEF Spans
<1>2. Cat(F, lo, lo) = Cat(F, lo, lo - 1) \o F[lo]
    BY <1>1, CatLast
<1>3. Cat(F, lo, lo - 1) = <<>>
    BY CatNone
<1>4. QED
    BY <1>2, <1>3, ConcatNone

LEMMA CatSplit ==
    \A F : \A lo, hi, m \in Nat : Spans(F, lo, hi) /\ lo <= m + 1 /\ m <= hi =>
        Cat(F, lo, hi) = Cat(F, lo, m) \o Cat(F, m + 1, hi)
<1> TAKE F
<1> TAKE lo, hi, m \in Nat
<1> HAVE Spans(F, lo, hi) /\ lo <= m + 1 /\ m <= hi
<1> DEFINE s == Parts(F, lo, m)
           t == Parts(F, m + 1, hi)
           u == Parts(F, lo, hi)
<1>1. lo \in Nat \ {0} /\ hi \in Nat /\ lo..m \subseteq lo..hi /\ (m + 1)..hi \subseteq lo..hi
    BY DEF Spans
<1>2. Spans(F, lo, m) /\ Spans(F, m + 1, hi)
    BY <1>1 DEF Spans
<1>3. IsSeqs(u) /\ Len(u) = hi - lo + 1 /\ \A i \in 1..(hi - lo + 1) : u[i] = F[lo + i - 1]
    BY PartsTyped
<1>4. IsSeqs(s) /\ Len(s) = m - lo + 1 /\ \A i \in 1..(m - lo + 1) : s[i] = F[lo + i - 1]
    <2>1. PICK k : k = m
        OBVIOUS
    <2>2. Spans(F, lo, k)
        BY <1>2, <2>1
    <2>3. /\ IsSeqs(Parts(F, lo, k)) /\ Len(Parts(F, lo, k)) = k - lo + 1
          /\ \A i \in 1..(k - lo + 1) : Parts(F, lo, k)[i] = F[lo + i - 1]
        BY <2>2, PartsTyped
    <2>4. QED
        BY <2>1, <2>3
<1>5. IsSeqs(t) /\ Len(t) = hi - m /\ \A i \in 1..(hi - m) : t[i] = F[m + i]
    <2>1. PICK k : k = m + 1
        OBVIOUS
    <2>2. Spans(F, k, hi)
        BY <1>2, <2>1
    <2>3. /\ IsSeqs(Parts(F, k, hi)) /\ Len(Parts(F, k, hi)) = hi - k + 1
          /\ \A i \in 1..(hi - k + 1) : Parts(F, k, hi)[i] = F[k + i - 1]
        BY <2>2, PartsTyped
    <2>4. hi - k + 1 = hi - m /\ \A i \in Nat : k + i - 1 = m + i
        BY <2>1
    <2>5. QED
        BY <2>1, <2>3, <2>4
<1> HIDE DEF s, t, u
<1>6. IsSeq(s) /\ IsSeq(t) /\ IsSeq(u)
    BY <1>3, <1>4, <1>5 DEF IsSeqs
<1>7. /\ IsSeq(s \o t) /\ Len(s \o t) = Len(s) + Len(t)
      /\ \A i \in 1..Len(s) : (s \o t)[i] = s[i]
      /\ \A i \in 1..Len(t) : (s \o t)[Len(s) + i] = t[i]
    BY <1>6, SeqConcat
<1>8. Len(s \o t) = Len(u)
    BY <1>1, <1>3, <1>4, <1>5, <1>7
<1>9. ASSUME NEW i \in 1..Len(u) PROVE u[i] = (s \o t)[i]
    <2>0. /\ Len(s) = m - lo + 1 /\ Len(t) = hi - m /\ Len(u) = hi - lo + 1
          /\ lo \in Nat /\ hi \in Nat /\ i \in 1..(hi - lo + 1)
        BY <1>1, <1>3, <1>4, <1>5
    <2>1. CASE i <= Len(s)
        <3>1. i \in 1..Len(s) /\ i \in 1..(m - lo + 1)
            BY <2>0, <2>1
        <3>2. s[i] = F[lo + i - 1] /\ (s \o t)[i] = s[i]
            BY <1>4, <1>7, <3>1
        <3>3. u[i] = F[lo + i - 1]
            BY <1>3, <2>0
        <3>4. QED
            BY <3>2, <3>3
    <2>2. CASE i > Len(s)
        <3>1. i - Len(s) \in 1..Len(t) /\ i = Len(s) + (i - Len(s)) /\ m + (i - Len(s)) = lo + i - 1
            BY <2>0, <2>2
        <3>2. (s \o t)[i] = t[i - Len(s)]
            BY <1>7, <3>1
        <3>3. t[i - Len(s)] = F[m + (i - Len(s))]
            BY <1>5, <3>1
        <3>4. u[i] = F[lo + i - 1]
            BY <1>3, <2>0
        <3>5. QED
            BY <3>1, <3>2, <3>3, <3>4
    <2>3. QED
        BY <2>0, <2>1, <2>2
<1>10. u = s \o t
    BY <1>6, <1>7, <1>8, <1>9, SeqSame
<1>11. FlattenSeq(u) = FlattenSeq(s) \o FlattenSeq(t)
    BY <1>4, <1>5, <1>10, FlattenConcat
<1>12. QED
    BY <1>11 DEF Cat, s, t, u

LEMMA CatShift ==
    \A F, G : \A lo, hi, d \in Nat :
        (\A i \in lo..hi : F[i] = G[i + d]) => Cat(F, lo, hi) = Cat(G, lo + d, hi + d)
<1> SUFFICES ASSUME NEW F, NEW G, NEW lo \in Nat, NEW hi \in Nat, NEW d \in Nat,
                    \A i \in lo..hi : F[i] = G[i + d]
             PROVE  Cat(F, lo, hi) = Cat(G, lo + d, hi + d)
    OBVIOUS
<1>1. hi + d - (lo + d) + 1 = hi - lo + 1
    OBVIOUS
<1>2. ASSUME NEW i \in 1..(hi - lo + 1) PROVE F[lo + i - 1] = G[lo + d + i - 1]
    <2>1. lo + i - 1 \in lo..hi /\ lo + d + i - 1 = (lo + i - 1) + d
        OBVIOUS
    <2>2. QED
        BY <2>1
<1>3. Parts(F, lo, hi) = Parts(G, lo + d, hi + d)
    BY <1>1, <1>2 DEF Parts
<1>4. QED
    BY <1>3 DEF Cat

LEMMA CatSame ==
    \A F, G : \A lo, hi \in Nat :
        (\A i \in lo..hi : F[i] = G[i]) => Cat(F, lo, hi) = Cat(G, lo, hi)
<1> SUFFICES ASSUME NEW F, NEW G, NEW lo \in Nat, NEW hi \in Nat, \A i \in lo..hi : F[i] = G[i]
             PROVE  Cat(F, lo, hi) = Cat(G, lo, hi)
    OBVIOUS
<1>1. ASSUME NEW i \in 1..(hi - lo + 1) PROVE F[lo + i - 1] = G[lo + i - 1]
    <2>1. lo + i - 1 \in lo..hi
        OBVIOUS
    <2>2. QED
        BY <2>1
<1>2. Parts(F, lo, hi) = Parts(G, lo, hi)
    BY <1>1 DEF Parts
<1>3. QED
    BY <1>2 DEF Cat

-----------------------------------------------------------------------------
(* The pieces of a transcript *)

\* More in the last of the sequences.
LEMMA FlattenGrow ==
    ASSUME NEW F, NEW G, NEW p, IsSeqs(F), IsSeqs(G), IsSeq(p), Len(F) = Len(G), Len(F) # 0,
           \A i \in 1..(Len(F) - 1) : G[i] = F[i], G[Len(F)] = F[Len(F)] \o p
    PROVE  FlattenSeq(G) = FlattenSeq(F) \o p
<1>1. /\ IsSeq(F) /\ IsSeq(G) /\ Len(F) \in Nat /\ Len(F) \in 1..Len(F)
      /\ IsSeq(F[Len(F)]) /\ IsSeq(G[Len(F)])
    <2>1. IsSeq(F) /\ IsSeq(G) /\ Len(F) \in Nat
        BY SeqFacts DEF IsSeqs
    <2>2. Len(F) \in 1..Len(F)
        BY <2>1
    <2>3. QED
        BY <2>1, <2>2 DEF IsSeqs
<1>2. PICK r : /\ IsSeq(r) /\ Len(F) = Len(r) + 1 /\ Len(r) = Len(F) - 1
               /\ \A i \in 1..Len(r) : F[i] = r[i]
    BY <1>1, SeqFront
<1>3. FlattenSeq(F) = FlattenSeq(r) \o F[Len(F)]
    BY <1>1, <1>2, FlattenLast
<1>4. FlattenSeq(G) = FlattenSeq(r) \o G[Len(F)]
    <2>1. \A i \in 1..Len(r) : G[i] = r[i]
        BY <1>2
    <2>2. QED
        BY <1>1, <1>2, <2>1, FlattenLast
<1>5. IsSeq(FlattenSeq(r))
    <2>1. \A i \in 1..Len(r) : i \in 1..Len(F)
        BY <1>1, <1>2
    <2>2. IsSeqs(r)
        BY <1>2, <2>1 DEF IsSeqs
    <2>3. QED
        BY <2>2, FlattenTyped
<1> DEFINE a == FlattenSeq(r)
           b == F[Len(F)]
<1>6. IsSeq(a) /\ IsSeq(b)
    BY <1>1, <1>5
<1> HIDE DEF a, b
<1>7. (a \o b) \o p = a \o (b \o p)
    BY <1>6, ConcatAssociates
<1>8. QED
    BY <1>3, <1>4, <1>7 DEF a, b

BlockPieces(role, block) == [k \in DOMAIN block.texts |-> <<role, block.kind, block.texts[k]>>]

BlocksPieces(role, blocks) == [j \in DOMAIN blocks |-> BlockPieces(role, blocks[j])]

ItemPieces(item) ==
    IF item.type # "message" THEN <<>> ELSE FlattenSeq(BlocksPieces(item.role, item.blocks))

ItemsPieces(items) == [i \in DOMAIN items |-> ItemPieces(items[i])]

LEMMA FlatIs == \A items : Flat(items) = FlattenSeq(ItemsPieces(items))
BY DEF Flat, ItemsPieces, ItemPieces, BlocksPieces, BlockPieces

\* The shapes of what is on show.
IsBlock(b) == b = [kind |-> b.kind, texts |-> b.texts] /\ IsSeq(b.texts)
IsBlocks(bs) == IsSeq(bs) /\ \A j \in 1..Len(bs) : IsBlock(bs[j])
IsCall(c) == c = Call(c.id, c.title, c.kind, c.status, c.detail, c.content, c.locations, c.raw)
IsMessageItem(item) ==
    /\ item = [type |-> "message", role |-> item.role, blocks |-> item.blocks]
    /\ IsBlocks(item.blocks)
IsToolItem(item) == item = [type |-> "tool", call |-> item.call] /\ IsCall(item.call)
IsItem(item) == IsMessageItem(item) \/ IsToolItem(item)
IsItems(items) == IsSeq(items) /\ \A i \in 1..Len(items) : IsItem(items[i])

LEMMA BlockPiecesTyped ==
    \A role, b : IsBlock(b) =>
        /\ IsSeq(BlockPieces(role, b)) /\ Len(BlockPieces(role, b)) = Len(b.texts)
        /\ \A k \in 1..Len(b.texts) : BlockPieces(role, b)[k] = <<role, b.kind, b.texts[k]>>
<1> SUFFICES ASSUME NEW role, NEW b, IsBlock(b)
             PROVE  /\ IsSeq(BlockPieces(role, b)) /\ Len(BlockPieces(role, b)) = Len(b.texts)
                    /\ \A k \in 1..Len(b.texts) : BlockPieces(role, b)[k] = <<role, b.kind, b.texts[k]>>
    OBVIOUS
<1> DEFINE p == BlockPieces(role, b)
           n == Len(b.texts)
           S == {<<role, b.kind, b.texts[k]>> : k \in 1..n}
<1>1. n \in Nat /\ DOMAIN b.texts = 1..n
    BY SeqFacts DEF IsBlock
<1>2. p = [k \in 1..n |-> <<role, b.kind, b.texts[k]>>]
    BY <1>1 DEF BlockPieces
<1>3. p \in [1..n -> S] /\ \A k \in 1..n : p[k] = <<role, b.kind, b.texts[k]>>
    BY <1>2
<1> HIDE DEF p, S
<1>4. IsSeq(p) /\ Len(p) = n
    BY <1>1, <1>3, FcnIsSeq
<1>5. QED
    BY <1>3, <1>4 DEF p

LEMMA BlocksPiecesTyped ==
    \A role, bs : IsBlocks(bs) =>
        /\ IsSeqs(BlocksPieces(role, bs)) /\ Len(BlocksPieces(role, bs)) = Len(bs)
        /\ \A j \in 1..Len(bs) : BlocksPieces(role, bs)[j] = BlockPieces(role, bs[j])
<1> SUFFICES ASSUME NEW role, NEW bs, IsBlocks(bs)
             PROVE  /\ IsSeqs(BlocksPieces(role, bs)) /\ Len(BlocksPieces(role, bs)) = Len(bs)
                    /\ \A j \in 1..Len(bs) : BlocksPieces(role, bs)[j] = BlockPieces(role, bs[j])
    OBVIOUS
<1> DEFINE p == BlocksPieces(role, bs)
           n == Len(bs)
           S == {BlockPieces(role, bs[j]) : j \in 1..n}
<1>1. n \in Nat /\ DOMAIN bs = 1..n
    BY SeqFacts DEF IsBlocks
<1>2. p \in [1..n -> S] /\ \A j \in 1..n : p[j] = BlockPieces(role, bs[j])
    BY <1>1 DEF BlocksPieces
<1> HIDE DEF p, S
<1>3. IsSeq(p) /\ Len(p) = n
    BY <1>1, <1>2, FcnIsSeq
<1>4. \A j \in 1..n : IsSeq(p[j])
    BY <1>2, BlockPiecesTyped DEF IsBlocks
<1>5. QED
    BY <1>2, <1>3, <1>4 DEF p, IsSeqs

LEMMA ItemPiecesTyped == \A item : IsItem(item) => IsSeq(ItemPieces(item))
BY BlocksPiecesTyped, FlattenTyped, SeqNone DEF IsItem, IsMessageItem, IsToolItem, ItemPieces

LEMMA ItemsPiecesTyped ==
    \A items : IsItems(items) =>
        /\ IsSeqs(ItemsPieces(items)) /\ Len(ItemsPieces(items)) = Len(items)
        /\ \A i \in 1..Len(items) : ItemsPieces(items)[i] = ItemPieces(items[i])
<1> SUFFICES ASSUME NEW items, IsItems(items)
             PROVE  /\ IsSeqs(ItemsPieces(items)) /\ Len(ItemsPieces(items)) = Len(items)
                    /\ \A i \in 1..Len(items) : ItemsPieces(items)[i] = ItemPieces(items[i])
    OBVIOUS
<1> DEFINE p == ItemsPieces(items)
           n == Len(items)
           S == {ItemPieces(items[j]) : j \in 1..n}
<1>1. n \in Nat /\ DOMAIN items = 1..n
    BY SeqFacts DEF IsItems
<1>2. p \in [1..n -> S] /\ \A j \in 1..n : p[j] = ItemPieces(items[j])
    BY <1>1 DEF ItemsPieces
<1> HIDE DEF p, S
<1>3. IsSeq(p) /\ Len(p) = n
    BY <1>1, <1>2, FcnIsSeq
<1>4. \A j \in 1..n : IsSeq(p[j])
    BY <1>2, ItemPiecesTyped DEF IsItems
<1>5. QED
    BY <1>2, <1>3, <1>4 DEF p, IsSeqs

\* The transcript of an older page in front of another.
LEMMA FlatConcat ==
    \A s, t : IsItems(s) /\ IsItems(t) => IsItems(s \o t) /\ Flat(s \o t) = Flat(s) \o Flat(t)
<1> SUFFICES ASSUME NEW s, NEW t, IsItems(s), IsItems(t)
             PROVE  IsItems(s \o t) /\ Flat(s \o t) = Flat(s) \o Flat(t)
    OBVIOUS
<1>1. /\ IsSeq(s) /\ IsSeq(t) /\ IsSeq(s \o t) /\ Len(s) \in Nat /\ Len(t) \in Nat
      /\ Len(s \o t) = Len(s) + Len(t)
      /\ \A i \in 1..Len(s) : (s \o t)[i] = s[i]
      /\ \A i \in 1..Len(t) : (s \o t)[Len(s) + i] = t[i]
    BY SeqConcat, SeqFacts DEF IsItems
<1> DEFINE u == s \o t
           p == ItemsPieces(s)
           q == ItemsPieces(t)
           w == ItemsPieces(u)
<1> HIDE DEF u
<1>2. ASSUME NEW i \in 1..Len(u), i > Len(s)
      PROVE  i - Len(s) \in 1..Len(t) /\ u[i] = t[i - Len(s)]
    <2>1. i - Len(s) \in 1..Len(t) /\ i = Len(s) + (i - Len(s))
        BY <1>1, <1>2 DEF u
    <2>2. QED
        BY <1>1, <2>1 DEF u
<1>3. ASSUME NEW i \in 1..Len(u), ~ (i > Len(s)) PROVE i \in 1..Len(s) /\ u[i] = s[i]
    BY <1>1, <1>3 DEF u
<1>4. IsItems(u)
    BY <1>1, <1>2, <1>3 DEF IsItems, u
<1>5. IsSeqs(p) /\ Len(p) = Len(s) /\ \A i \in 1..Len(s) : p[i] = ItemPieces(s[i])
    BY ItemsPiecesTyped
<1>6. IsSeqs(q) /\ Len(q) = Len(t) /\ \A i \in 1..Len(t) : q[i] = ItemPieces(t[i])
    BY ItemsPiecesTyped
<1>7. IsSeqs(w) /\ Len(w) = Len(u) /\ \A i \in 1..Len(u) : w[i] = ItemPieces(u[i])
    BY <1>4, ItemsPiecesTyped
<1> HIDE DEF p, q, w
<1>8. /\ IsSeq(p) /\ IsSeq(q) /\ IsSeq(w) /\ IsSeq(p \o q) /\ Len(p \o q) = Len(p) + Len(q)
      /\ \A i \in 1..Len(p) : (p \o q)[i] = p[i]
      /\ \A i \in 1..Len(q) : (p \o q)[Len(p) + i] = q[i]
    BY <1>5, <1>6, <1>7, SeqConcat DEF IsSeqs
<1>9. ASSUME NEW i \in 1..Len(u) PROVE w[i] = (p \o q)[i]
    <2>1. CASE i > Len(s)
        <3>1. i - Len(s) \in 1..Len(t) /\ u[i] = t[i - Len(s)]
            BY <1>2, <2>1
        <3>2. (p \o q)[Len(p) + (i - Len(s))] = ItemPieces(t[i - Len(s)])
            BY <1>6, <1>8, <3>1
        <3>3. Len(p) + (i - Len(s)) = i
            BY <1>1, <1>5 DEF u
        <3>4. QED
            BY <1>7, <3>1, <3>2, <3>3
    <2>2. CASE ~ (i > Len(s))
        BY <1>3, <1>5, <1>7, <1>8, <2>2
    <2>3. QED
        BY <2>1, <2>2
<1>10. w = p \o q
    <2>1. Len(w) = Len(p \o q)
        BY <1>1, <1>5, <1>6, <1>7, <1>8 DEF u
    <2>2. \A i \in 1..Len(w) : w[i] = (p \o q)[i]
        BY <1>7, <1>9
    <2>3. QED
        BY <1>8, <2>1, <2>2, SeqSame
<1>11. FlattenSeq(w) = FlattenSeq(p) \o FlattenSeq(q)
    BY <1>5, <1>6, <1>10, FlattenConcat
<1>12. QED
    BY <1>4, <1>11, FlatIs DEF p, q, u, w

-----------------------------------------------------------------------------
(* One more event on show *)

LEMMA SeqPlus ==
    \A s, x : IsSeq(s) =>
        /\ IsSeq(Append(s, x)) /\ Len(Append(s, x)) = Len(s) + 1 /\ Len(s) \in Nat
        /\ \A i \in 1..Len(s) : Append(s, x)[i] = s[i]
        /\ Append(s, x)[Len(s) + 1] = x
        /\ Append(s, x) = s \o <<x>>
<1> SUFFICES ASSUME NEW s, NEW x, IsSeq(s)
             PROVE  /\ IsSeq(Append(s, x)) /\ Len(Append(s, x)) = Len(s) + 1 /\ Len(s) \in Nat
                    /\ \A i \in 1..Len(s) : Append(s, x)[i] = s[i]
                    /\ Append(s, x)[Len(s) + 1] = x
                    /\ Append(s, x) = s \o <<x>>
    OBVIOUS
<1>1. PICK S : s \in Seq(S)
    BY DEF IsSeq
<1>2. s \in Seq(S \cup {x})
    BY <1>1
<1>3. Append(s, x) \in Seq(S \cup {x}) /\ <<x>> \in Seq(S \cup {x})
    BY <1>2
<1>4. /\ Len(Append(s, x)) = Len(s) + 1 /\ Len(s) \in Nat
      /\ \A i \in 1..Len(s) : Append(s, x)[i] = s[i]
      /\ Append(s, x)[Len(s) + 1] = x
    BY <1>2, <1>3
<1>5. IsSeq(Append(s, x))
    BY <1>3 DEF IsSeq
<1>6. Append(s, x) = s \o <<x>>
    <2> DEFINE a == Append(s, x)
               c == s \o <<x>>
    <2>1. IsSeq(c) /\ DOMAIN c = 1..(Len(s) + 1) /\ (\A i \in 1..Len(s) : c[i] = s[i]) /\ c[Len(s) + 1] = x
        BY SeqSnoc
    <2>2. IsSeq(a) /\ Len(a) = Len(s) + 1 /\ (\A i \in 1..Len(s) : a[i] = s[i]) /\ a[Len(s) + 1] = x
        BY <1>4, <1>5
    <2> HIDE DEF a, c
    <2>3. Len(c) = Len(s) + 1
        <3>1. Len(c) \in Nat /\ 1..Len(c) = 1..(Len(s) + 1)
            BY <2>1, SeqFacts
        <3>2. Len(s) + 1 \in 1..Len(c) /\ (Len(c) # 0 => Len(c) \in 1..(Len(s) + 1))
            BY <1>4, <3>1
        <3>3. QED
            BY <1>4, <3>1, <3>2
    <2>4. ASSUME NEW i \in 1..(Len(s) + 1) PROVE a[i] = c[i]
        <3>1. i \in 1..Len(s) \/ i = Len(s) + 1
            BY <1>4
        <3>2. QED
            BY <2>1, <2>2, <3>1
    <2>5. a = c
        BY <2>1, <2>2, <2>3, <2>4, SeqSame
    <2>6. QED
        BY <2>5 DEF a, c
<1>7. QED
    BY <1>4, <1>5, <1>6

\* A sequence with its last element changed.
WithLast(s, x) == [s EXCEPT ![Len(s)] = x]

LEMMA LastChanged ==
    \A s, x : IsSeq(s) /\ Len(s) # 0 =>
        /\ IsSeq(WithLast(s, x)) /\ Len(WithLast(s, x)) = Len(s) /\ Len(s) \in Nat
        /\ WithLast(s, x)[Len(s)] = x
        /\ \A i \in 1..(Len(s) - 1) : WithLast(s, x)[i] = s[i]
<1> SUFFICES ASSUME NEW s, NEW x, IsSeq(s), Len(s) # 0
             PROVE  /\ IsSeq(WithLast(s, x)) /\ Len(WithLast(s, x)) = Len(s) /\ Len(s) \in Nat
                    /\ WithLast(s, x)[Len(s)] = x
                    /\ \A i \in 1..(Len(s) - 1) : WithLast(s, x)[i] = s[i]
    OBVIOUS
<1> DEFINE t == WithLast(s, x)
<1>1. PICK S : s \in Seq(S)
    BY DEF IsSeq
<1>2. Len(s) \in Nat /\ s \in [1..Len(s) -> S]
    BY <1>1
<1>3. t \in [1..Len(s) -> S \cup {x}]
    BY <1>2 DEF WithLast
<1>4. IsSeq(t) /\ Len(t) = Len(s)
    BY <1>2, <1>3, FcnIsSeq
<1>5. t[Len(s)] = x /\ \A i \in 1..(Len(s) - 1) : t[i] = s[i]
    BY <1>2 DEF WithLast
<1>6. QED
    BY <1>2, <1>4, <1>5

LEMMA LastIs == \A s : IsSeq(s) /\ s # <<>> => Last(s) = s[Len(s)] /\ Len(s) # 0
BY SeqFacts DEF Last

\* MergeBlock adds the piece of the block and nothing else.
LEMMA BlockMerged ==
    \A role, bs, b : IsBlocks(bs) =>
        /\ IsBlocks(MergeBlock(bs, b))
        /\ FlattenSeq(BlocksPieces(role, MergeBlock(bs, b)))
             = FlattenSeq(BlocksPieces(role, bs)) \o << <<role, b.kind, b.body>> >>
<1> SUFFICES ASSUME NEW role, NEW bs, NEW b, IsBlocks(bs)
             PROVE  /\ IsBlocks(MergeBlock(bs, b))
                    /\ FlattenSeq(BlocksPieces(role, MergeBlock(bs, b)))
                         = FlattenSeq(BlocksPieces(role, bs)) \o << <<role, b.kind, b.body>> >>
    OBVIOUS
<1> DEFINE piece == <<role, b.kind, b.body>>
           nb == MergeBlock(bs, b)
           n == Len(bs)
           F == BlocksPieces(role, bs)
           G == BlocksPieces(role, nb)
<1>0. IsSeq(bs) /\ n \in Nat /\ \A j \in 1..n : IsBlock(bs[j])
    BY SeqFacts DEF IsBlocks
<1>00. IsSeq(<<piece>>) /\ Len(<<piece>>) = 1 /\ <<piece>>[1] = piece
    BY SeqOne
<1>1. IsSeqs(F) /\ Len(F) = n /\ \A j \in 1..n : F[j] = BlockPieces(role, bs[j])
    BY BlocksPiecesTyped
<1>2. CASE bs # <<>> /\ Last(bs).kind = b.kind /\ b.kind \in {"text", "reasoning"}
    <2>1. n # 0 /\ Last(bs) = bs[n] /\ n \in 1..n
        BY <1>0, <1>2, LastIs
    <2> DEFINE last == [kind |-> b.kind, texts |-> Append(bs[n].texts, b.body)]
    <2>2. IsBlock(bs[n]) /\ bs[n] = [kind |-> b.kind, texts |-> bs[n].texts] /\ IsSeq(bs[n].texts)
        BY <1>0, <1>2, <2>1 DEF IsBlock
    <2>3. nb = WithLast(bs, last)
        <3>1. nb = [bs EXCEPT ![n].texts = Append(bs[n].texts, b.body)]
            BY <1>2 DEF MergeBlock
        <3>2. [bs[n] EXCEPT !.texts = Append(bs[n].texts, b.body)] = last
            BY <2>2, SMTT(30)
        <3>3. QED
            BY <3>1, <3>2 DEF WithLast
    <2> HIDE DEF nb
    <2>4. /\ IsSeq(nb) /\ Len(nb) = n /\ nb[n] = last
          /\ \A i \in 1..(n - 1) : nb[i] = bs[i]
        BY <1>0, <2>1, <2>3, LastChanged
    <2>5. IsBlock(last)
        BY <2>2, SeqPlus DEF IsBlock
    <2>6. IsBlocks(nb)
        <3>1. \A i \in 1..n : i \in 1..(n - 1) \/ i = n
            BY <1>0
        <3>2. QED
            BY <1>0, <2>4, <2>5, <3>1 DEF IsBlocks
    <2>7. IsSeqs(G) /\ Len(G) = n /\ \A j \in 1..n : G[j] = BlockPieces(role, nb[j])
        BY <2>4, <2>6, BlocksPiecesTyped
    <2>8. BlockPieces(role, last) = BlockPieces(role, bs[n]) \o <<piece>>
        <3> DEFINE p == BlockPieces(role, last)
                   q == BlockPieces(role, bs[n])
                   k == Len(bs[n].texts)
        <3>1. last.kind = b.kind /\ bs[n].kind = b.kind /\ last.texts = Append(bs[n].texts, b.body)
            BY <1>2, <2>1
        <3>2. k \in Nat /\ Len(last.texts) = k + 1 /\ last.texts[k + 1] = b.body
              /\ \A i \in 1..k : last.texts[i] = bs[n].texts[i]
            <4> DEFINE tx == bs[n].texts
            <4>1. IsSeq(tx)
                BY <2>2
            <4> HIDE DEF tx
            <4>2. /\ Len(Append(tx, b.body)) = Len(tx) + 1 /\ Len(tx) \in Nat
                  /\ \A i \in 1..Len(tx) : Append(tx, b.body)[i] = tx[i]
                  /\ Append(tx, b.body)[Len(tx) + 1] = b.body
                BY <4>1, SeqPlus
            <4>3. last.texts = Append(tx, b.body) /\ k = Len(tx)
                BY <3>1 DEF tx
            <4> HIDE DEF last, k
            <4>4. QED
                BY <4>2, <4>3 DEF tx
        <3> HIDE DEF last
        <3>3. IsSeq(p) /\ Len(p) = k + 1 /\ \A i \in 1..(k + 1) : p[i] = <<role, b.kind, last.texts[i]>>
            <4>1. /\ IsSeq(p) /\ Len(p) = Len(last.texts)
                  /\ \A i \in 1..Len(last.texts) : p[i] = <<role, last.kind, last.texts[i]>>
                BY <2>5, BlockPiecesTyped
            <4> HIDE DEF p, k
            <4>2. QED
                BY <3>1, <3>2, <4>1
        <3>4. IsSeq(q) /\ Len(q) = k /\ \A i \in 1..k : q[i] = <<role, b.kind, bs[n].texts[i]>>
            BY <2>2, <3>1, BlockPiecesTyped
        <3> HIDE DEF p, q, k, piece
        <3>5. Append(q, piece) = q \o <<piece>> /\ IsSeq(Append(q, piece)) /\ Len(Append(q, piece)) = k + 1
              /\ (\A i \in 1..k : Append(q, piece)[i] = q[i]) /\ Append(q, piece)[k + 1] = piece
            BY <3>4, SeqPlus
        <3>6. ASSUME NEW i \in 1..(k + 1) PROVE p[i] = Append(q, piece)[i]
            <4>1. CASE i = k + 1
                <5>1. k + 1 \in 1..(k + 1)
                    BY <3>2
                <5>2. p[k + 1] = <<role, b.kind, last.texts[k + 1]>>
                    BY <3>3, <5>1
                <5>3. QED
                    BY <3>2, <3>5, <4>1, <5>2 DEF piece
            <4>2. CASE i \in 1..k
                BY <3>2, <3>3, <3>4, <3>5, <4>2
            <4>3. k \in Nat
                BY <3>2
            <4>4. i = k + 1 \/ i \in 1..k
                BY <4>3
            <4>5. QED
                BY <4>1, <4>2, <4>4
        <3>7. p = Append(q, piece)
            BY <3>3, <3>5, <3>6, SeqSame
        <3>8. QED
            BY <3>5, <3>7 DEF p, q
    <2>9. G[n] = F[n] \o <<piece>> /\ \A i \in 1..(n - 1) : G[i] = F[i]
        <3>1. \A i \in 1..(n - 1) : i \in 1..n
            BY <1>0
        <3>2. QED
            BY <1>1, <2>1, <2>4, <2>7, <2>8, <3>1
    <2>10. FlattenSeq(G) = FlattenSeq(F) \o <<piece>>
        <3> HIDE DEF F, G, piece, n
        <3>1. /\ IsSeqs(F) /\ IsSeqs(G) /\ IsSeq(<<piece>>) /\ Len(F) = Len(G) /\ Len(F) # 0
              /\ \A i \in 1..(Len(F) - 1) : G[i] = F[i]
              /\ G[Len(F)] = F[Len(F)] \o <<piece>>
            BY <1>00, <1>1, <2>1, <2>7, <2>9
        <3>2. QED
            BY <3>1, FlattenGrow
    <2>11. QED
        BY <2>6, <2>10 DEF nb
<1>3. CASE ~ (bs # <<>> /\ Last(bs).kind = b.kind /\ b.kind \in {"text", "reasoning"})
    <2> DEFINE new == [kind |-> b.kind, texts |-> <<b.body>>]
    <2>1. nb = Append(bs, new)
        BY <1>3 DEF MergeBlock
    <2> HIDE DEF nb
    <2>2. IsSeq(nb) /\ Len(nb) = n + 1 /\ (\A i \in 1..n : nb[i] = bs[i]) /\ nb[n + 1] = new
        BY <1>0, <2>1, SeqPlus, ZenonT(30)
    <2>3. IsBlock(new)
        BY SeqOne DEF IsBlock
    <2>4. IsBlocks(nb)
        <3>1. \A i \in 1..(n + 1) : i \in 1..n \/ i = n + 1
            BY <1>0
        <3>2. QED
            BY <1>0, <2>2, <2>3, <3>1 DEF IsBlocks
    <2>5. IsSeqs(G) /\ Len(G) = n + 1 /\ \A j \in 1..(n + 1) : G[j] = BlockPieces(role, nb[j])
        BY <2>2, <2>4, BlocksPiecesTyped
    <2>6. BlockPieces(role, new) = <<piece>>
        <3> DEFINE p == BlockPieces(role, new)
        <3>1. new.texts = <<b.body>> /\ new.kind = b.kind /\ Len(<<b.body>>) = 1 /\ <<b.body>>[1] = b.body
            BY SeqOne
        <3> HIDE DEF new
        <3>2. IsSeq(p) /\ Len(p) = 1 /\ p[1] = piece
            <4>1. 1 \in 1..1
                OBVIOUS
            <4>2. QED
                BY <2>3, <3>1, <4>1, BlockPiecesTyped, SMTT(30)
        <3> HIDE DEF p, piece
        <3>3. \A i \in 1..1 : p[i] = <<piece>>[i]
            BY <3>2
        <3>4. p = <<piece>>
            BY <1>00, <3>2, <3>3, SeqSame
        <3>5. QED
            BY <3>4 DEF p
    <2>7. G[n + 1] = <<piece>> /\ \A i \in 1..n : G[i] = F[i]
        <3>1. n + 1 \in 1..(n + 1) /\ \A i \in 1..n : i \in 1..(n + 1)
            BY <1>0
        <3>2. QED
            BY <1>1, <2>2, <2>5, <2>6, <3>1
    <2>8. FlattenSeq(G) = FlattenSeq(F) \o <<piece>>
        <3> HIDE DEF F, G, piece
        <3>1. IsSeq(F) /\ IsSeq(G) /\ Len(G) = Len(F) + 1 /\ Len(F) = n
            BY <1>1, <2>5 DEF IsSeqs
        <3> QED  BY <1>00, <2>5, <2>7, <3>1, FlattenLast
    <2>9. QED
        BY <2>4, <2>8 DEF nb
<1>4. QED
    BY <1>2, <1>3

\* merge adds the piece of the message and leaves the tool calls alone.
LEMMA ItemsMerged ==
    \A items, e : IsItems(items) =>
        /\ IsItems(Merge(items, e))
        /\ Flat(Merge(items, e)) = Flat(items) \o << <<e.role, e.block.kind, e.block.body>> >>
        /\ \A id : /\ ItemsOf(Merge(items, e), id) = ItemsOf(items, id)
                   /\ \A i \in ItemsOf(items, id) : Merge(items, e)[i].call = items[i].call
<1> SUFFICES ASSUME NEW items, NEW e, IsItems(items)
             PROVE  /\ IsItems(Merge(items, e))
                    /\ Flat(Merge(items, e))
                         = Flat(items) \o << <<e.role, e.block.kind, e.block.body>> >>
                    /\ \A id : /\ ItemsOf(Merge(items, e), id) = ItemsOf(items, id)
                               /\ \A i \in ItemsOf(items, id) :
                                     Merge(items, e)[i].call = items[i].call
    OBVIOUS
<1> DEFINE piece == <<e.role, e.block.kind, e.block.body>>
           ni == Merge(items, e)
           n == Len(items)
           F == ItemsPieces(items)
           G == ItemsPieces(ni)
<1>1. IsSeq(items) /\ n \in Nat /\ DOMAIN items = 1..n /\ \A j \in 1..n : IsItem(items[j])
    BY SeqFacts DEF IsItems
<1>2. IsSeq(<<piece>>)
    BY SeqOne
<1>3. IsSeqs(F) /\ Len(F) = n /\ \A j \in 1..n : F[j] = ItemPieces(items[j])
    BY ItemsPiecesTyped
<1>4. CASE /\ e.role = "assistant" /\ items # <<>>
           /\ Last(items).type = "message" /\ Last(items).role = "assistant"
    <2>1. n # 0 /\ Last(items) = items[n] /\ n \in 1..n
        BY <1>1, <1>4, LastIs
    <2> DEFINE bs == items[n].blocks
               last == [type |-> "message", role |-> e.role, blocks |-> MergeBlock(bs, e.block)]
    <2>2. items[n].type = "message" /\ items[n].role = e.role
        BY <1>4, <2>1
    <2>3. IsMessageItem(items[n])
        <3>1. IsItem(items[n])
            BY <1>1, <2>1
        <3>2. CASE IsToolItem(items[n])
            BY <2>2, <3>2 DEF IsToolItem
        <3>3. QED
            BY <3>1, <3>2 DEF IsItem
    <2>4. items[n] = [type |-> "message", role |-> e.role, blocks |-> bs] /\ IsBlocks(bs)
        BY <2>2, <2>3 DEF IsMessageItem
    <2>5. ni = WithLast(items, last)
        <3>1. ni = [items EXCEPT ![n].blocks = MergeBlock(bs, e.block)]
            BY <1>4 DEF Merge
        <3>2. [items[n] EXCEPT !.blocks = MergeBlock(bs, e.block)] = last
            BY <2>4
        <3>3. QED
            BY <3>1, <3>2 DEF WithLast
    <2>6. /\ IsBlocks(MergeBlock(bs, e.block))
          /\ FlattenSeq(BlocksPieces(e.role, MergeBlock(bs, e.block)))
               = FlattenSeq(BlocksPieces(e.role, bs)) \o <<piece>>
        BY <2>4, BlockMerged
    <2>7. ItemPieces(last) = ItemPieces(items[n]) \o <<piece>> /\ IsMessageItem(last)
          /\ last.type = "message"
        <3>1. /\ last.type = "message" /\ last.role = e.role
              /\ last.blocks = MergeBlock(bs, e.block)
            OBVIOUS
        <3> HIDE DEF last, piece, bs
        <3>2. ItemPieces(last) = FlattenSeq(BlocksPieces(e.role, MergeBlock(bs, e.block)))
            BY <3>1 DEF ItemPieces
        <3>3. ItemPieces(items[n]) = FlattenSeq(BlocksPieces(e.role, bs))
            BY <2>2 DEF ItemPieces, bs
        <3>4. IsMessageItem(last)
            BY <2>6, <3>1 DEF IsMessageItem, last
        <3>5. QED
            BY <2>6, <3>1, <3>2, <3>3, <3>4
    <2> HIDE DEF ni, last, piece
    <2>8. /\ IsSeq(ni) /\ Len(ni) = n /\ ni[n] = last
          /\ \A i \in 1..(n - 1) : ni[i] = items[i]
        BY <1>1, <2>1, <2>5, LastChanged
    <2>9. \A i \in 1..n : i \in 1..(n - 1) \/ i = n
        <3>1. n \in Nat
            BY <1>1
        <3> HIDE DEF n
        <3>2. QED
            BY <3>1
    <2>10. IsItems(ni) /\ DOMAIN ni = 1..n
        BY <1>1, <2>7, <2>8, <2>9, SeqFacts DEF IsItems, IsItem
    <2>11. IsSeqs(G) /\ Len(G) = n /\ \A j \in 1..n : G[j] = ItemPieces(ni[j])
        BY <2>8, <2>10, ItemsPiecesTyped
    <2> HIDE DEF F, G, n
    <2>12. G[n] = F[n] \o <<piece>> /\ \A i \in 1..(n - 1) : G[i] = F[i]
        <3>1. \A i \in 1..(n - 1) : i \in 1..n
            BY <1>1
        <3>2. QED
            BY <1>3, <2>1, <2>7, <2>8, <2>11, <3>1
    <2>13. FlattenSeq(G) = FlattenSeq(F) \o <<piece>>
        <3>1. /\ IsSeqs(F) /\ IsSeqs(G) /\ IsSeq(<<piece>>) /\ Len(F) = Len(G) /\ Len(F) # 0
              /\ \A i \in 1..(Len(F) - 1) : G[i] = F[i]
              /\ G[Len(F)] = F[Len(F)] \o <<piece>>
            BY <1>2, <1>3, <2>1, <2>11, <2>12
        <3>2. QED
            BY <3>1, FlattenGrow
    <2>14. ASSUME NEW id
           PROVE  /\ ItemsOf(ni, id) = ItemsOf(items, id)
                  /\ \A i \in ItemsOf(items, id) : ni[i].call = items[i].call
        <3>1. ASSUME NEW i \in 1..n, items[i].type = "tool" PROVE ni[i] = items[i]
            BY <2>2, <2>8, <2>9, <3>1
        <3>2. ASSUME NEW i \in 1..n, ni[i].type = "tool" PROVE ni[i] = items[i]
            BY <2>7, <2>8, <2>9, <3>2
        <3>3. QED
            BY <1>1, <2>10, <3>1, <3>2 DEF ItemsOf
    <2>15. QED
        BY <2>10, <2>13, <2>14, FlatIs DEF ni, F, G, piece
<1>5. CASE ~ (/\ e.role = "assistant" /\ items # <<>>
              /\ Last(items).type = "message" /\ Last(items).role = "assistant")
    <2> DEFINE bs == MergeBlock(<<>>, e.block)
               new == [type |-> "message", role |-> e.role, blocks |-> bs]
    <2>1. ni = Append(items, new)
        BY <1>5 DEF Merge
    <2> HIDE DEF ni, piece, F, G, n
    <2>2. /\ IsSeq(ni) /\ Len(ni) = n + 1 /\ ni[n + 1] = new
          /\ \A i \in 1..n : ni[i] = items[i]
        BY <1>1, <2>1, SeqPlus, ZenonT(30) DEF n
    <2>3. IsBlocks(bs) /\ FlattenSeq(BlocksPieces(e.role, bs)) = <<piece>>
        <3>1. IsBlocks(<<>>)
            BY SeqNone DEF IsBlocks
        <3>2. /\ IsBlocks(bs)
              /\ FlattenSeq(BlocksPieces(e.role, bs))
                   = FlattenSeq(BlocksPieces(e.role, <<>>)) \o <<piece>>
            BY <3>1, BlockMerged DEF piece
        <3>3. FlattenSeq(BlocksPieces(e.role, <<>>)) = <<>>
            <4>1. IsSeq(BlocksPieces(e.role, <<>>)) /\ Len(BlocksPieces(e.role, <<>>)) = 0
                BY <3>1, SeqNone, BlocksPiecesTyped DEF IsSeqs
            <4>2. QED
                BY <4>1, SeqEmpty, FlattenEmpty
        <3>4. QED
            BY <1>2, <3>2, <3>3, ConcatNone
    <2>4. new.type = "message" /\ new.role = e.role /\ new.blocks = bs
        OBVIOUS
    <2> HIDE DEF bs
    <2>5. IsMessageItem(new)
        BY <2>3, <2>4 DEF IsMessageItem
    <2> HIDE DEF new
    <2>6. ItemPieces(new) = <<piece>>
        BY <2>3, <2>4 DEF ItemPieces
    <2>7. n + 1 \in 1..(n + 1) /\ \A i \in 1..(n + 1) : i \in 1..n \/ i = n + 1
        BY <1>1
    <2>8. IsItems(ni) /\ DOMAIN ni = 1..(n + 1)
        BY <1>1, <2>2, <2>5, <2>7, SeqFacts DEF IsItems, IsItem
    <2>9. IsSeqs(G) /\ Len(G) = n + 1 /\ \A j \in 1..(n + 1) : G[j] = ItemPieces(ni[j])
        BY <2>2, <2>8, ItemsPiecesTyped DEF G
    <2>10. G[n + 1] = <<piece>> /\ \A i \in 1..n : G[i] = F[i]
        <3>1. \A i \in 1..n : i \in 1..(n + 1)
            BY <1>1
        <3>2. QED
            BY <1>3, <2>2, <2>6, <2>7, <2>9, <3>1
    <2>11. FlattenSeq(G) = FlattenSeq(F) \o <<piece>>
        <3>1. /\ IsSeq(F) /\ IsSeq(G) /\ Len(G) = Len(F) + 1 /\ IsSeq(G[Len(G)])
              /\ G[Len(G)] = <<piece>> /\ \A i \in 1..Len(F) : G[i] = F[i]
            BY <1>2, <1>3, <2>9, <2>10 DEF IsSeqs
        <3>2. QED
            BY <3>1, FlattenLast
    <2>12. ASSUME NEW id
           PROVE  /\ ItemsOf(ni, id) = ItemsOf(items, id)
                  /\ \A i \in ItemsOf(items, id) : ni[i].call = items[i].call
        <3>1. \A i \in 1..n : i \in 1..(n + 1)
            BY <1>1
        <3>2. QED
            BY <1>1, <2>2, <2>4, <2>7, <2>8, <3>1 DEF ItemsOf
    <2>13. QED
        BY <2>8, <2>11, <2>12, FlatIs DEF ni, F, G, piece
<1>6. QED
    BY <1>4, <1>5

\* What an update leaves of the id and the shape of a call.
LEMMA MergingTyped ==
    \A old, new : IsCall(new) => IsCall(Merging(old, new)) /\ Merging(old, new).id = new.id
<1> SUFFICES ASSUME NEW old, NEW new, IsCall(new)
             PROVE  IsCall(Merging(old, new)) /\ Merging(old, new).id = new.id
    OBVIOUS
<1> DEFINE t == IF new.title = NoText THEN old.title ELSE new.title
           n == IF new.content = <<>> THEN old.content ELSE new.content
           l == IF new.locations = <<>> THEN old.locations ELSE new.locations
           k == IF new.kind = None THEN old.kind ELSE new.kind
           d == IF new.detail = None THEN old.detail ELSE new.detail
           w == IF new.raw = None THEN old.raw ELSE new.raw
<1>1. Merging(old, new) = Replaced(new, t, k, d, n, l, w)
    BY DEF Merging, Replaced
<1> HIDE DEF t, n, l, k, d, w
<1>2. new = Call(new.id, new.title, new.kind, new.status, new.detail, new.content,
                 new.locations, new.raw)
    BY DEF IsCall
<1>3. Merging(old, new) = Call(new.id, t, k, new.status, d, n, l, w)
    BY <1>1, <1>2, CallReplaced
<1> DEFINE m == Merging(old, new)
<1>4. /\ m.id = new.id /\ m.title = t /\ m.kind = k /\ m.status = new.status /\ m.detail = d
      /\ m.content = n /\ m.locations = l /\ m.raw = w
    BY <1>3 DEF Call
<1>5. QED
    BY <1>3, <1>4 DEF IsCall

\* A sequence with one element changed.
WithAt(s, k, x) == [s EXCEPT ![k] = x]

LEMMA OneChanged ==
    \A s, x : \A k \in 1..Len(s) : IsSeq(s) =>
        /\ IsSeq(WithAt(s, k, x)) /\ Len(WithAt(s, k, x)) = Len(s)
        /\ \A i \in 1..Len(s) : WithAt(s, k, x)[i] = IF i = k THEN x ELSE s[i]
<1> SUFFICES ASSUME NEW s, NEW x, NEW k \in 1..Len(s), IsSeq(s)
             PROVE  /\ IsSeq(WithAt(s, k, x)) /\ Len(WithAt(s, k, x)) = Len(s)
                    /\ \A i \in 1..Len(s) : WithAt(s, k, x)[i] = IF i = k THEN x ELSE s[i]
    OBVIOUS
<1> DEFINE t == WithAt(s, k, x)
<1>1. PICK S : s \in Seq(S)
    BY DEF IsSeq
<1>2. Len(s) \in Nat /\ s \in [1..Len(s) -> S]
    BY <1>1
<1>3. t \in [1..Len(s) -> S \cup {x}]
    BY <1>2 DEF WithAt
<1>4. IsSeq(t) /\ Len(t) = Len(s)
    BY <1>2, <1>3, FcnIsSeq
<1>5. \A i \in 1..Len(s) : t[i] = IF i = k THEN x ELSE s[i]
    BY <1>2 DEF WithAt
<1>6. QED
    BY <1>4, <1>5

\* upsert leaves the messages alone; a new call is a new item, an update of a
\* call with one item is merged into it, and other calls stay as they are.
Upserted(items, new, ni) ==
    /\ IsItems(ni)
    /\ Flat(ni) = Flat(items)
    /\ \A id : id # new.id =>
          /\ ItemsOf(ni, id) = ItemsOf(items, id)
          /\ \A i \in ItemsOf(items, id) : ni[i].call = items[i].call
    /\ ItemsOf(items, new.id) = {} =>
          /\ ItemsOf(ni, new.id) = {Len(items) + 1}
          /\ ni[Len(items) + 1].call = new
    /\ ItemsOf(items, new.id) # {} =>
          /\ ItemsOf(ni, new.id) = ItemsOf(items, new.id)
          /\ \A i : ItemsOf(items, new.id) = {i} => ni[i].call = Merging(items[i].call, new)

LEMMA ItemsUpserted ==
    \A items, new : IsItems(items) /\ IsCall(new) => Upserted(items, new, Upsert(items, new))
<1> SUFFICES ASSUME NEW items, NEW new, IsItems(items), IsCall(new)
             PROVE  Upserted(items, new, Upsert(items, new))
    OBVIOUS
<1> DEFINE ni == Upsert(items, new)
           n == Len(items)
           known == ItemsOf(items, new.id)
           F == ItemsPieces(items)
           G == ItemsPieces(ni)
<1>1. IsSeq(items) /\ n \in Nat /\ DOMAIN items = 1..n /\ \A j \in 1..n : IsItem(items[j])
    BY SeqFacts DEF IsItems
<1>2. IsSeqs(F) /\ Len(F) = n /\ \A j \in 1..n : F[j] = ItemPieces(items[j])
    BY ItemsPiecesTyped
<1>3. known \subseteq 1..n
    BY <1>1 DEF ItemsOf
<1>4. CASE known = {}
    <2> DEFINE item == [type |-> "tool", call |-> new]
    <2>1. ni = Append(items, item)
        BY <1>4 DEF Upsert
    <2>2. item.type = "tool" /\ item.call = new
        OBVIOUS
    <2> HIDE DEF item
    <2>3. IsToolItem(item) /\ ItemPieces(item) = <<>>
        BY <2>2 DEF IsToolItem, ItemPieces, item
    <2> HIDE DEF ni, F, G, n, known
    <2>4. /\ IsSeq(ni) /\ Len(ni) = n + 1 /\ ni[n + 1] = item
          /\ \A i \in 1..n : ni[i] = items[i]
        BY <1>1, <2>1, SeqPlus, ZenonT(30) DEF n
    <2>5. n + 1 \in 1..(n + 1) /\ n + 1 \notin 1..n /\ \A i \in 1..(n + 1) : i \in 1..n \/ i = n + 1
        BY <1>1
    <2>6. \A i \in 1..n : i \in 1..(n + 1)
        BY <1>1
    <2>7. IsItems(ni) /\ DOMAIN ni = 1..(n + 1)
        BY <1>1, <2>3, <2>4, <2>5, SeqFacts DEF IsItems, IsItem
    <2>8. IsSeqs(G) /\ Len(G) = n + 1 /\ \A j \in 1..(n + 1) : G[j] = ItemPieces(ni[j])
        BY <2>4, <2>7, ItemsPiecesTyped DEF G
    <2>9. G[n + 1] = <<>> /\ \A i \in 1..n : G[i] = F[i]
        BY <1>2, <2>3, <2>4, <2>5, <2>6, <2>8
    <2>10. FlattenSeq(G) = FlattenSeq(F)
        <3>1. /\ IsSeq(F) /\ IsSeq(G) /\ Len(G) = Len(F) + 1 /\ IsSeq(G[Len(G)])
              /\ G[Len(G)] = <<>> /\ \A i \in 1..Len(F) : G[i] = F[i]
            BY <1>2, <2>8, <2>9, SeqNone DEF IsSeqs
        <3>2. FlattenSeq(G) = FlattenSeq(F) \o <<>>
            BY <3>1, FlattenLast
        <3>3. QED
            BY <1>2, <3>2, FlattenTyped, ConcatNone
    <2>11. ASSUME NEW id, id # new.id
           PROVE  /\ ItemsOf(ni, id) = ItemsOf(items, id)
                  /\ \A i \in ItemsOf(items, id) : ni[i].call = items[i].call
        BY <1>1, <2>2, <2>4, <2>5, <2>6, <2>7, <2>11 DEF ItemsOf
    <2>12. ItemsOf(ni, new.id) = {n + 1} /\ ni[n + 1].call = new
        <3>1. \A i \in 1..n : ~ (items[i].type = "tool" /\ items[i].call.id = new.id)
            BY <1>1, <1>4 DEF ItemsOf, known
        <3>2. QED
            BY <2>2, <2>4, <2>5, <2>6, <2>7, <3>1 DEF ItemsOf
    <2>13. Flat(ni) = Flat(items)
        BY <2>10, FlatIs DEF F, G
    <2>14. QED
        BY <1>4, <2>7, <2>11, <2>12, <2>13 DEF ni, n, known, Upserted
<1>5. CASE known # {}
    <2> DEFINE k == Min(known)
    <2>1. k \in known
        <3>1. known \in SUBSET Nat
            BY <1>3
        <3> HIDE DEF known
        <3>2. QED
            BY <1>5, <3>1, LeastOf
    <2>2. k \in 1..n /\ items[k].type = "tool" /\ items[k].call.id = new.id
        BY <1>1, <2>1 DEF ItemsOf
    <2> DEFINE merged == Merging(items[k].call, new)
               item == [type |-> "tool", call |-> merged]
    <2>3. items[k] = [type |-> "tool", call |-> items[k].call]
        <3>1. IsItem(items[k])
            BY <1>1, <2>2
        <3>2. CASE IsMessageItem(items[k])
            BY <2>2, <3>2 DEF IsMessageItem
        <3>3. QED
            BY <3>1, <3>2 DEF IsItem, IsToolItem
    <2>4. ni = WithAt(items, k, item)
        <3>1. ni = [items EXCEPT ![k].call = merged]
            BY <1>5 DEF Upsert
        <3>2. [items[k] EXCEPT !.call = merged] = item
            <4> HIDE DEF merged, k
            <4> QED  BY <2>3
        <3> HIDE DEF merged, k
        <3>3. QED
            BY <3>1, <3>2 DEF WithAt
    <2>5. IsCall(merged) /\ merged.id = new.id
        BY MergingTyped
    <2> HIDE DEF merged
    <2>6. item.type = "tool" /\ item.call = merged
        OBVIOUS
    <2> HIDE DEF item
    <2>7. IsToolItem(item) /\ ItemPieces(item) = <<>> /\ ItemPieces(items[k]) = <<>>
        BY <2>2, <2>5, <2>6 DEF IsToolItem, ItemPieces, item
    <2> HIDE DEF ni, F, G, n, known, k
    <2>8. /\ IsSeq(ni) /\ Len(ni) = n
          /\ \A i \in 1..n : ni[i] = IF i = k THEN item ELSE items[i]
        BY <1>1, <2>2, <2>4, OneChanged DEF n
    <2>9. IsItems(ni) /\ DOMAIN ni = 1..n
        BY <1>1, <2>7, <2>8, SeqFacts DEF IsItems, IsItem
    <2>10. IsSeqs(G) /\ Len(G) = n /\ \A j \in 1..n : G[j] = ItemPieces(ni[j])
        BY <2>8, <2>9, ItemsPiecesTyped DEF G
    <2>11. \A i \in 1..n : G[i] = F[i]
        BY <1>2, <2>7, <2>8, <2>10
    <2>12. G = F
        BY <1>2, <2>10, <2>11, SeqSame DEF IsSeqs
    <2>13. Flat(ni) = Flat(items)
        BY <2>12, FlatIs DEF F, G
    <2>14. ASSUME NEW id
           PROVE  ItemsOf(ni, id) = ItemsOf(items, id)
        <3>1. \A i \in 1..n : /\ ni[i].type = "tool" <=> items[i].type = "tool"
                              /\ ni[i].type = "tool" => ni[i].call.id = items[i].call.id
            BY <2>2, <2>5, <2>6, <2>8
        <3>2. QED
            BY <1>1, <2>9, <3>1 DEF ItemsOf
    <2>15. ASSUME NEW id, id # new.id, NEW i \in ItemsOf(items, id)
           PROVE  ni[i].call = items[i].call
        <3>1. i \in 1..n /\ i # k
            BY <1>1, <2>2, <2>15 DEF ItemsOf
        <3>2. QED
            BY <2>8, <3>1
    <2>16. ASSUME NEW i, known = {i} PROVE ni[i].call = Merging(items[i].call, new)
        <3>1. i = k
            BY <2>1, <2>16
        <3>2. QED
            BY <2>2, <2>6, <2>8, <3>1 DEF merged
    <2>17. QED
        BY <1>5, <2>9, <2>13, <2>14, <2>15, <2>16 DEF ni, known, Upserted
<1>6. QED
    BY <1>4, <1>5

-----------------------------------------------------------------------------
(* A transcript that stands for the events lo to hi of a journal *)

\* What an event adds to the messages, and to the tool call id.
EventPiece(e) ==
    IF e.name = "session.message" THEN << <<e.role, e.block.kind, e.block.body>> >> ELSE <<>>
EventCall(e, id) ==
    IF e.name = "session.tool_call" /\ e.call.id = id THEN <<e.call>> ELSE <<>>

PieceList(L) == [i \in DOMAIN L |-> EventPiece(L[i])]
CallList(L, id) == [i \in DOMAIN L |-> EventCall(L[i], id)]
Pieces(L, lo, hi) == Cat(PieceList(L), lo, hi)
Calls(L, lo, hi, id) == Cat(CallList(L, id), lo, hi)

\* The first of the calls with the others merged into it, one by one.
Chained(cs, c) ==
    /\ IsSeq(cs) /\ Len(cs) # 0
    /\ \E g : /\ g[1] = cs[1]
              /\ \A j \in 2..Len(cs) : g[j] = Merging(g[j - 1], cs[j])
              /\ c = g[Len(cs)]

IsLog(L) ==
    /\ IsSeq(L)
    /\ \A i \in 1..Len(L) : L[i].name = "session.tool_call" => IsCall(L[i].call)

Represents(L, items, lo, hi) ==
    /\ IsItems(items)
    /\ Flat(items) = Pieces(L, lo, hi)
    /\ \A id : ItemsOf(items, id) = {} => Calls(L, lo, hi, id) = <<>>
    /\ \A id, i : ItemsOf(items, id) = {i} => Chained(Calls(L, lo, hi, id), items[i].call)

LEMMA ChainedOne == \A c : Chained(<<c>>, c)
<1> SUFFICES ASSUME NEW c PROVE Chained(<<c>>, c)
    OBVIOUS
<1>1. IsSeq(<<c>>) /\ Len(<<c>>) = 1 /\ <<c>>[1] = c
    BY SeqOne
<1> DEFINE cs == <<c>>
           g == [j \in 1..1 |-> c]
<1>2. g[1] = c /\ 2..1 = {}
    OBVIOUS
<1> HIDE DEF g, cs
<1>3. QED
    BY <1>1, <1>2 DEF Chained, cs

LEMMA ChainedMore == \A cs, c, d : Chained(cs, c) => Chained(cs \o <<d>>, Merging(c, d))
<1> SUFFICES ASSUME NEW cs, NEW c, NEW d, Chained(cs, c)
             PROVE  Chained(cs \o <<d>>, Merging(c, d))
    OBVIOUS
<1> DEFINE ds == Append(cs, d)
           n == Len(cs)
<1>1. IsSeq(cs) /\ n # 0
    BY DEF Chained
<1>2. /\ ds = cs \o <<d>> /\ IsSeq(ds) /\ Len(ds) = n + 1 /\ n \in Nat
      /\ (\A i \in 1..n : ds[i] = cs[i]) /\ ds[n + 1] = d
    BY <1>1, SeqPlus
<1>3. PICK g : /\ g[1] = cs[1] /\ c = g[n]
               /\ \A j \in 2..n : g[j] = Merging(g[j - 1], cs[j])
    BY DEF Chained
<1> HIDE DEF ds, n
<1> DEFINE h == [j \in 1..(n + 1) |-> IF j = n + 1 THEN Merging(c, d) ELSE g[j]]
<1>4. h[n + 1] = Merging(c, d) /\ \A j \in 1..n : h[j] = g[j]
    BY <1>2
<1> HIDE DEF h
<1>5. 1 \in 1..n /\ n \in 1..n
    BY <1>1, <1>2
<1>6. h[1] = ds[1]
    BY <1>2, <1>3, <1>4, <1>5
<1>7. ASSUME NEW j \in 2..(n + 1) PROVE h[j] = Merging(h[j - 1], ds[j])
    <2>1. CASE j = n + 1
        <3>1. h[n] = c
            BY <1>3, <1>4, <1>5
        <3>2. j - 1 = n
            BY <1>2, <2>1
        <3>3. QED
            BY <1>2, <1>4, <2>1, <3>1, <3>2
    <2>2. CASE j \in 2..n
        <3>1. j \in 1..n /\ j - 1 \in 1..n
            BY <1>2, <2>2
        <3>2. QED
            BY <1>2, <1>3, <1>4, <2>2, <3>1
    <2>3. j = n + 1 \/ j \in 2..n
        BY <1>2
    <2>4. QED
        BY <2>1, <2>2, <2>3
<1>8. n + 1 # 0
    BY <1>2
<1>9. Chained(ds, Merging(c, d))
    <2>1. /\ h[1] = ds[1] /\ (\A j \in 2..Len(ds) : h[j] = Merging(h[j - 1], ds[j]))
          /\ Merging(c, d) = h[Len(ds)]
        BY <1>2, <1>4, <1>6, <1>7
    <2>2. QED
        BY <1>2, <1>8, <2>1 DEF Chained
<1>10. QED
    BY <1>2, <1>9

LEMMA CatPlus ==
    \A F, lo : \A hi \in Nat : Spans(F, lo, hi + 1) /\ lo <= hi + 1 =>
        Cat(F, lo, hi + 1) = Cat(F, lo, hi) \o F[hi + 1]
<1> SUFFICES ASSUME NEW F, NEW lo, NEW hi \in Nat, Spans(F, lo, hi + 1), lo <= hi + 1
             PROVE  Cat(F, lo, hi + 1) = Cat(F, lo, hi) \o F[hi + 1]
    OBVIOUS
<1> DEFINE h == hi + 1
<1>1. h - 1 = hi /\ Spans(F, lo, h) /\ lo <= h
    OBVIOUS
<1> HIDE DEF h
<1>2. Cat(F, lo, h) = Cat(F, lo, h - 1) \o F[h]
    BY <1>1, CatLast
<1>3. QED
    BY <1>1, <1>2 DEF h

LEMMA EventTyped == \A e, id : IsSeq(EventPiece(e)) /\ IsSeq(EventCall(e, id))
BY SeqOne, SeqNone DEF EventPiece, EventCall

LEMMA ListsTyped ==
    \A L : IsSeq(L) =>
        /\ Len(L) \in Nat
        /\ \A i \in 1..Len(L) : /\ PieceList(L)[i] = EventPiece(L[i])
                                /\ \A id : CallList(L, id)[i] = EventCall(L[i], id)
        /\ \A lo \in Nat \ {0} : \A hi \in Nat : lo <= hi + 1 /\ hi <= Len(L) =>
              /\ Spans(PieceList(L), lo, hi)
              /\ \A id : Spans(CallList(L, id), lo, hi)
<1> SUFFICES ASSUME NEW L, IsSeq(L)
             PROVE  /\ Len(L) \in Nat
                    /\ \A i \in 1..Len(L) : /\ PieceList(L)[i] = EventPiece(L[i])
                                            /\ \A id : CallList(L, id)[i] = EventCall(L[i], id)
                    /\ \A lo \in Nat \ {0} : \A hi \in Nat : lo <= hi + 1 /\ hi <= Len(L) =>
                          /\ Spans(PieceList(L), lo, hi)
                          /\ \A id : Spans(CallList(L, id), lo, hi)
    OBVIOUS
<1>1. Len(L) \in Nat /\ DOMAIN L = 1..Len(L)
    BY SeqFacts
<1>2. \A i \in 1..Len(L) : /\ PieceList(L)[i] = EventPiece(L[i])
                           /\ \A id : CallList(L, id)[i] = EventCall(L[i], id)
    BY <1>1 DEF PieceList, CallList
<1>3. ASSUME NEW lo \in Nat \ {0}, NEW hi \in Nat, lo <= hi + 1, hi <= Len(L)
      PROVE  Spans(PieceList(L), lo, hi) /\ \A id : Spans(CallList(L, id), lo, hi)
    <2>1. \A i \in lo..hi : i \in 1..Len(L)
        BY <1>1, <1>3
    <2>2. QED
        BY <1>2, <1>3, <2>1, EventTyped DEF Spans
<1>4. QED
    BY <1>1, <1>2, <1>3

\* Nothing on show stands for no event.
LEMMA RepresentsNone == \A L : \A lo \in Nat \ {0} : Represents(L, <<>>, lo, lo - 1)
<1> SUFFICES ASSUME NEW L, NEW lo \in Nat \ {0} PROVE Represents(L, <<>>, lo, lo - 1)
    OBVIOUS
<1>1. IsItems(<<>>)
    BY SeqNone DEF IsItems
<1>2. Flat(<<>>) = <<>>
    <2>1. IsSeq(ItemsPieces(<<>>)) /\ Len(ItemsPieces(<<>>)) = 0
        BY <1>1, SeqNone, ItemsPiecesTyped DEF IsSeqs
    <2>2. QED
        BY <2>1, FlatIs, SeqEmpty, FlattenEmpty
<1>3. \A id : ItemsOf(<<>>, id) = {}
    BY SeqNone DEF ItemsOf
<1>4. QED
    BY <1>1, <1>2, <1>3, CatNone DEF Represents, Pieces, Calls

\* Showing the next event.
LEMMA RepresentsEvent ==
    ASSUME NEW L, NEW items, NEW lo \in Nat \ {0}, NEW hi \in Nat, IsLog(L),
           lo <= hi + 1, hi + 1 <= Len(L), Represents(L, items, lo, hi)
    PROVE  Represents(L, ShowEvent(items, L[hi + 1]), lo, hi + 1)
<1> DEFINE e == L[hi + 1]
           ni == ShowEvent(items, e)
<1>1. IsSeq(L) /\ Len(L) \in Nat /\ hi + 1 \in 1..Len(L) /\ hi + 1 \in Nat /\ lo <= hi + 1 + 1
    BY SeqFacts DEF IsLog
<1>2. /\ Spans(PieceList(L), lo, hi + 1) /\ PieceList(L)[hi + 1] = EventPiece(e)
      /\ \A id : Spans(CallList(L, id), lo, hi + 1) /\ CallList(L, id)[hi + 1] = EventCall(e, id)
    BY <1>1, ListsTyped
<1>4. Pieces(L, lo, hi + 1) = Pieces(L, lo, hi) \o EventPiece(e)
    BY <1>2, CatPlus DEF Pieces
<1>5. \A id : Calls(L, lo, hi + 1, id) = Calls(L, lo, hi, id) \o EventCall(e, id)
    BY <1>2, CatPlus DEF Calls
<1>6. IsSeq(Pieces(L, lo, hi)) /\ \A id : IsSeq(Calls(L, lo, hi, id))
    <2>1. hi <= Len(L)
        BY <1>1
    <2>2. Spans(PieceList(L), lo, hi) /\ \A id : Spans(CallList(L, id), lo, hi)
        BY <1>1, <2>1, ListsTyped
    <2>3. QED
        BY <2>2, CatTyped DEF Pieces, Calls
<1> HIDE DEF e
<1>7. CASE e.name = "session.message"
    <2>1. ni = Merge(items, e)
        BY <1>7 DEF ShowEvent
    <2>2. /\ EventPiece(e) = << <<e.role, e.block.kind, e.block.body>> >>
          /\ \A id : EventCall(e, id) = <<>>
        BY <1>7 DEF EventPiece, EventCall
    <2>3. IsItems(items) /\ Flat(items) = Pieces(L, lo, hi)
        BY DEF Represents
    <2>4. /\ IsItems(ni) /\ Flat(ni) = Flat(items) \o EventPiece(e)
          /\ \A id : /\ ItemsOf(ni, id) = ItemsOf(items, id)
                     /\ \A i \in ItemsOf(items, id) : ni[i].call = items[i].call
        BY <2>1, <2>2, <2>3, ItemsMerged
    <2>5. ASSUME NEW id PROVE Calls(L, lo, hi + 1, id) = Calls(L, lo, hi, id)
        <3>1. IsSeq(Calls(L, lo, hi, id)) /\ Calls(L, lo, hi + 1, id) = Calls(L, lo, hi, id) \o <<>>
            BY <1>5, <1>6, <2>2
        <3>2. QED
            BY <3>1, ConcatNone
    <2> HIDE DEF ni
    <2>6. \A id, i : ItemsOf(items, id) = {i} => ni[i].call = items[i].call
        BY <2>4
    <2>7. Represents(L, ni, lo, hi + 1)
        BY <1>4, <2>3, <2>4, <2>5, <2>6, ZenonT(30) DEF Represents
    <2>8. QED
        BY <2>7 DEF ni, e
<1>8. CASE e.name = "session.tool_call"
    <2> DEFINE new == e.call
    <2>1. ni = Upsert(items, new)
        BY <1>8 DEF ShowEvent
    <2>2. IsCall(new)
        BY <1>1, <1>8 DEF IsLog, e
    <2>3. /\ EventPiece(e) = <<>> /\ EventCall(e, new.id) = <<new>>
          /\ \A id : id # new.id => EventCall(e, id) = <<>>
        BY <1>8 DEF EventPiece, EventCall
    <2>4. IsItems(items) /\ Flat(items) = Pieces(L, lo, hi)
        BY DEF Represents
    <2> HIDE DEF new, ni
    <2>5. /\ IsItems(ni) /\ Flat(ni) = Flat(items)
          /\ \A id : id # new.id =>
                /\ ItemsOf(ni, id) = ItemsOf(items, id)
                /\ \A i \in ItemsOf(items, id) : ni[i].call = items[i].call
          /\ ItemsOf(items, new.id) = {} =>
                /\ ItemsOf(ni, new.id) = {Len(items) + 1}
                /\ ni[Len(items) + 1].call = new
          /\ ItemsOf(items, new.id) # {} =>
                /\ ItemsOf(ni, new.id) = ItemsOf(items, new.id)
                /\ \A i : ItemsOf(items, new.id) = {i} => ni[i].call = Merging(items[i].call, new)
        <3>1. Upserted(items, new, ni)
            BY <2>1, <2>2, <2>4, ItemsUpserted
        <3>2. QED
            BY <3>1 DEF Upserted
    <2>6. Pieces(L, lo, hi + 1) = Pieces(L, lo, hi)
        BY <1>4, <1>6, <2>3, ConcatNone
    <2>7. ASSUME NEW id
          PROVE  /\ ItemsOf(ni, id) = {} => Calls(L, lo, hi + 1, id) = <<>>
                 /\ \A i : ItemsOf(ni, id) = {i} => Chained(Calls(L, lo, hi + 1, id), ni[i].call)
        <3> DEFINE cs == Calls(L, lo, hi, id)
                   ds == Calls(L, lo, hi + 1, id)
        <3>0. /\ ItemsOf(items, id) = {} => cs = <<>>
              /\ \A i : ItemsOf(items, id) = {i} => Chained(cs, items[i].call)
              /\ IsSeq(cs) /\ ds = cs \o EventCall(e, id)
            BY <1>5, <1>6 DEF Represents
        <3> HIDE DEF cs, ds
        <3>1. CASE id # new.id
            <4>1. ds = cs
                BY <2>3, <3>0, <3>1, ConcatNone
            <4>2. \A i : ItemsOf(items, id) = {i} => ni[i].call = items[i].call
                BY <2>5, <3>1
            <4>3. QED
                BY <2>5, <3>0, <3>1, <4>1, <4>2 DEF ds
        <3>2. CASE id = new.id /\ ItemsOf(items, id) = {}
            <4>1. ds = <<new>>
                BY <2>3, <3>0, <3>2, SeqOne, ConcatNone
            <4>2. ItemsOf(ni, id) = {Len(items) + 1} /\ ni[Len(items) + 1].call = new
                BY <2>5, <3>2
            <4>3. \A i : ItemsOf(ni, id) = {i} => ni[i].call = new
                BY <4>2
            <4>4. QED
                BY <4>1, <4>2, <4>3, ChainedOne DEF ds
        <3>3. CASE id = new.id /\ ItemsOf(items, id) # {}
            <4>1. ds = cs \o <<new>>
                BY <2>3, <3>0, <3>3
            <4>2. /\ ItemsOf(ni, id) = ItemsOf(items, id)
                  /\ \A i : ItemsOf(items, id) = {i} => ni[i].call = Merging(items[i].call, new)
                BY <2>5, <3>3
            <4>3. ASSUME NEW i, ItemsOf(ni, id) = {i} PROVE Chained(ds, ni[i].call)
                <5>1. Chained(cs, items[i].call) /\ ni[i].call = Merging(items[i].call, new)
                    BY <3>0, <4>2, <4>3
                <5>2. QED
                    BY <4>1, <5>1, ChainedMore
            <4>4. QED
                BY <3>3, <4>2, <4>3 DEF ds
        <3>4. QED
            BY <3>1, <3>2, <3>3
    <2>8. Represents(L, ni, lo, hi + 1)
        BY <2>4, <2>5, <2>6, <2>7 DEF Represents
    <2>9. QED
        BY <2>8 DEF ni, e
<1>9. CASE e.name \notin {"session.message", "session.tool_call"}
    <2>1. ni = items
        BY <1>9 DEF ShowEvent
    <2>2. EventPiece(e) = <<>> /\ \A id : EventCall(e, id) = <<>>
        BY <1>9 DEF EventPiece, EventCall
    <2>3. Pieces(L, lo, hi + 1) = Pieces(L, lo, hi) /\ \A id : Calls(L, lo, hi + 1, id) = Calls(L, lo, hi, id)
        BY <1>4, <1>5, <1>6, <2>2, ConcatNone, ZenonT(30)
    <2>4. Represents(L, items, lo, hi + 1)
        BY <2>3 DEF Represents
    <2>5. QED
        BY <2>1, <2>4 DEF e
<1>10. QED
    BY <1>7, <1>8, <1>9

\* A page in front of what is on show.
LEMMA RepresentsFront ==
    ASSUME NEW L, NEW s, NEW t, NEW lo \in Nat \ {0}, NEW m \in Nat, NEW hi \in Nat, IsLog(L),
           lo <= m + 1, m <= hi, hi <= Len(L), Represents(L, s, lo, m), Represents(L, t, m + 1, hi)
    PROVE  Represents(L, s \o t, lo, hi)
<1>1. /\ IsItems(s) /\ IsItems(t) /\ IsSeq(s) /\ IsSeq(t) /\ Len(s) \in Nat /\ Len(t) \in Nat
      /\ DOMAIN s = 1..Len(s) /\ DOMAIN t = 1..Len(t)
    BY SeqFacts DEF Represents, IsItems
<1>2. IsItems(s \o t) /\ Flat(s \o t) = Flat(s) \o Flat(t)
    BY <1>1, FlatConcat
<1>3. /\ DOMAIN (s \o t) = 1..(Len(s) + Len(t))
      /\ \A i \in 1..Len(s) : (s \o t)[i] = s[i]
      /\ \A i \in 1..Len(t) : (s \o t)[Len(s) + i] = t[i]
    BY <1>1, SeqConcat
<1> DEFINE u == s \o t
<1> HIDE DEF u
<1>4. /\ IsSeq(L) /\ Len(L) \in Nat /\ lo <= hi + 1 /\ Spans(PieceList(L), lo, hi)
      /\ \A id : /\ Spans(CallList(L, id), lo, hi)
                 /\ Spans(CallList(L, id), lo, m) /\ Spans(CallList(L, id), m + 1, hi)
    <2>1. IsSeq(L) /\ Len(L) \in Nat
        BY SeqFacts DEF IsLog
    <2>2. lo <= hi + 1 /\ m <= Len(L) /\ m + 1 \in Nat \ {0} /\ m + 1 <= hi + 1
        BY <2>1
    <2>3. QED
        BY <2>1, <2>2, ListsTyped
<1>5. Pieces(L, lo, hi) = Pieces(L, lo, m) \o Pieces(L, m + 1, hi)
    <2> DEFINE F == PieceList(L)
    <2>1. Spans(F, lo, hi)
        BY <1>4
    <2> HIDE DEF F
    <2>2. Cat(F, lo, hi) = Cat(F, lo, m) \o Cat(F, m + 1, hi)
        BY <2>1, CatSplit, ZenonT(30)
    <2>3. QED
        BY <2>2 DEF F, Pieces
<1>6. ASSUME NEW id
      PROVE  /\ Calls(L, lo, hi, id) = Calls(L, lo, m, id) \o Calls(L, m + 1, hi, id)
             /\ IsSeq(Calls(L, lo, m, id)) /\ IsSeq(Calls(L, m + 1, hi, id))
    <2> DEFINE F == CallList(L, id)
    <2>1. Spans(F, lo, hi) /\ Spans(F, lo, m) /\ Spans(F, m + 1, hi)
        BY <1>4
    <2> HIDE DEF F
    <2>2. Cat(F, lo, hi) = Cat(F, lo, m) \o Cat(F, m + 1, hi)
        BY <2>1, CatSplit, ZenonT(30)
    <2>3. IsSeq(Cat(F, lo, m)) /\ IsSeq(Cat(F, m + 1, hi))
        BY <2>1, CatTyped
    <2>4. QED
        BY <2>2, <2>3 DEF F, Calls
<1>7. Flat(u) = Pieces(L, lo, hi)
    BY <1>2, <1>5 DEF Represents, u
<1>8. ASSUME NEW id
      PROVE  /\ ItemsOf(u, id) = {} => Calls(L, lo, hi, id) = <<>>
             /\ \A i : ItemsOf(u, id) = {i} => Chained(Calls(L, lo, hi, id), u[i].call)
    <2> DEFINE a == Calls(L, lo, m, id)
               b == Calls(L, m + 1, hi, id)
               c == Calls(L, lo, hi, id)
    <2>1. /\ ItemsOf(s, id) = {} => a = <<>>
          /\ \A i : ItemsOf(s, id) = {i} => Chained(a, s[i].call)
          /\ ItemsOf(t, id) = {} => b = <<>>
          /\ \A i : ItemsOf(t, id) = {i} => Chained(b, t[i].call)
        BY DEF Represents
    <2>2. IsSeq(a) /\ IsSeq(b) /\ c = a \o b
        BY <1>6
    <2> HIDE DEF a, b, c
    <2>3. \A i \in ItemsOf(s, id) : i \in ItemsOf(u, id) /\ u[i] = s[i] /\ i \in 1..Len(s)
        <3>1. \A i \in 1..Len(s) : i \in 1..(Len(s) + Len(t))
            BY <1>1
        <3>2. QED
            BY <1>1, <1>3, <3>1 DEF ItemsOf, u
    <2>4. \A i \in ItemsOf(t, id) : /\ Len(s) + i \in ItemsOf(u, id) /\ u[Len(s) + i] = t[i]
                                    /\ i \in 1..Len(t)
        <3>1. \A i \in 1..Len(t) : Len(s) + i \in 1..(Len(s) + Len(t))
            BY <1>1
        <3>2. QED
            BY <1>1, <1>3, <3>1 DEF ItemsOf, u
    <2>5. ASSUME NEW i \in ItemsOf(u, id), i \notin ItemsOf(s, id)
          PROVE  i - Len(s) \in ItemsOf(t, id) /\ u[i] = t[i - Len(s)]
        <3>1. i \in 1..(Len(s) + Len(t)) /\ u[i].type = "tool" /\ u[i].call.id = id
            BY <1>3 DEF ItemsOf, u
        <3>2. i \notin 1..Len(s)
            BY <1>1, <1>3, <2>5, <3>1 DEF ItemsOf, u
        <3>3. i - Len(s) \in 1..Len(t) /\ i = Len(s) + (i - Len(s))
            BY <1>1, <3>1, <3>2
        <3>4. u[i] = t[i - Len(s)]
            BY <1>3, <3>3 DEF u
        <3>5. QED
            BY <1>1, <3>1, <3>3, <3>4 DEF ItemsOf
    <2>6. ItemsOf(u, id) = {} => c = <<>>
        <3> SUFFICES ASSUME ItemsOf(u, id) = {} PROVE c = <<>>
            OBVIOUS
        <3>1. ItemsOf(s, id) = {} /\ ItemsOf(t, id) = {}
            BY <2>3, <2>4
        <3>2. a = <<>> /\ b = <<>>
            BY <2>1, <3>1
        <3>3. QED
            BY <2>2, <3>2, ConcatNone
    <2>7. ASSUME NEW i, ItemsOf(u, id) = {i} PROVE Chained(c, u[i].call)
        <3>1. CASE i \in ItemsOf(s, id)
            <4>1. ItemsOf(s, id) = {i}
                BY <2>3, <2>7, <3>1
            <4>2. ItemsOf(t, id) = {}
                <5>1. SUFFICES ASSUME NEW j \in ItemsOf(t, id) PROVE FALSE
                    OBVIOUS
                <5>2. Len(s) + j = i /\ i \in 1..Len(s) /\ j \in 1..Len(t)
                    BY <2>3, <2>4, <2>7, <3>1
                <5>3. QED
                    BY <1>1, <5>2
            <4>3. c = a /\ u[i] = s[i]
                BY <2>1, <2>2, <2>3, <3>1, <4>2, ConcatNone
            <4>4. QED
                BY <2>1, <4>1, <4>3
        <3>2. CASE i \notin ItemsOf(s, id)
            <4> DEFINE j == i - Len(s)
            <4>1. j \in ItemsOf(t, id) /\ u[i] = t[j]
                BY <2>5, <2>7, <3>2
            <4>2. ItemsOf(s, id) = {}
                BY <2>3, <2>7, <3>2
            <4>3. ItemsOf(t, id) = {j}
                <5>1. SUFFICES ASSUME NEW k \in ItemsOf(t, id) PROVE k = j
                    BY <4>1
                <5>2. Len(s) + k = i /\ k \in 1..Len(t)
                    BY <2>4, <2>7
                <5>3. QED
                    BY <1>1, <5>2
            <4> HIDE DEF j
            <4>4. c = b
                BY <2>1, <2>2, <4>2, ConcatNone
            <4>5. QED
                BY <2>1, <4>1, <4>3, <4>4
        <3>3. QED
            BY <3>1, <3>2
    <2>8. QED
        BY <2>6, <2>7 DEF c
<1>9. Represents(L, u, lo, hi)
    BY <1>2, <1>7, <1>8 DEF Represents, u
<1>10. QED
    BY <1>9 DEF u

\* A journal that grew stands for what it stood for.
LEMMA ListsKept ==
    ASSUME NEW L, NEW M, IsSeq(L), IsSeq(M), Len(L) <= Len(M), \A i \in 1..Len(L) : M[i] = L[i],
           NEW lo \in Nat \ {0}, NEW hi \in Nat, hi <= Len(L)
    PROVE  /\ Pieces(M, lo, hi) = Pieces(L, lo, hi)
           /\ \A id : Calls(M, lo, hi, id) = Calls(L, lo, hi, id)
<1>1. Len(L) \in Nat /\ Len(M) \in Nat
    BY SeqFacts
<1>2. \A i \in lo..hi : i \in 1..Len(L) /\ i \in 1..Len(M)
    BY <1>1
<1>3. \A i \in lo..hi : PieceList(M)[i] = PieceList(L)[i]
    BY <1>2, ListsTyped
<1>4. \A id : \A i \in lo..hi : CallList(M, id)[i] = CallList(L, id)[i]
    BY <1>2, ListsTyped
<1>5. Pieces(M, lo, hi) = Pieces(L, lo, hi)
    BY <1>3, CatSame DEF Pieces
<1>6. ASSUME NEW id PROVE Calls(M, lo, hi, id) = Calls(L, lo, hi, id)
    <2>1. \A i \in lo..hi : CallList(M, id)[i] = CallList(L, id)[i]
        BY <1>4
    <2>2. QED
        BY <2>1, CatSame DEF Calls
<1>7. QED
    BY <1>5, <1>6

LEMMA RepresentsKept ==
    ASSUME NEW L, NEW M, IsSeq(L), IsSeq(M), Len(L) <= Len(M), \A i \in 1..Len(L) : M[i] = L[i],
           NEW lo \in Nat \ {0}, NEW hi \in Nat, hi <= Len(L), NEW items, Represents(L, items, lo, hi)
    PROVE  Represents(M, items, lo, hi)
<1>1. /\ Pieces(M, lo, hi) = Pieces(L, lo, hi)
      /\ \A id : Calls(M, lo, hi, id) = Calls(L, lo, hi, id)
    BY ListsKept
<1>2. QED
    BY <1>1 DEF Represents

-----------------------------------------------------------------------------
(* Showing a run of events *)

LEMMA MaxOfInterval == \A n \in Nat \ {0} : Max(1..n) = n
<1> SUFFICES ASSUME NEW n \in Nat \ {0} PROVE Max(1..n) = n
    OBVIOUS
<1>1. n \in 1..n /\ \A y \in 1..n : n >= y
    OBVIOUS
<1>2. \A x \in 1..n : (\A y \in 1..n : x >= y) => x = n
    OBVIOUS
<1>3. QED
    BY <1>1, <1>2 DEF Max

LEMMA MaxOfTop ==
    ASSUME NEW n \in Nat, NEW t \in SUBSET (1..(n + 1)), n + 1 \in t
    PROVE  Max(t) = n + 1
<1>1. \A y \in t : n + 1 >= y
    OBVIOUS
<1>2. \A x \in t : (\A y \in t : x >= y) => x = n + 1
    BY <1>1
<1>3. QED
    BY <1>1, <1>2 DEF Max

\* The fold that Show is, over the indices 1 to n of s.
Folded(items, s, n, g) ==
    g = [t \in SUBSET (1..n) |->
            IF t = {} THEN items ELSE ShowEvent(g[t \ {Max(t)}], log[s[Max(t)]])]

LEMMA FoldedExists == \A items, s : \A n \in Nat : \E g : Folded(items, s, n, g)
<1> SUFFICES ASSUME NEW items, NEW s PROVE \A n \in Nat : \E g : Folded(items, s, n, g)
    OBVIOUS
<1> DEFINE T == {n \in Nat : ~ \E g : Folded(items, s, n, g)}
<1>1. SUFFICES ASSUME T # {} PROVE FALSE
    OBVIOUS
<1>2. PICK n \in T : \A y \in T : n <= y
    <2>1. T \in SUBSET Nat
        OBVIOUS
    <2> HIDE DEF T
    <2>2. QED
        BY <1>1, <2>1, LeastOf
<1>3. n # 0
    <2> SUFFICES ASSUME n = 0 PROVE FALSE
        OBVIOUS
    <2> DEFINE g == [t \in SUBSET (1..0) |-> items]
    <2>1. \A t \in SUBSET (1..0) : t = {}
        OBVIOUS
    <2>2. Folded(items, s, 0, g)
        BY <2>1 DEF Folded
    <2>3. QED
        BY <1>2, <2>2
<1>4. PICK m \in Nat : n = m + 1
    <2>1. n - 1 \in Nat /\ n = (n - 1) + 1
        BY <1>2, <1>3
    <2>2. QED
        BY <2>1
<1>5. m \notin T
    <2> HIDE DEF T
    <2>1. ~ (n <= m)
        BY <1>4
    <2>2. QED
        BY <1>2, <2>1
<1>6. PICK g : Folded(items, s, m, g)
    BY <1>5
<1>7. \A t \in SUBSET (1..m) :
        g[t] = IF t = {} THEN items ELSE ShowEvent(g[t \ {Max(t)}], log[s[Max(t)]])
    BY <1>6 DEF Folded
<1> DEFINE k == m + 1
           h == [t \in SUBSET (1..k) |-> IF k \in t THEN ShowEvent(g[t \ {k}], log[s[k]]) ELSE g[t]]
<1>8. ASSUME NEW t \in SUBSET (1..k)
      PROVE  h[t] = IF t = {} THEN items ELSE ShowEvent(h[t \ {Max(t)}], log[s[Max(t)]])
    <2>1. CASE k \in t
        <3>1. Max(t) = k /\ t # {}
            BY <2>1, MaxOfTop
        <3>2. t \ {k} \in SUBSET (1..k) /\ k \notin t \ {k}
            OBVIOUS
        <3>3. h[t \ {k}] = g[t \ {k}] /\ h[t] = ShowEvent(g[t \ {k}], log[s[k]])
            BY <2>1, <3>2
        <3> HIDE DEF h, k
        <3>4. QED
            BY <3>1, <3>3
    <2>2. CASE k \notin t
        <3>1. t \in SUBSET (1..m)
            BY <2>2
        <3> DEFINE r == t \ {Max(t)}
        <3>2. r \in SUBSET (1..k) /\ k \notin r
            BY <2>2
        <3>3. h[t] = g[t] /\ h[r] = g[r]
            BY <2>2, <3>2
        <3> HIDE DEF h, k
        <3>4. QED
            BY <1>7, <3>1, <3>3
    <2>3. QED
        BY <2>1, <2>2
<1>9. h = [t \in SUBSET (1..k) |-> h[t]]
    OBVIOUS
<1> HIDE DEF h
<1>10. Folded(items, s, k, h)
    BY <1>8, <1>9 DEF Folded
<1>11. QED
    BY <1>2, <1>4, <1>10

\* Show applies the events in order.
Steps(items, s, n, h) ==
    /\ h[0] = items
    /\ \A i \in 1..n : h[i] = ShowEvent(h[i - 1], log[s[i]])
    /\ Show(items, s) = h[n]

LEMMA ShowSteps ==
    \A items, s : \A n \in Nat : DOMAIN s = 1..n => \E h : Steps(items, s, n, h)
<1> SUFFICES ASSUME NEW items, NEW s, NEW n \in Nat, DOMAIN s = 1..n
             PROVE  \E h : Steps(items, s, n, h)
    OBVIOUS
<1> DEFINE Folds(g) == g = [t \in SUBSET DOMAIN s |->
                              IF t = {} THEN items
                              ELSE ShowEvent(g[t \ {Max(t)}], log[s[Max(t)]])]
           iter == CHOOSE g : Folds(g)
<1>1. Show(items, s) = iter[DOMAIN s]
    BY DEF Show, FoldLeft, MapThenFoldSet
<1>2. \E g : Folds(g)
    <2>1. PICK g : Folded(items, s, n, g)
        BY FoldedExists
    <2>2. Folds(g)
        BY <2>1 DEF Folded
    <2> HIDE DEF Folds
    <2>3. QED
        BY <2>2
<1>3. Folds(iter)
    <2> HIDE DEF Folds
    <2> QED  BY <1>2
<1> HIDE DEF iter
<1>4. \A t \in SUBSET (1..n) :
        iter[t] = IF t = {} THEN items ELSE ShowEvent(iter[t \ {Max(t)}], log[s[Max(t)]])
    BY <1>3
<1> HIDE DEF Folds
<1> DEFINE h == [i \in 0..n |-> iter[1..i]]
<1>5. h[0] = items
    <2>1. 1..0 = {} /\ 0 \in 0..n /\ {} \in SUBSET (1..n)
        OBVIOUS
    <2>2. iter[{}] = items
        BY <1>4, <2>1
    <2>3. QED
        BY <2>1, <2>2
<1>6. ASSUME NEW i \in 1..n PROVE h[i] = ShowEvent(h[i - 1], log[s[i]])
    <2>0. /\ i \in 0..n /\ i - 1 \in 0..n /\ i \in Nat \ {0} /\ i \in 1..i
          /\ \A j \in 1..i : j \in 1..n
        OBVIOUS
    <2>1. /\ i \in 0..n /\ i - 1 \in 0..n /\ 1..i \in SUBSET (1..n) /\ 1..i # {}
          /\ (1..i) \ {i} = 1..(i - 1) /\ i \in Nat \ {0}
        <3>1. 1..i \in SUBSET (1..n) /\ 1..i # {}
            BY <2>0
        <3>2. (1..i) \ {i} = 1..(i - 1)
            <4>1. \A j : j \in (1..i) \ {i} <=> j \in 1..(i - 1)
                BY <2>0
            <4>2. QED
                BY <4>1
        <3>3. QED
            BY <2>0, <3>1, <3>2
    <2>2. Max(1..i) = i
        BY <2>1, MaxOfInterval
    <2>3. iter[1..i] = ShowEvent(iter[(1..i) \ {i}], log[s[i]])
        BY <1>4, <2>1, <2>2
    <2>4. QED
        BY <2>1, <2>3
<1>7. Show(items, s) = h[n]
    <2>1. n \in 0..n
        OBVIOUS
    <2>2. QED
        BY <1>1, <2>1
<1> HIDE DEF h
<1>8. Steps(items, s, n, h)
    BY <1>5, <1>6, <1>7 DEF Steps
<1>9. QED
    BY <1>8

Consecutive(a, n) == [i \in 1..n |-> a + i - 1]

\* The sequence numbers of a page, in order.
LEMMA SortedInterval ==
    ASSUME NEW a \in Nat, NEW n \in Nat
    PROVE  Sorted(a..(a + n - 1)) = Consecutive(a, n)
<1> DEFINE b == a + n - 1
           S == a..b
           Increasing(s) == \A i, j \in DOMAIN s : i < j => s[i] < s[j]
           s == Sorted(S)
           c == Consecutive(a, n)
<1>1. Cardinality(S) = n
    <2>1. a \in Int /\ b \in Int /\ (a > b <=> n = 0) /\ b - a + 1 = n
        OBVIOUS
    <2> HIDE DEF b
    <2>2. Cardinality(a..b) = IF a > b THEN 0 ELSE b - a + 1
        BY <2>1, FS_Interval
    <2>3. QED
        BY <2>1, <2>2
<1>2. c \in [1..n -> S] /\ DOMAIN c = 1..n /\ \A i \in 1..n : c[i] = a + i - 1
    BY DEF Consecutive
<1>3. Increasing(c)
    <2> HIDE DEF c
    <2> QED  BY <1>2
<1>4. s = CHOOSE z \in [1..n -> S] : Increasing(z)
    <2> HIDE DEF S
    <2> QED  BY <1>1 DEF Sorted
<1> HIDE DEF s, c
<1>5. s \in [1..n -> S] /\ Increasing(s)
    <2> HIDE DEF S, Increasing
    <2> QED  BY <1>2, <1>3, <1>4
<1>6. /\ \A i \in 1..n : s[i] \in Int /\ a <= s[i] /\ s[i] <= a + n - 1
      /\ \A i, j \in 1..n : i < j => s[i] < s[j]
    BY <1>5
<1> HIDE DEF S, Increasing, b
<1>7. \A i \in 1..n : s[i] >= a + i - 1
    <2> DEFINE T == {i \in 1..n : ~ (s[i] >= a + i - 1)}
    <2>1. SUFFICES ASSUME T # {} PROVE FALSE
        OBVIOUS
    <2>2. PICK k \in T : \A y \in T : k <= y
        <3>1. T \in SUBSET Nat
            OBVIOUS
        <3> HIDE DEF T
        <3>2. QED
            BY <2>1, <3>1, LeastOf
    <2>3. k \in 1..n /\ ~ (s[k] >= a + k - 1)
        BY <2>2
    <2>4. k # 1
        BY <1>6, <2>3
    <2>5. k - 1 \in 1..n /\ k - 1 < k /\ ~ (k <= k - 1)
        BY <2>3, <2>4
    <2>6. k - 1 \notin T
        <3> HIDE DEF T
        <3> QED  BY <2>2, <2>5
    <2>7. s[k - 1] >= a + (k - 1) - 1 /\ s[k - 1] < s[k] /\ s[k - 1] \in Int /\ s[k] \in Int
        BY <1>6, <2>3, <2>5, <2>6
    <2>8. QED
        BY <2>3, <2>7
<1>8. \A i \in 1..n : s[i] <= a + i - 1
    <2> DEFINE T == {d \in Nat : d < n /\ ~ (s[n - d] <= a + (n - d) - 1)}
    <2>1. SUFFICES ASSUME T # {} PROVE FALSE
        <3>1. SUFFICES ASSUME NEW i \in 1..n, T = {} PROVE s[i] <= a + i - 1
            OBVIOUS
        <3>2. n - i \in Nat /\ n - i < n /\ n - (n - i) = i
            OBVIOUS
        <3>3. n - i \notin T
            BY <3>1
        <3>4. s[n - (n - i)] <= a + (n - (n - i)) - 1
            BY <3>2, <3>3
        <3>5. QED
            BY <3>2, <3>4
    <2>2. PICK d \in T : \A y \in T : d <= y
        <3>1. T \in SUBSET Nat
            OBVIOUS
        <3> HIDE DEF T
        <3>2. QED
            BY <2>1, <3>1, LeastOf
    <2>3. d \in Nat /\ d < n /\ ~ (s[n - d] <= a + (n - d) - 1)
        BY <2>2
    <2>4. d # 0
        <3> SUFFICES ASSUME d = 0 PROVE FALSE
            OBVIOUS
        <3>1. n - d = n /\ n \in 1..n
            BY <2>3
        <3>2. QED
            BY <1>6, <2>3, <3>1
    <2>5. d - 1 \in Nat /\ d - 1 < n /\ ~ (d <= d - 1)
        BY <2>3, <2>4
    <2>6. d - 1 \notin T
        <3> HIDE DEF T
        <3> QED  BY <2>2, <2>5
    <2> DEFINE i == n - d
               j == n - (d - 1)
    <2>7. i \in 1..n /\ j \in 1..n /\ i < j /\ j = i + 1
        BY <2>3, <2>4
    <2>8. s[j] <= a + j - 1 /\ ~ (s[i] <= a + i - 1)
        BY <2>3, <2>5, <2>6
    <2> HIDE DEF i, j, T
    <2>9. s[i] < s[j] /\ s[i] \in Int /\ s[j] \in Int
        BY <1>6, <2>7
    <2>10. QED
        BY <2>7, <2>8, <2>9
<1>9. \A i \in 1..n : s[i] = c[i]
    BY <1>2, <1>6, <1>7, <1>8
<1>10. s = c
    BY <1>2, <1>5, <1>9
<1>11. QED
    BY <1>10 DEF s, c, S, b

\* A page of events lo to hi, shown after what stands for the events before it.
LEMMA RepresentsRun ==
    ASSUME NEW items, NEW lo \in Nat \ {0}, NEW m \in Nat, NEW n \in Nat, IsLog(log),
           lo <= m + 1, m + n <= Len(log), Represents(log, items, lo, m)
    PROVE  Represents(log, Show(items, Consecutive(m + 1, n)), lo, m + n)
<1> DEFINE s == Consecutive(m + 1, n)
<1>1. DOMAIN s = 1..n /\ \A i \in 1..n : s[i] = m + i
    BY DEF Consecutive
<1> HIDE DEF s
<1>0. PICK h : Steps(items, s, n, h)
    BY <1>1, ShowSteps
<1>2. /\ h[0] = items
      /\ \A i \in 1..n : h[i] = ShowEvent(h[i - 1], log[s[i]])
      /\ Show(items, s) = h[n]
    BY <1>0 DEF Steps
<1> DEFINE T == {i \in 0..n : ~ Represents(log, h[i], lo, m + i)}
<1>3. T = {}
    <2>1. SUFFICES ASSUME T # {} PROVE FALSE
        OBVIOUS
    <2>2. PICK k \in T : \A y \in T : k <= y
        <3>1. T \in SUBSET Nat
            OBVIOUS
        <3> HIDE DEF T
        <3>2. QED
            BY <2>1, <3>1, LeastOf
    <2>3. k \in 0..n /\ ~ Represents(log, h[k], lo, m + k)
        BY <2>2
    <2>4. k # 0
        BY <1>2, <2>3
    <2>5. k \in 1..n /\ k - 1 \in 0..n /\ ~ (k <= k - 1) /\ Len(log) \in Nat
        BY <2>3, <2>4, SeqFacts DEF IsLog
    <2>6. k - 1 \notin T
        <3> HIDE DEF T
        <3> QED  BY <2>2, <2>5
    <2>7. Represents(log, h[k - 1], lo, m + (k - 1))
        BY <2>5, <2>6
    <2> HIDE DEF T
    <2> DEFINE hi == m + (k - 1)
    <2>8. hi \in Nat /\ lo <= hi + 1 /\ hi + 1 <= Len(log) /\ hi + 1 = m + k
        BY <2>5
    <2>9. Represents(log, h[k - 1], lo, hi)
        BY <2>7
    <2> HIDE DEF hi
    <2>10. Represents(log, ShowEvent(h[k - 1], log[hi + 1]), lo, hi + 1)
        BY <2>8, <2>9, RepresentsEvent
    <2>11. h[k] = ShowEvent(h[k - 1], log[hi + 1])
        BY <1>1, <1>2, <2>5, <2>8
    <2>12. QED
        BY <2>3, <2>8, <2>10, <2>11
<1>4. n \in 0..n /\ n \notin T
    BY <1>3
<1>5. Represents(log, h[n], lo, m + n)
    BY <1>4
<1>6. QED
    BY <1>2, <1>5 DEF s

LEMMA ShowNone == \A items : Show(items, <<>>) = items
<1> SUFFICES ASSUME NEW items PROVE Show(items, <<>>) = items
    OBVIOUS
<1>1. DOMAIN <<>> = {}
    OBVIOUS
<1>2. QED
    BY <1>1 DEF Show, FoldLeft, MapThenFoldSet

LEMMA ShowOne == \A items, n : Show(items, <<n>>) = ShowEvent(items, log[n])
<1> SUFFICES ASSUME NEW items, NEW n PROVE Show(items, <<n>>) = ShowEvent(items, log[n])
    OBVIOUS
<1> DEFINE s == <<n>>
<1>1. DOMAIN s = 1..1 /\ s[1] = n /\ 1 \in Nat
    OBVIOUS
<1> HIDE DEF s
<1>2. PICK h : Steps(items, s, 1, h)
    BY <1>1, ShowSteps
<1>3. 1 \in 1..1 /\ 1 - 1 = 0
    OBVIOUS
<1>4. h[0] = items /\ h[1] = ShowEvent(h[0], log[s[1]]) /\ Show(items, s) = h[1]
    BY <1>2, <1>3 DEF Steps
<1>5. QED
    BY <1>1, <1>4 DEF s

\* loadHistoryPage: the items of the events a to b.
LEMMA PageShown ==
    ASSUME NEW a \in Nat \ {0}, NEW b \in Nat, IsLog(log), a <= b + 1, b <= Len(log)
    PROVE  Represents(log, Show(<<>>, Sorted(a..b)), a, b)
<1> DEFINE m == a - 1
           n == b - m
<1>1. m \in Nat /\ n \in Nat /\ m + 1 = a /\ m + n = b /\ a + n - 1 = b /\ a \in Nat
    OBVIOUS
<1> HIDE DEF m, n
<1>2. Sorted(a..(a + n - 1)) = Consecutive(a, n)
    BY <1>1, SortedInterval
<1>3. Represents(log, <<>>, a, m)
    BY RepresentsNone DEF m
<1>4. a <= m + 1 /\ m + n <= Len(log)
    BY <1>1
<1>5. Represents(log, Show(<<>>, Consecutive(m + 1, n)), a, m + n)
    BY <1>1, <1>3, <1>4, RepresentsRun
<1>6. QED
    BY <1>1, <1>2, <1>5

-----------------------------------------------------------------------------
(* What an update adds to the messages and to a tool call *)

LEMMA FlattenIn ==
    \A S, s : IsSeq(s) /\ (\A i \in 1..Len(s) : s[i] \in Seq(S)) => FlattenSeq(s) \in Seq(S)
<1> SUFFICES ASSUME NEW S
             PROVE  \A s : IsSeq(s) /\ (\A i \in 1..Len(s) : s[i] \in Seq(S)) => FlattenSeq(s) \in Seq(S)
    OBVIOUS
<1> DEFINE Typed(s) == IsSeq(s) /\ \A i \in 1..Len(s) : s[i] \in Seq(S)
           T == {n \in Nat : \E s : Typed(s) /\ Len(s) = n /\ ~ (FlattenSeq(s) \in Seq(S))}
<1>1. SUFFICES T = {}
    <2>1. \A s : Typed(s) => Len(s) \in Nat
        BY SeqFacts
    <2>2. QED
        BY <2>1
<1>2. SUFFICES ASSUME T # {} PROVE FALSE
    OBVIOUS
<1>3. PICK n \in T : \A y \in T : n <= y
    <2>1. T \in SUBSET Nat
        OBVIOUS
    <2> HIDE DEF T
    <2>2. QED
        BY <1>2, <2>1, LeastOf
<1>4. PICK s : Typed(s) /\ Len(s) = n /\ ~ (FlattenSeq(s) \in Seq(S))
    BY <1>3
<1>5. IsSeq(s) /\ n \in Nat /\ \A i \in 1..n : s[i] \in Seq(S)
    BY <1>3, <1>4
<1>6. n # 0
    <2> SUFFICES ASSUME n = 0 PROVE FALSE
        OBVIOUS
    <2>1. FlattenSeq(s) = <<>>
        BY <1>4, <1>5, FlattenEmpty, SeqEmpty
    <2>2. QED
        BY <1>4, <2>1
<1>7. PICK r : /\ IsSeq(r) /\ Len(s) = Len(r) + 1 /\ Len(r) = Len(s) - 1
               /\ \A i \in 1..Len(r) : s[i] = r[i]
    BY <1>4, <1>5, <1>6, SeqFront
<1>8. n - 1 \in Nat /\ n - 1 \notin T
    <2> HIDE DEF Typed
    <2>1. n - 1 \in Nat /\ ~ (n <= n - 1)
        BY <1>5, <1>6
    <2> HIDE DEF T
    <2>2. QED
        BY <1>3, <2>1
<1>9. Len(s) \in 1..n /\ s[Len(s)] \in Seq(S) /\ \A i \in 1..Len(r) : i \in 1..n
    <2>1. Len(s) \in 1..n /\ \A i \in 1..Len(r) : i \in 1..n
        BY <1>4, <1>5, <1>6, <1>7
    <2>2. QED
        BY <1>5, <2>1
<1>10. Typed(r)
    BY <1>5, <1>7, <1>9
<1>11. FlattenSeq(r) \in Seq(S)
    BY <1>4, <1>7, <1>8, <1>10
<1>12. FlattenSeq(s) = FlattenSeq(r) \o s[Len(s)]
    <2>1. IsSeq(s[Len(s)])
        BY <1>9 DEF IsSeq
    <2>2. QED
        BY <1>5, <1>7, <2>1, FlattenLast
<1>13. QED
    BY <1>4, <1>9, <1>11, <1>12

\* A block as the wire types give it stays one when it is normalised.
LEMMA BlockKept ==
    \A block : block = [kind |-> block.kind, body |-> block.body] =>
        \/ ContentFromWire(block) = <<>>
        \/ \E c : ContentFromWire(block) = <<c>> /\ c = [kind |-> c.kind, body |-> c.body]
BY DEF ContentFromWire, ResourceContent, Some, None

LEMMA EntryKept ==
    \A entry : (entry.type = "content" =>
                  entry.block = [kind |-> entry.block.kind, body |-> entry.block.body]) =>
        \/ ToolContentFromWire(entry) = <<>>
        \/ \E x : ToolContentFromWire(entry) = <<x>> /\ ToolContentPayload(x) = x
<1> SUFFICES ASSUME NEW entry,
                    entry.type = "content" =>
                        entry.block = [kind |-> entry.block.kind, body |-> entry.block.body]
             PROVE  \/ ToolContentFromWire(entry) = <<>>
                    \/ \E x : ToolContentFromWire(entry) = <<x>> /\ ToolContentPayload(x) = x
    OBVIOUS
<1>1. CASE entry.type = "content"
    <2>1. ToolContentFromWire(entry)
            = IF ContentFromWire(entry.block) = <<>> THEN <<>>
              ELSE <<[type |-> "content", block |-> ContentFromWire(entry.block)[1]]>>
        BY <1>1 DEF ToolContentFromWire, AndThen, Some, None
    <2>2. CASE ContentFromWire(entry.block) = <<>>
        BY <2>1, <2>2
    <2>3. CASE ContentFromWire(entry.block) # <<>>
        <3>1. PICK c : ContentFromWire(entry.block) = <<c>> /\ c = [kind |-> c.kind, body |-> c.body]
            BY <1>1, <2>3, BlockKept
        <3> DEFINE x == [type |-> "content", block |-> c]
        <3>2. ToolContentFromWire(entry) = <<x>>
            <4>1. <<c>>[1] = c /\ <<c>> # <<>>
                OBVIOUS
            <4>2. QED
                BY <2>1, <3>1, <4>1
        <3>3. x.type = "content" /\ x.block = c
            OBVIOUS
        <3>4. ToolContentPayload(x) = x
            BY <3>1, <3>3 DEF ToolContentPayload, BlockFromNormalized
        <3>5. QED
            BY <3>2, <3>4
    <2>4. QED
        BY <2>2, <2>3
<1>2. CASE entry.type \in {"diff", "terminal"}
    <2>1. ToolContentFromWire(entry) = <<entry>>
        BY <1>2 DEF ToolContentFromWire, Some
    <2>2. ToolContentPayload(entry) = entry
        BY <1>2 DEF ToolContentPayload
    <2>3. QED
        BY <2>1, <2>2
<1>3. CASE entry.type \notin {"content", "diff", "terminal"}
    BY <1>3 DEF ToolContentFromWire, None
<1>4. QED
    BY <1>1, <1>2, <1>3

\* The payload of a normalised tool call has the content of the call.
LEMMA ContentKept ==
    \A content : IsContent(content) =>
        /\ IsSeq(NormalizeToolContent(content))
        /\ \A i \in DOMAIN NormalizeToolContent(content) :
              ToolContentPayload(NormalizeToolContent(content)[i]) = NormalizeToolContent(content)[i]
<1> SUFFICES ASSUME NEW content, IsContent(content)
             PROVE  /\ IsSeq(NormalizeToolContent(content))
                    /\ \A i \in DOMAIN NormalizeToolContent(content) :
                          ToolContentPayload(NormalizeToolContent(content)[i])
                            = NormalizeToolContent(content)[i]
    OBVIOUS
<1> DEFINE n == Len(content)
           f == [i \in 1..n |-> ToolContentFromWire(content[i])]
           S == {x \in UNION {{f[i][1]} : i \in 1..n} : ToolContentPayload(x) = x}
<1>1. IsSeq(content)
    BY DEF IsContent, IsSeq
<1>2. n \in Nat /\ DOMAIN content = 1..n
    BY <1>1, SeqFacts
<1>3. ASSUME NEW i \in 1..n PROVE f[i] \in Seq(S)
    <2>1. \/ f[i] = <<>>
          \/ \E x : f[i] = <<x>> /\ ToolContentPayload(x) = x
        BY <1>2, EntryKept DEF IsContent
    <2> HIDE DEF f
    <2>2. CASE f[i] = <<>>
        BY <2>2
    <2>3. CASE \E x : f[i] = <<x>> /\ ToolContentPayload(x) = x
        <3>1. PICK x : f[i] = <<x>> /\ ToolContentPayload(x) = x
            BY <2>3
        <3>2. f[i][1] = x
            BY <3>1
        <3>3. x \in S
            BY <3>1, <3>2
        <3> HIDE DEF S
        <3>4. QED
            BY <3>1, <3>3
    <2>4. QED
        BY <2>1, <2>2, <2>3
<1>4. IsSeq(f) /\ Len(f) = n
    <2>1. f \in [1..n -> Seq(S)]
        BY <1>3
    <2> HIDE DEF f, S
    <2>2. QED
        BY <1>2, <2>1, FcnIsSeq
<1>5. NormalizeToolContent(content) = FlattenSeq(f)
    BY DEF NormalizeToolContent
<1> HIDE DEF f
<1>6. FlattenSeq(f) \in Seq(S)
    <2> HIDE DEF S, n
    <2> QED  BY <1>3, <1>4, FlattenIn
<1>7. \A i \in DOMAIN FlattenSeq(f) : FlattenSeq(f)[i] \in S
    <2> HIDE DEF S
    <2> QED  BY <1>6
<1>8. QED
    BY <1>5, <1>6, <1>7 DEF IsSeq

\* The call that an update makes.
CallOf(u) ==
    IF u.update = "tool_call" THEN NormalizeToolCall(u.tool)
                              ELSE NormalizeToolCallUpdate(u.id, u.fields)

StepCall(u, id) == IF IsStep(u, id) THEN <<CallOf(u)>> ELSE <<>>

LEMMA PayloadKept ==
    \A c : IsCall(c) /\ IsSeq(c.content)
             /\ (\A i \in DOMAIN c.content : ToolContentPayload(c.content[i]) = c.content[i])
           => ToolCallPayload(c) = c
<1> SUFFICES ASSUME NEW c, IsCall(c), IsSeq(c.content),
                    \A i \in DOMAIN c.content : ToolContentPayload(c.content[i]) = c.content[i]
             PROVE  ToolCallPayload(c) = c
    OBVIOUS
<1> DEFINE n == c.content
           p == [i \in DOMAIN n |-> ToolContentPayload(n[i])]
<1>1. p = n
    <2>1. p = [i \in DOMAIN n |-> n[i]]
        OBVIOUS
    <2>2. PICK S : n \in Seq(S)
        BY DEF IsSeq
    <2> HIDE DEF p, n
    <2>3. n = [i \in DOMAIN n |-> n[i]]
        BY <2>2
    <2>4. QED
        BY <2>1, <2>3
<1>2. ToolCallPayload(c) = [c EXCEPT !.content = p]
    BY DEF ToolCallPayload
<1> HIDE DEF p
<1>3. [c EXCEPT !.content = n] = c
    BY DEF IsCall, Call
<1>4. QED
    BY <1>1, <1>2, <1>3

LEMMA CallOfTyped ==
    \A u : WellTyped(u) /\ u.update \in {"tool_call", "tool_call_update"} =>
        IsCall(CallOf(u)) /\ ToolCallPayload(CallOf(u)) = CallOf(u)
<1> SUFFICES ASSUME NEW u, WellTyped(u), u.update \in {"tool_call", "tool_call_update"}
             PROVE  IsCall(CallOf(u)) /\ ToolCallPayload(CallOf(u)) = CallOf(u)
    OBVIOUS
<1>1. CASE u.update = "tool_call"
    <2> DEFINE c == CallOf(u)
    <2>1. c = NormalizeToolCall(u.tool)
        BY <1>1 DEF CallOf
    <2>2. c = Call(u.tool.id, u.tool.title, ToolKindString(u.tool.kind),
                   MapToolStatus(u.tool.status), LocationDetail(u.tool.locations),
                   NormalizeToolContent(u.tool.content), u.tool.locations,
                   NormalizedRaw(u.tool.raw))
        BY <2>1 DEF NormalizeToolCall, Call
    <2>3. IsCall(c) /\ c.content = NormalizeToolContent(u.tool.content)
        <3> HIDE DEF c
        <3> QED  BY <2>2 DEF IsCall, Call
    <2>4. IsContent(u.tool.content)
        BY <1>1 DEF WellTyped
    <2> HIDE DEF c
    <2>5. IsSeq(c.content) /\ \A i \in DOMAIN c.content : ToolContentPayload(c.content[i]) = c.content[i]
        BY <2>3, <2>4, ContentKept
    <2>6. QED
        BY <2>3, <2>5, PayloadKept DEF c
<1>2. CASE u.update = "tool_call_update"
    <2> DEFINE c == CallOf(u)
               f == u.fields
               n == OrElse(AndThen(f.content, LAMBDA x : Some(NormalizeToolContent(x))), <<>>)
    <2>1. c = NormalizeToolCallUpdate(u.id, f)
        BY <1>2 DEF CallOf
    <2>2. c = Call(u.id, OrElse(f.title, NoText), AndThen(f.kind, ToolKindString),
                   OrElse(AndThen(f.status, LAMBDA s : Some(MapToolStatus(s))), "pending"),
                   AndThen(f.locations, LocationDetail), n, OrElse(f.locations, <<>>),
                   NormalizedRaw(f.raw))
        BY <2>1 DEF NormalizeToolCallUpdate, Call
    <2> HIDE DEF c, n
    <2>3. IsCall(c) /\ c.content = n
        BY <2>2 DEF IsCall, Call
    <2>4. IsSeq(n) /\ \A i \in DOMAIN n : ToolContentPayload(n[i]) = n[i]
        <3>1. CASE f.content = <<>>
            <4>1. n = <<>>
                BY <3>1 DEF n, OrElse, AndThen, None
            <4>2. QED
                BY <4>1, SeqNone
        <3>2. CASE f.content # <<>>
            <4>1. n = NormalizeToolContent(f.content[1])
                <5> DEFINE x == NormalizeToolContent(f.content[1])
                <5>1. AndThen(f.content, LAMBDA y : Some(NormalizeToolContent(y))) = <<x>>
                    BY <3>2 DEF AndThen, Some, None
                <5> HIDE DEF x
                <5>2. <<x>> # <<>> /\ <<x>>[1] = x
                    OBVIOUS
                <5>3. QED
                    BY <5>1, <5>2 DEF n, OrElse, None, x
            <4>2. IsContent(f.content[1])
                BY <1>2, <3>2 DEF WellTyped, None
            <4>3. QED
                BY <4>1, <4>2, ContentKept
        <3>3. QED
            BY <3>1, <3>2
    <2>5. QED
        BY <2>3, <2>4, PayloadKept DEF c
<1>3. QED
    BY <1>1, <1>2

\* What the event ev of the update u adds to the messages and the tool calls.
Adds(u, ev) ==
    /\ EventPiece(ev) = Piece(u)
    /\ \A id : EventCall(ev, id) = StepCall(u, id)
    /\ ev.name = "session.tool_call" => IsCall(ev.call)
    /\ ev.name = "session.message" => ev.block.body \in 0..MaxInputs

LEMMA OtherEvents ==
    \A e : e.type \in AgentEventTypes \ {"message", "thought", "tool_call"} =>
        SessionEventOf(e).name \notin {"session.message", "session.tool_call"}
<1> SUFFICES ASSUME NEW e, e.type \in AgentEventTypes \ {"message", "thought", "tool_call"}
             PROVE  SessionEventOf(e).name \notin {"session.message", "session.tool_call"}
    OBVIOUS
<1>1. CASE e.type = "mode"
    BY <1>1 DEF SessionEventOf
<1>2. CASE e.type = "config_options"
    BY <1>2 DEF SessionEventOf
<1>3. CASE e.type = "plan"
    BY <1>3 DEF SessionEventOf
<1>4. CASE e.type = "commands"
    BY <1>4 DEF SessionEventOf
<1>5. CASE e.type = "usage"
    BY <1>5 DEF SessionEventOf
<1>6. CASE e.type = "info"
    BY <1>6 DEF SessionEventOf
<1>7. CASE e.type = "diagnostics"
    BY <1>7 DEF SessionEventOf
<1>8. QED
    BY <1>1, <1>2, <1>3, <1>4, <1>5, <1>6, <1>7 DEF AgentEventTypes

LEMMA MessageAdds ==
    ASSUME NEW u, NEW ev, NEW role, NEW c, NEW kind, u.update \in MessageChunks,
           c.body \in 0..MaxInputs, ev = MessagePayload(role, c, kind),
           Piece(u) = << <<role, kind, c.body>> >>
    PROVE  Adds(u, ev)
<1>1. [BlockFromNormalized(c) EXCEPT !.kind = kind] = [kind |-> kind, body |-> c.body]
    BY DEF BlockFromNormalized
<1>2. ev.name = "session.message" /\ ev.role = role /\ ev.block = [kind |-> kind, body |-> c.body]
    BY <1>1 DEF MessagePayload
<1>3. ev.block.kind = kind /\ ev.block.body = c.body
    BY <1>2
<1>4. EventPiece(ev) = Piece(u)
    BY <1>2, <1>3 DEF EventPiece
<1>5. \A id : EventCall(ev, id) = <<>> /\ StepCall(u, id) = <<>>
    BY <1>2 DEF EventCall, StepCall, IsStep, MessageChunks
<1>6. QED
    BY <1>2, <1>3, <1>4, <1>5 DEF Adds

\* An update that carries no message and no tool call.
LEMMA OtherAdds ==
    ASSUME NEW u, NEW e, u.update \notin MessageChunks \cup {"tool_call", "tool_call_update"},
           e.type \in AgentEventTypes \ {"message", "thought", "tool_call"}
    PROVE  Adds(u, SessionEventOf(e))
<1> DEFINE ev == SessionEventOf(e)
<1>1. ev.name \notin {"session.message", "session.tool_call"}
    BY OtherEvents
<1> HIDE DEF ev
<1>2. EventPiece(ev) = <<>> /\ Piece(u) = <<>>
    BY <1>1 DEF EventPiece, Piece
<1>3. \A id : EventCall(ev, id) = <<>> /\ StepCall(u, id) = <<>>
    BY <1>1 DEF EventCall, StepCall, IsStep
<1>4. QED
    BY <1>1, <1>2, <1>3 DEF Adds, ev

\* normalize_notification and apply_agent_event: what an update adds is in
\* the event it becomes, or it adds nothing and becomes none.
LEMMA UpdateAdds ==
    ASSUME NEW u, WellTyped(u)
    PROVE  \/ NormalizeNotification(u) = <<>> /\ Piece(u) = <<>> /\ \A id : StepCall(u, id) = <<>>
           \/ \E e : NormalizeNotification(u) = <<e>> /\ Adds(u, SessionEventOf(e))
<1> DEFINE Nothing == NormalizeNotification(u) = <<>> /\ Piece(u) = <<>> /\ \A id : StepCall(u, id) = <<>>
           Event(e) == NormalizeNotification(u) = <<e>> /\ Adds(u, SessionEventOf(e))
<1>1. CASE u.update \in MessageChunks
    <2> DEFINE o == ContentFromWire(u.block)
               role == IF u.update = "user_message_chunk" THEN "user" ELSE "assistant"
    <2>1. \A id : StepCall(u, id) = <<>>
        BY <1>1 DEF StepCall, IsStep, MessageChunks
    <2>2. CASE o = <<>>
        <3>1. Piece(u) = <<>>
            BY <1>1, <2>2 DEF Piece, AndThen, None
        <3>2. \A r : ContentEvent(r, u.block) = <<>> /\ ThoughtEvent(u.block) = <<>>
            BY <2>2 DEF ContentEvent, ThoughtEvent, AndThen, None
        <3>3. NormalizeNotification(u) = <<>>
            <4>1. CASE u.update = "user_message_chunk"
                BY <3>2, <4>1 DEF NormalizeNotification, NormalizeUpdate
            <4>2. CASE u.update = "agent_message_chunk"
                BY <3>2, <4>2 DEF NormalizeNotification, NormalizeUpdate
            <4>3. CASE u.update = "agent_thought_chunk"
                BY <3>2, <4>3 DEF NormalizeNotification, NormalizeUpdate
            <4>4. QED
                BY <1>1, <4>1, <4>2, <4>3 DEF MessageChunks
        <3>4. QED
            BY <2>1, <3>1, <3>3
    <2>3. CASE o # <<>>
        <3> DEFINE c == o[1]
        <3>1. c.body \in 0..MaxInputs
            <4>1. u.block.body \in 0..MaxInputs /\ MaxInputs \in Nat
                BY <1>1, TranscriptAssumption DEF WellTyped
            <4>2. o = <<u.block>> \/ o = <<[kind |-> "resource_text", body |-> 0]>>
                BY <2>3 DEF ContentFromWire, ResourceContent, Some, None, NoText
            <4> HIDE DEF o
            <4>3. QED
                BY <4>1, <4>2
        <3>2. \A r : ContentEvent(r, u.block) = <<[type |-> "message", role |-> r, content |-> c]>>
            BY <2>3 DEF ContentEvent, AndThen, Some, None
        <3>3. ThoughtEvent(u.block) = <<[type |-> "thought", content |-> c]>>
            BY <2>3 DEF ThoughtEvent, AndThen, Some, None
        <3>4. CASE u.update \in {"user_message_chunk", "agent_message_chunk"}
            <4> DEFINE e == [type |-> "message", role |-> role, content |-> c]
            <4>1. NormalizeNotification(u) = ContentEvent(role, u.block)
                <5>1. CASE u.update = "user_message_chunk"
                    BY <5>1 DEF NormalizeNotification, NormalizeUpdate
                <5>2. CASE u.update = "agent_message_chunk"
                    BY <5>2 DEF NormalizeNotification, NormalizeUpdate
                <5>3. QED
                    BY <3>4, <5>1, <5>2
            <4>2. NormalizeNotification(u) = <<e>>
                BY <3>2, <4>1
            <4>3. Piece(u) = << <<role, c.kind, c.body>> >>
                BY <1>1, <2>3, <3>4 DEF Piece, AndThen, None
            <4> HIDE DEF c, role
            <4>4. e.type = "message" /\ e.role = role /\ e.content = c
                OBVIOUS
            <4> HIDE DEF e
            <4>5. SessionEventOf(e) = MessagePayload(role, c, c.kind)
                BY <4>4 DEF SessionEventOf
            <4>6. Adds(u, SessionEventOf(e))
                BY <1>1, <3>1, <4>3, <4>5, MessageAdds
            <4>7. QED
                BY <4>2, <4>6
        <3>5. CASE u.update = "agent_thought_chunk"
            <4> DEFINE e == [type |-> "thought", content |-> c]
            <4>1. NormalizeNotification(u) = <<e>>
                BY <3>3, <3>5 DEF NormalizeNotification, NormalizeUpdate
            <4>2. Piece(u) = << <<"assistant", ThoughtKind(c), c.body>> >>
                BY <1>1, <2>3, <3>5 DEF Piece, AndThen, None
            <4> HIDE DEF c
            <4>3. e.type = "thought" /\ e.content = c
                OBVIOUS
            <4> HIDE DEF e
            <4>4. SessionEventOf(e) = MessagePayload("assistant", c, ThoughtKind(c))
                BY <4>3 DEF SessionEventOf
            <4>5. Adds(u, SessionEventOf(e))
                BY <1>1, <3>1, <4>2, <4>4, MessageAdds
            <4>6. QED
                BY <4>1, <4>5
        <3>6. QED
            BY <1>1, <3>4, <3>5 DEF MessageChunks
    <2>4. QED
        BY <2>2, <2>3
<1>2. CASE u.update \in {"tool_call", "tool_call_update"}
    <2> DEFINE c == CallOf(u)
               e == [type |-> "tool_call", call |-> c]
               ev == [name |-> "session.tool_call", call |-> c]
    <2>1. IsCall(c) /\ ToolCallPayload(c) = c
        BY <1>2, CallOfTyped
    <2>2. NormalizeNotification(u) = <<e>>
        <3>1. CASE u.update = "tool_call"
            BY <3>1 DEF NormalizeNotification, NormalizeUpdate, CallOf, Some
        <3>2. CASE u.update = "tool_call_update"
            BY <3>2 DEF NormalizeNotification, NormalizeUpdate, CallOf, Some
        <3>3. QED
            BY <1>2, <3>1, <3>2
    <2>3. \A id : c.id = id <=> IsStep(u, id)
        BY <1>2 DEF CallOf, NormalizeToolCall, NormalizeToolCallUpdate, IsStep
    <2>4. \A id : StepCall(u, id) = IF c.id = id THEN <<c>> ELSE <<>>
        BY <2>3 DEF StepCall
    <2> HIDE DEF c
    <2>5. e.type = "tool_call" /\ e.call = c /\ ev.name = "session.tool_call" /\ ev.call = c
        OBVIOUS
    <2>6. SessionEventOf(e) = ev
        <3> HIDE DEF e
        <3> QED  BY <2>1, <2>5 DEF SessionEventOf
    <2> HIDE DEF e, ev
    <2>7. \A id : EventCall(ev, id) = StepCall(u, id)
        BY <2>4, <2>5 DEF EventCall
    <2>8. EventPiece(ev) = <<>> /\ Piece(u) = <<>>
        BY <1>2, <2>5 DEF EventPiece, Piece, MessageChunks
    <2>9. Adds(u, ev)
        BY <2>1, <2>5, <2>7, <2>8 DEF Adds
    <2>10. QED
        BY <2>2, <2>6, <2>9
<1>3. CASE u.update \notin MessageChunks \cup {"tool_call", "tool_call_update"}
    <2>1. Piece(u) = <<>> /\ \A id : StepCall(u, id) = <<>>
        BY <1>3 DEF Piece, StepCall, IsStep
    <2>2. \/ NormalizeNotification(u) = <<>>
          \/ \E e : /\ NormalizeNotification(u) = <<e>>
                    /\ e.type \in AgentEventTypes \ {"message", "thought", "tool_call"}
        <3>1. \E c : \/ NormalizeNotification(u) = <<>>
                     \/ NormalizeNotification(u) = <<[type |-> "plan", entries |-> c]>>
                     \/ NormalizeNotification(u) = <<[type |-> "commands", commands |-> c]>>
                     \/ NormalizeNotification(u) = <<[type |-> "mode", mode |-> c]>>
                     \/ NormalizeNotification(u) = <<[type |-> "config_options", options |-> c]>>
                     \/ NormalizeNotification(u) = <<[type |-> "info", title |-> c]>>
                     \/ NormalizeNotification(u) = <<[type |-> "usage", usage |-> c]>>
                     \/ NormalizeNotification(u) = <<[type |-> "diagnostics", level |-> c]>>
            <4>1. CASE u.update = "current_mode"
                BY <4>1 DEF NormalizeNotification, NormalizeUpdate, Some
            <4>2. CASE u.update = "config_option"
                BY <4>2 DEF NormalizeNotification, NormalizeUpdate, Some
            <4>3. CASE u.update = "plan"
                BY <4>3 DEF NormalizeNotification, NormalizeUpdate, Some
            <4>4. CASE u.update = "available_commands"
                BY <4>4 DEF NormalizeNotification, NormalizeUpdate, Some
            <4>5. CASE u.update = "usage"
                BY <4>5 DEF NormalizeNotification, NormalizeUpdate, Some
            <4>6. CASE u.update \in {"cancel_request", "other_notification"}
                BY <4>6 DEF NormalizeNotification, Some
            <4>7. CASE u.update = "session_info"
                BY <4>7 DEF NormalizeNotification, NormalizeUpdate, Some
            <4>8. CASE u.update \notin {"current_mode", "config_option", "plan", "available_commands",
                          "usage", "cancel_request", "other_notification", "session_info"}
                BY <1>3, <4>8 DEF NormalizeNotification, NormalizeUpdate, None, MessageChunks
            <4>9. QED
                BY <4>1, <4>2, <4>3, <4>4, <4>5, <4>6, <4>7, <4>8
        <3>2. QED
            BY <3>1 DEF AgentEventTypes
    <2>3. QED
        BY <1>3, <2>1, <2>2, OtherAdds
<1>4. QED
    BY <1>1, <1>2, <1>3

-----------------------------------------------------------------------------
(* What the agent said and the user asked is in the journal and the channel *)

\* The messages of a whole journal, and its calls of one tool.
AllPieces(L) == Pieces(L, 1, Len(L))
AllCalls(L, id) == Calls(L, 1, Len(L), id)

LEMMA AllTyped == \A L : IsSeq(L) => IsSeq(AllPieces(L)) /\ \A id : IsSeq(AllCalls(L, id))
<1> SUFFICES ASSUME NEW L, IsSeq(L) PROVE IsSeq(AllPieces(L)) /\ \A id : IsSeq(AllCalls(L, id))
    OBVIOUS
<1>1. Len(L) \in Nat /\ 1 \in Nat \ {0} /\ 1 <= Len(L) + 1 /\ Len(L) <= Len(L)
    BY SeqFacts
<1>2. Spans(PieceList(L), 1, Len(L)) /\ \A id : Spans(CallList(L, id), 1, Len(L))
    BY <1>1, ListsTyped
<1>3. QED
    BY <1>2, CatTyped DEF AllPieces, AllCalls, Pieces, Calls

LEMMA AllNone == AllPieces(<<>>) = <<>> /\ \A id : AllCalls(<<>>, id) = <<>>
<1>1. Len(<<>>) = 1 - 1
    OBVIOUS
<1>2. \A F : Cat(F, 1, 1 - 1) = <<>>
    BY CatNone
<1>3. QED
    BY <1>1, <1>2 DEF AllPieces, AllCalls, Pieces, Calls

\* An entry at the end of a journal.
LEMMA AllPlus ==
    \A L, e : IsSeq(L) =>
        /\ IsSeq(L \o <<e>>)
        /\ AllPieces(L \o <<e>>) = AllPieces(L) \o EventPiece(e)
        /\ \A id : AllCalls(L \o <<e>>, id) = AllCalls(L, id) \o EventCall(e, id)
<1> SUFFICES ASSUME NEW L, NEW e, IsSeq(L)
             PROVE  /\ IsSeq(L \o <<e>>)
                    /\ AllPieces(L \o <<e>>) = AllPieces(L) \o EventPiece(e)
                    /\ \A id : AllCalls(L \o <<e>>, id) = AllCalls(L, id) \o EventCall(e, id)
    OBVIOUS
<1> DEFINE M == L \o <<e>>
           n == Len(L)
<1>1. /\ IsSeq(M) /\ Len(M) = n + 1 /\ n \in Nat /\ M[n + 1] = e
      /\ \A i \in 1..n : M[i] = L[i]
    BY SeqPlus, SeqConcat, SeqOne
<1> HIDE DEF M
<1>2. Pieces(M, 1, n) = Pieces(L, 1, n) /\ \A id : Calls(M, 1, n, id) = Calls(L, 1, n, id)
    BY <1>1, ListsKept DEF n
<1> HIDE DEF n
<1>3. n + 1 \in Nat /\ n + 1 \in 1..(n + 1) /\ 1 \in Nat \ {0} /\ 1 <= (n + 1) + 1 /\ 1 <= n + 1
    BY <1>1
<1>4. /\ Spans(PieceList(M), 1, n + 1) /\ \A id : Spans(CallList(M, id), 1, n + 1)
      /\ PieceList(M)[n + 1] = EventPiece(e) /\ \A id : CallList(M, id)[n + 1] = EventCall(e, id)
    BY <1>1, <1>3, ListsTyped
<1>5. /\ Cat(PieceList(M), 1, n + 1) = Cat(PieceList(M), 1, n) \o EventPiece(e)
      /\ \A id : Cat(CallList(M, id), 1, n + 1) = Cat(CallList(M, id), 1, n) \o EventCall(e, id)
    <2>1. \A F : Spans(F, 1, n + 1) => Cat(F, 1, n + 1) = Cat(F, 1, n) \o F[n + 1]
        <3>1. n \in Nat /\ 1 <= n + 1
            BY <1>1
        <3>2. QED
            BY <3>1, CatPlus
    <2>2. QED
        BY <1>4, <2>1
<1>6. QED
    BY <1>1, <1>2, <1>5 DEF AllPieces, AllCalls, Pieces, Calls, M, n

\* The first entry of a journal.
LEMMA AllTail ==
    \A L : IsSeq(L) /\ L # <<>> =>
        /\ AllPieces(L) = EventPiece(L[1]) \o AllPieces(Tail(L))
        /\ \A id : AllCalls(L, id) = EventCall(L[1], id) \o AllCalls(Tail(L), id)
<1> SUFFICES ASSUME NEW L, IsSeq(L), L # <<>>
             PROVE  /\ AllPieces(L) = EventPiece(L[1]) \o AllPieces(Tail(L))
                    /\ \A id : AllCalls(L, id) = EventCall(L[1], id) \o AllCalls(Tail(L), id)
    OBVIOUS
<1> DEFINE T == Tail(L)
           n == Len(L)
           k == n - 1
<1>1. n \in Nat /\ n # 0
    BY SeqFacts
<1>2. IsSeq(T) /\ Len(T) = k /\ \A i \in 1..k : T[i] = L[i + 1]
    BY SeqTail
<1> HIDE DEF T, n
<1>3. k \in Nat /\ k + 1 = n /\ 1 \in 1..n /\ 1 <= n /\ 1 <= n + 1 /\ 1 <= 1 + 1 /\ n <= n /\ 1 \in Nat \ {0}
      /\ \A i \in 1..k : i + 1 \in 1..n /\ i \in 1..k
    BY <1>1
<1> HIDE DEF k
<1>4. /\ Spans(PieceList(L), 1, n) /\ \A id : Spans(CallList(L, id), 1, n)
      /\ PieceList(L)[1] = EventPiece(L[1]) /\ \A id : CallList(L, id)[1] = EventCall(L[1], id)
    BY <1>1, <1>3, ListsTyped DEF n
<1>5. /\ \A i \in 1..k : PieceList(T)[i] = PieceList(L)[i + 1]
      /\ \A id : \A i \in 1..k : CallList(T, id)[i] = CallList(L, id)[i + 1]
    <2>1. ASSUME NEW i \in 1..k PROVE /\ PieceList(T)[i] = PieceList(L)[i + 1]
                                      /\ \A id : CallList(T, id)[i] = CallList(L, id)[i + 1]
        <3>1. i + 1 \in 1..Len(L) /\ i \in 1..Len(T) /\ T[i] = L[i + 1]
            BY <1>2, <1>3 DEF n
        <3>2. QED
            BY <1>2, <3>1, ListsTyped
    <2>2. QED
        BY <2>1
<1>6. /\ Cat(PieceList(T), 1, k) = Cat(PieceList(L), 1 + 1, k + 1)
      /\ \A id : Cat(CallList(T, id), 1, k) = Cat(CallList(L, id), 1 + 1, k + 1)
    <2>1. \A F, G : (\A i \in 1..k : F[i] = G[i + 1]) => Cat(F, 1, k) = Cat(G, 1 + 1, k + 1)
        <3>1. k \in Nat /\ 1 \in Nat
            BY <1>3
        <3>2. QED
            BY <3>1, CatShift
    <2>2. QED
        BY <1>5, <2>1
<1>7. /\ Cat(PieceList(L), 1, n) = Cat(PieceList(L), 1, 1) \o Cat(PieceList(L), 1 + 1, n)
      /\ \A id : Cat(CallList(L, id), 1, n) = Cat(CallList(L, id), 1, 1) \o Cat(CallList(L, id), 1 + 1, n)
    <2>1. n \in Nat /\ 1 \in Nat /\ 1 <= 1 + 1 /\ 1 <= n
        BY <1>1, <1>3
    <2>2. QED
        BY <2>1, <1>4, CatSplit
<1>8. /\ Cat(PieceList(L), 1, 1) = EventPiece(L[1])
      /\ \A id : Cat(CallList(L, id), 1, 1) = EventCall(L[1], id)
    BY <1>3, <1>4, CatOne, EventTyped
<1>9. k + 1 = n /\ Len(T) = k
    BY <1>2, <1>3
<1>10. QED
    BY <1>6, <1>7, <1>8, <1>9 DEF AllPieces, AllCalls, Pieces, Calls, n, T

\* The sequence g is the sequence f of sequences with one more.
Grows(f, g, n) ==
    /\ f = [i \in 1..n |-> f[i]] /\ g = [i \in 1..(n + 1) |-> g[i]]
    /\ \A i \in 1..n : g[i] = f[i] /\ IsSeq(f[i])
    /\ IsSeq(g[n + 1])

LEMMA MapGrows ==
    \A f, g : \A n \in Nat :
        Grows(f, g, n) => FlattenSeq(g) = FlattenSeq(f) \o g[n + 1] /\ IsSeq(FlattenSeq(f))
<1> SUFFICES ASSUME NEW f, NEW g, NEW n \in Nat, Grows(f, g, n)
             PROVE  FlattenSeq(g) = FlattenSeq(f) \o g[n + 1] /\ IsSeq(FlattenSeq(f))
    OBVIOUS
<1> DEFINE S == {f[i] : i \in 1..n}
           T == {g[i] : i \in 1..(n + 1)}
<1>1. f \in [1..n -> S] /\ g \in [1..(n + 1) -> T]
    BY DEF Grows
<1> HIDE DEF S, T
<1>2. IsSeq(f) /\ Len(f) = n
    BY <1>1, FcnIsSeq
<1>3. IsSeq(g) /\ Len(g) = n + 1
    <2> DEFINE m == n + 1
    <2>1. m \in Nat /\ g \in [1..m -> T]
        BY <1>1
    <2> HIDE DEF m
    <2>2. IsSeq(g) /\ Len(g) = m
        BY <2>1, FcnIsSeq
    <2>3. QED
        BY <2>2 DEF m
<1>4. IsSeqs(f)
    BY <1>2 DEF IsSeqs, Grows
<1>5. QED
    BY <1>2, <1>3, <1>4, FlattenLast, FlattenTyped DEF Grows

\* The pieces of the two sides of the conversation.
AgentPart(x) == IF x[3] <= MaxInputs THEN <<x>> ELSE <<>>
UserPart(x) == IF x[3] <= MaxInputs THEN <<>> ELSE <<x>>

LEMMA PartsOfBoth ==
    \A p, x : IsSeq(p) =>
        /\ FromAgent(p \o <<x>>) = FromAgent(p) \o AgentPart(x)
        /\ FromUser(p \o <<x>>) = FromUser(p) \o UserPart(x)
        /\ IsSeq(FromAgent(p)) /\ IsSeq(FromUser(p))
<1> SUFFICES ASSUME NEW p, NEW x, IsSeq(p)
             PROVE  /\ FromAgent(p \o <<x>>) = FromAgent(p) \o AgentPart(x)
                    /\ FromUser(p \o <<x>>) = FromUser(p) \o UserPart(x)
                    /\ IsSeq(FromAgent(p)) /\ IsSeq(FromUser(p))
    OBVIOUS
<1> DEFINE q == p \o <<x>>
           n == Len(p)
<1>1. /\ DOMAIN q = 1..(n + 1) /\ DOMAIN p = 1..n /\ n \in Nat
      /\ q[n + 1] = x /\ \A i \in 1..n : q[i] = p[i]
    BY SeqSnoc, SeqFacts
<1> HIDE DEF q, n
<1>2. n + 1 \in 1..(n + 1) /\ \A i \in 1..n : i \in 1..(n + 1)
    BY <1>1
<1>3. \A y : IsSeq(AgentPart(y)) /\ IsSeq(UserPart(y))
    BY SeqOne, SeqNone DEF AgentPart, UserPart
<1>4. FromAgent(q) = FromAgent(p) \o AgentPart(x) /\ IsSeq(FromAgent(p))
    <2> DEFINE f == [i \in 1..n |-> AgentPart(p[i])]
               g == [i \in 1..(n + 1) |-> AgentPart(q[i])]
    <2>1. FromAgent(p) = FlattenSeq(f) /\ FromAgent(q) = FlattenSeq(g)
        BY <1>1 DEF FromAgent, AgentPart
    <2>2. g[n + 1] = AgentPart(x) /\ Grows(f, g, n)
        BY <1>1, <1>2, <1>3 DEF Grows
    <2> HIDE DEF f, g
    <2>3. QED
        BY <1>1, <1>3, <2>1, <2>2, MapGrows, ZenonT(30)
<1>5. FromUser(q) = FromUser(p) \o UserPart(x) /\ IsSeq(FromUser(p))
    <2> DEFINE f == [i \in 1..n |-> UserPart(p[i])]
               g == [i \in 1..(n + 1) |-> UserPart(q[i])]
    <2>1. FromUser(p) = FlattenSeq(f) /\ FromUser(q) = FlattenSeq(g)
        BY <1>1 DEF FromUser, UserPart
    <2>2. g[n + 1] = UserPart(x) /\ Grows(f, g, n)
        BY <1>1, <1>2, <1>3 DEF Grows
    <2> HIDE DEF f, g
    <2>3. QED
        BY <1>1, <1>3, <2>1, <2>2, MapGrows, ZenonT(30)
<1>6. QED
    BY <1>4, <1>5 DEF q

LEMMA PartsNone == FromAgent(<<>>) = <<>> /\ FromUser(<<>>) = <<>>
<1>1. [i \in DOMAIN <<>> |-> AgentPart(<<>>[i])] = <<>> /\ [i \in DOMAIN <<>> |-> UserPart(<<>>[i])] = <<>>
    BY SeqNone
<1>2. FlattenSeq(<<>>) = <<>>
    BY FlattenEmpty
<1>3. QED
    BY <1>1, <1>2 DEF FromAgent, FromUser, AgentPart, UserPart

\* The pieces and the calls of one tool that a list of updates makes.
UpdatePieces(s) == FlattenSeq([i \in DOMAIN s |-> Piece(s[i])])
UpdateCalls(s, id) == FlattenSeq([i \in DOMAIN s |-> StepCall(s[i], id)])
UpdateSteps(s, id) == FlattenSeq([i \in DOMAIN s |-> IF IsStep(s[i], id) THEN <<s[i]>> ELSE <<>>])

LEMMA PieceTyped == \A u, id : IsSeq(Piece(u)) /\ IsSeq(StepCall(u, id))
BY SeqOne, SeqNone DEF Piece, StepCall, AndThen, None

LEMMA UpdatesNone ==
    UpdatePieces(<<>>) = <<>> /\ \A id : UpdateCalls(<<>>, id) = <<>> /\ UpdateSteps(<<>>, id) = <<>>
<1>1. FlattenSeq(<<>>) = <<>>
    BY FlattenEmpty
<1>2. [i \in DOMAIN <<>> |-> Piece(<<>>[i])] = <<>>
    BY SeqNone
<1>3. \A id : [i \in DOMAIN <<>> |-> StepCall(<<>>[i], id)] = <<>>
    BY SeqNone
<1>4. \A id : [i \in DOMAIN <<>> |-> IF IsStep(<<>>[i], id) THEN << <<>>[i] >> ELSE <<>>] = <<>>
    BY SeqNone
<1>5. QED
    BY <1>1, <1>2, <1>3, <1>4 DEF UpdatePieces, UpdateCalls, UpdateSteps

LEMMA PiecesSaid ==
    \A s, x : IsSeq(s) =>
        UpdatePieces(Append(s, x)) = UpdatePieces(s) \o Piece(x) /\ IsSeq(UpdatePieces(s))
<1> SUFFICES ASSUME NEW s, NEW x, IsSeq(s)
             PROVE  UpdatePieces(Append(s, x)) = UpdatePieces(s) \o Piece(x) /\ IsSeq(UpdatePieces(s))
    OBVIOUS
<1> DEFINE q == Append(s, x)
           n == Len(s)
           f == [i \in 1..n |-> Piece(s[i])]
           g == [i \in 1..(n + 1) |-> Piece(q[i])]
<1>1. IsSeq(q) /\ Len(q) = n + 1 /\ n \in Nat /\ q[n + 1] = x /\ \A i \in 1..n : q[i] = s[i]
    BY SeqPlus, ZenonT(30)
<1>2. DOMAIN s = 1..n /\ DOMAIN q = 1..(n + 1)
    BY <1>1, SeqFacts
<1> HIDE DEF q, n
<1>3. n + 1 \in 1..(n + 1) /\ \A i \in 1..n : i \in 1..(n + 1)
    BY <1>1
<1>4. g[n + 1] = Piece(x) /\ Grows(f, g, n)
    BY <1>1, <1>3, PieceTyped DEF Grows
<1>5. UpdatePieces(s) = FlattenSeq(f) /\ UpdatePieces(q) = FlattenSeq(g)
    BY <1>2 DEF UpdatePieces
<1> HIDE DEF f, g
<1>6. UpdatePieces(q) = UpdatePieces(s) \o Piece(x) /\ IsSeq(UpdatePieces(s))
    BY <1>1, <1>4, <1>5, PieceTyped, MapGrows, ZenonT(30)
<1>7. QED
    BY <1>6 DEF q

LEMMA CallsSaid ==
    \A s, x, id : IsSeq(s) =>
        UpdateCalls(Append(s, x), id) = UpdateCalls(s, id) \o StepCall(x, id) /\ IsSeq(UpdateCalls(s, id))
<1> SUFFICES ASSUME NEW s, NEW x, NEW id, IsSeq(s)
             PROVE  /\ UpdateCalls(Append(s, x), id) = UpdateCalls(s, id) \o StepCall(x, id)
                    /\ IsSeq(UpdateCalls(s, id))
    OBVIOUS
<1> DEFINE q == Append(s, x)
           n == Len(s)
           f == [i \in 1..n |-> StepCall(s[i], id)]
           g == [i \in 1..(n + 1) |-> StepCall(q[i], id)]
<1>1. IsSeq(q) /\ Len(q) = n + 1 /\ n \in Nat /\ q[n + 1] = x /\ \A i \in 1..n : q[i] = s[i]
    BY SeqPlus, ZenonT(30)
<1>2. DOMAIN s = 1..n /\ DOMAIN q = 1..(n + 1)
    BY <1>1, SeqFacts
<1> HIDE DEF q, n
<1>3. n + 1 \in 1..(n + 1) /\ \A i \in 1..n : i \in 1..(n + 1)
    BY <1>1
<1>4. g[n + 1] = StepCall(x, id) /\ Grows(f, g, n)
    BY <1>1, <1>3, PieceTyped DEF Grows
<1>5. UpdateCalls(s, id) = FlattenSeq(f) /\ UpdateCalls(q, id) = FlattenSeq(g)
    BY <1>2 DEF UpdateCalls
<1> HIDE DEF f, g
<1>6. UpdateCalls(q, id) = UpdateCalls(s, id) \o StepCall(x, id) /\ IsSeq(UpdateCalls(s, id))
    BY <1>1, <1>4, <1>5, PieceTyped, MapGrows, ZenonT(30)
<1>7. QED
    BY <1>6 DEF q

StepOf(u, id) == IF IsStep(u, id) THEN <<u>> ELSE <<>>

LEMMA StepsSaid ==
    \A s, x, id : IsSeq(s) =>
        UpdateSteps(Append(s, x), id) = UpdateSteps(s, id) \o StepOf(x, id) /\ IsSeq(UpdateSteps(s, id))
<1> SUFFICES ASSUME NEW s, NEW x, NEW id, IsSeq(s)
             PROVE  /\ UpdateSteps(Append(s, x), id) = UpdateSteps(s, id) \o StepOf(x, id)
                    /\ IsSeq(UpdateSteps(s, id))
    OBVIOUS
<1> DEFINE q == Append(s, x)
           n == Len(s)
           f == [i \in 1..n |-> StepOf(s[i], id)]
           g == [i \in 1..(n + 1) |-> StepOf(q[i], id)]
<1>1. IsSeq(q) /\ Len(q) = n + 1 /\ n \in Nat /\ q[n + 1] = x /\ \A i \in 1..n : q[i] = s[i]
    BY SeqPlus, ZenonT(30)
<1>2. DOMAIN s = 1..n /\ DOMAIN q = 1..(n + 1)
    BY <1>1, SeqFacts
<1> HIDE DEF q, n
<1>3. n + 1 \in 1..(n + 1) /\ \A i \in 1..n : i \in 1..(n + 1)
    BY <1>1
<1>0. \A u : IsSeq(StepOf(u, id))
    BY SeqOne, SeqNone DEF StepOf
<1>4. g[n + 1] = StepOf(x, id) /\ Grows(f, g, n)
    BY <1>0, <1>1, <1>3 DEF Grows
<1>5. UpdateSteps(s, id) = FlattenSeq(f) /\ UpdateSteps(q, id) = FlattenSeq(g)
    BY <1>2 DEF UpdateSteps, StepOf
<1> HIDE DEF f, g
<1>6. UpdateSteps(q, id) = UpdateSteps(s, id) \o StepOf(x, id) /\ IsSeq(UpdateSteps(s, id))
    BY <1>0, <1>1, <1>4, <1>5, MapGrows, ZenonT(30)
<1>7. QED
    BY <1>6 DEF q

PromptPieces(a) == [i \in DOMAIN a |-> <<"user", "text", a[i]>>]

\* Journal L and the events C still in the channel hold what the updates s
\* said and the prompts a asked, in order, and nothing else.
Heard(L, C, s, a) ==
    /\ IsLog(L) /\ IsLog(C) /\ IsSeq(s) /\ IsSeq(a)
    /\ \A i \in 1..Len(C) : C[i].name = "session.message" => C[i].block.body \in 0..MaxInputs
    /\ \A i \in 1..Len(s) : WellTyped(s[i])
    /\ FromAgent(AllPieces(L)) \o AllPieces(C) = UpdatePieces(s)
    /\ FromUser(AllPieces(L)) = PromptPieces(a)
    /\ \A id : AllCalls(L, id) \o AllCalls(C, id) = UpdateCalls(s, id)

LEMMA LogPlus ==
    \A L, e : IsLog(L) /\ (e.name = "session.tool_call" => IsCall(e.call)) => IsLog(L \o <<e>>)
<1> SUFFICES ASSUME NEW L, NEW e, IsLog(L), e.name = "session.tool_call" => IsCall(e.call)
             PROVE  IsLog(L \o <<e>>)
    OBVIOUS
<1> DEFINE M == L \o <<e>>
<1>1. /\ IsSeq(M) /\ Len(M) = Len(L) + 1 /\ Len(L) \in Nat
      /\ M[Len(L) + 1] = e /\ \A i \in 1..Len(L) : M[i] = L[i]
    BY SeqConcat, SeqOne, SeqSnoc, SeqFacts DEF IsLog
<1> HIDE DEF M
<1>2. \A i \in 1..Len(M) : i \in 1..Len(L) \/ i = Len(L) + 1
    BY <1>1
<1>3. IsLog(M)
    BY <1>1, <1>2 DEF IsLog
<1>4. QED
    BY <1>3 DEF M

\* An update of the agent, with its event in the channel.
LEMMA HeardSaid ==
    ASSUME NEW L, NEW C, NEW s, NEW a, Heard(L, C, s, a), NEW u, WellTyped(u), NEW ev, Adds(u, ev)
    PROVE  Heard(L, C \o <<ev>>, Append(s, u), a)
<1> DEFINE D == C \o <<ev>>
           t == Append(s, u)
<1>1. IsLog(L) /\ IsLog(C) /\ IsSeq(L) /\ IsSeq(C) /\ IsSeq(s) /\ IsSeq(a)
    BY DEF Heard, IsLog
<1>2. IsLog(D)
    BY <1>1, LogPlus DEF Adds
<1>3. \A i \in 1..Len(D) : D[i].name = "session.message" => D[i].block.body \in 0..MaxInputs
    <2>1. /\ Len(D) = Len(C) + 1 /\ Len(C) \in Nat
          /\ D[Len(C) + 1] = ev /\ \A i \in 1..Len(C) : D[i] = C[i]
        BY <1>1, SeqConcat, SeqOne, SeqSnoc, SeqFacts
    <2> HIDE DEF D
    <2>2. \A i \in 1..Len(D) : i \in 1..Len(C) \/ i = Len(C) + 1
        BY <2>1
    <2>3. QED
        BY <2>1, <2>2 DEF Heard, Adds
<1>4. IsSeq(t) /\ \A i \in 1..Len(t) : WellTyped(t[i])
    <2>1. /\ IsSeq(t) /\ Len(t) = Len(s) + 1 /\ Len(s) \in Nat
          /\ t[Len(s) + 1] = u /\ \A i \in 1..Len(s) : t[i] = s[i]
        BY <1>1, SeqPlus, ZenonT(30)
    <2> HIDE DEF t
    <2>2. \A i \in 1..Len(t) : i \in 1..Len(s) \/ i = Len(s) + 1
        BY <2>1
    <2>3. QED
        BY <2>1, <2>2 DEF Heard
<1>5. FromAgent(AllPieces(L)) \o AllPieces(D) = UpdatePieces(t)
    <2>1. AllPieces(D) = AllPieces(C) \o Piece(u)
        BY <1>1, AllPlus DEF Adds
    <2>2. UpdatePieces(t) = UpdatePieces(s) \o Piece(u)
        BY <1>1, PiecesSaid
    <2>3. IsSeq(FromAgent(AllPieces(L))) /\ IsSeq(AllPieces(C)) /\ IsSeq(Piece(u))
        BY <1>1, AllTyped, PartsOfBoth, PieceTyped
    <2>4. FromAgent(AllPieces(L)) \o AllPieces(C) = UpdatePieces(s)
        BY DEF Heard
    <2> HIDE DEF D, t
    <2>5. (FromAgent(AllPieces(L)) \o AllPieces(C)) \o Piece(u)
            = FromAgent(AllPieces(L)) \o (AllPieces(C) \o Piece(u))
        BY <2>3, ConcatAssociates
    <2>6. QED
        BY <2>1, <2>2, <2>4, <2>5, Zenon
<1>6. ASSUME NEW id PROVE AllCalls(L, id) \o AllCalls(D, id) = UpdateCalls(t, id)
    <2>1. AllCalls(D, id) = AllCalls(C, id) \o StepCall(u, id)
        BY <1>1, AllPlus DEF Adds
    <2>2. UpdateCalls(t, id) = UpdateCalls(s, id) \o StepCall(u, id)
        BY <1>1, CallsSaid
    <2>3. IsSeq(AllCalls(L, id)) /\ IsSeq(AllCalls(C, id)) /\ IsSeq(StepCall(u, id))
        BY <1>1, AllTyped, PieceTyped
    <2>4. AllCalls(L, id) \o AllCalls(C, id) = UpdateCalls(s, id)
        BY DEF Heard
    <2> HIDE DEF D, t
    <2>5. (AllCalls(L, id) \o AllCalls(C, id)) \o StepCall(u, id)
            = AllCalls(L, id) \o (AllCalls(C, id) \o StepCall(u, id))
        BY <2>3, ConcatAssociates
    <2>6. QED
        BY <2>1, <2>2, <2>4, <2>5, Zenon
<1> HIDE DEF D, t
<1>7. FromUser(AllPieces(L)) = PromptPieces(a)
    BY DEF Heard
<1>8. Heard(L, D, t, a)
    BY <1>1, <1>2, <1>3, <1>4, <1>5, <1>6, <1>7 DEF Heard
<1>9. QED
    BY <1>8 DEF D, t

\* An update of the agent that becomes no event.
LEMMA HeardNothing ==
    ASSUME NEW L, NEW C, NEW s, NEW a, Heard(L, C, s, a), NEW u, WellTyped(u),
           Piece(u) = <<>>, \A id : StepCall(u, id) = <<>>
    PROVE  Heard(L, C, Append(s, u), a)
<1> DEFINE t == Append(s, u)
<1>1. IsSeq(s)
    BY DEF Heard
<1>2. IsSeq(t) /\ \A i \in 1..Len(t) : WellTyped(t[i])
    <2>1. /\ IsSeq(t) /\ Len(t) = Len(s) + 1 /\ Len(s) \in Nat
          /\ t[Len(s) + 1] = u /\ \A i \in 1..Len(s) : t[i] = s[i]
        BY <1>1, SeqPlus, ZenonT(30)
    <2> HIDE DEF t
    <2>2. \A i \in 1..Len(t) : i \in 1..Len(s) \/ i = Len(s) + 1
        BY <2>1
    <2>3. QED
        BY <2>1, <2>2 DEF Heard
<1>3. UpdatePieces(t) = UpdatePieces(s) /\ \A id : UpdateCalls(t, id) = UpdateCalls(s, id)
    <2>1. UpdatePieces(t) = UpdatePieces(s) \o <<>> /\ IsSeq(UpdatePieces(s))
        BY <1>1, PiecesSaid
    <2>2. \A id : UpdateCalls(t, id) = UpdateCalls(s, id) \o <<>> /\ IsSeq(UpdateCalls(s, id))
        <3>1. ASSUME NEW id
              PROVE  UpdateCalls(t, id) = UpdateCalls(s, id) \o StepCall(u, id) /\ IsSeq(UpdateCalls(s, id))
            BY <1>1, CallsSaid, Zenon
        <3>2. QED
            BY <3>1
    <2>3. QED
        BY <2>1, <2>2, ConcatNone
<1> HIDE DEF t
<1>4. Heard(L, C, t, a)
    BY <1>2, <1>3 DEF Heard
<1>5. QED
    BY <1>4 DEF t

\* apply_agent_event: the oldest event of the channel goes to the journal.
LEMMA HeardApplied ==
    ASSUME NEW L, NEW C, NEW s, NEW a, Heard(L, C, s, a), C # <<>>
    PROVE  Heard(L \o <<C[1]>>, Tail(C), s, a)
<1> DEFINE M == L \o <<C[1]>>
           D == Tail(C)
           e == C[1]
<1>1. IsLog(L) /\ IsLog(C) /\ IsSeq(L) /\ IsSeq(C)
    BY DEF Heard, IsLog
<1>2. /\ IsSeq(D) /\ Len(D) = Len(C) - 1 /\ Len(C) \in Nat /\ Len(C) # 0
      /\ \A i \in 1..(Len(C) - 1) : D[i] = C[i + 1]
    BY <1>1, SeqTail, SeqFacts
<1>3. /\ \A i \in 1..Len(D) : i + 1 \in 1..Len(C) /\ D[i] = C[i + 1]
      /\ 1 \in 1..Len(C)
    <2> HIDE DEF D
    <2> QED BY <1>2
<1>4. e.name = "session.tool_call" => IsCall(e.call)
    BY <1>1, <1>3 DEF IsLog
<1>5. IsLog(M)
    <2> HIDE DEF e
    <2>1. IsLog(L \o <<e>>)
        BY <1>1, <1>4, LogPlus
    <2>2. QED
        BY <2>1 DEF e
<1>6. IsLog(D)
    <2> HIDE DEF D
    <2> QED BY <1>1, <1>2, <1>3 DEF IsLog
<1>7. \A i \in 1..Len(D) : D[i].name = "session.message" => D[i].block.body \in 0..MaxInputs
    <2> HIDE DEF D
    <2> QED BY <1>3 DEF Heard
<1>8. /\ AllPieces(M) = AllPieces(L) \o EventPiece(e)
      /\ \A id : AllCalls(M, id) = AllCalls(L, id) \o EventCall(e, id)
    BY <1>1, AllPlus
<1>9. /\ AllPieces(C) = EventPiece(e) \o AllPieces(D)
      /\ \A id : AllCalls(C, id) = EventCall(e, id) \o AllCalls(D, id)
    BY <1>1, AllTail
<1>10. /\ IsSeq(AllPieces(L)) /\ IsSeq(AllPieces(D)) /\ IsSeq(FromAgent(AllPieces(L)))
       /\ \A id : IsSeq(AllCalls(L, id)) /\ IsSeq(AllCalls(D, id))
       /\ IsSeq(EventPiece(e)) /\ \A id : IsSeq(EventCall(e, id))
    BY <1>1, <1>2, AllTyped, PartsOfBoth, EventTyped
<1> HIDE DEF M, D
<1>11. /\ FromAgent(AllPieces(M)) = FromAgent(AllPieces(L)) \o EventPiece(e)
       /\ FromUser(AllPieces(M)) = FromUser(AllPieces(L))
    <2>1. CASE e.name = "session.message"
        <3> DEFINE x == <<e.role, e.block.kind, e.block.body>>
        <3>1. EventPiece(e) = <<x>>
            BY <2>1 DEF EventPiece
        <3>2. x[3] = e.block.body /\ e.block.body \in 0..MaxInputs
            BY <1>3, <2>1 DEF Heard
        <3> HIDE DEF x
        <3>3. x[3] <= MaxInputs
            BY <3>2, TranscriptAssumption
        <3>4. AgentPart(x) = <<x>> /\ UserPart(x) = <<>>
            BY <3>3 DEF AgentPart, UserPart
        <3>5. /\ FromAgent(AllPieces(L) \o <<x>>) = FromAgent(AllPieces(L)) \o <<x>>
              /\ FromUser(AllPieces(L) \o <<x>>) = FromUser(AllPieces(L)) \o <<>>
            BY <1>10, <3>4, PartsOfBoth
        <3>6. IsSeq(FromUser(AllPieces(L)))
            BY <1>10, PartsOfBoth
        <3>7. QED
            BY <1>8, <3>1, <3>5, <3>6, ConcatNone
    <2>2. CASE e.name # "session.message"
        <3>1. EventPiece(e) = <<>>
            BY <2>2 DEF EventPiece
        <3>2. QED
            BY <1>8, <1>10, <3>1, ConcatNone
    <2>3. QED
        BY <2>1, <2>2
<1> HIDE DEF e
<1>12. FromAgent(AllPieces(M)) \o AllPieces(D) = UpdatePieces(s)
    <2>1. FromAgent(AllPieces(L)) \o AllPieces(C) = UpdatePieces(s)
        BY DEF Heard
    <2>2. (FromAgent(AllPieces(L)) \o EventPiece(e)) \o AllPieces(D)
            = FromAgent(AllPieces(L)) \o (EventPiece(e) \o AllPieces(D))
        BY <1>10, ConcatAssociates
    <2>3. QED
        BY <2>1, <2>2, <1>9, <1>11, Zenon
<1>13. ASSUME NEW id PROVE AllCalls(M, id) \o AllCalls(D, id) = UpdateCalls(s, id)
    <2>1. AllCalls(L, id) \o AllCalls(C, id) = UpdateCalls(s, id)
        BY DEF Heard
    <2>2. (AllCalls(L, id) \o EventCall(e, id)) \o AllCalls(D, id)
            = AllCalls(L, id) \o (EventCall(e, id) \o AllCalls(D, id))
        BY <1>10, ConcatAssociates, SMTT(30)
    <2>3. AllCalls(M, id) = AllCalls(L, id) \o EventCall(e, id)
        BY <1>8
    <2>4. AllCalls(C, id) = EventCall(e, id) \o AllCalls(D, id)
        BY <1>9
    <2>5. QED
        BY <2>1, <2>2, <2>3, <2>4, Zenon
<1>14. FromUser(AllPieces(M)) = PromptPieces(a) /\ IsSeq(s) /\ IsSeq(a) /\ \A i \in 1..Len(s) : WellTyped(s[i])
    BY <1>11 DEF Heard
<1>15. Heard(M, D, s, a)
    BY <1>5, <1>6, <1>7, <1>12, <1>13, <1>14 DEF Heard
<1>16. QED
    BY <1>15 DEF M, D, e

\* An entry of the journal that is neither a message nor a tool call.
LEMMA HeardOther ==
    ASSUME NEW L, NEW C, NEW s, NEW a, Heard(L, C, s, a), NEW e,
           e.name \notin {"session.message", "session.tool_call"}
    PROVE  Heard(L \o <<e>>, C, s, a)
<1> DEFINE M == L \o <<e>>
<1>1. IsLog(L) /\ IsSeq(L)
    BY DEF Heard, IsLog
<1>2. IsLog(M)
    BY <1>1, LogPlus
<1>3. EventPiece(e) = <<>> /\ \A id : EventCall(e, id) = <<>>
    BY DEF EventPiece, EventCall
<1>4. AllPieces(M) = AllPieces(L) /\ \A id : AllCalls(M, id) = AllCalls(L, id)
    <2>1. AllPieces(M) = AllPieces(L) \o <<>> /\ \A id : AllCalls(M, id) = AllCalls(L, id) \o <<>>
        BY <1>1, <1>3, AllPlus, ZenonT(30)
    <2>2. IsSeq(AllPieces(L)) /\ \A id : IsSeq(AllCalls(L, id))
        BY <1>1, AllTyped
    <2>3. QED
        BY <2>1, <2>2, ConcatNone
<1> HIDE DEF M
<1>5. Heard(M, C, s, a)
    BY <1>2, <1>4 DEF Heard
<1>6. QED
    BY <1>5 DEF M

\* A prompt: its text is not one of the agent's.
LEMMA HeardPrompt ==
    ASSUME NEW L, NEW C, NEW s, NEW a, Heard(L, C, s, a), NEW e, NEW m \in Nat, m > MaxInputs,
           e.name = "session.message", e.role = "user", e.block.kind = "text", e.block.body = m
    PROVE  Heard(L \o <<e>>, C, s, Append(a, m))
<1> DEFINE M == L \o <<e>>
           x == <<"user", "text", m>>
           b == Append(a, m)
<1>1. IsLog(L) /\ IsSeq(L) /\ IsSeq(a)
    BY DEF Heard, IsLog
<1>2. IsLog(M)
    BY <1>1, LogPlus
<1>3. EventPiece(e) = <<x>> /\ \A id : EventCall(e, id) = <<>>
    BY DEF EventPiece, EventCall
<1>4. x[3] = m
    OBVIOUS
<1>5. /\ IsSeq(b) /\ Len(b) = Len(a) + 1 /\ Len(a) \in Nat
      /\ b[Len(a) + 1] = m /\ \A i \in 1..Len(a) : b[i] = a[i]
    <2>1. IsSeq(a)
        BY <1>1
    <2>2. QED
        BY ONLY <2>1, SeqPlus, ZenonT(30) DEF b
<1> HIDE DEF M, b
<1>6. PromptPieces(b) = PromptPieces(a) \o <<x>>
    <2> DEFINE p == PromptPieces(a)
               q == PromptPieces(b)
    <2>1. DOMAIN a = 1..Len(a) /\ DOMAIN b = 1..(Len(a) + 1)
        BY <1>1, <1>5, SeqFacts
    <2>2. p \in [1..Len(a) -> {<<"user", "text", a[i]>> : i \in DOMAIN a}]
        BY <2>1 DEF PromptPieces
    <2>3. q \in [1..(Len(a) + 1) -> {<<"user", "text", b[i]>> : i \in DOMAIN b}]
        BY <2>1 DEF PromptPieces
    <2>4. q[Len(a) + 1] = x /\ \A i \in 1..Len(a) : q[i] = p[i]
        BY <1>5, <2>1 DEF PromptPieces
    <2> HIDE DEF p, q, x
    <2>5. IsSeq(p) /\ Len(p) = Len(a)
        BY <1>5, <2>2, FcnIsSeq
    <2>6. IsSeq(q) /\ Len(q) = Len(a) + 1
        <3> DEFINE n == Len(a) + 1
                   S == {<<"user", "text", b[i]>> : i \in DOMAIN b}
        <3>1. n \in Nat /\ q \in [1..n -> S]
            BY <1>5, <2>3
        <3> HIDE DEF n, S
        <3>2. IsSeq(q) /\ Len(q) = n
            BY <3>1, FcnIsSeq
        <3>3. QED
            BY <3>2 DEF n
    <2>7. /\ IsSeq(p \o <<x>>) /\ Len(p \o <<x>>) = Len(a) + 1
          /\ (p \o <<x>>)[Len(a) + 1] = x /\ \A i \in 1..Len(a) : (p \o <<x>>)[i] = p[i]
        <3>1. IsSeq(<<x>>) /\ Len(<<x>>) = 1
            BY SeqOne, Zenon
        <3>2. Len(p \o <<x>>) = Len(p) + Len(<<x>>)
            BY <2>5, <3>1, SeqConcat, Zenon
        <3>3. /\ IsSeq(p \o <<x>>) /\ (p \o <<x>>)[Len(p) + 1] = x
              /\ \A i \in 1..Len(p) : (p \o <<x>>)[i] = p[i]
            BY <2>5, SeqSnoc
        <3>4. QED
            BY <2>5, <3>1, <3>2, <3>3, Zenon
    <2> DEFINE r == p \o <<x>>
    <2> HIDE DEF r
    <2>8. \A i \in 1..Len(q) : q[i] = r[i]
        <3>1. \A i \in 1..Len(q) : i \in 1..Len(a) \/ i = Len(a) + 1
            BY <1>5, <2>6
        <3>2. QED
            BY <2>4, <2>7, <3>1 DEF r
    <2>9. q = r
        BY <2>6, <2>7, <2>8, SeqSame DEF r
    <2>10. QED
        BY <2>9 DEF r, q, p
<1> HIDE DEF x
<1>7. AgentPart(x) = <<>> /\ UserPart(x) = <<x>>
    <2>1. ~(x[3] <= MaxInputs)
        BY <1>4, TranscriptAssumption
    <2>2. QED
        BY <2>1 DEF AgentPart, UserPart
<1>8. AllPieces(M) = AllPieces(L) \o <<x>> /\ \A id : AllCalls(M, id) = AllCalls(L, id)
    <2>1. /\ AllPieces(M) = AllPieces(L) \o <<x>>
          /\ \A id : AllCalls(M, id) = AllCalls(L, id) \o <<>>
        BY <1>1, <1>3, AllPlus, ZenonT(30) DEF M
    <2>2. \A id : IsSeq(AllCalls(L, id))
        BY <1>1, AllTyped
    <2>3. QED
        BY <2>1, <2>2, ConcatNone
<1>9. IsSeq(AllPieces(L))
    BY <1>1, AllTyped
<1>10. /\ FromAgent(AllPieces(M)) = FromAgent(AllPieces(L)) \o <<>>
       /\ FromUser(AllPieces(M)) = FromUser(AllPieces(L)) \o <<x>>
       /\ IsSeq(FromAgent(AllPieces(L)))
    BY <1>7, <1>8, <1>9, PartsOfBoth
<1>11. FromAgent(AllPieces(M)) = FromAgent(AllPieces(L))
    BY <1>10, ConcatNone
<1>12. FromUser(AllPieces(M)) = PromptPieces(b)
    BY <1>6, <1>10 DEF Heard
<1>13. Heard(M, C, s, b)
    BY <1>2, <1>5, <1>8, <1>11, <1>12 DEF Heard
<1>14. QED
    BY <1>13 DEF M, b

\* The journal entries that a channel will become.
EventsOf(q) == [i \in DOMAIN q |-> SessionEventOf(q[i])]

LEMMA EventsTyped ==
    \A q : IsSeq(q) => /\ IsSeq(EventsOf(q)) /\ Len(EventsOf(q)) = Len(q) /\ Len(q) \in Nat
                       /\ \A i \in 1..Len(q) : EventsOf(q)[i] = SessionEventOf(q[i])
<1> SUFFICES ASSUME NEW q, IsSeq(q)
             PROVE  /\ IsSeq(EventsOf(q)) /\ Len(EventsOf(q)) = Len(q) /\ Len(q) \in Nat
                    /\ \A i \in 1..Len(q) : EventsOf(q)[i] = SessionEventOf(q[i])
    OBVIOUS
<1> DEFINE S == {SessionEventOf(q[i]) : i \in DOMAIN q}
<1>1. Len(q) \in Nat /\ DOMAIN q = 1..Len(q)
    BY SeqFacts
<1>2. EventsOf(q) \in [1..Len(q) -> S]
    BY <1>1 DEF EventsOf
<1>3. \A i \in 1..Len(q) : EventsOf(q)[i] = SessionEventOf(q[i])
    BY <1>1 DEF EventsOf
<1> HIDE DEF S
<1>4. QED
    BY <1>1, <1>2, <1>3, FcnIsSeq

LEMMA EventsPlus ==
    \A q, e : IsSeq(q) => EventsOf(q \o <<e>>) = EventsOf(q) \o <<SessionEventOf(e)>>
<1> SUFFICES ASSUME NEW q, NEW e, IsSeq(q)
             PROVE  EventsOf(q \o <<e>>) = EventsOf(q) \o <<SessionEventOf(e)>>
    OBVIOUS
<1> DEFINE r == q \o <<e>>
           x == SessionEventOf(e)
           E == EventsOf(q)
           F == E \o <<x>>
           n == Len(q)
<1>1. n \in Nat /\ IsSeq(E) /\ Len(E) = n /\ \A i \in 1..n : E[i] = SessionEventOf(q[i])
    BY EventsTyped
<1>2. IsSeq(r) /\ Len(r) = n + 1 /\ r[n + 1] = e /\ \A i \in 1..n : r[i] = q[i]
    BY SeqConcat, SeqOne, SeqSnoc
<1> HIDE DEF r, x, E
<1>3. IsSeq(F) /\ Len(F) = n + 1 /\ F[n + 1] = x /\ \A i \in 1..n : F[i] = E[i]
    BY <1>1, SeqConcat, SeqOne, SeqSnoc
<1> HIDE DEF F, n
<1>4. /\ IsSeq(EventsOf(r)) /\ Len(EventsOf(r)) = n + 1
      /\ \A i \in 1..(n + 1) : EventsOf(r)[i] = SessionEventOf(r[i])
    BY <1>2, EventsTyped
<1>5. \A i \in 1..(n + 1) : EventsOf(r)[i] = F[i]
    <2>1. \A i \in 1..(n + 1) : i \in 1..n \/ i = n + 1
        BY <1>1
    <2>2. QED
        BY <1>1, <1>2, <1>3, <1>4, <2>1 DEF x
<1>6. EventsOf(r) = F
    BY <1>3, <1>4, <1>5, SeqSame
<1>7. QED
    BY <1>6 DEF r, F, E, x

LEMMA EventsTail ==
    \A q : IsSeq(q) /\ q # <<>> =>
        /\ EventsOf(q) # <<>> /\ EventsOf(q)[1] = SessionEventOf(Head(q))
        /\ EventsOf(Tail(q)) = Tail(EventsOf(q))
<1> SUFFICES ASSUME NEW q, IsSeq(q), q # <<>>
             PROVE  /\ EventsOf(q) # <<>> /\ EventsOf(q)[1] = SessionEventOf(Head(q))
                    /\ EventsOf(Tail(q)) = Tail(EventsOf(q))
    OBVIOUS
<1> DEFINE r == Tail(q)
           E == EventsOf(q)
           F == Tail(E)
           n == Len(q)
<1>1. n \in Nat /\ IsSeq(E) /\ Len(E) = n /\ \A i \in 1..n : E[i] = SessionEventOf(q[i])
    BY EventsTyped
<1>2. n # 0 /\ Head(q) = q[1]
    BY SeqFacts
<1>3. IsSeq(r) /\ Len(r) = n - 1 /\ \A i \in 1..(n - 1) : r[i] = q[i + 1]
    BY SeqTail
<1> HIDE DEF r, E, n
<1>4. E # <<>>
    BY <1>1, <1>2, SeqNone
<1>5. IsSeq(F) /\ Len(F) = n - 1 /\ \A i \in 1..(n - 1) : F[i] = E[i + 1]
    BY <1>1, <1>4, SeqTail
<1> HIDE DEF F
<1>6. /\ IsSeq(EventsOf(r)) /\ Len(EventsOf(r)) = n - 1
      /\ \A i \in 1..(n - 1) : EventsOf(r)[i] = SessionEventOf(r[i])
    BY <1>3, EventsTyped
<1>7. \A i \in 1..(n - 1) : EventsOf(r)[i] = F[i]
    <2>1. \A i \in 1..(n - 1) : i + 1 \in 1..n
        BY <1>1
    <2>2. QED
        BY <1>1, <1>3, <1>5, <1>6, <2>1
<1>8. EventsOf(r) = F
    BY <1>5, <1>6, <1>7, SeqSame
<1>9. 1 \in 1..n
    BY <1>1, <1>2
<1>10. QED
    BY <1>1, <1>2, <1>4, <1>8, <1>9 DEF r, F, E

SaidInv == Heard(log, EventsOf(channel), said, asked)

LEMMA SaidInit == Init => SaidInv
<1> SUFFICES ASSUME Init PROVE SaidInv
    OBVIOUS
<1> DEFINE e == Named("session.snapshot")
<1>1. log = <<e>> /\ channel = <<>> /\ said = <<>> /\ asked = <<>>
    BY DEF Init
<1>2. EventsOf(<<>>) = <<>> /\ PromptPieces(<<>>) = <<>>
    BY SeqNone DEF EventsOf, PromptPieces
<1>3. IsLog(<<>>) /\ <<>> \o <<>> = <<>>
    BY SeqNone DEF IsLog
<1>4. Heard(<<>>, <<>>, <<>>, <<>>)
    <2> DEFINE o == <<>>
    <2>1. /\ IsLog(o) /\ IsSeq(o) /\ o \o o = o /\ AllPieces(o) = o /\ FromAgent(o) = o /\ FromUser(o) = o
          /\ UpdatePieces(o) = o /\ PromptPieces(o) = o
        BY <1>2, <1>3, SeqNone, AllNone, PartsNone, UpdatesNone
    <2>2. \A id : AllCalls(o, id) = o /\ UpdateCalls(o, id) = o
        BY AllNone, UpdatesNone
    <2>3. \A i \in 1..Len(o) : FALSE
        OBVIOUS
    <2> HIDE DEF o
    <2>4. Heard(o, o, o, o)
        BY <2>1, <2>2, <2>3 DEF Heard
    <2>5. QED
        BY <2>4 DEF o
<1>5. e.name \notin {"session.message", "session.tool_call"}
    BY DEF Named
<1> HIDE DEF e
<1>6. Heard(<<>> \o <<e>>, <<>>, <<>>, <<>>)
    BY <1>4, <1>5, HeardOther
<1>7. <<>> \o <<e>> = <<e>>
    BY SeqOne, ConcatNone
<1>8. QED
    BY <1>1, <1>2, <1>6, <1>7 DEF SaidInv

LEMMA AgentSaysHeard == TypeInv /\ SaidInv /\ AgentSays => SaidInv'
<1> SUFFICES ASSUME TypeInv, SaidInv, AgentSays PROVE SaidInv'
    OBVIOUS
<1>1. PICK u \in Updates(Len(said) + 1) :
         /\ said' = Append(said, u)
         /\ channel' = channel \o NormalizeNotification(u)
    BY DEF AgentSays
<1>2. WellTyped(u)
    <2>1. Len(said) \in Nat /\ commands \in Nat
        BY SeqFacts DEF TypeInv, HistoryTyped
    <2>2. Len(said) + commands < MaxInputs
        BY DEF AgentSays
    <2>3. Len(said) + 1 \in 1..MaxInputs
        BY <2>1, <2>2, TranscriptAssumption
    <2>4. QED
        BY <2>3, TranscriptAssumption
<1>3. log' = log /\ asked' = asked /\ IsSeq(channel)
    BY DEF AgentSays, TypeInv, HostTyped
<1>4. CASE NormalizeNotification(u) = <<>> /\ Piece(u) = <<>> /\ \A id : StepCall(u, id) = <<>>
    <2>1. channel' = channel
        BY <1>1, <1>3, <1>4, ConcatNone
    <2>2. Heard(log, EventsOf(channel), Append(said, u), asked)
        BY <1>2, <1>4, HeardNothing DEF SaidInv
    <2>3. QED
        BY <1>1, <1>3, <2>1, <2>2 DEF SaidInv
<1>5. ASSUME NEW e, NormalizeNotification(u) = <<e>>, Adds(u, SessionEventOf(e))
      PROVE  SaidInv'
    <2>1. channel' = channel \o <<e>>
        BY <1>1, <1>5
    <2>2. EventsOf(channel') = EventsOf(channel) \o <<SessionEventOf(e)>>
        BY <1>3, <2>1, EventsPlus
    <2>3. Heard(log, EventsOf(channel) \o <<SessionEventOf(e)>>, Append(said, u), asked)
        BY <1>2, <1>5, HeardSaid DEF SaidInv
    <2>4. Heard(log', EventsOf(channel'), said', asked')
        BY <1>1, <1>3, <2>2, <2>3
    <2>5. QED
        BY <2>4 DEF SaidInv
<1>6. QED
    BY <1>2, <1>4, <1>5, UpdateAdds

LEMMA ApplyHeard == TypeInv /\ SaidInv /\ ApplyAgentEvent => SaidInv'
<1> SUFFICES ASSUME TypeInv, SaidInv, ApplyAgentEvent PROVE SaidInv'
    OBVIOUS
<1> DEFINE C == EventsOf(channel)
<1>1. /\ channel # <<>> /\ channel' = Tail(channel) /\ said' = said /\ asked' = asked
      /\ log' = log \o <<SessionEventOf(Head(channel))>> /\ IsSeq(channel)
    BY DEF ApplyAgentEvent, AppendAll, TypeInv, HostTyped, history
<1>2. C # <<>> /\ C[1] = SessionEventOf(Head(channel)) /\ EventsOf(channel') = Tail(C)
    BY <1>1, EventsTail
<1> HIDE DEF C
<1>3. Heard(log \o <<C[1]>>, Tail(C), said, asked)
    BY <1>2, HeardApplied DEF SaidInv, C
<1>4. Heard(log', EventsOf(channel'), said', asked')
    BY <1>1, <1>2, <1>3
<1>5. QED
    BY <1>4 DEF SaidInv

LEMMA PairIs == \A e, d : <<e>> \o <<d>> = <<e, d>>
<1> SUFFICES ASSUME NEW e, NEW d PROVE <<e>> \o <<d>> = <<e, d>>
    OBVIOUS
<1> DEFINE s == <<e>> \o <<d>>
           t == <<e, d>>
<1>1. IsSeq(s) /\ Len(s) = 2 /\ s[1] = e /\ s[1 + 1] = d
    <2>1. IsSeq(<<e>>) /\ Len(<<e>>) = 1 /\ IsSeq(<<d>>) /\ Len(<<d>>) = 1 /\ <<e>>[1] = e
        BY SeqOne
    <2>2. /\ IsSeq(s) /\ Len(s) = Len(<<e>>) + Len(<<d>>)
          /\ \A i \in 1..Len(<<e>>) : s[i] = <<e>>[i]
        BY <2>1, SeqConcat
    <2>3. s[Len(<<e>>) + 1] = d
        BY <2>1, SeqSnoc
    <2> HIDE DEF s
    <2>4. 1 \in 1..Len(<<e>>)
        BY <2>1
    <2>5. QED
        BY <2>1, <2>2, <2>3, <2>4
<1>2. IsSeq(t) /\ Len(t) = 2 /\ t[1] = e /\ t[2] = d
    BY SeqTwo
<1> HIDE DEF s, t
<1>3. \A i \in 1..Len(s) : s[i] = t[i]
    BY <1>1, <1>2
<1>4. s = t
    BY <1>1, <1>2, <1>3, SeqSame
<1>5. QED
    BY <1>4 DEF s, t

LEMMA CommandsHeard == TypeInv /\ SaidInv /\ Commands => SaidInv'
<1> SUFFICES ASSUME TypeInv, SaidInv, Commands PROVE SaidInv'
    OBVIOUS
<1>1. ASSUME NEW e, e.name \notin {"session.message", "session.tool_call"}, log' = log \o <<e>>,
             UNCHANGED <<channel, said, asked>>
      PROVE  SaidInv'
    <2>1. Heard(log \o <<e>>, EventsOf(channel), said, asked)
        BY <1>1, HeardOther DEF SaidInv
    <2>2. Heard(log', EventsOf(channel'), said', asked')
        BY <1>1, <2>1
    <2>3. QED
        BY <2>2 DEF SaidInv
<1>2. ASSUME NEW m \in Modes, SetMode(m) PROVE SaidInv'
    <2> DEFINE e == [name |-> "session.mode", mode |-> m]
    <2>1. log' = log \o <<e>> /\ UNCHANGED <<channel, said, asked>> /\ e.name = "session.mode"
        BY <1>2 DEF SetMode, Command, AppendAll
    <2> HIDE DEF e
    <2>2. QED
        BY <1>1, <2>1
<1>3. ASSUME NEW options \in Configs, SetConfigOption(options) PROVE SaidInv'
    <2> DEFINE e == [name |-> "session.config_options", options |-> Normal(options)]
    <2>1. log' = log \o <<e>> /\ UNCHANGED <<channel, said, asked>> /\ e.name = "session.config_options"
        BY <1>3 DEF SetConfigOption, Command, AppendAll, Normal
    <2> HIDE DEF e
    <2>2. QED
        BY <1>1, <2>1
<1>4. ASSUME NEW title \in Titles, Rename(title) PROVE SaidInv'
    <2> DEFINE e == Named("session.snapshot")
    <2>1. log' = log \o <<e>> /\ UNCHANGED <<channel, said, asked>> /\ e.name = "session.snapshot"
        BY <1>4 DEF Rename, Command, AppendAll, Named
    <2> HIDE DEF e
    <2>2. QED
        BY <1>1, <2>1
<1>5. CASE SendPrompt
    <2> DEFINE m == MaxInputs + Len(asked) + 1
               e == [name |-> "session.message", role |-> "user", text |-> m,
                     block |-> [kind |-> "text", body |-> m]]
               d == Named("session.status")
               L == log \o <<e>>
    <2>1. /\ log' = log \o <<e, d>> /\ asked' = Append(asked, m) /\ UNCHANGED <<channel, said>>
          /\ e.name = "session.message" /\ e.role = "user" /\ e.block.kind = "text" /\ e.block.body = m
          /\ d.name = "session.status"
        BY <1>5 DEF SendPrompt, Command, AppendAll, Named
    <2>2. m \in Nat /\ m > MaxInputs
        <3>1. Len(asked) \in Nat
            BY SeqFacts DEF SaidInv, Heard
        <3>2. QED
            BY <3>1, TranscriptAssumption
    <2> HIDE DEF m, e, d
    <2>3. log \o <<e, d>> = L \o <<d>>
        <3>1. IsSeq(log)
            BY DEF TypeInv, HostTyped
        <3>2. (log \o <<e>>) \o <<d>> = log \o (<<e>> \o <<d>>)
            BY <3>1, SeqOne, ConcatAssociates
        <3>3. <<e>> \o <<d>> = <<e, d>>
            BY PairIs
        <3>4. QED
            BY <3>2, <3>3
    <2>4. Heard(L, EventsOf(channel), said, Append(asked, m))
        BY <2>1, <2>2, HeardPrompt DEF SaidInv
    <2> HIDE DEF L
    <2>5. Heard(L \o <<d>>, EventsOf(channel), said, Append(asked, m))
        BY <2>1, <2>4, HeardOther
    <2>6. Heard(log', EventsOf(channel'), said', asked')
        BY <2>1, <2>3, <2>5
    <2>7. QED
        BY <2>6 DEF SaidInv
<1>6. QED
    BY <1>2, <1>3, <1>4, <1>5 DEF Commands

LEMMA SaidInvStep == TypeInv /\ SaidInv /\ [Next]_vars => SaidInv'
<1> SUFFICES ASSUME TypeInv, SaidInv, [Next]_vars PROVE SaidInv'
    OBVIOUS
<1>1. CASE Serve \/ View \/ UNCHANGED vars
    <2>1. UNCHANGED <<log, channel, said, asked>>
        BY <1>1 DEF Serve, View, ServeAttach, ServeHistory, ServeOlder, ServeInspect, HandleEvent,
                    HandleReplayCompleted, HandleTranscriptReset, LoadSnapshot, ResumeAttach,
                    ResumeHistory, ResumeInspect, LoadFails, LoadOlder, ResumeOlder, vars, history,
                    hostVars
    <2>2. QED
        BY <2>1 DEF SaidInv
<1>2. QED
    BY <1>1, AgentSaysHeard, ApplyHeard, CommandsHeard DEF Next

LEMMA SaidInvAlways == Spec => []SaidInv
BY TypeInvAlways, SaidInit, SaidInvStep, PTL DEF Spec

-----------------------------------------------------------------------------
(* What waits in the inbox *)

IsEvent(r) == r.kind = "event"
Unread(q) == {q[i].seq : i \in {j \in DOMAIN q : IsEvent(q[j])}}

\* The events in q are those after top, up to n, in order.
Waiting(q, top, n) ==
    /\ IsSeq(q) /\ n \in Nat /\ top \in 0..n
    /\ Unread(q) = (top + 1)..n
    /\ \A i, j \in 1..Len(q) : i < j /\ IsEvent(q[i]) /\ IsEvent(q[j]) => q[i].seq < q[j].seq

LEMMA WaitingNone == \A n \in Nat : Waiting(<<>>, n, n)
<1> SUFFICES ASSUME NEW n \in Nat PROVE Waiting(<<>>, n, n)
    OBVIOUS
<1>1. Unread(<<>>) = {}
    BY SeqNone DEF Unread
<1>2. (n + 1)..n = {} /\ n \in 0..n
    OBVIOUS
<1>3. \A i \in 1..Len(<<>>) : FALSE
    OBVIOUS
<1>4. QED
    BY <1>1, <1>2, <1>3, SeqNone DEF Waiting

LEMMA WaitingDone == \A top, n : Waiting(<<>>, top, n) => top = n /\ n \in Nat
<1> SUFFICES ASSUME NEW top, NEW n, Waiting(<<>>, top, n) PROVE top = n /\ n \in Nat
    OBVIOUS
<1>1. Unread(<<>>) = {}
    BY SeqNone DEF Unread
<1>2. n \in Nat /\ top \in 0..n /\ (top + 1)..n = {}
    BY <1>1 DEF Waiting
<1>3. QED
    BY <1>2

\* What is added at the end of the inbox.
LEMMA WaitingAdded ==
    \A q, r, top, n : Waiting(q, top, n) =>
        /\ ~IsEvent(r) => Waiting(q \o <<r>>, top, n)
        /\ IsEvent(r) /\ r.seq = n + 1 => Waiting(q \o <<r>>, top, n + 1)
<1> SUFFICES ASSUME NEW q, NEW r, NEW top, NEW n, Waiting(q, top, n)
             PROVE  /\ ~IsEvent(r) => Waiting(q \o <<r>>, top, n)
                    /\ IsEvent(r) /\ r.seq = n + 1 => Waiting(q \o <<r>>, top, n + 1)
    OBVIOUS
<1> DEFINE s == q \o <<r>>
           k == Len(q)
<1>1. IsSeq(q) /\ k \in Nat /\ DOMAIN q = 1..k /\ n \in Nat /\ top \in 0..n
    BY SeqFacts DEF Waiting
<1>2. IsSeq(s) /\ DOMAIN s = 1..(k + 1) /\ Len(s) = k + 1 /\ s[k + 1] = r /\ \A i \in 1..k : s[i] = q[i]
    BY <1>1, SeqSnoc, SeqConcat, SeqOne
<1>3. Unread(q) = (top + 1)..n
    BY DEF Waiting
<1>4. \A i, j \in 1..k : i < j /\ IsEvent(q[i]) /\ IsEvent(q[j]) => q[i].seq < q[j].seq
    BY DEF Waiting
<1> HIDE DEF s, k
<1>5. /\ \A i \in 1..(k + 1) : i \in 1..k \/ i = k + 1
      /\ k + 1 \in 1..(k + 1) /\ \A i \in 1..k : i \in 1..(k + 1)
    BY <1>1
<1>6. ASSUME ~IsEvent(r) PROVE Waiting(s, top, n)
    <2>1. Unread(s) = Unread(q)
        BY <1>1, <1>2, <1>5, <1>6 DEF Unread
    <2>2. ASSUME NEW i \in 1..(k + 1), NEW j \in 1..(k + 1), i < j, IsEvent(s[i]), IsEvent(s[j])
          PROVE  s[i].seq < s[j].seq
        <3>1. i \in 1..k /\ j \in 1..k
            BY <1>2, <1>5, <1>6, <2>2
        <3>2. QED
            BY <1>2, <1>4, <2>2, <3>1
    <2>3. QED
        BY <1>1, <1>2, <1>3, <2>1, <2>2 DEF Waiting
<1>7. ASSUME IsEvent(r), r.seq = n + 1 PROVE Waiting(s, top, n + 1)
    <2>1. Unread(s) = Unread(q) \cup {n + 1}
        BY <1>1, <1>2, <1>5, <1>7 DEF Unread
    <2>2. (top + 1)..(n + 1) = ((top + 1)..n) \cup {n + 1} /\ n + 1 \in Nat /\ top \in 0..(n + 1)
        BY <1>1
    <2>3. ASSUME NEW i \in 1..(k + 1), NEW j \in 1..(k + 1), i < j, IsEvent(s[i]), IsEvent(s[j])
          PROVE  s[i].seq < s[j].seq
        <3>1. i \in 1..k
            BY <1>1, <2>3
        <3>2. CASE j \in 1..k
            BY <1>2, <1>4, <2>3, <3>1, <3>2
        <3>3. CASE j = k + 1
            <4>1. s[i] = q[i] /\ IsEvent(q[i]) /\ s[j].seq = n + 1
                BY <1>2, <1>7, <2>3, <3>1, <3>3
            <4>2. q[i].seq \in Unread(q)
                BY <1>1, <3>1, <4>1 DEF Unread
            <4>3. s[i].seq \in (top + 1)..n
                BY <1>3, <4>1, <4>2
            <4>4. QED
                BY <1>1, <4>1, <4>3
        <3>4. QED
            BY <1>5, <3>2, <3>3
    <2>4. Unread(s) = (top + 1)..(n + 1)
        BY <1>3, <2>1, <2>2
    <2>5. QED
        BY <1>2, <2>2, <2>3, <2>4 DEF Waiting
<1>8. QED
    BY <1>6, <1>7 DEF s

\* What is taken from the head of the inbox.
LEMMA WaitingTaken ==
    \A q, top, n : Waiting(q, top, n) /\ q # <<>> =>
        /\ ~IsEvent(q[1]) => Waiting(Tail(q), top, n)
        /\ IsEvent(q[1]) => q[1].seq = top + 1 /\ top + 1 <= n /\ Waiting(Tail(q), top + 1, n)
<1> SUFFICES ASSUME NEW q, NEW top, NEW n, Waiting(q, top, n), q # <<>>
             PROVE  /\ ~IsEvent(q[1]) => Waiting(Tail(q), top, n)
                    /\ IsEvent(q[1]) => q[1].seq = top + 1 /\ top + 1 <= n /\ Waiting(Tail(q), top + 1, n)
    OBVIOUS
<1> DEFINE s == Tail(q)
           k == Len(q)
<1>1. IsSeq(q) /\ k \in Nat /\ k # 0 /\ DOMAIN q = 1..k /\ n \in Nat /\ top \in 0..n
    BY SeqFacts DEF Waiting
<1>2. IsSeq(s) /\ DOMAIN s = 1..(k - 1) /\ Len(s) = k - 1 /\ \A i \in 1..(k - 1) : s[i] = q[i + 1]
    BY <1>1, SeqTail
<1>3. Unread(q) = (top + 1)..n
    BY DEF Waiting
<1>4. \A i, j \in 1..k : i < j /\ IsEvent(q[i]) /\ IsEvent(q[j]) => q[i].seq < q[j].seq
    BY DEF Waiting
<1> HIDE DEF s, k
<1>5. \A i, j \in 1..(k - 1) : i < j /\ IsEvent(s[i]) /\ IsEvent(s[j]) => s[i].seq < s[j].seq
    <2>1. ASSUME NEW i \in 1..(k - 1), NEW j \in 1..(k - 1), i < j, IsEvent(s[i]), IsEvent(s[j])
          PROVE  s[i].seq < s[j].seq
        <3>1. i + 1 \in 1..k /\ j + 1 \in 1..k /\ i + 1 < j + 1
            BY <1>1, <2>1
        <3>2. QED
            BY <1>2, <1>4, <2>1, <3>1
    <2>2. QED
        BY <2>1
<1>6. ASSUME NEW x PROVE x \in Unread(q) <=> (IsEvent(q[1]) /\ x = q[1].seq) \/ x \in Unread(s)
    <2>1. /\ 1 \in 1..k /\ \A i \in 1..(k - 1) : i + 1 \in 1..k
          /\ \A i \in 1..k : i = 1 \/ (i - 1 \in 1..(k - 1) /\ (i - 1) + 1 = i)
        BY <1>1
    <2>2. ASSUME x \in Unread(q) PROVE (IsEvent(q[1]) /\ x = q[1].seq) \/ x \in Unread(s)
        <3>1. PICK i \in 1..k : IsEvent(q[i]) /\ x = q[i].seq
            BY <1>1, <2>2 DEF Unread
        <3>2. CASE i = 1
            BY <3>1, <3>2
        <3>3. CASE i # 1
            <4>1. i - 1 \in 1..(k - 1) /\ q[i] = s[i - 1]
                BY <1>2, <2>1, <3>3
            <4>2. QED
                BY <1>2, <3>1, <4>1 DEF Unread
        <3>4. QED
            BY <3>2, <3>3
    <2>3. ASSUME IsEvent(q[1]), x = q[1].seq PROVE x \in Unread(q)
        BY <1>1, <2>1, <2>3 DEF Unread
    <2>4. ASSUME x \in Unread(s) PROVE x \in Unread(q)
        <3>1. PICK i \in 1..(k - 1) : IsEvent(s[i]) /\ x = s[i].seq
            BY <1>2, <2>4 DEF Unread
        <3>2. i + 1 \in 1..k /\ s[i] = q[i + 1]
            BY <1>2, <2>1
        <3>3. QED
            BY <1>1, <3>1, <3>2 DEF Unread
    <2>5. QED
        BY <2>2, <2>3, <2>4
<1>7. ASSUME ~IsEvent(q[1]) PROVE Waiting(s, top, n)
    <2>1. Unread(s) = Unread(q)
        BY <1>6, <1>7
    <2>2. QED
        BY <1>1, <1>2, <1>3, <1>5, <2>1 DEF Waiting
<1>8. ASSUME IsEvent(q[1])
      PROVE  q[1].seq = top + 1 /\ top + 1 <= n /\ Waiting(s, top + 1, n)
    <2> DEFINE m == q[1].seq
    <2>1. m \in (top + 1)..n
        BY <1>3, <1>6, <1>8
    <2>2. \A x \in Unread(s) : m < x
        <3>1. ASSUME NEW x \in Unread(s) PROVE m < x
            <4>1. PICK i \in 1..(k - 1) : IsEvent(s[i]) /\ x = s[i].seq
                BY <1>2, <3>1 DEF Unread
            <4>2. i + 1 \in 1..k /\ 1 \in 1..k /\ 1 < i + 1 /\ s[i] = q[i + 1]
                BY <1>1, <1>2
            <4>3. QED
                BY <1>4, <1>8, <4>1, <4>2
        <3>2. QED
            BY <3>1
    <2>3. \A x : x \in (top + 1)..n <=> x = m \/ x \in Unread(s)
        BY <1>3, <1>6, <1>8
    <2> HIDE DEF m
    <2>4. m = top + 1
        <3>1. top + 1 \in (top + 1)..n
            BY <1>1, <2>1
        <3>2. top + 1 = m \/ m < top + 1
            BY <2>2, <2>3, <3>1
        <3>3. QED
            BY <1>1, <2>1, <3>2
    <2>5. Unread(s) = ((top + 1) + 1)..n
        <3>1. ASSUME NEW x \in Unread(s) PROVE x \in ((top + 1) + 1)..n
            <4>1. x \in (top + 1)..n /\ m < x
                BY <2>2, <2>3
            <4>2. QED
                BY <1>1, <2>4, <4>1
        <3>2. ASSUME NEW x \in ((top + 1) + 1)..n PROVE x \in Unread(s)
            <4>1. x \in (top + 1)..n /\ x # m
                BY <1>1, <2>4
            <4>2. QED
                BY <2>3, <4>1
        <3>3. QED
            BY <3>1, <3>2
    <2>6. top + 1 <= n /\ top + 1 \in 0..n
        BY <1>1, <2>1
    <2>7. QED
        BY <1>1, <1>2, <1>5, <2>4, <2>5, <2>6 DEF Waiting, m
<1>9. QED
    BY <1>7, <1>8 DEF s

\* A note to reset the transcript.
HasReset(q) == \E i \in 1..Len(q) : q[i].kind = "reset"
OneReset(q) == \A i, j \in 1..Len(q) : q[i].kind = "reset" /\ q[j].kind = "reset" => i = j

LEMMA ResetAdded ==
    \A q, r : IsSeq(q) /\ OneReset(q) =>
        /\ r.kind # "reset" => OneReset(q \o <<r>>) /\ (HasReset(q \o <<r>>) <=> HasReset(q))
        /\ ~HasReset(q) => OneReset(q \o <<r>>)
<1> SUFFICES ASSUME NEW q, NEW r, IsSeq(q), OneReset(q)
             PROVE  /\ r.kind # "reset" => OneReset(q \o <<r>>) /\ (HasReset(q \o <<r>>) <=> HasReset(q))
                    /\ ~HasReset(q) => OneReset(q \o <<r>>)
    OBVIOUS
<1> DEFINE s == q \o <<r>>
           k == Len(q)
<1>1. k \in Nat /\ IsSeq(s) /\ Len(s) = k + 1 /\ s[k + 1] = r /\ \A i \in 1..k : s[i] = q[i]
    BY SeqFacts, SeqSnoc, SeqConcat, SeqOne
<1>2. /\ OneReset(q) <=> \A i, j \in 1..k : q[i].kind = "reset" /\ q[j].kind = "reset" => i = j
      /\ HasReset(q) <=> \E i \in 1..k : q[i].kind = "reset"
    BY DEF OneReset, HasReset
<1> HIDE DEF s, k
<1>3. /\ \A i \in 1..(k + 1) : i \in 1..k \/ i = k + 1
      /\ k + 1 \in 1..(k + 1) /\ \A i \in 1..k : i \in 1..(k + 1)
    BY <1>1
<1>4. r.kind # "reset" => OneReset(s) /\ (HasReset(s) <=> HasReset(q))
    BY <1>1, <1>2, <1>3 DEF OneReset, HasReset
<1>5. ~HasReset(q) => OneReset(s)
    BY <1>1, <1>2, <1>3 DEF OneReset, HasReset
<1>6. QED
    BY <1>4, <1>5 DEF s

LEMMA ResetTaken ==
    \A q : IsSeq(q) /\ q # <<>> /\ OneReset(q) =>
        /\ OneReset(Tail(q))
        /\ HasReset(Tail(q)) => HasReset(q)
        /\ q[1].kind = "reset" => HasReset(q) /\ ~HasReset(Tail(q))
<1> SUFFICES ASSUME NEW q, IsSeq(q), q # <<>>, OneReset(q)
             PROVE  /\ OneReset(Tail(q))
                    /\ HasReset(Tail(q)) => HasReset(q)
                    /\ q[1].kind = "reset" => HasReset(q) /\ ~HasReset(Tail(q))
    OBVIOUS
<1> DEFINE s == Tail(q)
           k == Len(q)
<1>1. k \in Nat /\ k # 0 /\ Len(s) = k - 1 /\ \A i \in 1..(k - 1) : s[i] = q[i + 1]
    BY SeqFacts, SeqTail
<1>2. /\ \A i, j \in 1..k : q[i].kind = "reset" /\ q[j].kind = "reset" => i = j
      /\ HasReset(q) <=> \E i \in 1..k : q[i].kind = "reset"
    BY DEF OneReset, HasReset
<1> HIDE DEF s, k
<1>3. 1 \in 1..k /\ \A i \in 1..(k - 1) : i + 1 \in 1..k /\ i + 1 # 1
    BY <1>1
<1>4. OneReset(s)
    <2>1. ASSUME NEW i \in 1..(k - 1), NEW j \in 1..(k - 1), s[i].kind = "reset", s[j].kind = "reset"
          PROVE  i = j
        <3>1. i + 1 = j + 1
            BY <1>1, <1>2, <1>3, <2>1, ZenonT(30)
        <3>2. QED
            BY <3>1
    <2>2. QED
        BY <1>1, <2>1 DEF OneReset
<1>5. HasReset(s) => HasReset(q)
    BY <1>1, <1>2, <1>3 DEF HasReset
<1>6. q[1].kind = "reset" => HasReset(q) /\ ~HasReset(s)
    BY <1>1, <1>2, <1>3, SMTT(30) DEF HasReset
<1>7. QED
    BY <1>4, <1>5, <1>6 DEF s

-----------------------------------------------------------------------------
(* What the view holds *)

\* An answer of session.history with the events start to b.
Paged(c, start, b) == c.events = start..b /\ c.more = (start > 1)

\* The transcript stands for the events lo to hi, and an older page on its way
\* ends just before lo.
Holds(lo, hi) ==
    /\ loaded = lo..hi /\ seen = lo..hi
    /\ hasOlder = (lo > 1)
    /\ olderCall.op = "history" => olderCall.before = lo /\ lo > 1
    /\ olderCall.op = "page" => \E start \in 1..(lo - 1) : Paged(olderCall, start, lo - 1)
    /\ Represents(log, transcript, lo, hi)

\* The view when the events up to top were handled and none met a load.
Shown(top) ==
    /\ stage = "idle" /\ attachedOnce => \E lo \in 1..top : Holds(lo, top)
    /\ call.op = "attached" => top <= call.latest /\ call.latest \in 1..Len(log)
    /\ stage = "history" => olderCall = NoCall /\ seen = {}
    /\ call.op = "history" => top < call.before /\ call.before \in 2..(Len(log) + 1)
    /\ call.op = "page" =>
          \E start, b \in 1..Len(log) : start <= b /\ top <= b /\ Paged(call, start, b)
    /\ stage = "inspect" =>
          \E lo, hi \in 1..Len(log) : lo <= hi /\ top <= hi /\ Holds(lo, hi)
    /\ HasReset(inbox) => stage = "attach" \/ ignoreReset = TRUE

ShownInv ==
    /\ attachedOnce <=> subscribed
    /\ Len(log) >= 1
    /\ OneReset(inbox)
    /\ \E top : Waiting(inbox, top, Len(log)) /\ (disturbed = {} => Shown(top))

\* history: a page ends just before the sequence number and is not empty.
LEMMA PageIs ==
    \A before \in Nat : before > 1 =>
        /\ Page(before).op = "page"
        /\ \E start \in 1..(before - 1) : Paged(Page(before), start, before - 1)
<1> SUFFICES ASSUME NEW before \in Nat, before > 1
             PROVE  /\ Page(before).op = "page"
                    /\ \E start \in 1..(before - 1) : Paged(Page(before), start, before - 1)
    OBVIOUS
<1> DEFINE T == {1, before - PageLimit}
           start == Max(T)
<1>1. start \in T /\ start >= 1
    <2>1. \E x \in T : \A y \in T : x >= y
        BY TranscriptAssumption
    <2>2. Max(T) \in T /\ \A y \in T : Max(T) >= y
        <3> HIDE DEF T
        <3>1. QED
            BY <2>1, Zenon DEF Max
    <2>3. QED
        BY <2>2
<1>2. Page(before) = [op |-> "page", events |-> start..(before - 1), more |-> start > 1]
    BY DEF Page
<1> HIDE DEF start
<1>3. start \in 1..(before - 1)
    BY <1>1, TranscriptAssumption
<1>4. Paged(Page(before), start, before - 1)
    BY <1>2 DEF Paged
<1>5. Page(before).op = "page"
    BY <1>2
<1>6. QED
    BY <1>3, <1>4, <1>5

LEMMA HoldsKept ==
    ASSUME NEW lo \in Nat \ {0}, NEW hi \in Nat, hi <= Len(log), Holds(lo, hi),
           IsSeq(log), IsSeq(log'), Len(log) <= Len(log'), \A i \in 1..Len(log) : log'[i] = log[i],
           UNCHANGED <<loaded, seen, hasOlder, olderCall, transcript>>
    PROVE  Holds(lo, hi)'
<1>1. Represents(log', transcript, lo, hi)
    BY RepresentsKept DEF Holds
<1>2. QED
    BY <1>1 DEF Holds

\* A step that leaves the view and its tasks alone.
LEMMA ShownKept ==
    ASSUME NEW top \in Nat, top <= Len(log), Shown(top),
           IsSeq(log), IsSeq(log'), Len(log) <= Len(log'), \A i \in 1..Len(log) : log'[i] = log[i],
           UNCHANGED <<stage, call, attachedOnce, loaded, seen, hasOlder, olderCall, transcript>>,
           HasReset(inbox') => HasReset(inbox) /\ ignoreReset' = ignoreReset
    PROVE  Shown(top)'
<1>1. Len(log) \in Nat /\ Len(log') \in Nat
    BY SeqFacts
<1>2. \A i \in 1..Len(log) : i \in 1..Len(log') /\ i \in Nat \ {0} /\ i <= Len(log)
    BY <1>1
<1>3. (stage = "idle" /\ attachedOnce => \E lo \in 1..top : Holds(lo, top))'
    <2>1. SUFFICES ASSUME stage = "idle", attachedOnce PROVE \E lo \in 1..top : Holds(lo, top)'
        OBVIOUS
    <2>2. PICK lo \in 1..top : Holds(lo, top)
        BY <2>1 DEF Shown
    <2>3. lo \in Nat \ {0}
        OBVIOUS
    <2>4. Holds(lo, top)'
        BY <2>2, <2>3, HoldsKept
    <2>5. QED
        BY <2>4
<1>4. (stage = "inspect" =>
          \E lo, hi \in 1..Len(log) : lo <= hi /\ top <= hi /\ Holds(lo, hi))'
    <2>1. SUFFICES ASSUME stage = "inspect"
                   PROVE  \E lo, hi \in 1..Len(log') : lo <= hi /\ top <= hi /\ Holds(lo, hi)'
        OBVIOUS
    <2>2. PICK lo, hi \in 1..Len(log) : lo <= hi /\ top <= hi /\ Holds(lo, hi)
        BY <2>1 DEF Shown
    <2>3. lo \in Nat \ {0} /\ hi \in Nat /\ hi <= Len(log) /\ lo \in 1..Len(log') /\ hi \in 1..Len(log')
        BY <1>2
    <2>4. Holds(lo, hi)'
        BY <2>2, <2>3, HoldsKept
    <2>5. QED
        BY <2>2, <2>3, <2>4
<1>5. (call.op = "page" =>
          \E start, b \in 1..Len(log) : start <= b /\ top <= b /\ Paged(call, start, b))'
    BY <1>2 DEF Shown
<1>6. /\ call.op = "attached" => top <= call.latest /\ call.latest \in 1..Len(log')
      /\ call.op = "history" => top < call.before /\ call.before \in 2..(Len(log') + 1)
    BY <1>1 DEF Shown
<1>7. /\ (stage = "history" => olderCall = NoCall /\ seen = {})'
      /\ (HasReset(inbox) => stage = "attach" \/ ignoreReset = TRUE)'
    BY DEF Shown
<1>8. QED
    BY <1>3, <1>4, <1>5, <1>6, <1>7 DEF Shown

\* append: the events behind what waits, with the next sequence numbers.
LEMMA Published ==
    ASSUME TypeInv, NEW ev, IsSeq(ev), Len(ev) \in {1, 2}, AppendAll(ev), subscribed,
           OneReset(inbox), NEW top, Waiting(inbox, top, Len(log))
    PROVE  /\ Waiting(inbox', top, Len(log')) /\ OneReset(inbox')
           /\ HasReset(inbox') => HasReset(inbox)
<1> DEFINE n == Len(log)
           E(i) == [kind |-> "event", seq |-> i]
           s == [i \in 1..Len(ev) |-> E(n + i)]
<1>1. IsSeq(log) /\ IsSeq(inbox) /\ n \in Nat /\ Len(log') = n + Len(ev)
    <2>1. IsSeq(log) /\ IsSeq(inbox) /\ log' = log \o ev
        BY DEF TypeInv, HostTyped, AppendAll
    <2>2. QED
        BY <2>1, SeqConcat, SeqFacts
<1>2. inbox' = inbox \o s
    BY DEF AppendAll
<1>3. \A i : IsEvent(E(i)) /\ E(i).seq = i /\ E(i).kind # "reset"
    BY DEF IsEvent
<1>4. s \in [1..Len(ev) -> {E(n + i) : i \in 1..Len(ev)}]
    OBVIOUS
<1>5. \A i \in 1..Len(ev) : s[i] = E(n + i)
    OBVIOUS
<1> HIDE DEF E, s
<1>6. IsSeq(s) /\ Len(s) = Len(ev)
    <2> DEFINE S == {E(n + i) : i \in 1..Len(ev)}
    <2>1. Len(ev) \in Nat
        BY SeqFacts
    <2>2. s \in [1..Len(ev) -> S]
        BY <1>4
    <2> HIDE DEF S
    <2>3. QED
        BY <2>1, <2>2, FcnIsSeq
<1> DEFINE q == inbox \o <<E(n + 1)>>
<1>7. /\ IsSeq(q) /\ Waiting(q, top, n + 1) /\ OneReset(q) /\ (HasReset(q) <=> HasReset(inbox))
    <2>1. IsSeq(q)
        BY <1>1, SeqSnoc
    <2>2. Waiting(q, top, n + 1)
        BY <1>3, WaitingAdded
    <2>3. QED
        BY <1>1, <1>3, <2>1, <2>2, ResetAdded
<1>8. CASE Len(ev) = 1
    <2>1. s = <<E(n + 1)>>
        <3>1. IsSeq(<<E(n + 1)>>) /\ Len(<<E(n + 1)>>) = 1 /\ <<E(n + 1)>>[1] = E(n + 1)
            BY SeqOne
        <3>2. s[1] = E(n + 1)
            BY <1>5, <1>8
        <3>3. \A i \in 1..Len(s) : i = 1
            BY <1>6, <1>8
        <3>4. QED
            BY <1>6, <1>8, <3>1, <3>2, <3>3, SeqSame
    <2>2. inbox' = q /\ Len(log') = n + 1
        BY <1>1, <1>2, <1>8, <2>1
    <2> HIDE DEF q
    <2>3. QED
        BY <1>7, <2>2
<1>9. CASE Len(ev) = 2
    <2> DEFINE r == q \o <<E(n + 2)>>
    <2>1. s = <<E(n + 1), E(n + 2)>>
        <3> DEFINE t == <<E(n + 1), E(n + 2)>>
        <3>1. IsSeq(t) /\ Len(t) = 2 /\ t[1] = E(n + 1) /\ t[2] = E(n + 2)
            BY SeqTwo
        <3>2. s[1] = E(n + 1) /\ s[2] = E(n + 2)
            BY <1>5, <1>9
        <3>3. \A i \in 1..Len(s) : i = 1 \/ i = 2
            BY <1>6, <1>9
        <3> HIDE DEF t
        <3>4. s = t
            BY <1>6, <1>9, <3>1, <3>2, <3>3, SeqSame
        <3>5. QED
            BY <3>4 DEF t
    <2>2. inbox' = r
        <3>1. <<E(n + 1)>> \o <<E(n + 2)>> = <<E(n + 1), E(n + 2)>>
            BY PairIs
        <3>2. IsSeq(<<E(n + 1)>>) /\ IsSeq(<<E(n + 2)>>)
            BY SeqOne
        <3>3. (inbox \o <<E(n + 1)>>) \o <<E(n + 2)>> = inbox \o (<<E(n + 1)>> \o <<E(n + 2)>>)
            BY <1>1, <3>2, ConcatAssociates
        <3>4. QED
            BY <1>2, <2>1, <3>1, <3>3
    <2>3. Waiting(r, top, (n + 1) + 1) /\ OneReset(r) /\ (HasReset(r) <=> HasReset(q))
        <3>1. E(n + 2).seq = (n + 1) + 1 /\ IsEvent(E(n + 2)) /\ E(n + 2).kind # "reset"
            BY <1>1, <1>3
        <3> DEFINE e == E(n + 2)
                   m == n + 1
        <3> HIDE DEF q, e, m
        <3>2. Waiting(q \o <<e>>, top, m + 1) /\ OneReset(q \o <<e>>) /\ (HasReset(q \o <<e>>) <=> HasReset(q))
            <4>1. e.seq = m + 1 /\ IsEvent(e) /\ e.kind # "reset"
                BY <3>1 DEF e, m
            <4>2. IsSeq(q) /\ Waiting(q, top, m) /\ OneReset(q)
                BY <1>7 DEF m
            <4>3. QED
                BY <4>1, <4>2, WaitingAdded, ResetAdded
        <3>3. QED
            BY <3>2 DEF e, m
    <2>4. Len(log') = (n + 1) + 1
        BY <1>1, <1>9
    <2> HIDE DEF r, q
    <2>5. QED
        BY <1>7, <2>2, <2>3, <2>4
<1>10. QED
    BY <1>8, <1>9

LEMMA ShownInit == Init => ShownInv
<1> SUFFICES ASSUME Init PROVE ShownInv
    OBVIOUS
<1>1. /\ log = <<Named("session.snapshot")>> /\ inbox = <<>> /\ ~attachedOnce /\ ~subscribed
      /\ stage = "idle" /\ call = NoCall
    BY DEF Init
<1>2. Len(log) = 1
    BY <1>1, SeqOne
<1>3. OneReset(<<>>) /\ ~HasReset(<<>>)
    BY DEF OneReset, HasReset
<1>4. Waiting(inbox, Len(log), Len(log))
    BY <1>1, <1>2, WaitingNone
<1>5. call.op = "none"
    BY <1>1 DEF NoCall
<1>6. Shown(Len(log))
    BY <1>1, <1>3, <1>5 DEF Shown
<1>7. QED
    BY <1>1, <1>2, <1>3, <1>4, <1>6 DEF ShownInv

\* A step that appends and leaves the view and its tasks alone.
LEMMA AppendShown ==
    ASSUME TypeInv, ViewInv, ShownInv, NEW ev, IsSeq(ev), Len(ev) \in {1, 2}, AppendAll(ev),
           UNCHANGED <<viewVars, taskVars, subscribed, disturbed>>
    PROVE  ShownInv'
<1>1. UNCHANGED <<stage, call, attachedOnce, loaded, seen, hasOlder, olderCall, transcript,
                  ignoreReset, subscribed, disturbed>>
    BY DEF viewVars, taskVars
<1>2. /\ IsSeq(log) /\ IsSeq(log') /\ Len(log) <= Len(log') /\ Len(log) \in Nat /\ Len(log') \in Nat
      /\ \A i \in 1..Len(log) : log'[i] = log[i]
    <2>1. IsSeq(log) /\ log' = log \o ev
        BY DEF TypeInv, HostTyped, AppendAll
    <2>2. /\ IsSeq(log \o ev) /\ Len(log \o ev) = Len(log) + Len(ev)
          /\ \A i \in 1..Len(log) : (log \o ev)[i] = log[i]
        BY <2>1, SeqConcat
    <2>3. Len(log) \in Nat
        BY <2>1, SeqFacts
    <2>4. QED
        BY <2>1, <2>2, <2>3
<1>3. CASE subscribed
    <2>1. PICK top : Waiting(inbox, top, Len(log)) /\ (disturbed = {} => Shown(top))
        BY DEF ShownInv
    <2>2. /\ Waiting(inbox', top, Len(log')) /\ OneReset(inbox')
          /\ HasReset(inbox') => HasReset(inbox)
        BY <1>3, <2>1, Published DEF ShownInv
    <2>3. top \in Nat /\ top <= Len(log)
        BY <1>2, <2>1 DEF Waiting
    <2>4. ASSUME disturbed = {} PROVE Shown(top)'
        BY <1>1, <1>2, <2>1, <2>2, <2>3, <2>4, ShownKept
    <2>5. QED
        BY <1>1, <1>2, <2>2, <2>4 DEF ShownInv
<1>4. CASE ~subscribed
    <2>1. inbox = <<>> /\ inbox' = <<>>
        BY <1>4 DEF ViewInv, SelfInv, AppendAll
    <2>2. Waiting(inbox', Len(log'), Len(log'))
        BY <1>2, <2>1, WaitingNone
    <2>3. OneReset(inbox') /\ ~HasReset(inbox')
        BY <2>1 DEF OneReset, HasReset
    <2>4. ASSUME disturbed = {} PROVE Shown(Len(log))'
        <3>1. call.op \notin {"attached", "history", "page", "inspect", "inspected"}
            BY <1>4, <2>4 DEF ViewInv, Undisturbed
        <3>2. stage \notin {"history", "inspect"}
            BY <3>1 DEF TypeInv, TaskTyped
        <3>3. ~attachedOnce
            BY <1>4 DEF ShownInv
        <3>4. QED
            BY <1>1, <2>3, <3>1, <3>2, <3>3 DEF Shown
    <2>5. QED
        BY <1>1, <1>2, <2>2, <2>3, <2>4 DEF ShownInv
<1>5. QED
    BY <1>3, <1>4

LEMMA HostShown == TypeInv /\ ViewInv /\ ShownInv /\ (ApplyAgentEvent \/ Commands) => ShownInv'
<1> SUFFICES ASSUME TypeInv, ViewInv, ShownInv, ApplyAgentEvent \/ Commands PROVE ShownInv'
    OBVIOUS
<1>1. ASSUME NEW x, AppendAll(<<x>>), UNCHANGED <<viewVars, taskVars, subscribed, disturbed>>
      PROVE  ShownInv'
    <2> DEFINE ev == <<x>>
    <2>1. IsSeq(ev) /\ Len(ev) \in {1, 2}
        BY SeqOne
    <2> HIDE DEF ev
    <2>2. AppendAll(ev)
        BY <1>1 DEF ev
    <2>3. QED
        BY <1>1, <2>1, <2>2, AppendShown
<1>2. CASE ApplyAgentEvent
    <2>1. /\ AppendAll(<<SessionEventOf(Head(channel))>>)
          /\ UNCHANGED <<viewVars, taskVars, subscribed, disturbed>>
        BY <1>2 DEF ApplyAgentEvent, history
    <2>2. QED
        BY <1>1, <2>1
<1>3. ASSUME NEW m \in Modes, SetMode(m) PROVE ShownInv'
    <2>1. /\ AppendAll(<<[name |-> "session.mode", mode |-> m]>>)
          /\ UNCHANGED <<viewVars, taskVars, subscribed, disturbed>>
        BY <1>3 DEF SetMode, Command
    <2>2. QED
        BY <1>1, <2>1
<1>4. ASSUME NEW options \in Configs, SetConfigOption(options) PROVE ShownInv'
    <2>1. /\ AppendAll(<<[name |-> "session.config_options", options |-> Normal(options)]>>)
          /\ UNCHANGED <<viewVars, taskVars, subscribed, disturbed>>
        BY <1>4 DEF SetConfigOption, Command, Normal
    <2>2. QED
        BY <1>1, <2>1
<1>5. ASSUME NEW title \in Titles, Rename(title) PROVE ShownInv'
    <2>1. /\ AppendAll(<<Named("session.snapshot")>>)
          /\ UNCHANGED <<viewVars, taskVars, subscribed, disturbed>>
        BY <1>5 DEF Rename, Command
    <2>2. QED
        BY <1>1, <2>1
<1>6. CASE SendPrompt
    <2>1. /\ \E a : AppendAll(<<a, Named("session.status")>>)
          /\ UNCHANGED <<viewVars, taskVars, subscribed, disturbed>>
        BY <1>6 DEF SendPrompt, Command
    <2>2. PICK a : AppendAll(<<a, Named("session.status")>>)
        BY <2>1
    <2> DEFINE ev == <<a, Named("session.status")>>
    <2>3. IsSeq(ev) /\ Len(ev) \in {1, 2}
        BY SeqTwo
    <2> HIDE DEF ev
    <2>4. AppendAll(ev)
        BY <2>2 DEF ev
    <2>5. QED
        BY <2>1, <2>3, <2>4, AppendShown
<1>7. QED
    BY <1>2, <1>3, <1>4, <1>5, <1>6 DEF Commands

\* A step that leaves the journal and the inbox alone.
LEMMA StillShown ==
    ASSUME TypeInv, ShownInv, UNCHANGED <<log, inbox, attachedOnce, subscribed>>,
           disturbed' = {} => disturbed = {},
           \A top \in 0..Len(log) : disturbed' = {} /\ Waiting(inbox, top, Len(log)) /\ Shown(top) => Shown(top)'
    PROVE  ShownInv'
<1>1. PICK top : Waiting(inbox, top, Len(log)) /\ (disturbed = {} => Shown(top))
    BY DEF ShownInv
<1>2. top \in 0..Len(log)
    BY <1>1 DEF Waiting
<1>3. Waiting(inbox', top, Len(log'))
    BY <1>1
<1>4. disturbed' = {} => Shown(top)'
    BY <1>1, <1>2
<1>5. QED
    BY <1>3, <1>4 DEF ShownInv

LEMMA QuietShown == TypeInv /\ ShownInv /\ (AgentSays \/ UNCHANGED vars) => ShownInv'
<1> SUFFICES ASSUME TypeInv, ShownInv, AgentSays \/ UNCHANGED vars PROVE ShownInv'
    OBVIOUS
<1>1. /\ UNCHANGED <<stage, call, attachedOnce, loaded, seen, hasOlder, olderCall, transcript,
                     ignoreReset, subscribed, disturbed, log, inbox>>
    BY DEF AgentSays, vars, history, hostVars, viewVars, taskVars
<1>2. IsSeq(log) /\ Len(log) \in Nat
    BY SeqFacts DEF TypeInv, HostTyped
<1>3. ASSUME NEW top \in 0..Len(log), Shown(top) PROVE Shown(top)'
    <2>1. top \in Nat /\ top <= Len(log)
        BY <1>2
    <2>2. IsSeq(log') /\ Len(log) <= Len(log') /\ \A i \in 1..Len(log) : log'[i] = log[i]
        BY <1>1, <1>2
    <2>3. QED
        BY <1>1, <1>2, <1>3, <2>1, <2>2, ShownKept
<1>4. QED
    BY <1>1, <1>3, StillShown

LEMMA ServeAttachShown == TypeInv /\ ViewInv /\ ShownInv /\ ServeAttach => ShownInv'
<1> SUFFICES ASSUME TypeInv, ViewInv, ShownInv, ServeAttach PROVE ShownInv'
    OBVIOUS
<1> DEFINE done == [kind |-> "replayed"]
           reset == [kind |-> "reset"]
           first == IF attachedOnce THEN <<>> ELSE <<reset>>
           q == inbox \o first
<1>1. /\ call.op = "attach" /\ call' = [op |-> "attached", latest |-> Len(log)]
      /\ attachedOnce' = TRUE /\ subscribed' = TRUE /\ log' = log /\ stage' = stage
      /\ disturbed' = disturbed /\ inbox' = q \o <<done>>
    BY DEF ServeAttach, history
<1>2. stage = "attach" /\ IsSeq(inbox) /\ Len(log) \in Nat /\ IsSeq(log)
    BY <1>1, SeqFacts DEF TypeInv, TaskTyped, HostTyped
<1>3. /\ ~IsEvent(done) /\ done.kind # "reset" /\ ~IsEvent(reset)
    BY DEF IsEvent
<1>4. PICK top : Waiting(inbox, top, Len(log)) /\ (disturbed = {} => Shown(top))
    BY DEF ShownInv
<1>5. IsSeq(q) /\ Waiting(q, top, Len(log)) /\ OneReset(q)
    <2>1. CASE attachedOnce
        <3>1. q = inbox
            BY <1>2, <2>1, ConcatNone
        <3>2. QED
            BY <1>2, <1>4, <3>1 DEF ShownInv
    <2>2. CASE ~attachedOnce
        <3>1. inbox = <<>> /\ q = inbox \o <<reset>>
            BY <2>2 DEF ShownInv, ViewInv, SelfInv
        <3>2. OneReset(inbox) /\ ~HasReset(inbox)
            BY <3>1 DEF OneReset, HasReset
        <3> HIDE DEF q, reset
        <3>3. OneReset(inbox \o <<reset>>)
            BY <1>2, <3>2, ResetAdded
        <3>4. Waiting(inbox \o <<reset>>, top, Len(log))
            BY <1>3, <1>4, WaitingAdded
        <3>5. IsSeq(inbox \o <<reset>>)
            BY <1>2, SeqSnoc
        <3>6. QED
            BY <3>1, <3>3, <3>4, <3>5
    <2>3. QED
        BY <2>1, <2>2
<1> HIDE DEF q, done
<1>6. Waiting(inbox', top, Len(log')) /\ OneReset(inbox')
    BY <1>1, <1>3, <1>5, WaitingAdded, ResetAdded
<1>7. Shown(top)'
    <2>1. call'.op = "attached" /\ call'.latest = Len(log)
        BY <1>1
    <2>2. top <= Len(log) /\ Len(log) \in 1..Len(log)
        BY <1>2, <1>4 DEF Waiting, ShownInv
    <2>3. QED
        BY <1>1, <1>2, <2>1, <2>2 DEF Shown
<1>8. QED
    BY <1>1, <1>6, <1>7 DEF ShownInv

\* An answer for the loading task.
LEMMA ServeCallShown == TypeInv /\ ShownInv /\ (ServeHistory \/ ServeInspect) => ShownInv'
<1> SUFFICES ASSUME TypeInv, ShownInv, ServeHistory \/ ServeInspect PROVE ShownInv'
    OBVIOUS
<1>1. UNCHANGED <<stage, attachedOnce, loaded, seen, hasOlder, olderCall, transcript,
                  ignoreReset, subscribed, disturbed, log, inbox>>
    BY DEF ServeHistory, ServeInspect, history, hostVars, viewVars
<1>2. Len(log) \in Nat
    BY SeqFacts DEF TypeInv, HostTyped
<1>3. ASSUME NEW top \in 0..Len(log), Shown(top) PROVE Shown(top)'
    <2>1. \A lo, hi : Holds(lo, hi)' <=> Holds(lo, hi)
        BY <1>1 DEF Holds
    <2>2. CASE ServeHistory
        <3>1. call.op = "history" /\ stage = "history" /\ call' = Page(call.before)
            BY <2>2 DEF ServeHistory, TypeInv, TaskTyped
        <3> DEFINE b == call.before - 1
        <3>2. top < call.before /\ call.before \in 2..(Len(log) + 1)
            BY <1>3, <3>1 DEF Shown
        <3>3. call.before \in Nat /\ call.before > 1 /\ b \in 1..Len(log) /\ top <= b
            BY <1>2, <3>2
        <3>4. PICK start \in 1..b : call'.op = "page" /\ Paged(call', start, b)
            BY <3>1, <3>3, PageIs
        <3>5. start \in 1..Len(log) /\ start <= b
            BY <1>2, <3>3
        <3> HIDE DEF b
        <3>6. \E st, e \in 1..Len(log) : st <= e /\ top <= e /\ Paged(call', st, e)
            BY <3>3, <3>4, <3>5
        <3>7. /\ (HasReset(inbox) => stage = "attach" \/ ignoreReset = TRUE)'
              /\ (stage = "history" => olderCall = NoCall /\ seen = {})'
            BY <1>1, <1>3 DEF Shown
        <3>8. QED
            BY <1>1, <3>1, <3>4, <3>6, <3>7 DEF Shown
    <2>3. CASE ServeInspect
        <3>1. call.op = "inspect" /\ stage = "inspect" /\ call'.op = "inspected"
            BY <2>3 DEF ServeInspect, TypeInv, TaskTyped
        <3>2. QED
            BY <1>1, <1>3, <2>1, <3>1 DEF Shown
    <2>4. QED
        BY <2>2, <2>3
<1>4. QED
    BY <1>1, <1>3, StillShown

\* A step of the older page.
LEMMA ShownHeld ==
    ASSUME NEW top \in Nat, Shown(top), UNCHANGED <<stage, call, attachedOnce, log, inbox, ignoreReset>>,
           stage # "history", Len(log) \in Nat, top <= Len(log),
           \A lo, hi \in 1..Len(log) : lo <= hi /\ Holds(lo, hi) => \E l \in 1..lo : Holds(l, hi)'
    PROVE  Shown(top)'
<1>1. ASSUME stage = "idle", attachedOnce PROVE \E lo \in 1..top : Holds(lo, top)'
    <2>1. PICK lo \in 1..top : Holds(lo, top)
        BY <1>1 DEF Shown
    <2>2. lo \in 1..Len(log) /\ top \in 1..Len(log) /\ lo <= top /\ \A l \in 1..lo : l \in 1..top
        OBVIOUS
    <2>3. PICK l \in 1..lo : Holds(l, top)'
        BY <2>1, <2>2
    <2>4. QED
        BY <2>2, <2>3
<1>2. ASSUME stage = "inspect"
      PROVE  \E lo, hi \in 1..Len(log) : lo <= hi /\ top <= hi /\ Holds(lo, hi)'
    <2>1. PICK lo, hi \in 1..Len(log) : lo <= hi /\ top <= hi /\ Holds(lo, hi)
        BY <1>2 DEF Shown
    <2>2. PICK l \in 1..lo : Holds(l, hi)'
        BY <2>1
    <2>3. l \in 1..Len(log) /\ l <= hi
        BY <2>1
    <2>4. QED
        BY <2>1, <2>2, <2>3
<1>3. QED
    BY <1>1, <1>2 DEF Shown

LEMMA OlderShown ==
    TypeInv /\ SaidInv /\ ShownInv /\ (ServeOlder \/ LoadOlder \/ ResumeOlder) => ShownInv'
<1> SUFFICES ASSUME TypeInv, SaidInv, ShownInv, ServeOlder \/ LoadOlder \/ ResumeOlder PROVE ShownInv'
    OBVIOUS
<1>1. UNCHANGED <<stage, call, attachedOnce, ignoreReset, subscribed, disturbed, log, inbox>>
    BY DEF ServeOlder, LoadOlder, ResumeOlder, history, hostVars, viewVars
<1>2. Len(log) \in Nat /\ IsLog(log)
    BY SeqFacts DEF TypeInv, HostTyped, SaidInv, Heard
<1>3. ASSUME NEW lo \in 1..Len(log), NEW hi \in 1..Len(log), lo <= hi, Holds(lo, hi)
      PROVE  \E l \in 1..lo : Holds(l, hi)'
    <2>1. lo \in 1..lo /\ lo \in Nat \ {0} /\ hi \in Nat /\ hi <= Len(log)
        BY <1>2
    <2>2. CASE ServeOlder
        <3>1. /\ olderCall.op = "history" /\ olderCall' = Page(olderCall.before)
              /\ UNCHANGED <<loaded, seen, hasOlder, transcript>>
            BY <2>2 DEF ServeOlder, viewVars
        <3>2. olderCall.before = lo /\ lo > 1
            BY <1>3, <3>1 DEF Holds
        <3>3. olderCall'.op = "page" /\ \E start \in 1..(lo - 1) : Paged(olderCall', start, lo - 1)
            BY <2>1, <3>1, <3>2, PageIs
        <3>4. Holds(lo, hi)'
            BY <1>1, <1>3, <3>1, <3>3 DEF Holds
        <3>5. QED
            BY <2>1, <3>4
    <2>3. CASE LoadOlder
        <3>1. /\ hasOlder /\ olderCall' = [op |-> "history", before |-> Min(loaded)]
              /\ UNCHANGED <<loaded, seen, hasOlder, transcript>>
            BY <2>3 DEF LoadOlder, viewVars
        <3>2. loaded = lo..hi /\ hasOlder = (lo > 1)
            BY <1>3 DEF Holds
        <3>3. lo > 1
            BY <3>1, <3>2
        <3>4. Min(loaded) = lo
            <4> DEFINE T == lo..hi
            <4>1. T \in SUBSET Nat /\ T # {} /\ lo \in T /\ \A y \in T : lo <= y
                BY <1>3, <2>1
            <4>2. \A y \in T : y \in Nat
                BY <4>1
            <4> HIDE DEF T
            <4>3. Min(T) \in T /\ \A y \in T : Min(T) <= y
                BY <4>1, LeastOf
            <4>4. Min(T) = lo
                <5>1. Min(T) <= lo /\ lo <= Min(T) /\ Min(T) \in Nat
                    BY <4>1, <4>2, <4>3
                <5>2. QED
                    BY <2>1, <5>1
            <4>5. QED
                BY <3>2, <4>4 DEF T
        <3>5. olderCall'.op = "history" /\ olderCall'.before = lo
            BY <3>1, <3>4
        <3>6. Holds(lo, hi)'
            BY <1>1, <1>3, <3>1, <3>3, <3>5 DEF Holds
        <3>7. QED
            BY <2>1, <3>6
    <2>4. CASE ResumeOlder
        <3> DEFINE new == olderCall.events \ seen
        <3>1. /\ olderCall.op = "page" /\ loaded' = loaded \cup new /\ seen' = seen \cup new
              /\ transcript' = Show(<<>>, Sorted(new)) \o transcript
              /\ hasOlder' = olderCall.more /\ olderCall' = NoCall
            BY <2>4 DEF ResumeOlder
        <3>2. PICK start \in 1..(lo - 1) : Paged(olderCall, start, lo - 1)
            BY <1>3, <3>1 DEF Holds
        <3>3. loaded = lo..hi /\ seen = lo..hi /\ Represents(log, transcript, lo, hi)
            BY <1>3 DEF Holds
        <3>4. new = start..(lo - 1)
            BY <1>3, <3>2, <3>3 DEF Paged
        <3> HIDE DEF new
        <3>5. start \in Nat \ {0} /\ start \in 1..lo /\ lo - 1 \in Nat /\ (lo - 1) + 1 = lo
              /\ start <= (lo - 1) + 1 /\ lo - 1 <= hi /\ lo - 1 <= Len(log)
              /\ (lo..hi) \cup (start..(lo - 1)) = start..hi
            BY <1>3, <2>1
        <3>6. loaded' = start..hi /\ seen' = start..hi /\ hasOlder' = (start > 1)
            BY <3>1, <3>2, <3>3, <3>4, <3>5 DEF Paged
        <3>7. Represents(log, Show(<<>>, Sorted(start..(lo - 1))), start, lo - 1)
            BY <1>2, <3>5, PageShown
        <3>8. Represents(log, Show(<<>>, Sorted(start..(lo - 1))) \o transcript, start, hi)
            <4> DEFINE m == lo - 1
                       s == Show(<<>>, Sorted(start..(lo - 1)))
            <4>1. m \in Nat /\ start <= m + 1 /\ m <= hi /\ Represents(log, s, start, m)
                BY <3>5, <3>7
            <4>2. Represents(log, transcript, m + 1, hi)
                BY <3>3, <3>5
            <4> HIDE DEF m, s
            <4>3. Represents(log, s \o transcript, start, hi)
                BY <1>2, <2>1, <3>5, <4>1, <4>2, RepresentsFront
            <4>4. QED
                BY <4>3 DEF s
        <3>9. Represents(log', transcript', start, hi)
            BY <1>1, <3>1, <3>4, <3>8
        <3>10. olderCall'.op = "none"
            BY <3>1 DEF NoCall
        <3>11. Holds(start, hi)'
            BY <3>6, <3>9, <3>10 DEF Holds
        <3>12. QED
            BY <3>5, <3>11
    <2>5. QED
        BY <2>2, <2>3, <2>4
<1>4. ASSUME NEW top \in 0..Len(log), Shown(top) PROVE Shown(top)'
    <2>1. stage # "history"
        <3>1. LoadOlder => stage # "history"
            BY DEF LoadOlder
        <3>2. ServeOlder \/ ResumeOlder => olderCall # NoCall
            BY DEF ServeOlder, ResumeOlder, NoCall
        <3>3. QED
            BY <1>4, <3>1, <3>2 DEF Shown
    <2>2. top \in Nat /\ top <= Len(log)
        BY <1>2
    <2>3. QED
        BY <1>1, <1>2, <1>3, <1>4, <2>1, <2>2, ShownHeld
<1>5. QED
    BY <1>1, <1>4, StillShown

LEMMA HandleEventShown == TypeInv /\ ViewInv /\ SaidInv /\ ShownInv /\ HandleEvent => ShownInv'
<1> SUFFICES ASSUME TypeInv, ViewInv, SaidInv, ShownInv, HandleEvent PROVE ShownInv'
    OBVIOUS
<1>1. /\ inbox # <<>> /\ Head(inbox).kind = "event" /\ inbox' = Tail(inbox)
      /\ UNCHANGED <<log, subscribed, attachedOnce, stage, call, olderCall, hasOlder, ignoreReset>>
    BY DEF HandleEvent, hostVars, taskVars
<1>2. /\ IsSeq(inbox) /\ IsSeq(log) /\ IsLog(log) /\ Len(log) \in Nat /\ Head(inbox) = inbox[1]
    BY <1>1, SeqFacts DEF TypeInv, HostTyped, SaidInv, Heard
<1>3. PICK top : Waiting(inbox, top, Len(log)) /\ (disturbed = {} => Shown(top))
    BY DEF ShownInv
<1>4. inbox[1].seq = top + 1 /\ top + 1 <= Len(log) /\ Waiting(inbox', top + 1, Len(log'))
    BY <1>1, <1>2, <1>3, WaitingTaken DEF IsEvent
<1>5. OneReset(inbox') /\ (HasReset(inbox') => HasReset(inbox))
    BY <1>1, <1>2, ResetTaken DEF ShownInv
<1>6. CASE stage # "idle"
    <2>1. disturbed' # {}
        BY <1>6 DEF HandleEvent
    <2>2. QED
        BY <1>1, <1>4, <1>5, <2>1 DEF ShownInv
<1>7. CASE stage = "idle"
    <2>1. HandleEvents(<<top + 1>>) /\ disturbed' = disturbed
        BY <1>2, <1>4, <1>7 DEF HandleEvent
    <2>2. ASSUME disturbed = {} PROVE Shown(top + 1)'
        <3>1. Shown(top)
            BY <1>3, <2>2
        <3>2. call.op = "none"
            BY <1>7 DEF TypeInv, TaskTyped
        <3>3. attachedOnce
            <4>1. subscribed
                BY <1>1 DEF ViewInv, SelfInv
            <4>2. QED
                BY <4>1 DEF ShownInv
        <3>4. PICK lo \in 1..top : Holds(lo, top)
            BY <1>7, <3>1, <3>3 DEF Shown
        <3>5. /\ top \in Nat /\ lo \in Nat \ {0} /\ lo <= top + 1 /\ lo \in 1..(top + 1)
              /\ (lo..top) \cup {top + 1} = lo..(top + 1) /\ top + 1 \notin lo..top
            BY <1>2, <1>3 DEF Waiting
        <3>6. Represents(log, ShowEvent(transcript, log[top + 1]), lo, top + 1)
            BY <1>2, <1>4, <3>4, <3>5, RepresentsEvent DEF Holds
        <3>7. transcript' = ShowEvent(transcript, log[top + 1])
            BY <2>1, ShowOne DEF HandleEvents
        <3>8. ToSet(<<top + 1>>) = {top + 1}
            <4> DEFINE s == <<top + 1>>
            <4>1. DOMAIN s = {1} /\ s[1] = top + 1
                OBVIOUS
            <4> HIDE DEF s
            <4>2. QED
                BY <4>1 DEF ToSet, s
        <3>9. loaded' = lo..(top + 1) /\ seen' = lo..(top + 1)
            <4>1. loaded = lo..top /\ seen = lo..top
                BY <3>4 DEF Holds
            <4>2. loaded' = loaded \cup ({top + 1} \ seen) /\ seen' = seen \cup {top + 1}
                BY <2>1, <3>8 DEF HandleEvents
            <4>3. QED
                BY <3>5, <4>1, <4>2
        <3>10. Represents(log', transcript', lo, top + 1)
            BY <1>1, <3>6, <3>7
        <3>11. Holds(lo, top + 1)'
            BY <1>1, <3>4, <3>9, <3>10 DEF Holds
        <3>12. (HasReset(inbox) => stage = "attach" \/ ignoreReset = TRUE)'
            BY <1>1, <1>5, <3>1 DEF Shown
        <3>13. QED
            BY <1>1, <1>7, <3>2, <3>5, <3>11, <3>12 DEF Shown
    <2>3. QED
        BY <1>1, <1>4, <1>5, <2>1, <2>2 DEF ShownInv
<1>8. QED
    BY <1>6, <1>7

\* The notes of the connection.
LEMMA HandleNoteShown ==
    TypeInv /\ ViewInv /\ ShownInv /\ (HandleReplayCompleted \/ HandleTranscriptReset) => ShownInv'
<1> SUFFICES ASSUME TypeInv, ViewInv, ShownInv, HandleReplayCompleted \/ HandleTranscriptReset
             PROVE  ShownInv'
    OBVIOUS
<1>1. /\ inbox # <<>> /\ Head(inbox).kind \in {"replayed", "reset"} /\ inbox' = Tail(inbox)
      /\ UNCHANGED <<log, subscribed, attachedOnce, stage, call, olderCall, disturbed>>
    BY DEF HandleReplayCompleted, HandleTranscriptReset, history, hostVars, taskVars
<1>2. IsSeq(inbox) /\ IsSeq(log) /\ Len(log) \in Nat /\ Head(inbox) = inbox[1]
    BY <1>1, SeqFacts DEF TypeInv, HostTyped
<1>3. PICK top : Waiting(inbox, top, Len(log)) /\ (disturbed = {} => Shown(top))
    BY DEF ShownInv
<1>4. Waiting(inbox', top, Len(log')) /\ top \in Nat /\ top <= Len(log)
    <2>1. ~IsEvent(inbox[1])
        BY <1>1, <1>2 DEF IsEvent
    <2>2. Waiting(inbox', top, Len(log'))
        BY <1>1, <1>3, <2>1, WaitingTaken
    <2>3. QED
        BY <1>2, <1>3, <2>2 DEF Waiting
<1>5. /\ OneReset(inbox') /\ (HasReset(inbox') => HasReset(inbox))
      /\ inbox[1].kind = "reset" => HasReset(inbox) /\ ~HasReset(inbox')
    BY <1>1, <1>2, ResetTaken DEF ShownInv
<1>6. ASSUME disturbed = {} PROVE Shown(top)'
    <2>1. Shown(top)
        BY <1>3, <1>6
    <2>2. IsSeq(log') /\ Len(log) <= Len(log') /\ \A i \in 1..Len(log) : log'[i] = log[i]
        BY <1>1, <1>2
    <2>3. ASSUME UNCHANGED <<transcript, loaded, seen, hasOlder>>,
                 HasReset(inbox') => ignoreReset' = ignoreReset
          PROVE  Shown(top)'
        BY <1>1, <1>2, <1>4, <1>5, <2>1, <2>2, <2>3, ShownKept
    <2>4. CASE HandleReplayCompleted
        <3>1. replayBuffer = <<>>
            BY <1>6 DEF ViewInv, Undisturbed
        <3>2. HandleEvents(<<>>) /\ UNCHANGED <<hasOlder, ignoreReset>>
            BY <2>4, <3>1 DEF HandleReplayCompleted
        <3>3. ToSet(<<>>) = {}
            BY SeqNone DEF ToSet
        <3>4. transcript' = transcript
            BY <3>2, ShowNone DEF HandleEvents
        <3>5. loaded' = loaded /\ seen' = seen
            BY <3>2, <3>3 DEF HandleEvents
        <3>6. QED
            BY <2>3, <3>2, <3>4, <3>5
    <2>5. CASE HandleTranscriptReset
        <3>1. HasReset(inbox) /\ ~HasReset(inbox')
            BY <1>2, <1>5, <2>5 DEF HandleTranscriptReset
        <3>2. CASE ignoreReset = TRUE
            <4>1. UNCHANGED <<transcript, loaded, seen, hasOlder>>
                BY <2>5, <3>2 DEF HandleTranscriptReset
            <4>2. QED
                BY <2>3, <3>1, <4>1
        <3>3. CASE ignoreReset # TRUE
            <4>1. stage = "attach"
                BY <2>1, <3>1, <3>3 DEF Shown
            <4>2. call.op \notin {"history", "page"}
                BY <4>1 DEF TypeInv, TaskTyped
            <4>3. QED
                BY <1>1, <2>1, <3>1, <4>1, <4>2 DEF Shown
        <3>4. QED
            BY <3>2, <3>3
    <2>6. QED
        BY <2>4, <2>5
<1>7. QED
    BY <1>1, <1>4, <1>5, <1>6 DEF ShownInv

LEMMA LoadShown ==
    TypeInv /\ SaidInv /\ ShownInv
        /\ (LoadSnapshot \/ ResumeAttach \/ ResumeHistory \/ ResumeInspect \/ LoadFails) => ShownInv'
<1> SUFFICES ASSUME TypeInv, SaidInv, ShownInv,
                    LoadSnapshot \/ ResumeAttach \/ ResumeHistory \/ ResumeInspect \/ LoadFails
             PROVE  ShownInv'
    OBVIOUS
<1>1. UNCHANGED <<log, inbox, attachedOnce, subscribed, olderCall>>
    BY DEF LoadSnapshot, ResumeAttach, ResumeHistory, ResumeInspect, LoadFails, hostVars
<1>2. disturbed' = {} => disturbed = {}
    BY DEF LoadSnapshot, ResumeAttach, ResumeHistory, ResumeInspect, LoadFails, history
<1>3. Len(log) \in Nat /\ IsLog(log)
    BY SeqFacts DEF TypeInv, HostTyped, SaidInv, Heard
<1>4. ASSUME NEW top \in 0..Len(log), disturbed' = {}, Waiting(inbox, top, Len(log)), Shown(top)
      PROVE  Shown(top)'
    <2>1. CASE LoadSnapshot
        <3>1. stage' = "attach" /\ call'.op = "attach"
            BY <2>1 DEF LoadSnapshot
        <3>2. QED
            BY <3>1 DEF Shown
    <2>2. CASE ResumeAttach
        <3>1. /\ call.op = "attached" /\ olderCall = NoCall /\ stage' = "history" /\ seen' = {}
              /\ call' = [op |-> "history", before |-> call.latest + 1] /\ ignoreReset' = TRUE
            BY <1>4, <2>2 DEF ResumeAttach, ClearTranscript
        <3>2. top <= call.latest /\ call.latest \in 1..Len(log)
            BY <1>4, <3>1 DEF Shown
        <3>3. call'.op = "history" /\ top < call'.before /\ call'.before \in 2..(Len(log) + 1)
            BY <1>3, <3>1, <3>2
        <3>4. QED
            BY <1>1, <3>1, <3>3 DEF Shown
    <2>3. CASE ResumeHistory
        <3> DEFINE new == call.events \ seen
        <3>1. /\ stage = "history" /\ call.op = "page" /\ loaded' = new /\ seen' = seen \cup new
              /\ transcript' = Show(<<>>, Sorted(new)) /\ hasOlder' = call.more
              /\ stage' = "inspect" /\ call'.op = "inspect" /\ ignoreReset' = ignoreReset
            BY <2>3 DEF ResumeHistory
        <3>2. olderCall = NoCall /\ seen = {}
            BY <1>4, <3>1 DEF Shown
        <3>3. PICK start, b \in 1..Len(log) : start <= b /\ top <= b /\ Paged(call, start, b)
            BY <1>4, <3>1 DEF Shown
        <3>4. new = start..b
            BY <3>2, <3>3 DEF Paged
        <3> HIDE DEF new
        <3>5. loaded' = start..b /\ seen' = start..b /\ hasOlder' = (start > 1)
            BY <3>1, <3>2, <3>3, <3>4 DEF Paged
        <3>6. start \in Nat \ {0} /\ b \in Nat /\ start <= b + 1 /\ b <= Len(log)
            BY <1>3, <3>3
        <3>7. Represents(log, Show(<<>>, Sorted(start..b)), start, b)
            BY <1>3, <3>6, PageShown
        <3>8. Represents(log', transcript', start, b)
            BY <1>1, <3>1, <3>4, <3>7
        <3>9. olderCall'.op = "none"
            BY <1>1, <3>2 DEF NoCall
        <3>10. Holds(start, b)'
            BY <3>5, <3>8, <3>9 DEF Holds
        <3>11. (HasReset(inbox) => stage = "attach" \/ ignoreReset = TRUE)'
            BY <1>1, <1>4, <3>1 DEF Shown
        <3>12. QED
            BY <1>1, <3>1, <3>3, <3>10, <3>11 DEF Shown
    <2>4. CASE ResumeInspect
        <3>1. /\ call.op = "inspected" /\ stage' = "idle" /\ call' = NoCall /\ stage = "inspect"
              /\ UNCHANGED <<transcript, loaded, seen, hasOlder, ignoreReset>>
              /\ ~\E i \in DOMAIN inbox : inbox[i].kind = "event" /\ inbox[i].seq \in seen
            BY <1>4, <2>4 DEF ResumeInspect, TypeInv, TaskTyped
        <3>2. PICK lo, hi \in 1..Len(log) : lo <= hi /\ top <= hi /\ Holds(lo, hi)
            BY <1>4, <3>1 DEF Shown
        <3>3. hi \notin Unread(inbox)
            <4>1. hi \in seen
                BY <3>2 DEF Holds
            <4>2. QED
                BY <3>1, <4>1 DEF Unread, IsEvent
        <3>4. hi \notin (top + 1)..Len(log)
            BY <1>4, <3>3 DEF Waiting
        <3>5. hi = top /\ lo \in 1..top
            BY <1>3, <3>2, <3>4
        <3>6. Holds(lo, top)'
            BY <1>1, <3>1, <3>2, <3>5 DEF Holds
        <3>7. call'.op = "none"
            BY <3>1 DEF NoCall
        <3>8. (HasReset(inbox) => stage = "attach" \/ ignoreReset = TRUE)'
            BY <1>1, <1>4, <3>1 DEF Shown
        <3>9. QED
            BY <3>1, <3>5, <3>6, <3>7, <3>8 DEF Shown
    <2>5. CASE LoadFails
        BY <1>4, <2>5 DEF LoadFails
    <2>6. QED
        BY <2>1, <2>2, <2>3, <2>4, <2>5
<1>5. QED
    BY <1>1, <1>2, <1>4, StillShown

LEMMA ShownInvStep == TypeInv /\ ViewInv /\ SaidInv /\ ShownInv /\ [Next]_vars => ShownInv'
BY HostShown, QuietShown, ServeAttachShown, ServeCallShown, OlderShown, HandleEventShown,
   HandleNoteShown, LoadShown DEF Next, Serve, View

LEMMA ShownInvAlways == Spec => []ShownInv
<1>1. TypeInv /\ ViewInv /\ [Next]_vars => ViewInv'
    BY ViewInvStep
<1>2. Init => ViewInv
    BY SettingsInit
<1>3. QED
    BY <1>1, <1>2, TypeInvAlways, SaidInvAlways, ShownInit, ShownInvStep, PTL DEF Spec

-----------------------------------------------------------------------------
(* The whole conversation *)

\* At rest, with all the history loaded, the transcript stands for the journal.
LEMMA RestShown ==
    ASSUME TypeInv, SaidInv, ShownInv, AtRest, ~hasOlder, disturbed = {}
    PROVE  Represents(log, transcript, 1, Len(log)) /\ EventsOf(channel) = <<>>
<1>1. channel = <<>> /\ inbox = <<>> /\ stage = "idle" /\ attachedOnce
    BY DEF AtRest
<1>2. PICK top : Waiting(inbox, top, Len(log)) /\ Shown(top)
    BY DEF ShownInv
<1>3. top = Len(log)
    BY <1>1, <1>2, WaitingDone
<1>4. PICK lo \in 1..top : Holds(lo, top)
    BY <1>1, <1>2 DEF Shown
<1>5. lo = 1
    <2>1. hasOlder = (lo > 1)
        BY <1>4 DEF Holds
    <2>2. ~(lo > 1)
        BY <2>1
    <2>3. QED
        BY <2>2
<1>6. Represents(log, transcript, lo, top)
    BY <1>4 DEF Holds
<1>7. EventsOf(<<>>) = <<>>
    BY SeqNone DEF EventsOf
<1>8. QED
    BY <1>1, <1>3, <1>5, <1>6, <1>7

LEMMA WholeRest == TypeInv /\ SaidInv /\ ShownInv => TranscriptWhole
<1> SUFFICES ASSUME TypeInv, SaidInv, ShownInv, AtRest, ~hasOlder, disturbed = {} PROVE Complete
    BY DEF TranscriptWhole
<1>1. Represents(log, transcript, 1, Len(log)) /\ EventsOf(channel) = <<>>
    BY RestShown
<1>2. Flat(transcript) = AllPieces(log)
    BY <1>1 DEF Represents, AllPieces
<1>3. /\ FromAgent(AllPieces(log)) \o AllPieces(<<>>) = UpdatePieces(said)
      /\ FromUser(AllPieces(log)) = PromptPieces(asked) /\ IsSeq(log)
    BY <1>1 DEF SaidInv, Heard, IsLog
<1>4. FromAgent(AllPieces(log)) = UpdatePieces(said)
    <2>1. IsSeq(FromAgent(AllPieces(log)))
        BY <1>3, AllTyped, PartsOfBoth
    <2>2. QED
        BY <1>3, <2>1, AllNone, ConcatNone
<1>5. QED
    BY <1>2, <1>3, <1>4 DEF Complete, Spoken, UpdatePieces, PromptPieces

\* A session view that has loaded all its history and whose loads met no event,
\* no older page and no failing call shows every piece of every message, once
\* and in the order it was said, for any updates, prompts, page size and number
\* of loads (session.rs normalize_update, manager.rs apply_agent_event,
\* send_prompt and history, SessionViewModel.swift loadSnapshot, handleEvent,
\* loadHistoryPage and merge).
THEOREM TranscriptIsWhole == Spec => []TranscriptWhole
BY TypeInvAlways, SaidInvAlways, ShownInvAlways, WholeRest, PTL

-----------------------------------------------------------------------------
(* Tool calls *)

\* The calls cs are those that the updates st, all of the tool id, make.
Matches(cs, st, id) ==
    /\ IsSeq(cs) /\ IsSeq(st) /\ Len(cs) = Len(st)
    /\ \A k \in 1..Len(st) : cs[k] = CallOf(st[k]) /\ IsStep(st[k], id) /\ WellTyped(st[k])

LEMMA MatchesPlus ==
    \A cs, st, id, x : Matches(cs, st, id) /\ IsStep(x, id) /\ WellTyped(x) =>
        Matches(cs \o <<CallOf(x)>>, st \o <<x>>, id)
<1> SUFFICES ASSUME NEW cs, NEW st, NEW id, NEW x, Matches(cs, st, id), IsStep(x, id), WellTyped(x)
             PROVE  Matches(cs \o <<CallOf(x)>>, st \o <<x>>, id)
    OBVIOUS
<1> DEFINE c == CallOf(x)
           ds == cs \o <<c>>
           tt == st \o <<x>>
           n == Len(st)
<1>1. IsSeq(cs) /\ IsSeq(st) /\ Len(cs) = n /\ n \in Nat
    BY SeqFacts DEF Matches
<1>2. \A k \in 1..n : cs[k] = CallOf(st[k]) /\ IsStep(st[k], id) /\ WellTyped(st[k])
    BY DEF Matches
<1> HIDE DEF c, n
<1>3. IsSeq(ds) /\ Len(ds) = n + 1 /\ ds[n + 1] = c /\ \A k \in 1..n : ds[k] = cs[k]
    <2>1. /\ IsSeq(ds) /\ Len(ds) = Len(cs) + 1 /\ ds[Len(cs) + 1] = c
          /\ \A k \in 1..Len(cs) : ds[k] = cs[k]
        <3>1. IsSeq(cs)
            BY <1>1
        <3>2. QED
            BY <3>1, SeqConcat, SeqOne, SeqSnoc
    <2> HIDE DEF ds
    <2>2. QED
        BY <1>1, <2>1
<1>4. IsSeq(tt) /\ Len(tt) = n + 1 /\ tt[n + 1] = x /\ \A k \in 1..n : tt[k] = st[k]
    BY <1>1, SeqConcat, SeqOne, SeqSnoc DEF n
<1> HIDE DEF ds, tt
<1>5. \A k \in 1..(n + 1) : k \in 1..n \/ k = n + 1
    BY <1>1
<1>6. \A k \in 1..(n + 1) : ds[k] = CallOf(tt[k]) /\ IsStep(tt[k], id) /\ WellTyped(tt[k])
    BY <1>2, <1>3, <1>4, <1>5 DEF c
<1>7. Matches(ds, tt, id)
    BY <1>3, <1>4, <1>6 DEF Matches
<1>8. QED
    BY <1>7 DEF ds, tt, c

AllWellTyped(s) == IsSeq(s) /\ \A i \in 1..Len(s) : WellTyped(s[i])

LEMMA StepsMatch ==
    \A id, s : AllWellTyped(s) => Matches(UpdateCalls(s, id), UpdateSteps(s, id), id)
<1> SUFFICES ASSUME NEW id
             PROVE  \A s : AllWellTyped(s) => Matches(UpdateCalls(s, id), UpdateSteps(s, id), id)
    OBVIOUS
<1> DEFINE Good(s) == Matches(UpdateCalls(s, id), UpdateSteps(s, id), id)
           T == {n \in Nat : \E s : AllWellTyped(s) /\ Len(s) = n /\ ~ Good(s)}
<1>1. SUFFICES T = {}
    <2>1. \A s : AllWellTyped(s) => Len(s) \in Nat
        BY SeqFacts DEF AllWellTyped
    <2> HIDE DEF Good
    <2>2. \A s : AllWellTyped(s) => Good(s)
        BY <2>1
    <2>3. QED
        BY <2>2 DEF Good
<1> HIDE DEF Good
<1>2. SUFFICES ASSUME T # {} PROVE FALSE
    OBVIOUS
<1>3. PICK n \in T : \A y \in T : n <= y
    <2>1. T \in SUBSET Nat
        OBVIOUS
    <2> HIDE DEF T
    <2>2. QED
        BY <1>2, <2>1, LeastOf
<1>4. PICK s : AllWellTyped(s) /\ Len(s) = n /\ ~ Good(s)
    BY <1>3
<1>5. IsSeq(s) /\ n \in Nat /\ \A i \in 1..n : WellTyped(s[i])
    BY <1>3, <1>4 DEF AllWellTyped
<1>6. n # 0
    <2>1. ASSUME n = 0 PROVE FALSE
        <3>1. s = <<>>
            BY <1>4, <1>5, <2>1, SeqEmpty
        <3>2. \A k \in 1..Len(<<>>) : FALSE
            OBVIOUS
        <3>3. Matches(<<>>, <<>>, id)
            BY <3>2, SeqNone DEF Matches
        <3>4. QED
            BY <1>4, <3>1, <3>3, UpdatesNone DEF Good
    <2>2. QED
        BY <2>1
<1>7. PICK r : /\ IsSeq(r) /\ Len(s) = Len(r) + 1 /\ Len(r) = Len(s) - 1
               /\ \A i \in 1..Len(r) : s[i] = r[i]
    BY <1>4, <1>5, <1>6, SeqFront
<1> DEFINE x == s[n]
<1>8. n - 1 \in Nat /\ n - 1 \notin T /\ WellTyped(x) /\ Len(r) = n - 1
    BY <1>3, <1>4, <1>5, <1>6, <1>7
<1>9. AllWellTyped(r)
    BY <1>4, <1>5, <1>7 DEF AllWellTyped
<1>10. Good(r)
    BY <1>8, <1>9
<1>11. s = Append(r, x)
    <2> DEFINE t == Append(r, x)
    <2>1. IsSeq(t) /\ Len(t) = Len(r) + 1 /\ (\A i \in 1..Len(r) : t[i] = r[i]) /\ t[Len(r) + 1] = x
        BY <1>7, SeqPlus, ZenonT(30)
    <2> HIDE DEF t
    <2>2. \A i \in 1..Len(s) : i \in 1..Len(r) \/ i = Len(r) + 1
        BY <1>4, <1>5, <1>7
    <2>3. s[Len(r) + 1] = x
        BY <1>4, <1>5, <1>7
    <2> HIDE DEF x
    <2>4. \A i \in 1..Len(s) : s[i] = t[i]
        BY <1>7, <2>1, <2>2, <2>3
    <2>5. s = t
        BY <1>5, <1>7, <2>1, <2>4, SeqSame
    <2>6. QED
        BY <2>5 DEF t
<1> HIDE DEF x, T
<1>12. /\ UpdateCalls(s, id) = UpdateCalls(r, id) \o StepCall(x, id)
       /\ UpdateSteps(s, id) = UpdateSteps(r, id) \o StepOf(x, id)
       /\ IsSeq(UpdateCalls(r, id)) /\ IsSeq(UpdateSteps(r, id))
    BY <1>7, <1>11, CallsSaid, StepsSaid
<1>13. CASE IsStep(x, id)
    <2>1. StepCall(x, id) = <<CallOf(x)>> /\ StepOf(x, id) = <<x>>
        BY <1>13 DEF StepCall, StepOf
    <2>2. Matches(UpdateCalls(r, id) \o <<CallOf(x)>>, UpdateSteps(r, id) \o <<x>>, id)
        BY <1>8, <1>10, <1>13, MatchesPlus DEF Good
    <2>3. Good(s)
        BY <1>12, <2>1, <2>2 DEF Good
    <2>4. QED
        BY <1>4, <2>3
<1>14. CASE ~IsStep(x, id)
    <2>1. StepCall(x, id) = <<>> /\ StepOf(x, id) = <<>>
        BY <1>14 DEF StepCall, StepOf
    <2>2. UpdateCalls(s, id) = UpdateCalls(r, id) /\ UpdateSteps(s, id) = UpdateSteps(r, id)
        BY <1>12, <2>1, ConcatNone
    <2>3. Good(s)
        BY <1>10, <2>2 DEF Good
    <2>4. QED
        BY <1>4, <2>3
<1>15. QED
    BY <1>13, <1>14

LEMMA StepIs ==
    \A u, id : IsStep(u, id) /\ WellTyped(u) =>
        /\ IsCall(CallOf(u)) /\ CallOf(u).id = id
        /\ u.update = "tool_call" => CallOf(u) = NormalizeToolCall(u.tool)
        /\ u.update # "tool_call" =>
              /\ CallOf(u) = NormalizeToolCallUpdate(id, u.fields)
              /\ \A field \in {"title", "kind", "status", "content", "locations", "raw"} :
                    IsOption(u.fields[field])
<1> SUFFICES ASSUME NEW u, NEW id, IsStep(u, id), WellTyped(u)
             PROVE  /\ IsCall(CallOf(u)) /\ CallOf(u).id = id
                    /\ u.update = "tool_call" => CallOf(u) = NormalizeToolCall(u.tool)
                    /\ u.update # "tool_call" =>
                          /\ CallOf(u) = NormalizeToolCallUpdate(id, u.fields)
                          /\ \A field \in {"title", "kind", "status", "content", "locations", "raw"} :
                                IsOption(u.fields[field])
    OBVIOUS
<1>1. u.update \in {"tool_call", "tool_call_update"}
    BY DEF IsStep
<1>2. IsCall(CallOf(u))
    BY <1>1, CallOfTyped
<1>3. CASE u.update = "tool_call"
    <2>1. u.tool.id = id /\ CallOf(u) = NormalizeToolCall(u.tool)
        BY <1>3 DEF IsStep, CallOf
    <2>2. NormalizeToolCall(u.tool).id = u.tool.id
        BY DEF NormalizeToolCall
    <2>3. QED
        BY <1>2, <1>3, <2>1, <2>2
<1>4. CASE u.update = "tool_call_update"
    <2>1. u.id = id /\ CallOf(u) = NormalizeToolCallUpdate(u.id, u.fields)
        BY <1>4 DEF IsStep, CallOf
    <2>2. NormalizeToolCallUpdate(u.id, u.fields).id = u.id
        BY DEF NormalizeToolCallUpdate
    <2>3. \A field \in {"title", "kind", "status", "content", "locations", "raw"} :
             IsOption(u.fields[field])
        BY <1>4 DEF WellTyped
    <2>4. QED
        BY <1>2, <1>4, <2>1, <2>2, <2>3
<1>5. QED
    BY <1>1, <1>3, <1>4

\* Merging an update into a call of the same tool.
LEMMA CallPatched ==
    \A c, id, fields :
        /\ IsCall(c) /\ c.id = id /\ Explicit(fields)
        /\ \A field \in {"title", "kind", "status", "content", "locations", "raw"} :
              IsOption(fields[field])
        => Merging(c, NormalizeToolCallUpdate(id, fields)) = Patch(c, fields)
<1> SUFFICES ASSUME NEW c, NEW id, NEW fields, IsCall(c), c.id = id, Explicit(fields),
                    \A field \in {"title", "kind", "status", "content", "locations", "raw"} :
                        IsOption(fields[field])
             PROVE  Merging(c, NormalizeToolCallUpdate(id, fields)) = Patch(c, fields)
    OBVIOUS
<1>1. c = Call(id, c.title, c.kind, c.status, c.detail, c.content, c.locations, c.raw)
    BY DEF IsCall
<1>2. Merging(Call(id, c.title, c.kind, c.status, c.detail, c.content, c.locations, c.raw),
              NormalizeToolCallUpdate(id, fields))
        = Patch(Call(id, c.title, c.kind, c.status, c.detail, c.content, c.locations, c.raw), fields)
    BY UpdateIsPatch
<1>3. QED
    BY <1>1, <1>2

\* The steps that Patched folds.
IsPatched(st, f) ==
    f = [j \in 1..Len(st) |-> IF j = 1 THEN NormalizeToolCall(st[1].tool)
                                       ELSE Patch(f[j - 1], st[j].fields)]

LEMMA PatchedIs ==
    \A st, g : \A n \in Nat \ {0} :
        /\ Len(st) = n /\ g[1] = NormalizeToolCall(st[1].tool)
        /\ \A j \in 2..n : g[j] = Patch(g[j - 1], st[j].fields)
        => Patched(st) = g[n]
<1> SUFFICES ASSUME NEW st, NEW g, NEW n \in Nat \ {0}, Len(st) = n,
                    g[1] = NormalizeToolCall(st[1].tool),
                    \A j \in 2..n : g[j] = Patch(g[j - 1], st[j].fields)
             PROVE  Patched(st) = g[n]
    OBVIOUS
<1> DEFINE h == [j \in 1..n |-> g[j]]
           f == CHOOSE p : IsPatched(st, p)
<1>1. IsPatched(st, h)
    <2>1. ASSUME NEW j \in 1..n
          PROVE  h[j] = IF j = 1 THEN NormalizeToolCall(st[1].tool) ELSE Patch(h[j - 1], st[j].fields)
        <3>1. CASE j = 1
            BY <3>1
        <3>2. CASE j # 1
            <4>1. j \in 2..n /\ j - 1 \in 1..n
                BY <3>2
            <4>2. h[j - 1] = g[j - 1] /\ h[j] = g[j]
                BY <4>1
            <4> HIDE DEF h
            <4>3. QED
                BY <3>2, <4>1, <4>2
        <3>3. QED
            BY <3>1, <3>2
    <2>2. h = [j \in 1..n |-> h[j]]
        OBVIOUS
    <2> HIDE DEF h
    <2>3. QED
        BY <2>1, <2>2 DEF IsPatched
<1> HIDE DEF h
<1>2. IsPatched(st, f)
    BY <1>1
<1>3. Patched(st) = f[n]
    BY DEF Patched, IsPatched
<1> HIDE DEF f
<1>4. f[1] = g[1] /\ \A j \in 2..n : f[j] = Patch(f[j - 1], st[j].fields)
    <2>1. \A j \in 1..n : f[j] = IF j = 1 THEN NormalizeToolCall(st[1].tool)
                                          ELSE Patch(f[j - 1], st[j].fields)
        BY <1>2 DEF IsPatched
    <2>2. 1 \in 1..n /\ \A j \in 2..n : j \in 1..n /\ j # 1
        OBVIOUS
    <2>3. QED
        BY <2>1, <2>2
<1>5. f[n] = g[n]
    <2> DEFINE T == {j \in 1..n : f[j] # g[j]}
    <2>1. ASSUME T # {} PROVE FALSE
        <3>1. PICK j \in T : \A y \in T : j <= y
            <4>1. T \in SUBSET Nat
                OBVIOUS
            <4> HIDE DEF T
            <4>2. QED
                BY <2>1, <4>1, LeastOf
        <3>2. j \in 1..n /\ f[j] # g[j] /\ j # 1
            BY <1>4, <3>1
        <3>3. j \in 2..n /\ j - 1 \in 1..n /\ j - 1 \notin T
            BY <3>1, <3>2
        <3>4. f[j - 1] = g[j - 1]
            BY <3>3
        <3>5. QED
            BY <1>4, <3>2, <3>3, <3>4
    <2>2. n \in 1..n
        OBVIOUS
    <2>3. QED
        BY <2>1, <2>2
<1>6. QED
    BY <1>3, <1>5

\* A chain of explicit updates is the chain of their patches.
LEMMA ChainPatched ==
    ASSUME NEW cs, NEW st, NEW id, NEW c, Matches(cs, st, id), Chained(cs, c),
           st[1].update = "tool_call",
           \A j \in 2..Len(st) : st[j].update # "tool_call" /\ Explicit(st[j].fields)
    PROVE  c = Patched(st)
<1> DEFINE n == Len(st)
<1>1. n \in Nat \ {0} /\ Len(cs) = n
    BY SeqFacts DEF Matches, Chained
<1>2. \A k \in 1..n : cs[k] = CallOf(st[k]) /\ IsStep(st[k], id) /\ WellTyped(st[k])
    BY DEF Matches
<1>3. PICK g : g[1] = cs[1] /\ (\A j \in 2..n : g[j] = Merging(g[j - 1], cs[j])) /\ c = g[n]
    BY <1>1 DEF Chained
<1>4. \A j \in 2..n : st[j].update # "tool_call" /\ Explicit(st[j].fields)
    OBVIOUS
<1>5. Len(st) = n
    OBVIOUS
<1> HIDE DEF n
<1>6. 1 \in 1..n /\ \A j \in 2..n : j \in 1..n /\ j - 1 \in 1..n /\ (j - 1 = 1 \/ j - 1 \in 2..n)
    BY <1>1
<1>7. \A k \in 1..n : IsCall(cs[k]) /\ cs[k].id = id
    BY <1>2, StepIs
<1>8. g[1] = NormalizeToolCall(st[1].tool)
    BY <1>2, <1>3, <1>6, StepIs
<1>9. \A j \in 1..n : IsCall(g[j]) /\ g[j].id = id
    <2>1. ASSUME NEW j \in 1..n PROVE IsCall(g[j]) /\ g[j].id = id
        <3>1. CASE j = 1
            BY <1>3, <1>6, <1>7, <3>1
        <3>2. CASE j \in 2..n
            BY <1>3, <1>6, <1>7, <3>2, MergingTyped
        <3>3. j = 1 \/ j \in 2..n
            BY <1>1
        <3>4. QED
            BY <3>1, <3>2, <3>3
    <2>2. QED
        BY <2>1
<1>10. \A j \in 2..n : g[j] = Patch(g[j - 1], st[j].fields)
    <2>1. ASSUME NEW j \in 2..n PROVE g[j] = Patch(g[j - 1], st[j].fields)
        <3> DEFINE old == g[j - 1]
                   u == st[j]
        <3>1. IsCall(old) /\ old.id = id
            BY <1>6, <1>9
        <3>2. g[j] = Merging(old, cs[j]) /\ cs[j] = CallOf(u)
            BY <1>2, <1>3, <1>6
        <3>3. IsStep(u, id) /\ WellTyped(u) /\ u.update # "tool_call" /\ Explicit(u.fields)
            BY <1>2, <1>4, <1>6
        <3> HIDE DEF old, u
        <3>4. /\ CallOf(u) = NormalizeToolCallUpdate(id, u.fields)
              /\ \A field \in {"title", "kind", "status", "content", "locations", "raw"} :
                    IsOption(u.fields[field])
            BY <3>3, StepIs
        <3>5. Merging(old, NormalizeToolCallUpdate(id, u.fields)) = Patch(old, u.fields)
            BY <3>1, <3>3, <3>4, CallPatched
        <3>6. g[j] = Patch(old, u.fields)
            BY <3>2, <3>4, <3>5
        <3>7. QED
            BY <3>6 DEF old, u
    <2>2. QED
        BY <2>1
<1>11. Patched(st) = g[n]
    BY <1>1, <1>5, <1>8, <1>10, PatchedIs, SMTT(30)
<1>12. QED
    BY <1>3, <1>11

\* One item of a tool call is all its items.
LEMMA OneItem ==
    ASSUME NEW items, IsSeq(items), NEW id, NEW i \in ItemsOf(items, id),
           ~(Cardinality(ItemsOf(items, id)) > 1)
    PROVE  ItemsOf(items, id) = {i}
<1> DEFINE S == ItemsOf(items, id)
           n == Len(items)
<1>1. n \in Nat /\ DOMAIN items = 1..n
    BY SeqFacts
<1>2. S \in SUBSET (1..n) /\ {i} \in SUBSET S
    BY <1>1 DEF ItemsOf
<1> HIDE DEF S, n
<1>3. IsFiniteSet(1..n)
    BY <1>1, FS_Interval
<1>4. IsFiniteSet(S)
    BY <1>2, <1>3, FS_Subset
<1>5. Cardinality(S) \in Nat
    BY <1>4, FS_CardinalityType
<1>6. /\ Cardinality({i}) <= Cardinality(S)
      /\ Cardinality(S) = Cardinality({i}) => S = {i}
    BY <1>2, <1>4, FS_Subset
<1>7. Cardinality({i}) = 1
    BY FS_Singleton
<1>8. Cardinality(S) = 1
    <2>1. ~(Cardinality(S) > 1)
        BY DEF S
    <2>2. QED
        BY <1>5, <1>6, <1>7, <2>1
<1>9. QED
    BY <1>6, <1>7, <1>8 DEF S

LEMMA ToolsRest == TypeInv /\ SaidInv /\ ShownInv => ToolShown
<1> SUFFICES ASSUME TypeInv, SaidInv, ShownInv, AtRest, ~hasOlder, disturbed = {},
                    NEW i \in DOMAIN transcript, transcript[i].type = "tool",
                    ~(Cardinality(ItemsOf(transcript, transcript[i].call.id)) > 1),
                    ToolSteps(transcript[i].call.id)[1].update = "tool_call",
                    \A j \in 2..Len(ToolSteps(transcript[i].call.id)) :
                        /\ ToolSteps(transcript[i].call.id)[j].update # "tool_call"
                        /\ Explicit(ToolSteps(transcript[i].call.id)[j].fields)
             PROVE  transcript[i].call = Patched(ToolSteps(transcript[i].call.id))
    BY DEF ToolShown
<1> DEFINE id == transcript[i].call.id
           c == transcript[i].call
           st == ToolSteps(id)
           cs == UpdateCalls(said, id)
<1>1. Represents(log, transcript, 1, Len(log)) /\ EventsOf(channel) = <<>>
    BY RestShown
<1>2. IsSeq(transcript)
    BY <1>1 DEF Represents, IsItems
<1>3. i \in ItemsOf(transcript, id)
    BY DEF ItemsOf
<1>4. st[1].update = "tool_call" /\ \A j \in 2..Len(st) : st[j].update # "tool_call" /\ Explicit(st[j].fields)
    OBVIOUS
<1>5. st = UpdateSteps(said, id)
    BY DEF ToolSteps, UpdateSteps
<1> HIDE DEF id, st, cs
<1>6. ItemsOf(transcript, id) = {i}
    <2>1. ~(Cardinality(ItemsOf(transcript, id)) > 1)
        BY DEF id
    <2>2. QED
        BY <1>2, <1>3, <2>1, OneItem
<1>7. Chained(AllCalls(log, id), c)
    BY <1>1, <1>6 DEF Represents, AllCalls
<1>8. AllCalls(log, id) = cs
    <2>1. IsSeq(log) /\ AllCalls(log, id) \o AllCalls(<<>>, id) = cs
        BY <1>1 DEF SaidInv, Heard, IsLog, cs
    <2>2. IsSeq(AllCalls(log, id)) /\ AllCalls(<<>>, id) = <<>>
        BY <2>1, AllTyped, AllNone
    <2>3. QED
        BY <2>1, <2>2, ConcatNone
<1>9. Matches(cs, st, id)
    <2>1. AllWellTyped(said)
        BY DEF SaidInv, Heard, AllWellTyped
    <2>2. QED
        BY <1>5, <2>1, StepsMatch DEF cs
<1> HIDE DEF c
<1>10. c = Patched(st)
    BY <1>4, <1>7, <1>8, <1>9, ChainPatched
<1>11. QED
    BY <1>10 DEF c, st, id

\* A tool call that a view at rest shows in one item is the call the agent
\* opened with every explicit update applied as ACP reads it, however the
\* updates were split between pages of the history and live events and for any
\* number of them (session.rs normalize_tool_call and
\* normalize_tool_call_update, GatewayModels.swift merging,
\* SessionViewModel.swift upsert).
THEOREM ToolsShown == Spec => []ToolShown
BY TypeInvAlways, SaidInvAlways, ShownInvAlways, ToolsRest, PTL

=============================================================================
