--------------------------- MODULE ListServiceProofs ---------------------------
(***************************************************************************)
(* Theorems about ListService, for every file, every set of server codes    *)
(* and every size of the send buffer: the servers loaded are those the file *)
(* lists, a complete request is answered as it asks, and the lists fit as   *)
(* long as no more servers are shown than there is room for.                *)
(***************************************************************************)
EXTENDS ListService, PrefixInduction, FiniteSetTheorems, SequenceTheorems, TLAPS

----------------------------------------------------------------------------
(* The recursive functions of the tokenizer and of the community operators: *)
(* every one of them is shown to exist, up to each of its arguments in      *)
(* turn, before anything is said about it.                                  *)

\* The concatenation of a sequence of sequences, one after the other.
LEMMA FlattenIs ==
  ASSUME NEW T, NEW seqs \in Seq(Seq(T)), Len(seqs) # 0
  PROVE  \E f : /\ FlattenSeq(seqs) = f[Len(seqs)]
                /\ \A i \in 1 .. Len(seqs) :
                     f[i] = IF i = 1 THEN seqs[i] ELSE f[i - 1] \o seqs[i]
<1>. DEFINE n == Len(seqs)
            Flattens(f, k) ==
              \A i \in 1 .. k : f[i] = IF i = 1 THEN seqs[i] ELSE f[i - 1] \o seqs[i]
            flatten == CHOOSE f : f = [i \in 1 .. n |->
                                         IF i = 1 THEN seqs[i] ELSE f[i - 1] \o seqs[i]]
            P == {k \in 0 .. n : \E f : Flattens(f, k)}
<1>0. n \in Nat /\ \A i \in 1 .. n : seqs[i] \in Seq(T)
  OBVIOUS
<1>1. FlattenSeq(seqs) = IF n = 0 THEN seqs ELSE flatten[n]
  BY Zenon DEF FlattenSeq
<1>2. n # 0
  OBVIOUS
<1>. HIDE DEF n
<1>3. \A k \in 0 .. n : k \in P
  <2>1. 0 \in P
    <3>1. Flattens(seqs, 0)
      BY <1>0
    <3>. QED
      BY <1>0, <3>1
  <2>2. ASSUME NEW k \in 0 .. n, k \in P, k < n PROVE k + 1 \in P
    <3>1. PICK f : Flattens(f, k)
      BY <2>2
    <3>. DEFINE g == [i \in 1 .. k + 1 |->
                        IF i = k + 1 THEN IF i = 1 THEN seqs[i] ELSE f[k] \o seqs[i] ELSE f[i]]
    <3>2. ASSUME NEW i \in 1 .. k + 1
          PROVE  g[i] = IF i = 1 THEN seqs[i] ELSE g[i - 1] \o seqs[i]
      <4>1. CASE i = k + 1
        BY <1>0, <2>2, <4>1
      <4>2. CASE i # k + 1
        <5>0. i \in 1 .. k
          BY <1>0, <4>2
        <5>1. f[i] = IF i = 1 THEN seqs[i] ELSE f[i - 1] \o seqs[i]
          BY <3>1, <5>0
        <5>2. g[i] = f[i] /\ (i # 1 => g[i - 1] = f[i - 1])
          BY <1>0, <4>2
        <5>. QED
          BY <5>1, <5>2
      <4>. QED
        BY <4>1, <4>2
    <3>3. Flattens(g, k + 1)
      BY <3>2
    <3>4. k + 1 \in 0 .. n
      BY <1>0, <2>2
    <3>. HIDE DEF g, Flattens
    <3>. QED
      BY <3>3, <3>4
  <2>. HIDE DEF P
  <2>. QED
    BY <1>0, <2>1, <2>2, UpTo
<1>4. \A i \in 1 .. n : flatten[i] = IF i = 1 THEN seqs[i] ELSE flatten[i - 1] \o seqs[i]
  <2>1. PICK f : Flattens(f, n)
    <3>1. n \in 0 .. n
      BY <1>0
    <3>. HIDE DEF Flattens
    <3>. QED
      BY <1>3, <3>1
  <2>. DEFINE g == [i \in 1 .. n |-> f[i]]
  <2>2. g = [i \in 1 .. n |-> IF i = 1 THEN seqs[i] ELSE g[i - 1] \o seqs[i]]
    <3>1. \A i \in 1 .. n : i # 1 => i - 1 \in 1 .. n
      BY <1>0
    <3>. QED
      BY <2>1, <3>1
  <2>. HIDE DEF g
  <2>3. flatten = [i \in 1 .. n |-> IF i = 1 THEN seqs[i] ELSE flatten[i - 1] \o seqs[i]]
    BY <2>2
  <2>. HIDE DEF flatten
  <2>. QED
    BY <2>3
<1>. HIDE DEF flatten
<1>. QED
  BY <1>1, <1>2, <1>4 DEF n

\* It is a sequence, too.
LEMMA FlattenIsSeq ==
  ASSUME NEW T, NEW seqs \in Seq(Seq(T)) PROVE FlattenSeq(seqs) \in Seq(T)
<1>. DEFINE n == Len(seqs)
<1>0. n \in Nat /\ \A i \in 1 .. n : seqs[i] \in Seq(T)
  OBVIOUS
<1>1. CASE n = 0
  <2>1. FlattenSeq(seqs) = seqs
    BY <1>1, Zenon DEF FlattenSeq
  <2>2. seqs = <<>>
    BY <1>1
  <2>. QED
    BY <2>1, <2>2
<1>2. CASE n # 0
  <2>1. PICK f : /\ FlattenSeq(seqs) = f[n]
                 /\ \A i \in 1 .. n : f[i] = IF i = 1 THEN seqs[i] ELSE f[i - 1] \o seqs[i]
    BY <1>2, FlattenIs
  <2>. DEFINE Q == {k \in 0 .. n : k = 0 \/ f[k] \in Seq(T)}
  <2>. HIDE DEF n
  <2>2. \A k \in 0 .. n : k \in Q
    <3>1. 0 \in Q
      BY <1>0
    <3>2. ASSUME NEW k \in 0 .. n, k \in Q, k < n PROVE k + 1 \in Q
      <4>1. k + 1 \in 1 .. n /\ k + 1 - 1 = k
        BY <1>0, <3>2
      <4>2. f[k + 1] = IF k = 0 THEN seqs[k + 1] ELSE f[k] \o seqs[k + 1]
        BY <2>1, <4>1
      <4>3. k # 0 => f[k] \o seqs[k + 1] \in Seq(T)
        BY <1>0, <3>2, <4>1, ConcatProperties
      <4>4. f[k + 1] \in Seq(T)
        BY <1>0, <4>1, <4>2, <4>3
      <4>. QED
        BY <4>1, <4>4
    <3>. HIDE DEF Q
    <3>. QED
      BY <1>0, <3>1, <3>2, UpTo
  <2>. QED
    BY <1>0, <1>2, <2>1, <2>2
<1>. QED
  BY <1>1, <1>2

----------------------------------------------------------------------------
(* The tokenizer.                                                          *)

\* A search ends within the text, or just behind it.
LEMMA FirstWithin ==
  ASSUME NEW T, NEW s \in Seq(T), NEW p \in 1 .. Len(s) + 1, NEW C
  PROVE  /\ FirstIn(s, p, C) \in p .. Len(s) + 1
         /\ FirstIn(s, p, C) <= Len(s) => s[FirstIn(s, p, C)] \in C
         /\ FirstNotIn(s, p, C) \in p .. Len(s) + 1
         /\ \A i \in p .. FirstNotIn(s, p, C) - 1 : s[i] \in C
<1>. DEFINE A == {i \in p .. Len(s) : s[i] \in C} \cup {Len(s) + 1}
            B == {i \in p .. Len(s) : s[i] \notin C} \cup {Len(s) + 1}
<1>1. A \subseteq p .. Len(s) + 1 /\ B \subseteq p .. Len(s) + 1
  OBVIOUS
<1>2. A \subseteq Nat /\ A # {} /\ B \subseteq Nat /\ B # {}
  BY <1>1
<1>3. Min(A) \in A /\ Min(B) \in B /\ \A i \in B : Min(B) <= i
  BY <1>2, LeastElement
<1>4. FirstIn(s, p, C) = Min(A) /\ FirstNotIn(s, p, C) = Min(B)
  BY DEF FirstIn, FirstNotIn
<1>5. ASSUME NEW i \in p .. Min(B) - 1, s[i] \notin C PROVE FALSE
  <2>1. i \in B
    BY <1>1, <1>3, <1>5
  <2>. QED
    BY <1>1, <1>3, <1>5, <2>1
<1>. QED
  BY <1>1, <1>3, <1>4, <1>5

\* A comment or slash does not reach behind the text.
LEMMA PastSlashWithin ==
  ASSUME NEW T, NEW s \in Seq(T), NEW p \in 1 .. Len(s) + 1
  PROVE  PastSlash(s, p) \in p .. Len(s) + 1
<1>1. CharAt(s, p) = Slash => p <= Len(s)
  BY DEF CharAt, Slash, EOF
<1>2. CharAt(s, p) = Slash /\ CharAt(s, p + 1) = Slash => p + 2 \in 1 .. Len(s) + 1
  BY <1>1 DEF CharAt, Slash, EOF
<1>3. CharAt(s, p) = Slash /\ CharAt(s, p + 1) = Slash =>
        FirstIn(s, p + 2, {Newline}) \in p + 2 .. Len(s) + 1
  BY <1>2, FirstWithin
<1>. QED
  BY <1>1, <1>3 DEF PastSlash

\* Where the loop before a token stops.
Stops(s, p, endLine) ==
  \/ CharAt(s, PastSlash(s, p)) \notin Space
  \/ endLine /\ CharAt(s, PastSlash(s, p)) = Newline

\* Elsewhere it goes on behind the character.
LEMMA SkipIs ==
  ASSUME NEW T, NEW s \in Seq(T), NEW from \in 1 .. Len(s) + 1, NEW endLine \in BOOLEAN
  PROVE  /\ Skip(s, from, endLine) = IF Stops(s, from, endLine) THEN PastSlash(s, from)
                                     ELSE Skip(s, PastSlash(s, from) + 1, endLine)
         /\ PastSlash(s, from) \in from .. Len(s) + 1
         /\ Stops(s, from, endLine) \/ PastSlash(s, from) \in from .. Len(s)
<1>. DEFINE n == Len(s)
            Ends(p) == Stops(s, p, endLine)
            Skips(f, k) ==
              \A p \in k .. n + 1 :
                f[p] = IF Ends(p) THEN PastSlash(s, p) ELSE f[PastSlash(s, p) + 1]
            skip == CHOOSE f : f = [p \in 1 .. n + 1 |->
                                      IF Ends(p) THEN PastSlash(s, p)
                                      ELSE f[PastSlash(s, p) + 1]]
            P == {k \in 0 .. n : \E f : Skips(f, n + 1 - k)}
<1>0. n \in Nat
  OBVIOUS
<1>1. \A p \in 1 .. n + 1 : PastSlash(s, p) \in p .. n + 1
  BY PastSlashWithin
<1>2. \A p \in 1 .. n + 1 : Ends(p) \/ PastSlash(s, p) + 1 \in p + 1 .. n + 1
  <2>1. ASSUME NEW p \in 1 .. n + 1, PastSlash(s, p) = n + 1 PROVE Ends(p)
    <3>1. CharAt(s, n + 1) = EOF
      BY <1>0 DEF CharAt
    <3>. QED
      BY <2>1, <3>1 DEF Stops, EOF, Space, Blank, Newline
  <2>. HIDE DEF n, Ends
  <2>. QED
    BY <1>0, <1>1, <2>1
<1>. HIDE DEF n, Ends
<1>3. \A k \in 0 .. n : k \in P
  <2>1. 0 \in P
    <3>. DEFINE f == [p \in {n + 1} |-> PastSlash(s, p)]
    <3>1. Skips(f, n + 1 - 0)
      BY <1>0, <1>2
    <3>. HIDE DEF f, Skips
    <3>. QED
      BY <1>0, <3>1
  <2>2. ASSUME NEW k \in 0 .. n, k \in P, k < n PROVE k + 1 \in P
    <3>. DEFINE m == n - k
    <3>1. PICK f : Skips(f, m + 1)
      <4>1. n + 1 - k = m + 1
        BY <1>0
      <4>. HIDE DEF m, Skips
      <4>. QED
        BY <2>2, <4>1
    <3>. DEFINE g == [p \in m .. n + 1 |->
                        IF p = m THEN IF Ends(p) THEN PastSlash(s, p)
                                      ELSE f[PastSlash(s, p) + 1]
                        ELSE f[p]]
    <3>2. m \in 1 .. n
      BY <1>0, <2>2
    <3>3. \A p \in m .. n + 1 :
            g[p] = IF Ends(p) THEN PastSlash(s, p) ELSE g[PastSlash(s, p) + 1]
      <4>. HIDE DEF m
      <4>. TAKE p \in m .. n + 1
      <4>1. Ends(p) \/ PastSlash(s, p) + 1 \in p + 1 .. n + 1
        BY <1>0, <1>2, <3>2
      <4>2. CASE p = m
        BY <1>0, <3>2, <4>1, <4>2
      <4>3. CASE p # m
        <5>1. f[p] = IF Ends(p) THEN PastSlash(s, p) ELSE f[PastSlash(s, p) + 1]
          BY <1>0, <3>1, <3>2, <4>3
        <5>. QED
          BY <1>0, <3>2, <4>1, <4>3, <5>1
      <4>. QED
        BY <4>2, <4>3
    <3>4. Skips(g, m)
      BY <3>3
    <3>5. m = n + 1 - (k + 1) /\ k + 1 \in 0 .. n
      BY <1>0, <2>2
    <3>. HIDE DEF g, m, Skips
    <3>. QED
      BY <3>4, <3>5
  <2>. HIDE DEF P
  <2>. QED
    BY <1>0, <2>1, <2>2, UpTo
<1>4. \A p : Skip(s, p, endLine) = skip[p]
  BY Zenon DEF Skip, Ends, Stops, n
<1>5. \A p \in 1 .. n + 1 :
        skip[p] = IF Ends(p) THEN PastSlash(s, p) ELSE skip[PastSlash(s, p) + 1]
  <2>1. PICK f : Skips(f, 1)
    <3>1. n + 1 - n = 1 /\ n \in 0 .. n
      BY <1>0
    <3>. HIDE DEF Skips
    <3>. QED
      BY <1>3, <3>1
  <2>. DEFINE g == [p \in 1 .. n + 1 |-> f[p]]
  <2>2. g = [p \in 1 .. n + 1 |-> IF Ends(p) THEN PastSlash(s, p) ELSE g[PastSlash(s, p) + 1]]
    <3>1. \A p \in 1 .. n + 1 : Ends(p) \/ PastSlash(s, p) + 1 \in 1 .. n + 1
      BY <1>0, <1>2
    <3>. QED
      BY <2>1, <3>1
  <2>. HIDE DEF g
  <2>3. skip = [p \in 1 .. n + 1 |->
                  IF Ends(p) THEN PastSlash(s, p) ELSE skip[PastSlash(s, p) + 1]]
    BY <2>2
  <2>. HIDE DEF skip
  <2>. QED
    BY <2>3
<1>. HIDE DEF skip
<1>. QED
  BY <1>0, <1>1, <1>2, <1>4, <1>5 DEF n, Ends

\* It ends within the text, or just behind it.
LEMMA SkipWithin ==
  ASSUME NEW T, NEW s \in Seq(T), NEW from \in 1 .. Len(s) + 1, NEW endLine \in BOOLEAN
  PROVE  Skip(s, from, endLine) \in from .. Len(s) + 1
<1>. DEFINE n == Len(s)
            Q == {k \in 0 .. n : \A p \in n + 1 - k .. n + 1 :
                                   Skip(s, p, endLine) \in p .. n + 1}
<1>0. n \in Nat
  OBVIOUS
<1>1. ASSUME NEW p \in 1 .. n + 1
      PROVE  \E q \in p .. n + 1 :
               \/ Skip(s, p, endLine) = q
               \/ q # n + 1 /\ Skip(s, p, endLine) = Skip(s, q + 1, endLine)
  <2>. DEFINE q == PastSlash(s, p)
  <2>1. CASE Stops(s, p, endLine)
    <3>1. Skip(s, p, endLine) = q /\ q \in p .. n + 1
      BY <2>1, SkipIs
    <3>. QED
      BY <3>1
  <2>2. CASE ~Stops(s, p, endLine)
    <3>1. Skip(s, p, endLine) = Skip(s, q + 1, endLine) /\ q \in p .. n
      BY <2>2, SkipIs
    <3>2. q \in p .. n + 1 /\ q # n + 1
      BY <1>0, <3>1
    <3>. QED
      BY <3>1, <3>2
  <2>. QED
    BY <2>1, <2>2
<1>. HIDE DEF n
<1>2. \A k \in 0 .. n : k \in Q
  <2>1. 0 \in Q
    <3>1. n + 1 \in 1 .. n + 1 /\ n + 1 - 0 = n + 1
      BY <1>0
    <3>. QED
      BY <1>0, <1>1, <3>1
  <2>2. ASSUME NEW k \in 0 .. n, k \in Q, k < n PROVE k + 1 \in Q
    <3>. DEFINE m == n - k
    <3>1. \A p \in m + 1 .. n + 1 : Skip(s, p, endLine) \in p .. n + 1
      BY <1>0, <2>2
    <3>2. m \in 1 .. n
      BY <1>0, <2>2
    <3>. HIDE DEF m
    <3>3. Skip(s, m, endLine) \in m .. n + 1
      <4>1. PICK q \in m .. n + 1 :
              \/ Skip(s, m, endLine) = q
              \/ q # n + 1 /\ Skip(s, m, endLine) = Skip(s, q + 1, endLine)
        <5>1. m \in 1 .. n + 1
          BY <1>0, <3>2
        <5>. QED
          BY <1>1, <5>1
      <4>2. q # n + 1 => Skip(s, q + 1, endLine) \in q + 1 .. n + 1
        BY <1>0, <3>1, <3>2, <4>1
      <4>. QED
        BY <1>0, <3>2, <4>1, <4>2
    <3>4. \A p \in m .. n + 1 : Skip(s, p, endLine) \in p .. n + 1
      BY <1>0, <3>1, <3>2, <3>3
    <3>. QED
      BY <1>0, <2>2, <3>4 DEF m
  <2>. HIDE DEF Q
  <2>. QED
    BY <1>0, <2>1, <2>2, UpTo
<1>. QED
  <2>1. n \in Q
    BY <1>0, <1>2
  <2>. QED
    BY <1>0, <2>1 DEF n

\* A read moves within the text, or just behind it, and takes what the token
\* says out of the text.
LEMMA TokenWithin ==
  ASSUME NEW T, NEW s \in Seq(T), NEW p \in 1 .. Len(s) + 1, NEW endLine \in BOOLEAN
  PROVE  /\ GetToken(s, p, endLine).next \in 1 .. Len(s) + 1
         /\ GetToken(s, p, endLine).value \in Seq(T)
<1>. DEFINE q == Skip(s, p, endLine)
            e == FirstNotIn(s, q, NumberChar)
            d == FirstIn(s, q + 1, {Quote, Newline})
            w == FirstNotIn(s, q, WordChar)
<1>1. q \in 1 .. Len(s) + 1 /\ Len(s) \in Nat
  BY SkipWithin
<1>2. q # Len(s) + 1 \/ CharAt(s, q) = EOF
  BY <1>1 DEF CharAt
<1>3. CharAt(s, q) # EOF => q + 1 \in 1 .. Len(s) + 1
  BY <1>1, <1>2
<1>4. /\ e \in q .. Len(s) + 1
      /\ w \in q .. Len(s) + 1
      /\ CharAt(s, q) # EOF => d \in q + 1 .. Len(s) + 1
  BY <1>1, <1>3, FirstWithin
<1>. HIDE DEF q, e, d, w
<1>5. /\ SubSeq(s, q, e - 1) \in Seq(T) /\ SubSeq(s, q, w - 1) \in Seq(T)
      /\ CharAt(s, q) # EOF => SubSeq(s, q + 1, d - 1) \in Seq(T)
  <2>1. \A i \in q .. Len(s) : s[i] \in T
    BY <1>1
  <2>2. SubSeq(s, q, e - 1) \in Seq(T) /\ SubSeq(s, q, w - 1) \in Seq(T)
    BY <1>1, <1>4, <2>1, SubSeqProperties
  <2>3. ASSUME CharAt(s, q) # EOF PROVE SubSeq(s, q + 1, d - 1) \in Seq(T)
    BY <1>1, <1>4, <2>1, <2>3, SubSeqProperties
  <2>. QED
    BY <2>2, <2>3
<1>6. Min({e, Len(s)}) + 1 \in 1 .. Len(s) + 1
  <2>1. Min({e, Len(s)}) \in {e, Len(s)} /\ Min({e, Len(s)}) <= Len(s)
    <3>1. {e, Len(s)} \subseteq Nat /\ {e, Len(s)} # {}
      BY <1>1, <1>4
    <3>. QED
      BY <3>1, LeastElement
  <2>. QED
    BY <1>1, <1>4, <2>1
<1>7. CASE CharAt(s, q) = EOF
  <2>1. GetToken(s, p, endLine) = Token("end", <<>>, q)
    BY <1>7 DEF GetToken, q, EOF, Newline, Quote, NumberChar, Digit, Letter
  <2>. QED
    BY <1>1, <2>1 DEF Token
<1>8. ASSUME CharAt(s, q) # EOF
      PROVE  GetToken(s, p, endLine) \in
               {Token("endLine", <<>>, q + 1), Token("error", <<>>, q + 1),
                NumberToken(s, q), QuotedToken(s, q), WordToken(s, q)}
  BY <1>8 DEF GetToken, q
<1>9. ASSUME CharAt(s, q) # EOF
      PROVE  /\ NumberToken(s, q).next \in 1 .. Len(s) + 1
             /\ NumberToken(s, q).value \in Seq(T)
  BY <1>5, <1>6 DEF NumberToken, Token, e
<1>10. ASSUME CharAt(s, q) # EOF
       PROVE  /\ QuotedToken(s, q).next \in 1 .. Len(s) + 1
              /\ QuotedToken(s, q).value \in Seq(T)
  <2>. DEFINE v == SubSeq(s, q + 1, d - 1)
  <2>1. CharAt(s, d) \in {Quote, Newline, EOF}
    BY <1>1, <1>3, <1>10, FirstWithin DEF CharAt, d
  <2>2. CharAt(s, d) = Quote => d + 1 \in 1 .. Len(s) + 1
    BY <1>1, <1>4, <1>10 DEF CharAt, Quote, EOF
  <2>3. CASE CharAt(s, d) = Quote
    <3>1. QuotedToken(s, q) = Token("string", v, d + 1)
      BY <2>3 DEF QuotedToken, d, Quote, Newline, EOF
    <3>. QED
      BY <1>5, <1>10, <2>2, <2>3, <3>1 DEF Token
  <2>4. CASE CharAt(s, d) = Newline
    <3>1. QuotedToken(s, q) = Token("endLine", v, d)
      BY <2>4 DEF QuotedToken, d, Quote, Newline, EOF
    <3>. QED
      BY <1>1, <1>4, <1>5, <1>10, <3>1 DEF Token
  <2>5. CASE CharAt(s, d) = EOF
    <3>1. QuotedToken(s, q) = Token("end", v, d)
      BY <2>5 DEF QuotedToken, d, Quote, Newline, EOF
    <3>. QED
      BY <1>1, <1>4, <1>5, <1>10, <3>1 DEF Token
  <2>. QED
    BY <2>1, <2>3, <2>4, <2>5
<1>11. ASSUME CharAt(s, q) # EOF
       PROVE  /\ WordToken(s, q).next \in 1 .. Len(s) + 1
              /\ WordToken(s, q).value \in Seq(T)
  <2>1. PICK kind : WordToken(s, q) = Token(kind, SubSeq(s, q, w - 1), w)
    BY DEF WordToken, w
  <2>. QED
    BY <1>1, <1>4, <1>5, <2>1 DEF Token
<1>12. CASE CharAt(s, q) # EOF
  <2>1. ASSUME NEW kind, GetToken(s, p, endLine) = Token(kind, <<>>, q + 1)
        PROVE  /\ GetToken(s, p, endLine).next \in 1 .. Len(s) + 1
               /\ GetToken(s, p, endLine).value \in Seq(T)
    BY <1>3, <1>12, <2>1 DEF Token
  <2>. QED
    BY <1>8, <1>9, <1>10, <1>11, <1>12, <2>1
<1>. QED
  BY <1>7, <1>12

\* The value of a number grows with each of its leading digits.
Leading(word) == SubSeq(word, 1, FirstNotIn(word, 1, Digit) - 1)

\* The number of a text is counted up by the digits it starts with.
LEMMA NumberByDigits ==
  ASSUME NEW T, NEW word \in Seq(T)
  PROVE  /\ Leading(word) \in Seq(Digit)
         /\ \E v : /\ NumberOf(word) = v[Len(Leading(word))] % 65536
                   /\ v[0] = 0
                   /\ \A k \in 1 .. Len(Leading(word)) :
                        v[k] = 10 * v[k - 1] + Value(Leading(word)[k])
<1>. DEFINE digits == Leading(word)
            n == Len(digits)
            Folds(f, k) ==
              \A s \in SUBSET (1 .. k) :
                f[s] = IF s = {} THEN 0 ELSE 10 * f[s \ {Max(s)}] + Value(digits[Max(s)])
            fold == CHOOSE f : f = [s \in SUBSET DOMAIN digits |->
                                      IF s = {} THEN 0
                                      ELSE 10 * f[s \ {Max(s)}] + Value(digits[Max(s)])]
            P == {k \in 0 .. n : \E f : Folds(f, k)}
<1>1. NumberOf(word) = fold[DOMAIN digits] % 65536
  BY DEF NumberOf, FoldLeft, MapThenFoldSet, Leading
<1>2. digits \in Seq(Digit)
  <2>1. /\ FirstNotIn(word, 1, Digit) \in 1 .. Len(word) + 1
        /\ \A i \in 1 .. FirstNotIn(word, 1, Digit) - 1 : word[i] \in Digit
    BY FirstWithin
  <2>. QED
    BY <2>1, SubSeqProperties DEF Leading
<1>. HIDE DEF digits
<1>3. n \in Nat /\ DOMAIN digits = 1 .. n
  BY <1>2
<1>. HIDE DEF n
<1>4. ASSUME NEW k \in 0 .. n, NEW s \in SUBSET (1 .. k), s # {}
      PROVE  Max(s) \in 1 .. k /\ Max(s) \in s /\ \A y \in s : Max(s) >= y
  <2>1. k \in Nat
    BY <1>3
  <2>. QED
    BY <1>4, <2>1, GreatestElement
<1>5. \A k \in 0 .. n : k \in P
  <2>1. 0 \in P
    <3>. DEFINE f == [s \in {{}} |-> 0]
    <3>1. Folds(f, 0)
      OBVIOUS
    <3>. HIDE DEF f, Folds
    <3>. QED
      BY <1>3, <3>1
  <2>2. ASSUME NEW k \in 0 .. n, k \in P, k < n PROVE k + 1 \in P
    <3>1. PICK f : Folds(f, k)
      <4>. HIDE DEF Folds
      <4>. QED
        BY <2>2
    <3>. DEFINE g == [s \in SUBSET (1 .. k + 1) |->
                        IF k + 1 \in s THEN 10 * f[s \ {k + 1}] + Value(digits[k + 1])
                        ELSE f[s]]
    <3>2. k + 1 \in 0 .. n
      BY <1>3, <2>2
    <3>3. ASSUME NEW s \in SUBSET (1 .. k + 1)
          PROVE  g[s] = IF s = {} THEN 0 ELSE 10 * g[s \ {Max(s)}] + Value(digits[Max(s)])
      <4>1. CASE k + 1 \in s
        <5>1. Max(s) = k + 1
          BY <1>4, <3>2, <4>1
        <5>2. g[s \ {k + 1}] = f[s \ {k + 1}]
          OBVIOUS
        <5>. QED
          BY <4>1, <5>1, <5>2
      <4>2. CASE k + 1 \notin s
        <5>1. s \in SUBSET (1 .. k)
          BY <4>2
        <5>2. f[s] = IF s = {} THEN 0 ELSE 10 * f[s \ {Max(s)}] + Value(digits[Max(s)])
          BY <3>1, <5>1
        <5>3. g[s] = f[s] /\ g[s \ {Max(s)}] = f[s \ {Max(s)}]
          BY <4>2
        <5>. QED
          BY <5>2, <5>3
      <4>. QED
        BY <4>1, <4>2
    <3>4. Folds(g, k + 1)
      BY <3>3
    <3>. HIDE DEF g, Folds
    <3>. QED
      BY <3>2, <3>4
  <2>. HIDE DEF P
  <2>. QED
    BY <1>3, <2>1, <2>2, UpTo
<1>6. \A s \in SUBSET (1 .. n) :
        fold[s] = IF s = {} THEN 0 ELSE 10 * fold[s \ {Max(s)}] + Value(digits[Max(s)])
  <2>1. PICK f : Folds(f, n)
    <3>. HIDE DEF Folds
    <3>. QED
      BY <1>3, <1>5
  <2>. DEFINE g == [s \in SUBSET DOMAIN digits |-> f[s]]
  <2>2. g = [s \in SUBSET DOMAIN digits |->
               IF s = {} THEN 0 ELSE 10 * g[s \ {Max(s)}] + Value(digits[Max(s)])]
    BY <1>3, <2>1
  <2>. HIDE DEF g
  <2>3. fold = [s \in SUBSET DOMAIN digits |->
                  IF s = {} THEN 0 ELSE 10 * fold[s \ {Max(s)}] + Value(digits[Max(s)])]
    BY <2>2
  <2>. HIDE DEF fold
  <2>. QED
    BY <1>3, <2>3
<1>. HIDE DEF fold
<1>7. fold[{}] = 0
  BY <1>6
<1>8. ASSUME NEW k \in 1 .. n
      PROVE  fold[1 .. k] = 10 * fold[1 .. k - 1] + Value(digits[k])
  <2>. DEFINE s == 1 .. k
  <2>1. k \in 0 .. n /\ k \in s /\ s \in SUBSET (1 .. n) /\ s \in SUBSET (1 .. k) /\ s # {}
    <3>1. k \in 0 .. n /\ k \in s /\ s \in SUBSET (1 .. n)
      BY <1>3
    <3>. QED
      BY <3>1
  <2>2. Max(s) \in 1 .. k /\ \A y \in s : Max(s) >= y
    BY <1>4, <2>1
  <2>3. Max(s) = k /\ s \ {k} = 1 .. k - 1
    BY <2>1, <2>2
  <2>4. fold[s] = 10 * fold[s \ {Max(s)}] + Value(digits[Max(s)])
    BY <1>6, <2>1
  <2>. QED
    BY <2>3, <2>4
<1>. DEFINE v == [k \in 0 .. n |-> fold[1 .. k]]
<1>9. /\ v[n] = fold[DOMAIN digits] /\ v[0] = 0
      /\ \A k \in 1 .. n : v[k] = 10 * v[k - 1] + Value(digits[k])
  <2>1. 1 .. 0 = {}
    OBVIOUS
  <2>2. n \in 0 .. n /\ 0 \in 0 .. n /\ \A k \in 1 .. n : k \in 0 .. n /\ k - 1 \in 0 .. n
    BY <1>3
  <2>3. \A k \in 0 .. n : v[k] = fold[1 .. k]
    OBVIOUS
  <2>. HIDE DEF v
  <2>. QED
    BY <1>3, <1>7, <1>8, <2>1, <2>2, <2>3
<1>. HIDE DEF v, fold
<1>. QED
  BY <1>1, <1>2, <1>9 DEF n, digits

\* A digit counts.
LEMMA DigitValue == \A ch \in Digit : Value(ch) \in Nat
<1>1. ASSUME NEW ch \in Digit
      PROVE  \E i \in 1 .. 10 :
               ch = <<"0", "1", "2", "3", "4", "5", "6", "7", "8", "9">>[i]
  BY DEF Digit
<1>2. ASSUME NEW ch \in Digit PROVE Value(ch) \in Nat
  <2>. DEFINE IsPlace(i) == ch = <<"0", "1", "2", "3", "4", "5", "6", "7", "8", "9">>[i]
              place == CHOOSE i \in 1 .. 10 : IsPlace(i)
  <2>1. Value(ch) = place - 1
    BY DEF Value
  <2>2. \E i \in 1 .. 10 : IsPlace(i)
    BY <1>1
  <2>. HIDE DEF IsPlace
  <2>3. place \in 1 .. 10
    BY <2>2
  <2>. HIDE DEF place
  <2>. QED
    BY <2>1, <2>3
<1>. QED
  BY <1>2

Word16 == 0 .. 65535

\* A number is stored in 16 bits, whatever its text.
LEMMA NumberIsWord ==
  ASSUME NEW T, NEW word \in Seq(T) PROVE NumberOf(word) \in Word16
<1>. DEFINE n == Len(Leading(word))
<1>1. PICK v : /\ NumberOf(word) = v[n] % 65536
               /\ v[0] = 0
               /\ \A k \in 1 .. n : v[k] = 10 * v[k - 1] + Value(Leading(word)[k])
  BY NumberByDigits
<1>2. n \in Nat /\ \A k \in 1 .. n : Value(Leading(word)[k]) \in Nat
  <2>1. Leading(word) \in Seq(Digit)
    BY NumberByDigits
  <2>2. n \in Nat /\ \A k \in 1 .. n : Leading(word)[k] \in Digit
    BY <2>1
  <2>. QED
    BY <2>2, DigitValue
<1>. HIDE DEF n
<1>. DEFINE Q == {k \in 0 .. n : v[k] \in Nat}
<1>3. \A k \in 0 .. n : k \in Q
  <2>1. 0 \in Q
    BY <1>1, <1>2
  <2>2. ASSUME NEW k \in 0 .. n, k \in Q, k < n PROVE k + 1 \in Q
    <3>. DEFINE d == Value(Leading(word)[k + 1])
    <3>1. k + 1 \in 1 .. n /\ k + 1 - 1 = k
      BY <1>2, <2>2
    <3>2. v[k + 1] = 10 * v[k] + d /\ d \in Nat /\ v[k] \in Nat
      BY <1>1, <1>2, <2>2, <3>1
    <3>. HIDE DEF d
    <3>3. v[k + 1] \in Nat
      BY <3>2
    <3>. QED
      BY <3>1, <3>3
  <2>. HIDE DEF Q
  <2>. QED
    BY <1>2, <2>1, <2>2, UpTo
<1>4. v[n] \in Nat
  BY <1>2, <1>3
<1>5. \A m \in Nat : m % 65536 \in Word16
  BY DEF Word16
<1>. QED
  BY <1>1, <1>4, <1>5

----------------------------------------------------------------------------
(* The file.                                                               *)

Char == WordChar \cup Space \cup {Slash, Quote, "#"}

\* Sequences, by their elements.
LEMMA SeqByElements ==
  ASSUME NEW T, NEW n \in Nat, NEW f \in [1 .. n -> T] PROVE f \in Seq(T)
  OBVIOUS

\* Short ones.
LEMMA ShortSeqs ==
  ASSUME NEW T, NEW a \in T, NEW b \in T, NEW c \in T
  PROVE  <<>> \in Seq(T) /\ <<a>> \in Seq(T) /\ <<a, b, c>> \in Seq(T)
  OBVIOUS

\* Texts of one character.
LEMMA ShortTexts == \A ch \in {Blank, Newline, Quote} : <<ch>> \in Seq(Char)
<1>1. \A ch \in {Blank, Newline, Quote} : ch \in Char
  BY DEF Char, Space
<1>. QED
  BY <1>1, ShortSeqs

\* The texts a file is written with.
LEMMA ConstTexts ==
  /\ Name \in Seq(Char) /\ Address \in Seq(Char) /\ Port \in Seq(Char)
  /\ Comment \in Seq(Char) /\ <<"SHOW">> \in Seq(Char) /\ <<"a">> \in Seq(Char)
  /\ <<"end">> \in Seq(Char) /\ <<"#", "a", Blank, "1">> \in Seq(Char) /\ <<>> \in Seq(Char)
BY DEF Name, Address, Port, Comment, Char, Space, WordChar, NumberChar, Digit, Letter

\* A text in quotes is a text.
LEMMA QuotedIsText == ASSUME NEW word \in Seq(Char) PROVE Quoted(word) \in Seq(Char)
<1>1. <<Quote>> \in Seq(Char)
  BY ShortTexts
<1>. QED
  BY <1>1, ConcatProperties DEF Quoted

\* What Spaced flattens.
Separated(words) == [i \in DOMAIN words |-> IF i = 1 THEN words[i] ELSE <<Blank>> \o words[i]]

\* Spaced words are a text: the words with their blanks, one after the other.
LEMMA SpacedIs ==
  ASSUME NEW words \in Seq(Seq(Char))
  PROVE  /\ Spaced(words) = FlattenSeq(Separated(words)) /\ Spaced(words) \in Seq(Char)
         /\ Separated(words) \in Seq(Seq(Char)) /\ Len(Separated(words)) = Len(words)
         /\ \A i \in 1 .. Len(words) :
              Separated(words)[i] = IF i = 1 THEN words[i] ELSE <<Blank>> \o words[i]
<1>. DEFINE spaced == Separated(words)
<1>0. DOMAIN words = 1 .. Len(words) /\ Len(words) \in Nat
  OBVIOUS
<1>1. <<Blank>> \in Seq(Char)
  BY ShortTexts
<1>2. ASSUME NEW i \in 1 .. Len(words)
      PROVE  /\ spaced[i] = IF i = 1 THEN words[i] ELSE <<Blank>> \o words[i]
             /\ spaced[i] \in Seq(Char)
  <2>1. words[i] \in Seq(Char)
    OBVIOUS
  <2>2. <<Blank>> \o words[i] \in Seq(Char)
    BY <1>1, <2>1, ConcatProperties
  <2>3. spaced[i] = IF i = 1 THEN words[i] ELSE <<Blank>> \o words[i]
    BY <1>0 DEF Separated
  <2>. HIDE DEF spaced
  <2>. QED
    BY <2>1, <2>2, <2>3
<1>3. spaced \in [1 .. Len(words) -> Seq(Char)]
  BY <1>0, <1>2 DEF Separated
<1>4. spaced \in Seq(Seq(Char)) /\ Len(spaced) = Len(words)
  <2>. DEFINE Texts == Seq(Char)
              n == Len(words)
  <2>1. \A f \in [1 .. n -> Texts] : f \in Seq(Texts) /\ Len(f) = n
    <3>. HIDE DEF Texts, n
    <3>1. n \in Nat
      BY <1>0 DEF n
    <3>. QED
      BY <3>1
  <2>. HIDE DEF spaced
  <2>. QED
    BY <1>3, <2>1
<1>5. Spaced(words) = FlattenSeq(spaced)
  BY DEF Spaced, Separated
<1>. QED
  BY <1>2, <1>4, <1>5, FlattenIsSeq

\* A word more.
LEMMA ConcatOne ==
  ASSUME NEW T, NEW s \in Seq(T), NEW x \in T
  PROVE  /\ s \o <<>> = s
         /\ s \o <<x>> \in Seq(T) /\ Len(s \o <<x>>) = Len(s) + 1
         /\ (s \o <<x>>)[Len(s) + 1] = x
         /\ \A i \in 1 .. Len(s) : (s \o <<x>>)[i] = s[i]
<1>. DEFINE w == <<x>>
<1>1. w \in Seq(T) /\ Len(w) = 1 /\ w[1] = x
  OBVIOUS
<1>2. s \o <<>> = s
  BY ConcatEmptySeq
<1>. HIDE DEF w
<1>3. /\ s \o w \in Seq(T) /\ Len(s \o w) = Len(s) + 1
      /\ (s \o w)[Len(s) + 1] = x
      /\ \A i \in 1 .. Len(s) : (s \o w)[i] = s[i]
  BY <1>1, ConcatProperties
<1>. QED
  BY <1>2, <1>3 DEF w

\* The lines that are no server's.
OtherKind == {"blank", "comment", "end", "hash"}

\* The kinds of lines.
LEMMA KindOf ==
  ASSUME NEW l \in Line
  PROVE  /\ l.kind \in OtherKind \cup {"noPort", "noFlag", "unquoted", "server", "commented"}
         /\ l \in CompleteLine <=> l.kind \in {"server", "commented"}
         /\ l \in BrokenLine <=> l.kind \in {"noPort", "noFlag", "unquoted"}
         /\ l.kind \notin OtherKind => l.code \in Code
         /\ l \in CompleteLine => l.show \in BOOLEAN /\ l.bare \in BOOLEAN
BY DEF Line, CompleteLine, BrokenLine, OtherLine, OtherKind

\* How many words a line has: all but the address, the port or the flag may lack.
Count(l) ==
  CASE l.kind = "noPort"                 -> 3
    [] l.kind \in {"noFlag", "unquoted"} -> 4
    [] l.kind = "server"                 -> 5
    [] l.kind = "commented"              -> 6

\* The words, one by one.
WordsAre(l, W) ==
  /\ W \in Seq(Seq(Char)) /\ Len(W) = Count(l)
  /\ W[1] = Numeral[l.code] /\ W[2] = Quoted(Name)
  /\ W[3] = IF l.kind = "unquoted" THEN Address ELSE Quoted(Address)
  /\ l.kind # "noPort" => W[4] = Port
  /\ l \in CompleteLine => W[5] = IF l.bare THEN Flag(l) ELSE Quoted(Flag(l))
  /\ l.kind = "commented" => W[6] = Comment

\* The words of a line are these.
LEMMA WordsOf ==
  ASSUME NEW l \in Line, l.kind \notin OtherKind PROVE WordsAre(l, Words(l))
<1>. DEFINE Texts == Seq(Char)
            f1 == <<Numeral[l.code], Quoted(Name),
                    IF l.kind = "unquoted" THEN Address ELSE Quoted(Address)>>
            f2 == IF l.kind = "noPort" THEN <<>> ELSE <<Port>>
            f3 == IF l \in CompleteLine THEN <<IF l.bare THEN Flag(l) ELSE Quoted(Flag(l))>>
                  ELSE <<>>
            f4 == IF l.kind = "commented" THEN <<Comment>> ELSE <<>>
            x3 == IF l.kind = "unquoted" THEN Address ELSE Quoted(Address)
            x5 == IF l.bare THEN Flag(l) ELSE Quoted(Flag(l))
<1>0. ASSUME NEW s \in Seq(Texts), NEW x \in Texts
      PROVE  /\ s \o <<x>> \in Seq(Texts) /\ Len(s \o <<x>>) = Len(s) + 1
             /\ (s \o <<x>>)[Len(s) + 1] = x
             /\ \A i \in 1 .. Len(s) : (s \o <<x>>)[i] = s[i]
  BY ConcatOne
<1>1. Numeral[l.code] \in Texts
  <2>1. l.code \in Code
    BY KindOf
  <2>2. Digit \subseteq Char
    BY DEF Char, WordChar, NumberChar
  <2>. QED
    BY <2>1, <2>2, ServerFileAssumption, SeqMonotonic
<1>2. Flag(l) \in Texts
  BY ConstTexts DEF Flag
<1>3. Quoted(Name) \in Texts /\ x3 \in Texts /\ x5 \in Texts /\ Port \in Texts /\ Comment \in Texts
  BY <1>2, ConstTexts, QuotedIsText
<1>4. Words(l) = ((f1 \o f2) \o f3) \o f4
  BY DEF Words
<1>5. /\ f1 \in Seq(Texts) /\ Len(f1) = 3
      /\ f1[1] = Numeral[l.code] /\ f1[2] = Quoted(Name) /\ f1[3] = x3
  <2>. HIDE DEF Texts, x3
  <2>1. \A a \in Texts, b \in Texts, c \in Texts :
          /\ <<a, b, c>> \in Seq(Texts) /\ Len(<<a, b, c>>) = 3
          /\ <<a, b, c>>[1] = a /\ <<a, b, c>>[2] = b /\ <<a, b, c>>[3] = c
    OBVIOUS
  <2>2. f1 = <<Numeral[l.code], Quoted(Name), x3>>
    BY DEF x3
  <2>. HIDE DEF f1
  <2>. QED
    BY <1>1, <1>3, <2>1, <2>2
<1>6. /\ f2 = (IF l.kind = "noPort" THEN <<>> ELSE <<Port>>)
      /\ f3 = (IF l \in CompleteLine THEN <<x5>> ELSE <<>>)
      /\ f4 = (IF l.kind = "commented" THEN <<Comment>> ELSE <<>>)
  OBVIOUS
<1>. DEFINE w4 == f1 \o f2
            w5 == w4 \o f3
            w6 == w5 \o f4
<1>. HIDE DEF Texts, f1, f2, f3, f4, x3, x5
<1>7. /\ w4 \in Seq(Texts) /\ Len(w4) = (IF l.kind = "noPort" THEN 3 ELSE 4)
      /\ w4[1] = f1[1] /\ w4[2] = f1[2] /\ w4[3] = f1[3]
      /\ l.kind # "noPort" => w4[4] = Port
  <2>1. CASE l.kind = "noPort"
    BY <1>5, <1>6, <2>1, ConcatOne
  <2>2. CASE l.kind # "noPort"
    <3>1. /\ f1 \o <<Port>> \in Seq(Texts) /\ Len(f1 \o <<Port>>) = 4
          /\ (f1 \o <<Port>>)[4] = Port
          /\ \A i \in 1 .. 3 : (f1 \o <<Port>>)[i] = f1[i]
      <4>1. f1 \in Seq(Texts) /\ Port \in Texts /\ Len(f1) = 3
        BY <1>3, <1>5
      <4>2. /\ f1 \o <<Port>> \in Seq(Texts) /\ Len(f1 \o <<Port>>) = Len(f1) + 1
            /\ (f1 \o <<Port>>)[Len(f1) + 1] = Port
            /\ \A i \in 1 .. Len(f1) : (f1 \o <<Port>>)[i] = f1[i]
        BY <1>0, <4>1, Zenon
      <4>3. 3 + 1 = 4
        OBVIOUS
      <4>. QED
        BY <4>1, <4>2, <4>3, Zenon
    <3>2. w4 = f1 \o <<Port>>
      BY <1>6, <2>2
    <3>. HIDE DEF w4
    <3>. QED
      BY <2>2, <3>1, <3>2
  <2>. QED
    BY <2>1, <2>2
<1>8. /\ l \in CompleteLine <=> l.kind \in {"server", "commented"}
      /\ l.kind \in {"noPort", "noFlag", "unquoted", "server", "commented"}
  BY KindOf
<1>. HIDE DEF w4
<1>9. /\ w5 \in Seq(Texts) /\ Len(w5) = (IF l \in CompleteLine THEN 5 ELSE Len(w4))
      /\ w5[1] = f1[1] /\ w5[2] = f1[2] /\ w5[3] = f1[3]
      /\ l.kind # "noPort" => w5[4] = Port
      /\ l \in CompleteLine => w5[5] = x5
  <2>1. CASE l \notin CompleteLine
    BY <1>6, <1>7, <2>1, ConcatOne
  <2>2. CASE l \in CompleteLine
    <3>0. l.kind # "noPort" /\ Len(w4) = 4
      BY <1>7, <1>8, <2>2
    <3>1. /\ w4 \o <<x5>> \in Seq(Texts) /\ Len(w4 \o <<x5>>) = 5
          /\ (w4 \o <<x5>>)[5] = x5
          /\ \A i \in 1 .. 4 : (w4 \o <<x5>>)[i] = w4[i]
      <4>1. w4 \in Seq(Texts) /\ x5 \in Texts /\ Len(w4) = 4
        BY <1>3, <1>7, <3>0
      <4>2. /\ w4 \o <<x5>> \in Seq(Texts) /\ Len(w4 \o <<x5>>) = Len(w4) + 1
            /\ (w4 \o <<x5>>)[Len(w4) + 1] = x5
            /\ \A i \in 1 .. Len(w4) : (w4 \o <<x5>>)[i] = w4[i]
        BY <1>0, <4>1, Zenon
      <4>3. 4 + 1 = 5
        OBVIOUS
      <4>. QED
        BY <4>1, <4>2, <4>3, Zenon
    <3>2. w5 = w4 \o <<x5>>
      BY <1>6, <2>2
    <3>. HIDE DEF w5
    <3>. QED
      BY <1>7, <2>2, <3>0, <3>1, <3>2
  <2>. QED
    BY <2>1, <2>2
<1>. HIDE DEF w5
<1>10. /\ w6 \in Seq(Texts) /\ Len(w6) = (IF l.kind = "commented" THEN 6 ELSE Len(w5))
       /\ w6[1] = f1[1] /\ w6[2] = f1[2] /\ w6[3] = f1[3]
       /\ l.kind # "noPort" => w6[4] = Port
       /\ l \in CompleteLine => w6[5] = x5
       /\ l.kind = "commented" => w6[6] = Comment
  <2>1. CASE l.kind # "commented"
    <3>1. w6 = w5
      BY <1>6, <1>9, <2>1, ConcatOne DEF w6
    <3>. QED
      BY <1>9, <2>1, <3>1
  <2>2. CASE l.kind = "commented"
    <3>0. l \in CompleteLine /\ Len(w5) = 5
      BY <1>8, <1>9, <2>2
    <3>1. /\ w5 \o <<Comment>> \in Seq(Texts) /\ Len(w5 \o <<Comment>>) = 6
          /\ (w5 \o <<Comment>>)[6] = Comment
          /\ \A i \in 1 .. 5 : (w5 \o <<Comment>>)[i] = w5[i]
      <4>1. w5 \in Seq(Texts) /\ Comment \in Texts /\ Len(w5) = 5
        BY <1>3, <1>9, <3>0
      <4>2. /\ w5 \o <<Comment>> \in Seq(Texts) /\ Len(w5 \o <<Comment>>) = Len(w5) + 1
            /\ (w5 \o <<Comment>>)[Len(w5) + 1] = Comment
            /\ \A i \in 1 .. Len(w5) : (w5 \o <<Comment>>)[i] = w5[i]
        BY <1>0, <4>1, Zenon
      <4>3. 5 + 1 = 6
        OBVIOUS
      <4>. QED
        BY <4>1, <4>2, <4>3, Zenon
    <3>2. w6 = w5 \o <<Comment>>
      BY <1>6, <2>2
    <3>. HIDE DEF w6
    <3>. QED
      BY <1>9, <2>2, <3>0, <3>1, <3>2
  <2>. QED
    BY <2>1, <2>2
<1>. HIDE DEF w6
<1>11. Len(w6) = Count(l)
  BY <1>7, <1>8, <1>9, <1>10 DEF Count
<1>. QED
  BY <1>4, <1>5, <1>10, <1>11 DEF WordsAre, w4, w5, w6, Texts, x3, x5

\* Every line is a text.
LEMMA LineIsText ==
  ASSUME NEW l \in Line
  PROVE  /\ LineText(l) \in Seq(Char)
         /\ l.kind \notin OtherKind => LineText(l) = Spaced(Words(l))
<1>1. CASE l.kind \in OtherKind
  BY <1>1, ConstTexts DEF LineText, OtherKind
<1>2. CASE l.kind \notin OtherKind
  <2>1. LineText(l) = Spaced(Words(l))
    BY <1>2 DEF LineText, OtherKind
  <2>2. Words(l) \in Seq(Seq(Char))
    BY <1>2, WordsOf DEF WordsAre
  <2>. QED
    BY <2>1, <2>2, SpacedIs
<1>. QED
  BY <1>1, <1>2

\* So is the file, whichever lines it has and however the last one ends.
LEMMA FileIsText ==
  ASSUME NEW ls \in Seq(Line), NEW end \in {<<>>, <<Newline>>}
  PROVE  FileText(ls, end) \in Seq(Char)
<1>. DEFINE texts == [i \in DOMAIN ls |->
                        LineText(ls[i]) \o (IF i = Len(ls) THEN end ELSE <<Newline>>)]
<1>1. <<>> \in Seq(Char) /\ <<Newline>> \in Seq(Char)
  <2>1. <<>> \in Seq(Char)
    OBVIOUS
  <2>. QED
    BY <2>1, ShortTexts
<1>2. ASSUME NEW i \in 1 .. Len(ls) PROVE texts[i] \in Seq(Char)
  <2>1. LineText(ls[i]) \in Seq(Char)
    BY LineIsText
  <2>2. /\ LineText(ls[i]) \o end \in Seq(Char)
        /\ LineText(ls[i]) \o <<Newline>> \in Seq(Char)
    BY <1>1, <2>1, ConcatProperties
  <2>. QED
    BY <2>2
<1>3. texts \in Seq(Seq(Char))
  <2>1. DOMAIN ls = 1 .. Len(ls) /\ Len(ls) \in Nat
    OBVIOUS
  <2>2. texts \in [1 .. Len(ls) -> Seq(Char)]
    BY <1>2, <2>1
  <2>. QED
    BY <2>1, <2>2, SeqByElements
<1>. QED
  BY <1>3, FlattenIsSeq DEF FileText

\* Load's reads stay in the text, a server's fields come in their order, and a
\* server that is stored has all five, under a code of 16 bits.
Field == Word16 \cup Seq(Char)

TextOK == text \in Seq(Char) /\ pos \in 1 .. Len(text) + 1

FieldsOK ==
  /\ info \in Seq(Field) /\ (info # <<>> => info[1] \in Word16)
  /\ \/ field = "code" /\ Len(info) = 0
     \/ field = "name" /\ Len(info) = 1
     \/ field = "address" /\ Len(info) = 2
     \/ field = "port" /\ Len(info) = 3
     \/ field = "show" /\ Len(info) = 4

EntriesOK ==
  \A c \in DOMAIN servers :
    c \in Word16 /\ servers[c] \in Seq(Field \cup BOOLEAN) /\ Len(servers[c]) = 5

FileInv == TextOK /\ FieldsOK /\ EntriesOK

\* The first read is that of a code.
LEMMA FileInit == Init => FileInv
<1>. SUFFICES ASSUME Init PROVE FileInv
  OBVIOUS
<1>1. text \in Seq(Char)
  <2>1. lines \in Seq(Line)
    <3>1. PICK m \in Nat : lines \in [1 .. m -> Line]
      BY ServerFileAssumption DEF Init, LoadInit, BoundedSeq, SeqOf
    <3>. QED
      BY <3>1, SeqByElements
  <2>2. PICK end \in {<<>>, <<Newline>>} : text = FileText(lines, end)
    BY DEF Init, LoadInit
  <2>. QED
    BY <2>1, <2>2, FileIsText
<1>2. pos = 1 /\ field = "code" /\ info = <<>> /\ DOMAIN servers = {}
  BY DEF Init, LoadInit
<1>. QED
  BY <1>1, <1>2 DEF FileInv, TextOK, FieldsOK, EntriesOK

\* A read appends a field.
LEMMA AppendField ==
  ASSUME NEW T, NEW s \in Seq(T), NEW x \in T
  PROVE  /\ Append(s, x) \in Seq(T) /\ Len(Append(s, x)) = Len(s) + 1
         /\ Append(s, x)[1] = IF s = <<>> THEN x ELSE s[1]
<1>1. Append(s, x) \in Seq(T) /\ Len(Append(s, x)) = Len(s) + 1 /\ Len(s) \in Nat
  OBVIOUS
<1>2. CASE s = <<>>
  BY <1>1, <1>2
<1>3. CASE s # <<>>
  <2>1. 1 \in 1 .. Len(s)
    BY <1>3, EmptySeq
  <2>. QED
    BY <1>1, <1>3, <2>1
<1>. QED
  BY <1>2, <1>3

\* Load keeps all that.
LEMMA LoadKeeps == ASSUME FileInv, Load PROVE FileInv'
<1>1. /\ NextToken.next \in 1 .. Len(text) + 1
      /\ NextToken.value \in Seq(Char)
      /\ NumberOf(NextToken.value) \in Word16
  <2>1. NextToken.next \in 1 .. Len(text) + 1 /\ NextToken.value \in Seq(Char)
    BY TokenWithin DEF FileInv, TextOK, NextToken
  <2>. QED
    BY <2>1, NumberIsWord
<1>2. ASSUME NEW f, NEW kind, NEW next, NEW value \in Field, Read(f, kind, next, value),
             <<f, next>> \in {<<"code", "name">>, <<"name", "address">>,
                              <<"address", "port">>, <<"port", "show">>},
             f = "code" => value \in Word16
      PROVE  FileInv'
  <2>. DEFINE n == Len(info)
  <2>1. /\ Append(info, value) \in Seq(Field) /\ Len(Append(info, value)) = n + 1
        /\ Append(info, value)[1] = IF info = <<>> THEN value ELSE info[1]
    BY <1>2, AppendField DEF FileInv, FieldsOK
  <2>2. /\ pos' \in 1 .. Len(text) + 1 /\ field = f /\ field' = next
        /\ info' = Append(info, value) /\ text' = text /\ servers' = servers
    BY <1>1, <1>2 DEF Read
  <2>3. info = <<>> => f = "code"
    BY <2>2 DEF FileInv, FieldsOK
  <2>. HIDE DEF n
  <2>4. \/ field' = "name" /\ n + 1 = 1
        \/ field' = "address" /\ n + 1 = 2
        \/ field' = "port" /\ n + 1 = 3
        \/ field' = "show" /\ n + 1 = 4
    BY <1>2, <2>2 DEF FileInv, FieldsOK, n
  <2>5. FieldsOK'
    BY <1>2, <2>1, <2>2, <2>3, <2>4 DEF FileInv, FieldsOK
  <2>. QED
    BY <2>2, <2>5 DEF FileInv, TextOK, EntriesOK
<1>3. CASE ReadCode
  BY <1>1, <1>2, <1>3 DEF ReadCode, Field
<1>4. CASE ReadName
  BY <1>1, <1>2, <1>4 DEF ReadName, Field
<1>5. CASE ReadAddress
  BY <1>1, <1>2, <1>5 DEF ReadAddress, Field
<1>6. CASE ReadPort
  BY <1>1, <1>2, <1>6 DEF ReadPort, Field
<1>7. CASE ReadShow
  <2>. DEFINE shown == NextToken.value = <<"SHOW">>
              entry == Append(info, shown)
              T == Field \cup BOOLEAN
  <2>1. entry \in Seq(T) /\ Len(entry) = 5 /\ info[1] \in Word16
    <3>1. info \in Seq(T) /\ shown \in T
      BY SeqMonotonic DEF FileInv, FieldsOK
    <3>2. Len(info) = 4
      BY <1>7 DEF FileInv, FieldsOK, ReadShow
    <3>3. info # <<>>
      BY <3>2
    <3>. HIDE DEF shown, T
    <3>4. info[1] \in Word16
      BY <3>3 DEF FileInv, FieldsOK
    <3>5. \A x \in T : Append(info, x) \in Seq(T) /\ Len(Append(info, x)) = 5
      <4>1. ASSUME NEW x \in T
            PROVE  Append(info, x) \in Seq(T) /\ Len(Append(info, x)) = Len(info) + 1
        BY <3>1, AppendField
      <4>. QED
        BY <3>2, <4>1
    <3>6. entry \in Seq(T) /\ Len(entry) = 5
      BY <3>1, <3>5, Zenon
    <3>. QED
      BY <3>4, <3>6
  <2>. HIDE DEF shown, entry
  <2>2. /\ pos' \in 1 .. Len(text) + 1 /\ field' = "code" /\ info' = <<>> /\ text' = text
        /\ DOMAIN servers' = DOMAIN servers \cup {info[1]}
        /\ \A c \in DOMAIN servers' :
             servers'[c] = IF c \in DOMAIN servers THEN servers[c] ELSE entry
    BY <1>1, <1>7 DEF ReadShow, entry, shown
  <2>. QED
    BY <2>1, <2>2 DEF FileInv, TextOK, FieldsOK, EntriesOK
<1>8. CASE Stop
  BY <1>8 DEF Stop, FileInv, TextOK, FieldsOK, EntriesOK
<1>. QED
  BY <1>3, <1>4, <1>5, <1>6, <1>7, <1>8 DEF Load

\* So does everything else: nothing is read once the servers are served.
LEMMA FileNext == FileInv /\ [Next]_vars => FileInv'
<1>. SUFFICES ASSUME FileInv, [Next]_vars PROVE FileInv'
  OBVIOUS
<1>1. ASSUME UNCHANGED fileVars PROVE FileInv'
  BY <1>1 DEF FileInv, TextOK, FieldsOK, EntriesOK, fileVars
<1>2. CASE Serve
  <2>1. <<>> \in Seq(Char) /\ <<>> \in Seq(Field) /\ Len(<<>>) = 0
    OBVIOUS
  <2>. QED
    BY <1>2, <2>1 DEF Serve, FileInv, TextOK, FieldsOK, EntriesOK
<1>3. CASE Load
  BY <1>3, LoadKeeps
<1>. QED
  BY <1>1, <1>2, <1>3
  DEF Next, GameServerLive, Receive, CCCustomServerListSend, CCServerListRecv, SendList, vars

----------------------------------------------------------------------------
(* The order of the lists.                                                 *)

\* A finite set of numbers can be put in order: the place of a number is how many
\* there are up to it.  Whatever is in order has every number of the set.
LEMMA SortedOf ==
  ASSUME NEW codes \in SUBSET Nat, IsFiniteSet(codes)
  PROVE  /\ Sorted(codes) \in [1 .. Cardinality(codes) -> codes]
         /\ InOrder(Sorted(codes))
         /\ \A c \in codes : \E i \in 1 .. Cardinality(codes) : Sorted(codes)[i] = c
<1>. DEFINE n == Cardinality(codes)
            UpToCode(c) == {d \in codes : d <= c}
            place == [c \in codes |-> Cardinality(UpToCode(c))]
            sorted == [i \in 1 .. n |-> CHOOSE c \in codes : place[c] = i]
<1>0. \A c \in codes : c \in Nat
  OBVIOUS
<1>1. n \in Nat /\ IsFiniteSet(1 .. n) /\ Cardinality(1 .. n) = n
  BY FS_CardinalityType, FS_Interval
<1>2. \A c \in codes : IsFiniteSet(UpToCode(c)) /\ place[c] \in 1 .. n
  <2>. TAKE c \in codes
  <2>1. IsFiniteSet(UpToCode(c)) /\ Cardinality(UpToCode(c)) <= n
    BY FS_Subset
  <2>2. Cardinality(UpToCode(c)) \in Nat /\ Cardinality(UpToCode(c)) # 0
    <3>1. c \in UpToCode(c)
      OBVIOUS
    <3>. QED
      BY <2>1, <3>1, FS_CardinalityType, FS_EmptySet
  <2>. QED
    BY <1>1, <2>1, <2>2
<1>3. ASSUME NEW a \in codes, NEW b \in codes, a < b PROVE place[a] < place[b]
  <2>1. UpToCode(a) \in SUBSET UpToCode(b) /\ b \in UpToCode(b) /\ b \notin UpToCode(a)
    <3>1. \A d \in codes : d <= a => d <= b
      BY <1>0, <1>3
    <3>2. ~(b <= a) /\ b <= b
      BY <1>0, <1>3
    <3>. QED
      BY <3>1, <3>2
  <2>2. /\ Cardinality(UpToCode(a)) <= Cardinality(UpToCode(b))
        /\ Cardinality(UpToCode(b)) = Cardinality(UpToCode(a)) => UpToCode(b) = UpToCode(a)
    BY <1>2, <2>1, FS_Subset
  <2>. HIDE DEF UpToCode
  <2>. QED
    BY <1>1, <1>2, <2>1, <2>2
<1>. HIDE DEF UpToCode, n, place
<1>4. \A a \in codes, b \in codes : a < b \/ a = b \/ b < a
  OBVIOUS
<1>5. place \in Surjection(codes, 1 .. n)
  <2>1. place \in [codes -> 1 .. n]
    BY <1>2 DEF place
  <2>2. \A a \in codes, b \in codes : place[a] = place[b] => a = b
    BY <1>1, <1>2, <1>3, <1>4
  <2>3. place \in Injection(codes, 1 .. n)
    BY <2>1, <2>2 DEF Injection, IsInjective
  <2>. QED
    BY <1>1, <2>3, FS_Injection DEF n
<1>6. \A i \in 1 .. n : sorted[i] \in codes /\ place[sorted[i]] = i
  BY <1>5 DEF Surjection
<1>7. sorted \in [1 .. n -> codes]
  BY <1>6
<1>. HIDE DEF sorted
<1>8. InOrder(sorted)
  <2>1. ASSUME NEW i \in 1 .. n, NEW j \in 1 .. n, i < j PROVE sorted[i] < sorted[j]
    <3>1. sorted[i] \in codes /\ sorted[j] \in codes /\ place[sorted[i]] < place[sorted[j]]
      BY <1>6, <2>1
    <3>2. place[sorted[i]] = i /\ place[sorted[j]] = j
      BY <1>6
    <3>3. ~(sorted[i] = sorted[j]) /\ ~(place[sorted[j]] < place[sorted[i]])
      BY <1>1, <2>1, <3>2
    <3>. QED
      BY <1>3, <1>4, <3>1, <3>3
  <2>. QED
    BY <1>7, <2>1 DEF InOrder
<1>9. Sorted(codes) \in [1 .. n -> codes] /\ InOrder(Sorted(codes))
  BY <1>7, <1>8 DEF Sorted, n
<1>10. Sorted(codes) \in Surjection(1 .. n, codes)
  <2>1. \A i \in 1 .. n, j \in 1 .. n : i < j => Sorted(codes)[i] < Sorted(codes)[j]
    BY <1>9 DEF InOrder
  <2>2. \A i \in 1 .. n : Sorted(codes)[i] \in Nat
    BY <1>9
  <2>3. \A i \in 1 .. n, j \in 1 .. n : Sorted(codes)[i] = Sorted(codes)[j] => i = j
    BY <1>1, <2>1, <2>2
  <2>4. Sorted(codes) \in Injection(1 .. n, codes)
    BY <1>9, <2>3 DEF Injection, IsInjective
  <2>. QED
    BY <1>1, <2>4, FS_Injection DEF n
<1>. QED
  BY <1>9, <1>10 DEF n, Surjection

----------------------------------------------------------------------------
(* The lists, their sizes and their counts.                                *)

\* The servers are finitely many, and do not change once clients are served.
ServersOK == IsFiniteSet(DOMAIN servers) /\ (serving => ~loading)

\* A list that is being built follows one that has fitted.
PlaceOK ==
  /\ at \in {"idle", "custom", "plain", "undefined"}
  /\ at # "idle" => serving
  /\ at = "custom" => replies = <<>>
  /\ at = "plain" => CustomSize <= SendBuffer /\ replies = <<CustomList>>
  /\ at = "undefined" => CustomSize > SendBuffer \/ PlainSize > SendBuffer

ServiceInv == ServersOK /\ PlaceOK

\* The two lists have an entry for every shown server.
LEMMA ListLengths ==
  ASSUME IsFiniteSet(DOMAIN servers)
  PROVE  /\ Cardinality(Shown) \in Nat
         /\ Len(CustomEntries) = Cardinality(Shown)
         /\ Len(PlainEntries) = Cardinality(Shown)
<1>1. IsFiniteSet(Shown)
  BY FS_Subset DEF Shown
<1>2. Cardinality(Shown) \in Nat
  BY <1>1, FS_CardinalityType
<1>3. Listed = Shown
  BY DEF Listed, CheckJoinServerState
<1>. QED
  BY <1>2, <1>3 DEF CustomEntries, PlainEntries

\* Sizes depend on the number of shown servers alone, not on their loads.
LEMMA SizesStay ==
  ASSUME IsFiniteSet(DOMAIN servers), servers' = servers
  PROVE  /\ CustomSize' = CustomSize /\ PlainSize' = PlainSize /\ CustomList' = CustomList
         /\ CustomSize \in Nat /\ PlainSize \in Nat
<1>1. Cardinality(Shown) \in Nat /\ Listed = Shown /\ Listed' = Shown
  BY ListLengths DEF Listed, CheckJoinServerState, Shown
<1>2. CustomEntries' = CustomEntries
  BY <1>1 DEF CustomEntries
<1>3. Len(PlainEntries)' = Cardinality(Shown) /\ Len(PlainEntries) = Cardinality(Shown)
  <2>1. Len(PlainEntries) = Cardinality(Shown)
    BY ListLengths
  <2>2. Len([i \in 1 .. Cardinality(Shown) |->
               LET c == Sorted(Shown)[i] IN <<c, userTotal'[c]>>]) = Cardinality(Shown)
    BY <1>1
  <2>3. PlainEntries' = [i \in 1 .. Cardinality(Shown) |->
                           LET c == Sorted(Shown)[i] IN <<c, userTotal'[c]>>]
    BY <1>1 DEF PlainEntries
  <2>. QED
    BY <2>1, <2>2, <2>3
<1>4. Len(CustomEntries) = Cardinality(Shown)
  BY ListLengths
<1>. QED
  BY <1>1, <1>2, <1>3, <1>4
  DEF CustomSize, PlainSize, CustomList, CustomHeaderSize, CustomEntrySize,
      PlainHeaderSize, PlainEntrySize

\* Reading the file adds one server at a time.
LEMMA LoadFinite ==
  ASSUME IsFiniteSet(DOMAIN servers), Load PROVE IsFiniteSet(DOMAIN servers')
<1>1. CASE ReadShow
  <2>1. DOMAIN servers' = DOMAIN servers \cup {info[1]}
    BY <1>1 DEF ReadShow
  <2>. QED
    BY <2>1, FS_AddElement
<1>2. CASE ReadCode \/ ReadName \/ ReadAddress \/ ReadPort \/ Stop
  BY <1>2 DEF ReadCode, ReadName, ReadAddress, ReadPort, Read, Stop
<1>. QED
  BY <1>1, <1>2 DEF Load

\* At first nothing is listed, and nothing was sent.
LEMMA ServiceInit == Init => ServiceInv
  BY FS_EmptySet DEF Init, LoadInit, ServiceInv, ServersOK, PlaceOK

\* Replies one by one.
LEMMA RepliesOf ==
  ASSUME NEW p, NEW q
  PROVE  Append(<<>>, p) = <<p>> /\ Append(<<p>>, q) = <<p, q>>
<1>1. Append(<<>>, p) = <<p>>
  <2>. /\ <<>> \in Seq({p}) /\ <<p>> \in Seq({p}) /\ Append(<<>>, p) \in Seq({p})
       /\ Len(Append(<<>>, p)) = 1 /\ Append(<<>>, p)[1] = p
    OBVIOUS
  <2>. QED
    BY SeqEqual
<1>2. Append(<<p>>, q) = <<p, q>>
  <2>. /\ <<p>> \in Seq({p, q}) /\ <<p, q>> \in Seq({p, q}) /\ Append(<<p>>, q) \in Seq({p, q})
       /\ Len(Append(<<p>>, q)) = 2 /\ Append(<<p>>, q)[1] = p /\ Append(<<p>>, q)[2] = q
       /\ Len(<<p, q>>) = 2 /\ <<p, q>>[1] = p /\ <<p, q>>[2] = q
    OBVIOUS
  <2>1. \A i \in 1 .. 2 : Append(<<p>>, q)[i] = <<p, q>>[i]
    OBVIOUS
  <2>. QED
    BY <2>1, SeqEqual
<1>. QED
  BY <1>1, <1>2

\* Every step keeps the invariant.
LEMMA ServiceNext == ServiceInv /\ [Next]_vars => ServiceInv'
<1>. SUFFICES ASSUME ServiceInv, [Next]_vars PROVE ServiceInv'
  OBVIOUS
<1>. USE DEF ServiceInv, ServersOK, PlaceOK
<1>1. ASSUME UNCHANGED <<servers, replies, at>>, serving' => ~loading', at # "idle" => serving'
      PROVE  ServiceInv'
  <2>1. CustomSize' = CustomSize /\ PlainSize' = PlainSize /\ CustomList' = CustomList
    BY <1>1, SizesStay
  <2>. QED
    BY <1>1, <2>1
<1>2. CASE Load /\ UNCHANGED serviceVars
  <2>1. ~serving /\ at = "idle"
    BY <1>2 DEF Load, ReadCode, ReadName, ReadAddress, ReadPort, Read, ReadShow, Stop
  <2>2. IsFiniteSet(DOMAIN servers')
    BY <1>2, LoadFinite
  <2>. QED
    BY <1>2, <2>1, <2>2 DEF serviceVars
<1>3. CASE Serve
  BY <1>1, <1>3 DEF Serve
<1>4. ASSUME NEW c \in Code, NEW total \in {0, 1}, GameServerLive(c, total) PROVE ServiceInv'
  BY <1>1, <1>4 DEF GameServerLive, fileVars
<1>5. ASSUME NEW r \in Request, Receive(r) PROVE ServiceInv'
  <2>1. /\ UNCHANGED <<servers, loading, serving>>
        /\ at' = IF IsListRequest(r) THEN "custom" ELSE "idle"
        /\ replies' \in {<<>>, <<Info(r.code)>>}
        /\ at' = "custom" => replies' = <<>>
    BY <1>5 DEF Receive, Dispatch, CCServerInfoRecv, IsListRequest, IsInfoRequest, fileVars
  <2>2. serving
    BY <1>5 DEF Receive
  <2>. QED
    BY <2>1, <2>2
<1>6. CASE CCCustomServerListSend
  <2>. USE <1>6 DEF CCCustomServerListSend, SendList, fileVars
  <2>1. CASE CustomSize <= SendBuffer
    <3>1. replies' = <<CustomList>> /\ at' = "plain"
      BY <2>1, RepliesOf
    <3>2. CustomList' = CustomList /\ CustomSize' = CustomSize
      BY SizesStay
    <3>. QED
      BY <2>1, <3>1, <3>2
  <2>2. CASE ~(CustomSize <= SendBuffer)
    <3>1. CustomSize' = CustomSize /\ CustomSize \in Nat
      BY SizesStay
    <3>. QED
      BY <2>2, <3>1, ListAssumption
  <2>. QED
    BY <2>1, <2>2
<1>7. CASE CCServerListRecv
  <2>. USE <1>7 DEF CCServerListRecv, SendList, fileVars
  <2>1. CASE PlainSize <= SendBuffer
    <3>1. replies' = <<CustomList, PlainList>> /\ at' = "idle"
      BY <2>1, RepliesOf
    <3>. QED
      BY <3>1
  <2>2. CASE ~(PlainSize <= SendBuffer)
    <3>1. PlainSize' = PlainSize /\ PlainSize \in Nat
      BY SizesStay
    <3>. QED
      BY <2>2, <3>1, ListAssumption
  <2>. QED
    BY <2>1, <2>2
<1>8. CASE UNCHANGED vars
  BY <1>1, <1>8 DEF vars, fileVars, serviceVars
<1>. QED
  BY <1>2, <1>3, <1>4, <1>5, <1>6, <1>7, <1>8 DEF Next

\* Nothing is written past send[] as long as no more servers are shown than the
\* longer list has room for, whatever the number of hidden ones.
THEOREM ListsFitBuffer == Spec => []ListsFit
<1>1. ServiceInv => ListsFit
  <2>. SUFFICES ASSUME ServiceInv, at = "undefined" PROVE Cardinality(Shown) > Capacity
    BY DEF ListsFit
  <2>. DEFINE n == Cardinality(Shown)
  <2>1. n \in Nat /\ CustomSize = 7 + 34 * n /\ PlainSize = 6 + 4 * n
    BY ListLengths
    DEF ServiceInv, ServersOK, CustomSize, PlainSize, CustomHeaderSize, CustomEntrySize,
        PlainHeaderSize, PlainEntrySize
  <2>2. 7 + 34 * n > SendBuffer
    <3>1. CustomSize > SendBuffer \/ PlainSize > SendBuffer
      BY DEF ServiceInv, PlaceOK
    <3>. HIDE DEF n
    <3>. QED
      BY <2>1, <3>1, ListAssumption
  <2>. HIDE DEF n
  <2>3. n > (SendBuffer - 7) \div 34
    BY <2>1, <2>2, ListAssumption
  <2>. QED
    BY <2>3 DEF n, Capacity, CustomHeaderSize, CustomEntrySize
<1>. QED
  BY ServiceInit, ServiceNext, <1>1, PTL DEF Spec

----------------------------------------------------------------------------
(* The answers.                                                            *)

\* A list with an entry for every shown server, in order.
ListsShown(packet) ==
  /\ DOMAIN packet.entries = 1 .. Cardinality(Shown)
  /\ \A i \in 1 .. Cardinality(Shown) : packet.entries[i][1] = Sorted(Shown)[i]

\* Only a list request takes the handler through both lists, and what was sent
\* when it is done is the answer to the request that is remembered.
AnswerOK ==
  /\ ~serving => request = NoRequest /\ replies = <<>> /\ at = "idle"
  /\ at \in {"custom", "plain"} => IsListRequest(request)
  /\ at = "idle" =>
       IF IsListRequest(request)
       THEN Len(replies) = 2 /\ ListsShown(replies[1]) /\ ListsShown(replies[2])
       ELSE replies = IF IsInfoRequest(request) /\ request.code \in Shown
                      THEN <<Info(request.code)>> ELSE <<>>

\* Both generators go through the shown servers in order.
LEMMA ListsAreOfShown == ListsShown(CustomList) /\ ListsShown(PlainList)
<1>1. Listed = Shown
  BY DEF Listed, CheckJoinServerState
<1>2. CustomList.entries = CustomEntries /\ PlainList.entries = PlainEntries
  BY DEF CustomList, PlainList, Packet
<1>3. /\ DOMAIN CustomEntries = 1 .. Cardinality(Shown)
      /\ \A i \in 1 .. Cardinality(Shown) : CustomEntries[i][1] = Sorted(Shown)[i]
  BY <1>1 DEF CustomEntries
<1>4. /\ DOMAIN PlainEntries = 1 .. Cardinality(Shown)
      /\ \A i \in 1 .. Cardinality(Shown) : PlainEntries[i][1] = Sorted(Shown)[i]
  BY <1>1 DEF PlainEntries
<1>. QED
  BY <1>2, <1>3, <1>4 DEF ListsShown

\* The third and the fourth field.
LEMMA AddressAndPort ==
  ASSUME NEW T, NEW e \in Seq(T), Len(e) = 5 PROVE SubSeq(e, 3, 4) = <<e[3], e[4]>>
<1>1. e[3] \in T /\ e[4] \in T
  OBVIOUS
<1>2. \A i \in 3 .. 4 : e[i] \in T
  OBVIOUS
<1>3. /\ SubSeq(e, 3, 4) \in Seq(T) /\ Len(SubSeq(e, 3, 4)) = 2
      /\ \A i \in 1 .. 2 : SubSeq(e, 3, 4)[i] = e[3 + i - 1]
  BY <1>2, SubSeqProperties
<1>4. \A i \in 1 .. 2 : SubSeq(e, 3, 4)[i] = <<e[3], e[4]>>[i]
  BY <1>3
<1>5. <<e[3], e[4]>> \in Seq(T) /\ Len(<<e[3], e[4]>>) = 2
  BY <1>1
<1>. QED
  BY <1>3, <1>4, <1>5, SeqEqual

\* There are finitely many codes.
LEMMA WordsAreFinite == Word16 \subseteq Nat /\ IsFiniteSet(Word16)
<1>1. Word16 \in SUBSET Nat /\ \A w \in Word16 : w <= 65535
  BY DEF Word16
<1>. QED
  BY <1>1, FS_BoundedSetOfNaturals

\* At first nothing was asked.
LEMMA AnswerInit == Init => AnswerOK
  BY DEF Init, AnswerOK, NoRequest, IsListRequest, IsInfoRequest

\* Every step keeps the answers right; a heartbeat does not touch what they name.
LEMMA AnswerNext == ServiceInv /\ AnswerOK /\ [Next]_vars => AnswerOK'
<1>. SUFFICES ASSUME ServiceInv, AnswerOK, [Next]_vars PROVE AnswerOK'
  OBVIOUS
<1>1. ASSUME UNCHANGED <<servers, at, request, replies>>, serving => serving' PROVE AnswerOK'
  <2>1. Shown' = Shown
    BY <1>1 DEF Shown
  <2>2. \A p : ListsShown(p)' <=> ListsShown(p)
    BY <2>1 DEF ListsShown
  <2>3. \A c : Info(c)' = Info(c)
    BY <1>1 DEF Info
  <2>. QED
    BY <1>1, <2>1, <2>2, <2>3 DEF AnswerOK
<1>2. CASE Load /\ UNCHANGED serviceVars
  <2>1. ~serving
    BY <1>2 DEF ServiceInv, ServersOK, Load, ReadCode, ReadName, ReadAddress, ReadPort, Read,
                ReadShow, Stop
  <2>2. request' = NoRequest /\ replies' = <<>> /\ at' = "idle" /\ ~serving'
    BY <1>2, <2>1 DEF AnswerOK, serviceVars
  <2>. QED
    BY <2>2 DEF AnswerOK, NoRequest, IsListRequest, IsInfoRequest
<1>3. CASE Serve
  BY <1>1, <1>3 DEF Serve
<1>4. ASSUME NEW c \in Code, NEW total \in {0, 1}, GameServerLive(c, total) PROVE AnswerOK'
  BY <1>1, <1>4 DEF GameServerLive, fileVars
<1>5. ASSUME NEW r \in Request, Receive(r) PROVE AnswerOK'
  <2>1. /\ servers' = servers /\ serving' /\ request' = r
        /\ at' = IF IsListRequest(r) THEN "custom" ELSE "idle"
        /\ replies' = IF IsInfoRequest(r) /\ r.code \in Shown THEN <<Info(r.code)>> ELSE <<>>
    BY <1>5 DEF Receive, Dispatch, CCServerInfoRecv, fileVars
  <2>2. Shown' = Shown /\ \A c : Info(c)' = Info(c)
    BY <2>1 DEF Shown, Info
  <2>. QED
    BY <2>1, <2>2 DEF AnswerOK
<1>6. CASE CCCustomServerListSend
  <2>1. request' = request /\ serving' = serving /\ at' \in {"plain", "undefined"} /\ at = "custom"
    BY <1>6 DEF CCCustomServerListSend, SendList
  <2>. QED
    BY <2>1 DEF AnswerOK, ServiceInv, PlaceOK
<1>7. CASE CCServerListRecv
  <2>. USE <1>7 DEF CCServerListRecv, SendList
  <2>1. /\ request' = request /\ serving' = serving /\ servers' = servers /\ at = "plain"
        /\ serving
    BY DEF fileVars, ServiceInv, PlaceOK
  <2>2. CASE PlainSize <= SendBuffer
    <3>1. replies' = <<CustomList, PlainList>> /\ at' = "idle"
      BY <2>1, <2>2, RepliesOf DEF ServiceInv, PlaceOK
    <3>2. Shown' = Shown
      BY <2>1 DEF Shown
    <3>3. \A p : ListsShown(p)' <=> ListsShown(p)
      BY <3>2 DEF ListsShown
    <3>. HIDE <1>7
    <3>4. Len(replies') = 2 /\ replies'[1] = CustomList /\ replies'[2] = PlainList
      BY <3>1
    <3>5. IsListRequest(request')
      BY <2>1 DEF AnswerOK
    <3>6. ListsShown(replies[1])' /\ ListsShown(replies[2])'
      BY <3>2, <3>4, ListsAreOfShown DEF ListsShown
    <3>. QED
      BY <2>1, <3>1, <3>4, <3>5, <3>6 DEF AnswerOK
  <2>3. CASE ~(PlainSize <= SendBuffer)
    <3>1. at' = "undefined"
      BY <2>3
    <3>. QED
      BY <2>1, <3>1 DEF AnswerOK
  <2>. QED
    BY <2>2, <2>3
<1>8. CASE UNCHANGED vars
  BY <1>1, <1>8 DEF vars, fileVars, serviceVars
<1>. QED
  BY <1>2, <1>3, <1>4, <1>5, <1>6, <1>7, <1>8 DEF Next

\* A complete request is answered as it asks, for every file, every set of server
\* codes and every size of the buffer, and however heartbeats come between the two
\* lists: both name all the shown servers, each once and in order, and an info
\* request gets the address and port the file has for its server
\* (ConnectServerProtocolCore, its handlers, the generators, CServerList::Load).
THEOREM RequestsAnswered == Spec => []AnswersTheRequest
<1>1. FileInv /\ AnswerOK => AnswersTheRequest
  <2>. SUFFICES ASSUME FileInv, AnswerOK, at = "idle" PROVE AnswersTheRequest
    BY DEF AnswersTheRequest
  <2>1. CASE IsListRequest(request)
    <3>. DEFINE n == Cardinality(Shown)
                s == Sorted(Shown)
    <3>1. Shown \in SUBSET Nat /\ IsFiniteSet(Shown)
      <4>1. Shown \in SUBSET Word16
        BY DEF FileInv, EntriesOK, Shown
      <4>. QED
        BY <4>1, WordsAreFinite, FS_Subset
    <3>2. s \in [1 .. n -> Shown] /\ InOrder(s) /\ \A c \in Shown : \E i \in 1 .. n : s[i] = c
      BY <3>1, SortedOf
    <3>3. Len(replies) = 2 /\ ListsShown(replies[1]) /\ ListsShown(replies[2])
      BY <2>1 DEF AnswerOK
    <3>. HIDE DEF n, s
    <3>4. ASSUME NEW p, ListsShown(p) PROVE DOMAIN p.entries = 1 .. n /\ Codes(p) = s
      <4>1. DOMAIN p.entries = 1 .. n /\ \A i \in 1 .. n : p.entries[i][1] = s[i]
        BY <3>4 DEF ListsShown, n, s
      <4>. QED
        BY <3>2, <4>1 DEF Codes
    <3>5. Codes(replies[1]) = s /\ Codes(replies[2]) = s /\ DOMAIN replies[1].entries = 1 .. n
      BY <3>3, <3>4
    <3>6. {s[i] : i \in 1 .. n} = Shown
      BY <3>2
    <3>. QED
      BY <2>1, <3>2, <3>3, <3>5, <3>6 DEF AnswersTheRequest
  <2>2. CASE ~IsListRequest(request)
    <3>1. ASSUME NEW c \in Shown
          PROVE  Info(c) = Packet(SmallHeader(3, InfoSize), 1, <<SubSeq(servers[c], 3, 4)>>)
      <4>. DEFINE e == servers[c]
                  T == Field \cup BOOLEAN
      <4>1. e \in Seq(T) /\ Len(e) = 5
        BY DEF FileInv, EntriesOK, Shown
      <4>. HIDE DEF e, T
      <4>2. SubSeq(e, 3, 4) = <<e[3], e[4]>>
        BY <4>1, AddressAndPort
      <4>. QED
        BY <4>2 DEF Info, e
    <3>. QED
      BY <2>2, <3>1 DEF AnswerOK, AnswersTheRequest
  <2>. QED
    BY <2>1, <2>2
<1>2. Init => ServiceInv /\ FileInv /\ AnswerOK
  BY ServiceInit, FileInit, AnswerInit
<1>3. ServiceInv /\ FileInv /\ AnswerOK /\ [Next]_vars => (ServiceInv /\ FileInv /\ AnswerOK)'
  BY ServiceNext, FileNext, AnswerNext
<1>. QED
  BY <1>1, <1>2, <1>3, PTL DEF Spec


----------------------------------------------------------------------------
(* Where the pieces of a text are.                                         *)

\* The text s has the word w from position p on.
At(s, p, w) == \A j \in 1 .. Len(w) : p + j - 1 \in 1 .. Len(s) /\ s[p + j - 1] = w[j]

\* The words ws follow one another in s, each from its start.
Pieces(s, ws, start) ==
  /\ start \in [1 .. Len(ws) + 1 -> 1 .. Len(s) + 1]
  /\ \A i \in 1 .. Len(ws) : start[i + 1] = start[i] + Len(ws[i]) /\ At(s, start[i], ws[i])

\* A word that ends in the text is two, one after the other.
LEMMA AtConcat ==
  ASSUME NEW T, NEW a \in Seq(T), NEW b \in Seq(T), NEW s \in Seq(T), NEW p \in Nat,
         At(s, p, a \o b)
  PROVE  /\ At(s, p, a) /\ At(s, p + Len(a), b)
         /\ a \o b \in Seq(T) /\ Len(a \o b) = Len(a) + Len(b)
<1>. DEFINE m == Len(a)
            n == Len(b)
<1>1. /\ m \in Nat /\ n \in Nat /\ Len(a \o b) = m + n /\ a \o b \in Seq(T)
      /\ \A i \in 1 .. m : (a \o b)[i] = a[i]
      /\ \A i \in 1 .. n : m + i \in 1 .. m + n /\ (a \o b)[m + i] = b[i]
  BY ConcatProperties
<1>2. \A j \in 1 .. m + n : p + j - 1 \in 1 .. Len(s) /\ s[p + j - 1] = (a \o b)[j]
  BY <1>1 DEF At
<1>. HIDE DEF m, n
<1>3. \A j \in 1 .. m : j \in 1 .. m + n
  BY <1>1
<1>4. \A j \in 1 .. n : p + (m + j) - 1 = (p + m) + j - 1
  BY <1>1
<1>5. At(s, p, a)
  BY <1>1, <1>2, <1>3 DEF At, m
<1>6. At(s, p + m, b)
  BY <1>1, <1>2, <1>4 DEF At, n
<1>. QED
  BY <1>1, <1>5, <1>6 DEF m, n

\* What is in a word is in its concatenations.
LEMMA ConcatAt ==
  ASSUME NEW T, NEW a \in Seq(T), NEW b \in Seq(T)
  PROVE  /\ a \o b \in Seq(T) /\ Len(a \o b) = Len(a) + Len(b)
         /\ At(a \o b, Len(a) + 1, b)
         /\ \A p \in Nat : \A w : At(a, p, w) => At(a \o b, p, w)
<1>. DEFINE m == Len(a)
            n == Len(b)
            c == a \o b
<1>1. /\ m \in Nat /\ n \in Nat /\ Len(c) = m + n /\ c \in Seq(T)
      /\ \A i \in 1 .. m : c[i] = a[i]
      /\ \A i \in 1 .. n : c[m + i] = b[i]
  BY ConcatProperties
<1>. HIDE DEF m, n, c
<1>2. \A j \in 1 .. n : (m + 1) + j - 1 = m + j /\ m + j \in 1 .. m + n
  BY <1>1
<1>3. At(c, m + 1, b)
  BY <1>1, <1>2 DEF At, n
<1>4. ASSUME NEW p \in Nat, NEW w, At(a, p, w) PROVE At(c, p, w)
  <2>1. \A i \in 1 .. m : i \in 1 .. m + n
    BY <1>1
  <2>2. ASSUME NEW j \in 1 .. Len(w) PROVE p + j - 1 \in 1 .. m /\ a[p + j - 1] = w[j]
    BY <1>4 DEF At, m
  <2>. QED
    BY <1>1, <2>1, <2>2 DEF At
<1>. QED
  BY <1>1, <1>3, <1>4 DEF m, n, c

\* A word in a word that is in the text.
LEMMA AtWithin ==
  ASSUME NEW s, NEW p \in Nat, NEW w, NEW q \in Nat, NEW v, At(s, p, w), At(w, q, v)
  PROVE  At(s, p + q - 1, v)
<1>. SUFFICES ASSUME NEW j \in 1 .. Len(v)
              PROVE  /\ (p + q - 1) + j - 1 \in 1 .. Len(s)
                     /\ s[(p + q - 1) + j - 1] = v[j]
  BY DEF At
<1>1. q + j - 1 \in 1 .. Len(w) /\ w[q + j - 1] = v[j]
  BY DEF At
<1>2. p + (q + j - 1) - 1 \in 1 .. Len(s) /\ s[p + (q + j - 1) - 1] = w[q + j - 1]
  BY <1>1 DEF At
<1>3. p + (q + j - 1) - 1 = (p + q - 1) + j - 1
  OBVIOUS
<1>. QED
  BY <1>1, <1>2, <1>3

\* A concatenation has its pieces, in their order.
LEMMA FlattenPieces ==
  ASSUME NEW T, NEW ws \in Seq(Seq(T))
  PROVE  \E start : /\ Pieces(FlattenSeq(ws), ws, start)
                    /\ start[1] = 1
                    /\ start[Len(ws) + 1] = Len(FlattenSeq(ws)) + 1
<1>. DEFINE n == Len(ws)
            F == FlattenSeq(ws)
<1>0. n \in Nat /\ \A i \in 1 .. n : ws[i] \in Seq(T) /\ Len(ws[i]) \in Nat
  OBVIOUS
<1>1. CASE n = 0
  <2>1. F = <<>>
    <3>1. FlattenSeq(ws) = ws
      BY <1>1, Zenon DEF FlattenSeq
    <3>. QED
      BY <1>1, <3>1
  <2>. DEFINE start == [i \in 1 .. 1 |-> 1]
  <2>2. Pieces(<<>>, ws, start) /\ start[1] = 1 /\ Len(<<>>) = 0
    BY <1>1 DEF Pieces
  <2>. QED
    BY <1>1, <2>1, <2>2
<1>2. CASE n # 0
  <2>1. PICK f : /\ F = f[n]
                 /\ \A i \in 1 .. n : f[i] = IF i = 1 THEN ws[i] ELSE f[i - 1] \o ws[i]
    BY <1>2, FlattenIs
  <2>. DEFINE start == [i \in 1 .. n + 1 |-> IF i = 1 THEN 1 ELSE Len(f[i - 1]) + 1]
              Up(k) == /\ f[k] \in Seq(T) /\ start[k + 1] = Len(f[k]) + 1
                       /\ \A i \in 1 .. k : /\ start[i] \in 1 .. Len(f[k]) + 1
                                            /\ start[i + 1] = start[i] + Len(ws[i])
                                            /\ At(f[k], start[i], ws[i])
              Q == {k \in 0 .. n : k = 0 \/ Up(k)}
  <2>. HIDE DEF n, F
  <2>2. start[1] = 1 /\ \A i \in 1 .. n : start[i + 1] = Len(f[i]) + 1
    <3>1. 1 \in 1 .. n + 1 /\ \A i \in 1 .. n : i + 1 \in 1 .. n + 1 /\ i + 1 # 1 /\ (i + 1) - 1 = i
      BY <1>0
    <3>. QED
      BY <3>1
  <2>. HIDE DEF start
  <2>3. Up(1)
    <3>1. 1 \in 1 .. n /\ f[1] = ws[1] /\ ws[1] \in Seq(T)
      BY <1>0, <1>2, <2>1
    <3>2. At(ws[1], 1, ws[1])
      BY <3>1 DEF At
    <3>3. start[2] = Len(ws[1]) + 1
      BY <2>2, <3>1
    <3>. QED
      BY <1>0, <2>2, <3>1, <3>2, <3>3
  <2>4. ASSUME NEW k \in 1 .. n, Up(k), k # n PROVE Up(k + 1)
    <3>. DEFINE a == f[k]
                b == ws[k + 1]
                c == f[k + 1]
    <3>1. k + 1 \in 1 .. n /\ k \in 1 .. n /\ k + 1 # 1 /\ (k + 1) - 1 = k
      BY <1>0, <2>4
    <3>2. c = a \o b /\ b \in Seq(T) /\ a \in Seq(T)
      BY <1>0, <2>1, <2>4, <3>1
    <3>3. /\ c \in Seq(T) /\ Len(c) = Len(a) + Len(b) /\ Len(a) \in Nat /\ Len(b) \in Nat
          /\ At(c, Len(a) + 1, b)
          /\ \A p \in Nat : \A w : At(a, p, w) => At(c, p, w)
      BY <3>2, ConcatAt
    <3>4. start[k + 1] = Len(a) + 1 /\ start[(k + 1) + 1] = Len(c) + 1
      BY <2>2, <3>1
    <3>5. ASSUME NEW i \in 1 .. k
          PROVE  /\ start[i] \in 1 .. Len(c) + 1
                 /\ start[i + 1] = start[i] + Len(ws[i])
                 /\ At(c, start[i], ws[i])
      <4>1. /\ start[i] \in 1 .. Len(a) + 1 /\ At(a, start[i], ws[i])
            /\ start[i + 1] = start[i] + Len(ws[i])
        BY <2>4
      <4>. HIDE DEF a, c
      <4>. QED
        BY <3>3, <4>1
    <3>6. \A i \in 1 .. k + 1 : i \in 1 .. k \/ i = k + 1
      BY <1>0
    <3>7. /\ start[k + 1] \in 1 .. Len(c) + 1
          /\ start[(k + 1) + 1] = start[k + 1] + Len(b)
          /\ At(c, start[k + 1], b)
      <4>1. At(c, start[k + 1], b)
        BY <3>3, <3>4, Zenon
      <4>. HIDE DEF a, b, c
      <4>2. start[k + 1] \in 1 .. Len(c) + 1
        BY <3>3, <3>4
      <4>. QED
        BY <3>3, <3>4, <4>1, <4>2
    <3>. QED
      BY <3>3, <3>4, <3>5, <3>6, <3>7
  <2>5. \A k \in 0 .. n : k \in Q
    <3>1. 0 \in Q
      BY <1>0
    <3>2. ASSUME NEW k \in 0 .. n, k \in Q, k < n PROVE k + 1 \in Q
      <4>. HIDE DEF Up
      <4>1. CASE k = 0
        BY <1>0, <1>2, <2>3, <4>1
      <4>2. CASE k # 0
        BY <1>0, <2>4, <3>2, <4>2
      <4>. QED
        BY <4>1, <4>2
    <3>. HIDE DEF Q
    <3>. QED
      BY <1>0, <3>1, <3>2, UpTo
  <2>6. Up(n)
    <3>. HIDE DEF Up
    <3>. QED
      BY <1>0, <1>2, <2>5
  <2>7. start \in [1 .. n + 1 -> 1 .. Len(F) + 1]
    <3>1. \A i \in 1 .. n + 1 : start[i] \in 1 .. Len(F) + 1
      <4>1. Len(F) \in Nat
        BY <2>1, <2>6
      <4>2. \A i \in 1 .. n + 1 : i \in 1 .. n \/ i = n + 1
        BY <1>0
      <4>. QED
        BY <2>1, <2>6, <4>1, <4>2
    <3>. QED
      BY <3>1 DEF start
  <2>. QED
    BY <2>1, <2>2, <2>6, <2>7 DEF Pieces, n, F
<1>. QED
  BY <1>1, <1>2

\* So has a text that has the concatenation.
LEMMA PiecesWithin ==
  ASSUME NEW T, NEW ws \in Seq(Seq(T)), NEW s \in Seq(T), NEW p \in 1 .. Len(s) + 1,
         At(s, p, FlattenSeq(ws))
  PROVE  \E start : /\ Pieces(s, ws, start)
                    /\ start[1] = p
                    /\ start[Len(ws) + 1] = p + Len(FlattenSeq(ws))
<1>. DEFINE n == Len(ws)
            F == FlattenSeq(ws)
<1>0. n \in Nat /\ F \in Seq(T) /\ Len(F) \in Nat /\ Len(s) \in Nat
      /\ \A i \in 1 .. n : Len(ws[i]) \in Nat
  BY FlattenIsSeq
<1>1. p + Len(F) <= Len(s) + 1
  <2>1. CASE Len(F) = 0
    BY <1>0, <2>1
  <2>2. CASE Len(F) # 0
    <3>1. Len(F) \in 1 .. Len(F)
      BY <1>0, <2>2
    <3>2. p + Len(F) - 1 \in 1 .. Len(s)
      BY <3>1 DEF At
    <3>. QED
      BY <1>0, <3>2
  <2>. QED
    BY <2>1, <2>2
<1>2. PICK t : Pieces(F, ws, t) /\ t[1] = 1 /\ t[n + 1] = Len(F) + 1
  BY FlattenPieces
<1>. HIDE DEF n, F
<1>3. \A i \in 1 .. n + 1 : t[i] \in 1 .. Len(F) + 1
  BY <1>2 DEF Pieces, n
<1>4. \A i \in 1 .. n : t[i + 1] = t[i] + Len(ws[i]) /\ At(F, t[i], ws[i])
  BY <1>2 DEF Pieces, n
<1>. DEFINE start == [i \in 1 .. n + 1 |-> p + t[i] - 1]
<1>5. /\ 1 \in 1 .. n + 1 /\ n + 1 \in 1 .. n + 1
      /\ \A i \in 1 .. n : i \in 1 .. n + 1 /\ i + 1 \in 1 .. n + 1
  BY <1>0
<1>6. start[1] = p /\ start[n + 1] = p + Len(F)
  <2>1. start[1] = p + t[1] - 1 /\ start[n + 1] = p + t[n + 1] - 1
    BY <1>5
  <2>. HIDE DEF start
  <2>. QED
    BY <1>0, <1>2, <2>1
<1>7. \A i \in 1 .. n + 1 : start[i] = p + t[i] - 1 /\ start[i] \in 1 .. Len(s) + 1
  BY <1>0, <1>1, <1>3
<1>8. start \in [1 .. n + 1 -> 1 .. Len(s) + 1]
  BY <1>7
<1>. HIDE DEF start
<1>9. ASSUME NEW i \in 1 .. n
      PROVE  start[i + 1] = start[i] + Len(ws[i]) /\ At(s, start[i], ws[i])
  <2>1. /\ start[i] = p + t[i] - 1 /\ start[i + 1] = p + t[i + 1] - 1
        /\ t[i] \in 1 .. Len(F) + 1
    BY <1>3, <1>5, <1>7
  <2>2. At(s, p + t[i] - 1, ws[i])
    <3>1. At(s, p, F) /\ At(F, t[i], ws[i]) /\ p \in Nat /\ t[i] \in Nat
      BY <1>0, <1>4, <2>1 DEF F
    <3>. QED
      BY <3>1, AtWithin
  <2>. QED
    BY <1>0, <1>4, <2>1, <2>2
<1>. QED
  BY <1>6, <1>8, <1>9 DEF Pieces, n, F

----------------------------------------------------------------------------
(* What is read where.                                                     *)

\* A search finds the first place.
LEMMA FirstIs ==
  ASSUME NEW T, NEW s \in Seq(T), NEW p \in 1 .. Len(s) + 1, NEW C, NEW e \in p .. Len(s) + 1
  PROVE  /\ (e = Len(s) + 1 \/ s[e] \in C) /\ (\A i \in p .. e - 1 : s[i] \notin C)
              => FirstIn(s, p, C) = e
         /\ (e = Len(s) + 1 \/ s[e] \notin C) /\ (\A i \in p .. e - 1 : s[i] \in C)
              => FirstNotIn(s, p, C) = e
<1>. DEFINE n == Len(s)
            A == {i \in p .. n : s[i] \in C} \cup {n + 1}
            B == {i \in p .. n : s[i] \notin C} \cup {n + 1}
<1>1. n \in Nat
  OBVIOUS
<1>2. FirstIn(s, p, C) = Min(A) /\ FirstNotIn(s, p, C) = Min(B)
  BY DEF FirstIn, FirstNotIn
<1>. HIDE DEF n
<1>3. A \subseteq p .. n + 1 /\ B \subseteq p .. n + 1 /\ A # {} /\ B # {}
  <2>1. p \in 1 .. n + 1
    BY DEF n
  <2>. QED
    BY <1>1, <2>1
<1>4. A \subseteq Nat /\ B \subseteq Nat
  BY <1>1, <1>3
<1>. HIDE DEF A, B
<1>5. /\ Min(A) \in A /\ \A y \in A : Min(A) <= y
      /\ Min(B) \in B /\ \A y \in B : Min(B) <= y
  BY <1>3, <1>4, LeastElement
<1>6. e \in p .. n + 1
  BY DEF n
<1>7. PICK a : a = Min(A)
  OBVIOUS
<1>8. PICK b : b = Min(B)
  OBVIOUS
<1>9. ASSUME e = n + 1 \/ s[e] \in C, \A i \in p .. e - 1 : s[i] \notin C PROVE a = e
  <2>1. e \in A
    BY <1>1, <1>6, <1>9 DEF A
  <2>2. a \in p .. n + 1 /\ a <= e
    BY <1>3, <1>5, <1>7, <2>1
  <2>3. a # n + 1 => s[a] \in C
    BY <1>5, <1>7 DEF A
  <2>. QED
    BY <1>1, <1>6, <1>9, <2>2, <2>3
<1>10. ASSUME e = n + 1 \/ s[e] \notin C, \A i \in p .. e - 1 : s[i] \in C PROVE b = e
  <2>1. e \in B
    BY <1>1, <1>6, <1>10 DEF B
  <2>2. b \in p .. n + 1 /\ b <= e
    BY <1>3, <1>5, <1>8, <2>1
  <2>3. b # n + 1 => s[b] \notin C
    BY <1>5, <1>8 DEF B
  <2>. QED
    BY <1>1, <1>6, <1>10, <2>2, <2>3
<1>. QED
  BY <1>2, <1>7, <1>8, <1>9, <1>10 DEF n

\* The characters are told apart.
LEMMA Chars ==
  /\ EOF \notin Char
  /\ Slash \in Char /\ Slash \notin WordChar /\ Slash \notin Space /\ Slash # Quote
  /\ Quote \in Char /\ Quote \notin WordChar /\ Quote \notin Space
  /\ \A ch \in Space : ch \in Char /\ ch \notin WordChar
  /\ Newline \in Space /\ Blank \in Space /\ Newline # Blank
  /\ "#" \in Char /\ "#" \notin WordChar /\ "#" \notin Space /\ "#" # Slash /\ "#" # Quote
  /\ Digit \subseteq NumberChar /\ NumberChar \subseteq WordChar /\ Letter \subseteq WordChar
  /\ WordChar \subseteq Char
  /\ "a" \in Letter /\ "SHOW" \in Letter /\ "end" \in Letter
  /\ \A ch \in Letter : ch \notin NumberChar
  /\ WordChar = NumberChar \cup Letter
<1>. USE DEF EOF, Char, Slash, WordChar, NumberChar, Digit, Letter, Space, Quote, Newline, Blank
<1>. QED
  OBVIOUS

\* The end of the file is where the text ends.
LEMMA AtEnd ==
  ASSUME NEW s \in Seq(Char), NEW p \in 1 .. Len(s) + 1
  PROVE  /\ CharAt(s, p) = EOF <=> p = Len(s) + 1
         /\ p # Len(s) + 1 => CharAt(s, p) = s[p] /\ s[p] \in Char
<1>1. p # Len(s) + 1 => p <= Len(s) /\ s[p] \in Char
  OBVIOUS
<1>2. p = Len(s) + 1 => ~(p <= Len(s))
  OBVIOUS
<1>. QED
  BY <1>1, <1>2, Chars DEF CharAt

\* The loop before a token does not move from a character that is no space and
\* no slash, nor from a newline the caller asks for; it passes over spaces, and
\* over a comment to its newline.
LEMMA SkipStays ==
  ASSUME NEW s \in Seq(Char), NEW p \in 1 .. Len(s) + 1, NEW endLine \in BOOLEAN,
         \/ CharAt(s, p) \notin Space /\ CharAt(s, p) # Slash
         \/ endLine /\ CharAt(s, p) = Newline
  PROVE  Skip(s, p, endLine) = p
<1>1. CharAt(s, p) # Slash
  BY Chars
<1>2. PastSlash(s, p) = p
  BY <1>1, Zenon DEF PastSlash
<1>3. Stops(s, p, endLine)
  BY <1>2 DEF Stops
<1>. QED
  BY <1>2, <1>3, SkipIs

\* A blank is passed over, and a newline unless the caller asked for it.
LEMMA SkipSpace ==
  ASSUME NEW s \in Seq(Char), NEW p \in 1 .. Len(s) + 1, NEW endLine \in BOOLEAN,
         CharAt(s, p) \in Space, ~(endLine /\ CharAt(s, p) = Newline)
  PROVE  p + 1 \in 1 .. Len(s) + 1 /\ Skip(s, p, endLine) = Skip(s, p + 1, endLine)
<1>1. CharAt(s, p) # Slash
  BY Chars
<1>2. PastSlash(s, p) = p
  BY <1>1, Zenon DEF PastSlash
<1>3. ~Stops(s, p, endLine)
  BY <1>2 DEF Stops
<1>4. p \in 1 .. Len(s) /\ Len(s) \in Nat
  BY <1>2, <1>3, SkipIs
<1>. QED
  BY <1>2, <1>3, <1>4, SkipIs

\* A comment is passed over, up to the end of its line.
LEMMA SkipComment ==
  ASSUME NEW s \in Seq(Char), NEW p \in 1 .. Len(s) + 1, NEW endLine \in BOOLEAN,
         At(s, p, Comment), CharAt(s, p + 5) \in {Newline, EOF}
  PROVE  p + 5 \in 1 .. Len(s) + 1 /\ Skip(s, p, endLine) = Skip(s, p + 5, endLine)
<1>1. /\ p + 4 \in 1 .. Len(s) /\ Len(s) \in Nat
      /\ s[p] = Slash /\ s[p + 1] = Slash
      /\ s[p + 2] # Newline /\ s[p + 3] # Newline /\ s[p + 4] # Newline
  <2>1. /\ Len(Comment) = 5 /\ Comment[1] = Slash /\ Comment[2] = Slash
        /\ Comment[3] = "a" /\ Comment[4] = Blank /\ Comment[5] = "1"
    BY DEF Comment
  <2>2. "a" # Newline /\ Blank # Newline /\ "1" # Newline
    BY DEF Newline, Blank
  <2>3. \A j \in 1 .. 5 : p + j - 1 \in 1 .. Len(s) /\ s[p + j - 1] = Comment[j]
    BY <2>1 DEF At
  <2>4. /\ s[p + 1 - 1] = Comment[1] /\ s[p + 2 - 1] = Comment[2] /\ s[p + 3 - 1] = Comment[3]
        /\ s[p + 4 - 1] = Comment[4] /\ s[p + 5 - 1] = Comment[5]
        /\ p + 5 - 1 \in 1 .. Len(s)
    BY <2>3
  <2>5. /\ p + 1 - 1 = p /\ p + 2 - 1 = p + 1 /\ p + 3 - 1 = p + 2 /\ p + 4 - 1 = p + 3
        /\ p + 5 - 1 = p + 4 /\ Len(s) \in Nat
    OBVIOUS
  <2>. QED
    BY <2>1, <2>2, <2>4, <2>5
<1>2. CharAt(s, p) = Slash /\ CharAt(s, p + 1) = Slash
  BY <1>1 DEF CharAt
<1>3. p + 5 \in p + 2 .. Len(s) + 1 /\ p + 2 \in 1 .. Len(s) + 1 /\ p + 5 \in 1 .. Len(s) + 1
  BY <1>1
<1>4. FirstIn(s, p + 2, {Newline}) = p + 5
  <2>1. p + 5 = Len(s) + 1 \/ s[p + 5] \in {Newline}
    BY <1>3, AtEnd
  <2>2. \A i \in p + 2 .. p + 5 - 1 : i = p + 2 \/ i = p + 3 \/ i = p + 4
    OBVIOUS
  <2>3. \A i \in p + 2 .. p + 5 - 1 : s[i] \notin {Newline}
    BY <1>1, <2>2
  <2>. DEFINE q == p + 2
              e == p + 5
  <2>4. q \in 1 .. Len(s) + 1 /\ e \in q .. Len(s) + 1
    BY <1>3
  <2>5. /\ e = Len(s) + 1 \/ s[e] \in {Newline}
        /\ \A i \in q .. e - 1 : s[i] \notin {Newline}
    BY <2>1, <2>3
  <2>. HIDE DEF q, e
  <2>6. FirstIn(s, q, {Newline}) = e
    BY <2>4, <2>5, FirstIs
  <2>. QED
    BY <2>6 DEF q, e
<1>5. PastSlash(s, p) = p + 5
  BY <1>2, <1>4, Zenon DEF PastSlash
<1>6. PastSlash(s, p + 5) = p + 5
  <2>1. CharAt(s, p + 5) # Slash
    BY Chars
  <2>. QED
    BY <2>1, Zenon DEF PastSlash
<1>7. Stops(s, p, endLine) <=> Stops(s, p + 5, endLine)
  BY <1>5, <1>6 DEF Stops
<1>8. /\ Skip(s, p, endLine) = IF Stops(s, p, endLine) THEN p + 5 ELSE Skip(s, (p + 5) + 1, endLine)
      /\ Skip(s, p + 5, endLine) =
           IF Stops(s, p + 5, endLine) THEN p + 5 ELSE Skip(s, (p + 5) + 1, endLine)
  BY <1>3, <1>5, <1>6, SkipIs
<1>. QED
  BY <1>3, <1>7, <1>8

\* A word in the text is what is cut out there.
LEMMA AtIs ==
  ASSUME NEW T, NEW s \in Seq(T), NEW q \in 1 .. Len(s) + 1, NEW w \in Seq(T), At(s, q, w)
  PROVE  /\ q + Len(w) \in q .. Len(s) + 1
         /\ SubSeq(s, q, q + Len(w) - 1) = w
         /\ \A i \in q .. q + Len(w) - 1 : i - q + 1 \in 1 .. Len(w) /\ s[i] = w[i - q + 1]
<1>. DEFINE n == Len(s)
            m == Len(w)
            v == SubSeq(s, q, q + m - 1)
<1>1. n \in Nat /\ m \in Nat /\ q \in 1 .. n + 1
  OBVIOUS
<1>2. \A j \in 1 .. m : q + j - 1 \in 1 .. n /\ s[q + j - 1] = w[j]
  BY DEF At
<1>. HIDE DEF n, m, v
<1>3. q + m \in q .. n + 1
  <2>1. CASE m = 0
    BY <1>1, <2>1
  <2>2. CASE m # 0
    <3>1. m \in 1 .. m
      BY <1>1, <2>2
    <3>2. q + m - 1 \in 1 .. n
      BY <1>2, <3>1
    <3>. QED
      BY <1>1, <3>2
  <2>. QED
    BY <2>1, <2>2
<1>4. ASSUME NEW i \in q .. q + m - 1 PROVE i - q + 1 \in 1 .. m /\ s[i] = w[i - q + 1]
  <2>1. i - q + 1 \in 1 .. m /\ q + (i - q + 1) - 1 = i
    BY <1>1
  <2>. QED
    BY <1>2, <2>1
<1>5. v = w
  <2>1. \A i \in q .. q + m - 1 : s[i] \in T
    BY <1>1, <1>3 DEF n
  <2>2. \A i \in 1 .. m : i + q - 1 = q + i - 1
    BY <1>1
  <2>3. /\ v \in Seq(T) /\ Len(v) = m
        /\ \A i \in 1 .. m : v[i] = s[q + i - 1]
    <3>1. q + m - 1 \in q - 1 .. n
      BY <1>1, <1>3
    <3>2. q + m - 1 < q => m = 0
      BY <1>1
    <3>. QED
      BY <1>1, <2>1, <3>1, <3>2, SubSeqProperties DEF v, n
  <2>4. \A i \in 1 .. m : v[i] = w[i]
    BY <1>2, <2>3
  <2>. QED
    BY <2>3, <2>4, SeqEqual DEF m
<1>. QED
  BY <1>1, <1>3, <1>4, <1>5 DEF n, m, v

\* A number is read up to the character behind it, and that with it.
LEMMA ReadsNumber ==
  ASSUME NEW s \in Seq(Char), NEW p \in 1 .. Len(s) + 1, NEW endLine \in BOOLEAN,
         NEW q \in 1 .. Len(s) + 1, Skip(s, p, endLine) = q,
         NEW w \in Seq(NumberChar), w # <<>>, At(s, q, w),
         CharAt(s, q + Len(w)) \notin NumberChar
  PROVE  GetToken(s, p, endLine) =
           Token("number", w, IF q + Len(w) = Len(s) + 1 THEN q + Len(w) ELSE q + Len(w) + 1)
<1>. DEFINE n == Len(s)
            e == q + Len(w)
<1>1. w \in Seq(Char)
  BY Chars, SeqMonotonic
<1>2. /\ e \in q .. n + 1 /\ SubSeq(s, q, e - 1) = w
      /\ \A i \in q .. e - 1 : i - q + 1 \in 1 .. Len(w) /\ s[i] = w[i - q + 1]
  BY <1>1, AtIs
<1>3. \A i \in q .. e - 1 : s[i] \in NumberChar
  BY <1>2
<1>4. n \in Nat /\ Len(w) \in Nat /\ Len(w) # 0
  BY EmptySeq
<1>. HIDE DEF n
<1>5. q \in q .. e - 1 /\ q \in 1 .. n
  BY <1>2, <1>4
<1>. HIDE DEF e
<1>6. CharAt(s, q) \in NumberChar
  BY <1>3, <1>5 DEF CharAt, n
<1>7. /\ CharAt(s, q) # EOF /\ CharAt(s, q) # Newline /\ CharAt(s, q) # Quote
      /\ CharAt(s, q) \notin Letter
  BY <1>6, Chars
<1>8. GetToken(s, p, endLine) = NumberToken(s, q)
  BY <1>6, <1>7, Zenon DEF GetToken
<1>9. FirstNotIn(s, q, NumberChar) = e
  <2>1. e = Len(s) + 1 \/ s[e] \notin NumberChar
    <3>1. e # n + 1 => e <= n
      BY <1>2, <1>4
    <3>2. CharAt(s, e) \notin NumberChar
      BY DEF e
    <3>. QED
      BY <3>1, <3>2 DEF CharAt, n
  <2>2. e \in q .. Len(s) + 1
    BY <1>2 DEF n
  <2>. QED
    BY <1>3, <2>1, <2>2, FirstIs
<1>10. Min({e, n}) = IF e = n + 1 THEN n ELSE e
  <2>1. {e, n} \subseteq Nat /\ {e, n} # {}
    BY <1>2, <1>4
  <2>2. PICK x : x = Min({e, n})
    OBVIOUS
  <2>3. (x = e \/ x = n) /\ x <= e /\ x <= n
    BY <2>1, <2>2, LeastElement
  <2>. QED
    BY <1>2, <1>4, <2>2, <2>3
<1>11. NumberToken(s, q) = Token("number", SubSeq(s, q, e - 1), Min({e, n}) + 1)
  BY <1>9, Zenon DEF NumberToken, n
<1>12. NumberToken(s, q) = Token("number", w, Min({e, n}) + 1)
  BY <1>2, <1>11
<1>13. Min({e, n}) + 1 = IF e = n + 1 THEN e ELSE e + 1
  BY <1>4, <1>10
<1>. QED
  BY <1>8, <1>12, <1>13 DEF e, n

\* What is between quotes is read with them.
LEMMA ReadsQuoted ==
  ASSUME NEW s \in Seq(Char), NEW p \in 1 .. Len(s) + 1, NEW endLine \in BOOLEAN,
         NEW q \in 1 .. Len(s) + 1, Skip(s, p, endLine) = q,
         NEW w \in Seq(Char), At(s, q, Quoted(w)),
         \A i \in 1 .. Len(w) : w[i] \notin {Quote, Newline}
  PROVE  GetToken(s, p, endLine) = Token("string", w, q + Len(Quoted(w)))
<1>. DEFINE n == Len(s)
            m == Len(w)
            e == q + 1 + m
<1>1. <<Quote>> \in Seq(Char) /\ Len(<<Quote>>) = 1
  BY ShortTexts
<1>2. n \in Nat /\ m \in Nat /\ q \in Nat /\ q + 1 \in Nat
  OBVIOUS
<1>3. /\ At(s, q, <<Quote>>) /\ At(s, q + 1, w) /\ At(s, q + 1 + m, <<Quote>>)
      /\ Len(Quoted(w)) = m + 2
  <2>1. Quoted(w) = (<<Quote>> \o w) \o <<Quote>>
    BY DEF Quoted
  <2>2. /\ <<Quote>> \o w \in Seq(Char) /\ Len(<<Quote>> \o w) = 1 + m
    BY <1>1, ConcatProperties
  <2>3. /\ At(s, q, <<Quote>> \o w) /\ At(s, q + (1 + m), <<Quote>>)
        /\ Len(Quoted(w)) = (1 + m) + 1
    <3>1. ASSUME NEW a \in Seq(Char), NEW b \in Seq(Char), At(s, q, a \o b)
          PROVE  At(s, q, a) /\ At(s, q + Len(a), b) /\ Len(a \o b) = Len(a) + Len(b)
      BY <1>2, <3>1, AtConcat
    <3>2. At(s, q, (<<Quote>> \o w) \o <<Quote>>)
      BY <2>1
    <3>. QED
      BY <1>1, <2>1, <2>2, <3>1, <3>2
  <2>4. At(s, q, <<Quote>>) /\ At(s, q + 1, w)
    BY <1>1, <1>2, <2>3, AtConcat
  <2>5. q + (1 + m) = q + 1 + m /\ (1 + m) + 1 = m + 2
    BY <1>2
  <2>. QED
    BY <2>3, <2>4, <2>5
<1>. HIDE DEF n, m
<1>4. ASSUME NEW k \in Nat, At(s, k, <<Quote>>) PROVE k \in 1 .. n /\ s[k] = Quote
  <2>1. 1 \in 1 .. Len(<<Quote>>) /\ k + 1 - 1 = k /\ <<Quote>>[1] = Quote
    OBVIOUS
  <2>. QED
    BY <1>4, <2>1 DEF At, n
<1>5. q \in 1 .. n /\ s[q] = Quote /\ e \in 1 .. n /\ s[e] = Quote
  BY <1>2, <1>3, <1>4
<1>6. /\ SubSeq(s, q + 1, e - 1) = w
      /\ \A i \in q + 1 .. e - 1 : i - (q + 1) + 1 \in 1 .. m /\ s[i] = w[i - (q + 1) + 1]
  <2>. DEFINE r == q + 1
  <2>1. r \in 1 .. Len(s) + 1 /\ At(s, r, w)
    BY <1>2, <1>3, <1>5 DEF n
  <2>. HIDE DEF r
  <2>2. /\ SubSeq(s, r, r + Len(w) - 1) = w
        /\ \A i \in r .. r + Len(w) - 1 : i - r + 1 \in 1 .. Len(w) /\ s[i] = w[i - r + 1]
    BY <2>1, AtIs
  <2>. QED
    BY <2>2 DEF m, r
<1>7. \A i \in q + 1 .. e - 1 : s[i] \notin {Quote, Newline}
  BY <1>6 DEF m
<1>8. FirstIn(s, q + 1, {Quote, Newline}) = e
  <2>. DEFINE r == q + 1
  <2>1. /\ r \in 1 .. Len(s) + 1 /\ e \in r .. Len(s) + 1 /\ s[e] \in {Quote, Newline}
        /\ \A i \in r .. e - 1 : s[i] \notin {Quote, Newline}
    BY <1>2, <1>5, <1>7 DEF n
  <2>. HIDE DEF r, e
  <2>2. FirstIn(s, r, {Quote, Newline}) = e
    BY <2>1, FirstIs
  <2>. QED
    BY <2>2 DEF r
<1>9. CharAt(s, q) = Quote /\ CharAt(s, e) = Quote
  BY <1>5 DEF CharAt, n
<1>10. GetToken(s, p, endLine) = QuotedToken(s, q)
  <2>1. Quote # EOF /\ Quote # Newline /\ Quote \notin NumberChar /\ Quote \notin Letter
    BY Chars
  <2>. QED
    BY <1>9, <2>1, Zenon DEF GetToken
<1>11. QuotedToken(s, q) = Token("string", SubSeq(s, q + 1, e - 1), e + 1)
  <2>1. Quote # EOF /\ Quote # Newline
    BY Chars
  <2>. HIDE DEF e
  <2>. QED
    BY <1>8, <1>9, <2>1, Zenon DEF QuotedToken
<1>12. QuotedToken(s, q) = Token("string", w, e + 1)
  BY <1>6, <1>11
<1>13. e + 1 = q + Len(Quoted(w))
  BY <1>2, <1>3
<1>. QED
  BY <1>10, <1>12, <1>13

\* A word of one letter.
LEMMA ReadsWord ==
  ASSUME NEW s \in Seq(Char), NEW p \in 1 .. Len(s) + 1, NEW endLine \in BOOLEAN,
         NEW q \in 1 .. Len(s) + 1, Skip(s, p, endLine) = q,
         NEW c \in Letter, At(s, q, <<c>>), CharAt(s, q + 1) \notin WordChar
  PROVE  /\ c = "end" => GetToken(s, p, endLine).kind = "endSection"
         /\ c # "end" /\ CharAt(s, q + 1) # EOF =>
              GetToken(s, p, endLine) = Token("string", <<c>>, q + Len(<<c>>))
<1>. DEFINE n == Len(s)
            e == q + 1
            w == <<c>>
<1>1. n \in Nat /\ w \in Seq(Char) /\ Len(w) = 1 /\ w[1] = c /\ At(s, q, w)
  <2>1. c \in Char
    BY Chars
  <2>. QED
    BY <2>1
<1>0. ASSUME NEW v \in Seq(Char), At(s, q, v)
      PROVE  /\ q + Len(v) \in q .. n + 1 /\ SubSeq(s, q, q + Len(v) - 1) = v
             /\ \A i \in q .. q + Len(v) - 1 : i - q + 1 \in 1 .. Len(v) /\ s[i] = v[i - q + 1]
  BY <1>0, AtIs
<1>. HIDE DEF w
<1>2. /\ q + Len(w) \in q .. n + 1 /\ SubSeq(s, q, q + Len(w) - 1) = w
      /\ \A i \in q .. q + Len(w) - 1 : i - q + 1 \in 1 .. Len(w) /\ s[i] = w[i - q + 1]
  BY <1>0, <1>1
<1>3. e \in q .. n + 1 /\ SubSeq(s, q, e - 1) = <<c>> /\ q + Len(<<c>>) = e
  BY <1>1, <1>2 DEF w
<1>4. \A i \in q .. e - 1 : s[i] = c
  <2>1. \A i \in q .. e - 1 : i - q + 1 = 1 /\ i \in q .. q + Len(w) - 1
    BY <1>1
  <2>. QED
    BY <1>1, <1>2, <2>1
<1>. HIDE DEF n
<1>5. q \in q .. e - 1 /\ q \in 1 .. n
  BY <1>1, <1>3
<1>. HIDE DEF e
<1>6. CharAt(s, q) = c
  BY <1>4, <1>5 DEF CharAt, n
<1>7. c # EOF /\ c # Newline /\ c # Quote /\ c \notin NumberChar
  BY Chars
<1>8. GetToken(s, p, endLine) = WordToken(s, q)
  BY <1>6, <1>7, Zenon DEF GetToken
<1>9. FirstNotIn(s, q, WordChar) = e
  <2>1. e = Len(s) + 1 \/ s[e] \notin WordChar
    BY <1>3 DEF CharAt, e, n
  <2>2. e \in q .. Len(s) + 1
    BY <1>3 DEF n
  <2>3. \A i \in q .. e - 1 : s[i] \in WordChar
    BY <1>4, Chars
  <2>. QED
    BY <2>1, <2>2, <2>3, FirstIs
<1>10. CASE c = "end"
  <2>1. WordToken(s, q) = Token("endSection", <<"end">>, e)
    BY <1>3, <1>9, <1>10, Zenon DEF WordToken
  <2>. QED
    BY <1>8, <1>10, <2>1 DEF Token
<1>11. CASE c # "end" /\ CharAt(s, q + 1) # EOF
  <2>1. <<c>> # <<"end">>
    BY <1>11
  <2>2. CharAt(s, e) # EOF
    BY <1>11 DEF e
  <2>3. WordToken(s, q) = Token("string", SubSeq(s, q, e - 1), e)
    BY <1>3, <1>9, <2>1, <2>2, Zenon DEF WordToken
  <2>. QED
    BY <1>3, <1>8, <1>11, <2>3
<1>. QED
  BY <1>10, <1>11

\* Anything else.
LEMMA ReadsOther ==
  ASSUME NEW s \in Seq(Char), NEW p \in 1 .. Len(s) + 1, NEW endLine \in BOOLEAN,
         NEW q, Skip(s, p, endLine) = q
  PROVE  /\ CharAt(s, q) = EOF => GetToken(s, p, endLine).kind = "end"
         /\ CharAt(s, q) = Newline => GetToken(s, p, endLine).kind = "endLine"
         /\ CharAt(s, q) = "#" => GetToken(s, p, endLine).kind = "error"
<1>1. ASSUME CharAt(s, q) = EOF PROVE GetToken(s, p, endLine) = Token("end", <<>>, q)
  <2>1. EOF # Newline /\ EOF \notin NumberChar /\ EOF # Quote /\ EOF \notin Letter
    BY Chars
  <2>. QED
    BY <1>1, <2>1, Zenon DEF GetToken
<1>2. ASSUME CharAt(s, q) = Newline PROVE GetToken(s, p, endLine) = Token("endLine", <<>>, q + 1)
  <2>1. Newline # EOF /\ Newline \notin NumberChar /\ Newline # Quote /\ Newline \notin Letter
    BY Chars
  <2>. QED
    BY <1>2, <2>1, Zenon DEF GetToken
<1>3. ASSUME CharAt(s, q) = "#" PROVE GetToken(s, p, endLine) = Token("error", <<>>, q + 1)
  <2>1. "#" # EOF /\ "#" # Newline /\ "#" \notin NumberChar /\ "#" # Quote /\ "#" \notin Letter
    BY Chars
  <2>. QED
    BY <1>3, <2>1, Zenon DEF GetToken
<1>. QED
  BY <1>1, <1>2, <1>3 DEF Token

----------------------------------------------------------------------------
(* Where the lines of the file are, and the words of a line.               *)

\* The words ws are in s, each followed by a blank but the last.
WordsAt(s, ws, wp) ==
  /\ wp \in [1 .. Len(ws) + 1 -> Nat]
  /\ \A i \in 1 .. Len(ws) :
       /\ wp[i] \in 1 .. Len(s) + 1 /\ At(s, wp[i], ws[i])
       /\ wp[i + 1] = wp[i] + Len(ws[i]) + 1
       /\ i # Len(ws) => CharAt(s, wp[i + 1] - 1) = Blank

\* Where spaced words are in a text, there is each of them.
LEMMA SpacedAt ==
  ASSUME NEW ws \in Seq(Seq(Char)), Len(ws) # 0, NEW s \in Seq(Char),
         NEW p \in 1 .. Len(s) + 1, At(s, p, Spaced(ws))
  PROVE  \E wp : WordsAt(s, ws, wp) /\ wp[1] = p /\ wp[Len(ws) + 1] = p + Len(Spaced(ws)) + 1
<1>. DEFINE n == Len(ws)
            sep == Separated(ws)
            B == <<Blank>>
<1>1. /\ n \in Nat /\ n # 0 /\ sep \in Seq(Seq(Char)) /\ Len(sep) = n
      /\ \A i \in 1 .. n : /\ sep[i] = IF i = 1 THEN ws[i] ELSE B \o ws[i]
                           /\ ws[i] \in Seq(Char) /\ Len(ws[i]) \in Nat
      /\ At(s, p, FlattenSeq(sep)) /\ Spaced(ws) = FlattenSeq(sep)
      /\ Len(Spaced(ws)) \in Nat
  <2>1. /\ sep \in Seq(Seq(Char)) /\ Len(sep) = n /\ Spaced(ws) = FlattenSeq(sep)
        /\ Spaced(ws) \in Seq(Char)
        /\ \A i \in 1 .. n : sep[i] = IF i = 1 THEN ws[i] ELSE B \o ws[i]
    BY SpacedIs
  <2>2. n \in Nat /\ \A i \in 1 .. n : ws[i] \in Seq(Char) /\ Len(ws[i]) \in Nat
    OBVIOUS
  <2>3. At(s, p, FlattenSeq(sep))
    BY <2>1, Zenon
  <2>4. Len(Spaced(ws)) \in Nat
    <3>1. \A t \in Seq(Char) : Len(t) \in Nat
      OBVIOUS
    <3>. QED
      BY <2>1, <3>1
  <2>. HIDE DEF sep, n, B
  <2>. QED
    BY <2>1, <2>2, <2>3, <2>4 DEF n
<1>0. ASSUME NEW ss \in Seq(Seq(Char)), At(s, p, FlattenSeq(ss))
      PROVE  \E start : /\ Pieces(s, ss, start) /\ start[1] = p
                        /\ start[Len(ss) + 1] = p + Len(FlattenSeq(ss))
  BY <1>0, PiecesWithin
<1>2. B \in Seq(Char) /\ Len(B) = 1 /\ B[1] = Blank
  BY ShortTexts
<1>. HIDE DEF n, sep, B
<1>3. PICK start : Pieces(s, sep, start) /\ start[1] = p /\ start[n + 1] = p + Len(Spaced(ws))
  BY <1>0, <1>1
<1>4. /\ \A i \in 1 .. n + 1 : start[i] \in 1 .. Len(s) + 1
      /\ \A i \in 1 .. n : start[i + 1] = start[i] + Len(sep[i]) /\ At(s, start[i], sep[i])
  BY <1>1, <1>3 DEF Pieces
<1>. DEFINE wp == [i \in 1 .. n + 1 |-> IF i = 1 THEN p ELSE start[i] + 1]
<1>5. wp[1] = p /\ \A i \in 1 .. n : wp[i + 1] = start[i + 1] + 1
  <2>1. 1 \in 1 .. n + 1 /\ \A i \in 1 .. n : i + 1 \in 1 .. n + 1 /\ i + 1 # 1
    BY <1>1
  <2>. QED
    BY <2>1
<1>6. wp \in [1 .. n + 1 -> Nat]
  BY <1>4
<1>. HIDE DEF wp
<1>7. Len(s) \in Nat
  OBVIOUS
<1>8. ASSUME NEW i \in 1 .. n
      PROVE  /\ wp[i] \in 1 .. Len(s) + 1 /\ At(s, wp[i], ws[i])
             /\ wp[i + 1] = wp[i] + Len(ws[i]) + 1
             /\ i # 1 => CharAt(s, wp[i] - 1) = Blank
  <2>1. CASE i = 1
    BY <1>1, <1>3, <1>4, <1>5, <2>1
  <2>2. CASE i # 1
    <3>1. i - 1 \in 1 .. n /\ (i - 1) + 1 = i /\ i \in 1 .. n + 1
      BY <1>1, <2>2
    <3>2. wp[i] = start[i] + 1 /\ wp[i + 1] = start[i + 1] + 1 /\ start[i] \in 1 .. Len(s) + 1
      BY <1>4, <1>5, <3>1
    <3>3. sep[i] = B \o ws[i] /\ ws[i] \in Seq(Char) /\ Len(ws[i]) \in Nat
      BY <1>1, <2>2
    <3>4. /\ At(s, start[i], B) /\ At(s, start[i] + Len(B), ws[i])
          /\ Len(B \o ws[i]) = Len(B) + Len(ws[i])
      <4>1. ASSUME NEW q \in Nat, NEW a \in Seq(Char), NEW b \in Seq(Char), At(s, q, a \o b)
            PROVE  /\ At(s, q, a) /\ At(s, q + Len(a), b)
                   /\ Len(a \o b) = Len(a) + Len(b)
        BY <4>1, AtConcat
      <4>2. start[i] \in Nat
        BY <3>2
      <4>3. At(s, start[i], sep[i])
        BY <1>4
      <4>4. At(s, start[i], B \o ws[i])
        BY <3>3, <4>3, Zenon
      <4>. DEFINE q == start[i]
                  b == ws[i]
      <4>5. q \in Nat /\ b \in Seq(Char) /\ B \in Seq(Char) /\ At(s, q, B \o b)
        BY <1>2, <3>3, <4>2, <4>4, Zenon
      <4>. HIDE DEF q, b
      <4>6. At(s, q, B) /\ At(s, q + Len(B), b) /\ Len(B \o b) = Len(B) + Len(b)
        <5>1. At(s, q, B) /\ At(s, q + Len(B), b)
          BY <4>1, <4>5, Zenon
        <5>2. Len(B \o b) = Len(B) + Len(b)
          BY <4>5, ConcatProperties
        <5>. QED
          BY <5>1, <5>2
      <4>. QED
        BY <4>6 DEF q, b
    <3>5. start[i + 1] = start[i] + (1 + Len(ws[i]))
      BY <1>2, <1>4, <3>3, <3>4
    <3>6. start[i] \in 1 .. Len(s) /\ s[start[i]] = Blank
      <4>1. 1 \in 1 .. Len(B) /\ start[i] + 1 - 1 = start[i]
        BY <1>2, <3>2
      <4>. QED
        BY <1>2, <3>4, <4>1 DEF At
    <3>7. CharAt(s, wp[i] - 1) = Blank
      BY <3>2, <3>6 DEF CharAt
    <3>8. wp[i] \in 1 .. Len(s) + 1 /\ wp[i + 1] = wp[i] + Len(ws[i]) + 1
      <4>1. PICK a, m, L : a = start[i] /\ m = Len(ws[i]) /\ L = Len(s)
        OBVIOUS
      <4>2. a \in 1 .. L /\ m \in Nat /\ L \in Nat /\ wp[i] = a + 1 /\ wp[i + 1] = a + (1 + m) + 1
        BY <1>7, <3>2, <3>3, <3>5, <3>6, <4>1
      <4>3. a + 1 \in 1 .. L + 1 /\ a + (1 + m) + 1 = a + 1 + m + 1
        BY <4>2
      <4>. QED
        BY <4>1, <4>2, <4>3
    <3>9. At(s, wp[i], ws[i])
      BY <1>2, <3>2, <3>4
    <3>. QED
      BY <3>7, <3>8, <3>9
  <2>. QED
    BY <2>1, <2>2
<1>9. ASSUME NEW i \in 1 .. n, i # n PROVE CharAt(s, wp[i + 1] - 1) = Blank
  <2>1. i + 1 \in 1 .. n /\ i + 1 # 1
    BY <1>1, <1>9
  <2>. QED
    BY <1>8, <2>1
<1>10. wp[n + 1] = p + Len(Spaced(ws)) + 1
  BY <1>1, <1>3, <1>5
<1>. QED
  BY <1>5, <1>6, <1>8, <1>9, <1>10 DEF WordsAt, n

\* Line i ends in a newline, or at the end of the file.
LineEnd(start, i) == start[i] + Len(LineText(lines[i]))

\* Each line is where the one before ends.
Laid(start) ==
  /\ lines \in Seq(Line) /\ text \in Seq(Char)
  /\ start \in [1 .. Len(lines) + 1 -> 1 .. Len(text) + 1]
  /\ start[1] = 1 /\ start[Len(lines) + 1] = Len(text) + 1
  /\ \A i \in 1 .. Len(lines) :
       /\ At(text, start[i], LineText(lines[i]))
       /\ LineEnd(start, i) \in 1 .. Len(text) + 1
       /\ \/ /\ CharAt(text, LineEnd(start, i)) = Newline
             /\ start[i + 1] = LineEnd(start, i) + 1
          \/ /\ CharAt(text, LineEnd(start, i)) = EOF
             /\ start[i + 1] = LineEnd(start, i)
             /\ ~(lines[i].kind = "server" /\ lines[i].bare)

\* A file has a start for each of its lines.
LEMMA FileLaid ==
  ASSUME lines \in Seq(Line), NEW end \in {<<>>, <<Newline>>}, Terminated(lines, end),
         text = FileText(lines, end)
  PROVE  \E start : Laid(start)
<1>. DEFINE n == Len(lines)
            tail(i) == IF i = n THEN end ELSE <<Newline>>
            texts == [i \in DOMAIN lines |-> LineText(lines[i]) \o tail(i)]
<1>1. <<>> \in Seq(Char) /\ <<Newline>> \in Seq(Char)
  <2>1. <<>> \in Seq(Char)
    OBVIOUS
  <2>. QED
    BY <2>1, ShortTexts
<1>2. text \in Seq(Char)
  BY FileIsText
<1>3. ASSUME NEW i \in 1 .. n
      PROVE  /\ LineText(lines[i]) \in Seq(Char) /\ tail(i) \in Seq(Char)
             /\ Len(LineText(lines[i])) \in Nat
             /\ texts[i] = LineText(lines[i]) \o tail(i)
             /\ texts[i] \in Seq(Char)
  <2>0. lines[i] \in Line /\ i \in DOMAIN lines
    OBVIOUS
  <2>1. LineText(lines[i]) \in Seq(Char) /\ tail(i) \in Seq(Char)
    BY <1>1, <2>0, LineIsText
  <2>2. LineText(lines[i]) \o tail(i) \in Seq(Char)
    BY <2>1, ConcatProperties
  <2>3. texts[i] = LineText(lines[i]) \o tail(i)
    BY <2>0
  <2>. HIDE DEF texts, tail
  <2>. QED
    BY <2>1, <2>2, <2>3
<1>4. texts \in Seq(Seq(Char)) /\ Len(texts) = n /\ n \in Nat
  <2>. DEFINE Texts == Seq(Char)
  <2>1. DOMAIN lines = 1 .. n /\ n \in Nat
    OBVIOUS
  <2>2. texts \in [1 .. n -> Texts]
    BY <1>3, <2>1
  <2>3. \A f \in [1 .. n -> Texts] : f \in Seq(Texts) /\ Len(f) = n
    <3>. HIDE DEF Texts, n
    <3>. QED
      BY <2>1
  <2>. HIDE DEF texts
  <2>. QED
    BY <2>1, <2>2, <2>3
<1>5. text = FlattenSeq(texts)
  BY DEF FileText
<1>. HIDE DEF texts
<1>6. PICK start : /\ Pieces(text, texts, start) /\ start[1] = 1
                   /\ start[n + 1] = Len(text) + 1
  BY <1>4, <1>5, FlattenPieces
<1>7. start \in [1 .. n + 1 -> 1 .. Len(text) + 1]
  BY <1>4, <1>6 DEF Pieces
<1>8. ASSUME NEW i \in 1 .. n
      PROVE  /\ At(text, start[i], LineText(lines[i]))
             /\ LineEnd(start, i) \in 1 .. Len(text) + 1
             /\ At(text, LineEnd(start, i), tail(i))
             /\ start[i + 1] = LineEnd(start, i) + Len(tail(i))
  <2>. DEFINE line == LineText(lines[i])
  <2>1. /\ start[i] \in 1 .. Len(text) + 1 /\ start[i + 1] \in 1 .. Len(text) + 1
        /\ start[i + 1] = start[i] + Len(texts[i]) /\ At(text, start[i], texts[i])
    <3>1. i \in 1 .. n + 1 /\ i + 1 \in 1 .. n + 1 /\ i \in 1 .. Len(texts)
      BY <1>4
    <3>. QED
      BY <1>6, <1>7, <3>1 DEF Pieces
  <2>. HIDE DEF n, tail
  <2>2. ASSUME NEW q \in Nat, NEW a \in Seq(Char), NEW b \in Seq(Char), At(text, q, a \o b)
        PROVE  /\ At(text, q, a) /\ At(text, q + Len(a), b)
               /\ Len(a \o b) = Len(a) + Len(b)
    BY <1>2, <2>2, AtConcat
  <2>3. /\ At(text, start[i], line) /\ At(text, start[i] + Len(line), tail(i))
        /\ Len(texts[i]) = Len(line) + Len(tail(i))
    <3>1. line \in Seq(Char) /\ tail(i) \in Seq(Char) /\ texts[i] = line \o tail(i)
      BY <1>3
    <3>2. start[i] \in Nat
      BY <2>1
    <3>3. At(text, start[i], line \o tail(i))
      BY <2>1, <3>1, Zenon
    <3>. HIDE DEF line
    <3>. QED
      BY <2>2, <3>1, <3>2, <3>3
  <2>4. Len(line) \in Nat /\ Len(tail(i)) \in Nat
    BY <1>3
  <2>5. LineEnd(start, i) = start[i] + Len(line)
    BY DEF LineEnd
  <2>. HIDE DEF line
  <2>6. LineEnd(start, i) \in 1 .. Len(text) + 1
    BY <1>2, <2>1, <2>3, <2>4, <2>5
  <2>7. start[i + 1] = LineEnd(start, i) + Len(tail(i))
    BY <2>1, <2>3, <2>4, <2>5
  <2>. QED
    BY <2>3, <2>5, <2>6, <2>7 DEF line
<1>9. ASSUME NEW i \in 1 .. n
      PROVE  \/ /\ CharAt(text, LineEnd(start, i)) = Newline
                /\ start[i + 1] = LineEnd(start, i) + 1
             \/ /\ CharAt(text, LineEnd(start, i)) = EOF
                /\ start[i + 1] = LineEnd(start, i)
                /\ ~(lines[i].kind = "server" /\ lines[i].bare)
  <2>. DEFINE e == LineEnd(start, i)
  <2>1. e \in 1 .. Len(text) + 1 /\ At(text, e, tail(i)) /\ start[i + 1] = e + Len(tail(i))
    BY <1>8
  <2>. HIDE DEF e
  <2>2. CASE tail(i) = <<Newline>>
    <3>1. Len(tail(i)) = 1 /\ tail(i)[1] = Newline /\ 1 \in 1 .. Len(tail(i)) /\ e + 1 - 1 = e
      BY <2>1, <2>2
    <3>2. e \in 1 .. Len(text) /\ text[e] = Newline
      BY <2>1, <3>1 DEF At
    <3>3. CharAt(text, e) = Newline
      BY <3>2 DEF CharAt
    <3>4. start[i + 1] = e + 1
      BY <2>1, <3>1, Zenon
    <3>. QED
      BY <3>3, <3>4 DEF e
  <2>3. CASE tail(i) # <<Newline>>
    <3>1. i = n /\ end = <<>> /\ tail(i) = <<>>
      BY <2>3
    <3>2. Len(tail(i)) = 0 /\ n + 1 = i + 1
      BY <3>1
    <3>3. e = Len(text) + 1 /\ start[i + 1] = e
      BY <1>6, <2>1, <3>2
    <3>4. CharAt(text, e) = EOF
      BY <1>2, <3>3, AtEnd, <2>1
    <3>5. ~(lines[i].kind = "server" /\ lines[i].bare)
      <4>1. i \in DOMAIN lines
        OBVIOUS
      <4>. QED
        BY <3>1, <4>1 DEF Terminated
    <3>. QED
      BY <3>3, <3>4, <3>5 DEF e
  <2>. QED
    BY <2>2, <2>3
<1>. QED
  BY <1>2, <1>6, <1>7, <1>8, <1>9 DEF Laid

\* The words of a server's line i, from its start to its end.
LineWords(start, i, wp) ==
  /\ WordsAt(text, Words(lines[i]), wp) /\ WordsAre(lines[i], Words(lines[i]))
  /\ wp[1] = start[i] /\ wp[Count(lines[i]) + 1] = LineEnd(start, i) + 1

\* The words of a server's line are in it, one after the other.
LEMMA ServerLineWords ==
  ASSUME NEW start, Laid(start), NEW i \in 1 .. Len(lines), lines[i].kind \notin OtherKind
  PROVE  \E wp : LineWords(start, i, wp)
<1>. DEFINE l == lines[i]
            W == Words(l)
<1>1. l \in Line /\ text \in Seq(Char)
  BY DEF Laid
<1>2. WordsAre(l, W) /\ LineText(l) = Spaced(W)
  BY <1>1, WordsOf, LineIsText
<1>3. W \in Seq(Seq(Char)) /\ Len(W) = Count(l)
  BY <1>2 DEF WordsAre
<1>4. Count(l) \in {3, 4, 5, 6}
  BY <1>1, KindOf DEF Count
<1>5. start[i] \in 1 .. Len(text) + 1 /\ At(text, start[i], LineText(l))
  BY DEF Laid
<1>6. ASSUME NEW ws \in Seq(Seq(Char)), Len(ws) # 0, NEW p \in 1 .. Len(text) + 1,
             At(text, p, Spaced(ws))
      PROVE  \E wp : WordsAt(text, ws, wp) /\ wp[1] = p /\ wp[Len(ws) + 1] = p + Len(Spaced(ws)) + 1
  BY <1>1, <1>6, SpacedAt
<1>. HIDE DEF W, l
<1>7. PICK wp : /\ WordsAt(text, W, wp) /\ wp[1] = start[i]
                /\ wp[Count(l) + 1] = start[i] + Len(Spaced(W)) + 1
  <2>1. Len(W) # 0 /\ At(text, start[i], Spaced(W))
    BY <1>2, <1>3, <1>4, <1>5
  <2>. QED
    BY <1>3, <1>5, <1>6, <2>1
<1>8. LineEnd(start, i) = start[i] + Len(Spaced(W))
  BY <1>2 DEF LineEnd, l
<1>. QED
  BY <1>2, <1>7, <1>8 DEF LineWords, W, l

\* Word k, and what is behind it: a blank, or the end of the line.
After(i, wp, k) == wp[k] + Len(Words(lines[i])[k])

WordIs(start, i, wp, k) ==
  /\ Words(lines[i])[k] \in Seq(Char)
  /\ wp[k] \in 1 .. Len(text) + 1 /\ At(text, wp[k], Words(lines[i])[k])
  /\ After(i, wp, k) \in 1 .. Len(text) + 1 /\ wp[k + 1] = After(i, wp, k) + 1
  /\ k # Count(lines[i]) => CharAt(text, After(i, wp, k)) = Blank
  /\ k = Count(lines[i]) =>
       \/ CharAt(text, After(i, wp, k)) = Newline /\ start[i + 1] = After(i, wp, k) + 1
       \/ /\ CharAt(text, After(i, wp, k)) = EOF /\ start[i + 1] = After(i, wp, k)
          /\ ~(lines[i].kind = "server" /\ lines[i].bare)

\* Each of them is there, and a blank or the end of the line behind it.
LEMMA LineWord ==
  ASSUME NEW start, Laid(start), NEW i \in 1 .. Len(lines), lines[i].kind \notin OtherKind,
         NEW wp, LineWords(start, i, wp), NEW k \in 1 .. Count(lines[i])
  PROVE  WordIs(start, i, wp, k)
<1>. DEFINE l == lines[i]
            W == Words(l)
            a == After(i, wp, k)
            c == Count(l)
<1>1. l \in Line /\ text \in Seq(Char) /\ Len(text) \in Nat
  BY DEF Laid
<1>2. W \in Seq(Seq(Char)) /\ Len(W) = c
  BY DEF LineWords, WordsAre
<1>3. c \in {3, 4, 5, 6}
  BY <1>1, KindOf DEF Count
<1>4. W[k] \in Seq(Char) /\ Len(W[k]) \in Nat
  <2>1. ASSUME NEW T, NEW s \in Seq(T), NEW j \in 1 .. Len(s) PROVE s[j] \in T
    OBVIOUS
  <2>2. \A s \in Seq(Char) : Len(s) \in Nat
    OBVIOUS
  <2>. HIDE DEF W, c
  <2>. QED
    BY <1>2, <2>1, <2>2 DEF c, l
<1>5. /\ wp[k] \in 1 .. Len(text) + 1 /\ At(text, wp[k], W[k])
      /\ wp[k + 1] = wp[k] + Len(W[k]) + 1
      /\ k # c => CharAt(text, wp[k + 1] - 1) = Blank
  BY <1>2 DEF LineWords, WordsAt
<1>6. a = wp[k] + Len(W[k])
  BY DEF After
<1>. HIDE DEF a, W, c
<1>7. wp[k + 1] = a + 1 /\ wp[k + 1] - 1 = a
  BY <1>4, <1>5, <1>6
<1>8. a \in 1 .. Len(text) + 1
  <2>1. ASSUME NEW q \in 1 .. Len(text) + 1, NEW w \in Seq(Char), At(text, q, w)
        PROVE  q + Len(w) \in q .. Len(text) + 1
    BY <1>1, <2>1, AtIs
  <2>2. a \in wp[k] .. Len(text) + 1
    BY <1>4, <1>5, <1>6, <2>1
  <2>. QED
    BY <1>5, <2>2
<1>9. ASSUME k = c PROVE a = LineEnd(start, i)
  <2>1. wp[k + 1] = LineEnd(start, i) + 1
    BY <1>9 DEF LineWords, c, l
  <2>2. LineEnd(start, i) \in 1 .. Len(text) + 1
    BY DEF Laid
  <2>. QED
    BY <1>7, <1>8, <2>1, <2>2
<1>10. ASSUME k = c
       PROVE  \/ CharAt(text, a) = Newline /\ start[i + 1] = a + 1
              \/ /\ CharAt(text, a) = EOF /\ start[i + 1] = a
                 /\ ~(l.kind = "server" /\ l.bare)
  BY <1>9, <1>10 DEF Laid
<1>. QED
  BY <1>4, <1>5, <1>7, <1>8, <1>10 DEF WordIs, W, c, a

\* How words begin.
LEMMA WordBegins ==
  ASSUME NEW q \in 1 .. Len(text) + 1, text \in Seq(Char), NEW w \in Seq(Char), At(text, q, w),
         Len(w) # 0
  PROVE  CharAt(text, q) = w[1] /\ q \in 1 .. Len(text)
<1>1. 1 \in 1 .. Len(w) /\ q + 1 - 1 = q
  OBVIOUS
<1>2. q \in 1 .. Len(text) /\ text[q] = w[1]
  BY <1>1 DEF At
<1>. QED
  BY <1>2 DEF CharAt

\* A word in quotes starts with a quote, a number with a character of numbers.
LEMMA Begins ==
  /\ \A w \in Seq(Char) : Quoted(w) \in Seq(Char) /\ Quoted(w)[1] = Quote /\ Len(Quoted(w)) # 0
  /\ Port \in Seq(NumberChar) /\ Len(Port) # 0 /\ Port[1] \in NumberChar
  /\ Address \in Seq(NumberChar) /\ Len(Address) # 0 /\ Address[1] \in NumberChar
  /\ \A c \in Code : /\ Numeral[c] \in Seq(NumberChar) /\ Len(Numeral[c]) # 0
                     /\ Numeral[c][1] \in NumberChar
<1>1. ASSUME NEW w \in Seq(Char)
      PROVE  Quoted(w) \in Seq(Char) /\ Quoted(w)[1] = Quote /\ Len(Quoted(w)) # 0
  <2>1. /\ <<Quote>> \in Seq(Char) /\ Len(<<Quote>>) = 1 /\ <<Quote>>[1] = Quote
    BY ShortTexts
  <2>. DEFINE B == <<Quote>>
  <2>2. /\ B \o w \in Seq(Char) /\ Len(B \o w) = Len(B) + Len(w)
        /\ \A j \in 1 .. Len(B) : (B \o w)[j] = B[j]
    BY <2>1, ConcatProperties
  <2>3. /\ (B \o w) \o B \in Seq(Char) /\ Len((B \o w) \o B) = Len(B \o w) + Len(B)
        /\ \A j \in 1 .. Len(B \o w) : ((B \o w) \o B)[j] = (B \o w)[j]
    BY <2>1, <2>2, ConcatProperties
  <2>4. Quoted(w) = (B \o w) \o B
    BY DEF Quoted
  <2>5. Len(w) \in Nat
    OBVIOUS
  <2>. HIDE DEF B
  <2>6. 1 \in 1 .. Len(B) /\ 1 \in 1 .. Len(B \o w) /\ Len(B \o w) + Len(B) # 0
    BY <2>1, <2>2, <2>5 DEF B
  <2>. QED
    BY <2>1, <2>2, <2>3, <2>4, <2>6 DEF B
<1>2. Port \in Seq(NumberChar) /\ Len(Port) # 0 /\ Port[1] \in NumberChar
  BY DEF Port, NumberChar, Digit
<1>3. Address \in Seq(NumberChar) /\ Len(Address) # 0 /\ Address[1] \in NumberChar
  BY DEF Address, NumberChar, Digit
<1>4. ASSUME NEW c \in Code
      PROVE  /\ Numeral[c] \in Seq(NumberChar) /\ Len(Numeral[c]) # 0
             /\ Numeral[c][1] \in NumberChar
  <2>1. Numeral[c] \in Seq(Digit) /\ Len(Numeral[c]) \in 1 .. 7
    BY ServerFileAssumption
  <2>2. Numeral[c] \in Seq(NumberChar)
    BY <2>1, Chars, SeqMonotonic
  <2>. DEFINE w == Numeral[c]
  <2>. HIDE DEF w
  <2>3. w \in Seq(NumberChar) /\ Len(w) \in 1 .. 7
    BY <2>1, <2>2 DEF w
  <2>4. Len(w) # 0 /\ w[1] \in NumberChar
    BY <2>3
  <2>. QED
    BY <2>2, <2>4 DEF w
<1>. QED
  BY <1>1, <1>2, <1>3, <1>4

\* The code of a server's line, from wherever a read gets to it.
LEMMA ReadsCode ==
  ASSUME NEW start, Laid(start), NEW i \in 1 .. Len(lines), lines[i].kind \notin OtherKind,
         NEW wp, LineWords(start, i, wp), NEW p \in 1 .. Len(text) + 1,
         NEW endLine \in BOOLEAN, Skip(text, p, endLine) = Skip(text, start[i], endLine)
  PROVE  /\ GetToken(text, p, endLine) = Token("number", Numeral[lines[i].code], wp[2])
         /\ lines[i].code \in Code
<1>. DEFINE l == lines[i]
            w == Numeral[l.code]
            q == start[i]
            e == q + Len(w)
<1>1. l \in Line /\ text \in Seq(Char) /\ l.code \in Code
  BY KindOf DEF Laid
<1>2. 1 # Count(l) /\ 1 \in 1 .. Count(l)
  BY <1>1, KindOf DEF Count
<1>3. WordIs(start, i, wp, 1)
  BY <1>2, LineWord
<1>4. Words(l)[1] = w /\ wp[1] = q
  BY DEF LineWords, WordsAre
<1>5. /\ q \in 1 .. Len(text) + 1 /\ At(text, q, w) /\ w \in Seq(Char)
      /\ e \in 1 .. Len(text) + 1 /\ wp[2] = e + 1 /\ CharAt(text, e) = Blank
  BY <1>2, <1>3, <1>4 DEF WordIs, After
<1>6. w \in Seq(NumberChar) /\ Len(w) # 0 /\ w[1] \in NumberChar /\ w # <<>>
  BY <1>1, Begins
<1>7. CharAt(text, q) \in NumberChar
  BY <1>1, <1>5, <1>6, WordBegins
<1>8. Skip(text, q, endLine) = q
  BY <1>1, <1>5, <1>7, Chars, SkipStays
<1>9. e # Len(text) + 1
  BY <1>1, <1>5, AtEnd, Chars
<1>10. GetToken(text, p, endLine) =
         Token("number", w, IF q + Len(w) = Len(text) + 1 THEN q + Len(w) ELSE q + Len(w) + 1)
  <2>1. Skip(text, p, endLine) = q /\ CharAt(text, q + Len(w)) \notin NumberChar
    BY <1>5, <1>8, Chars
  <2>2. ASSUME NEW a \in 1 .. Len(text) + 1, NEW v \in Seq(NumberChar), v # <<>>,
              Skip(text, p, endLine) = a, At(text, a, v),
              CharAt(text, a + Len(v)) \notin NumberChar
       PROVE  GetToken(text, p, endLine) =
                Token("number", v, IF a + Len(v) = Len(text) + 1 THEN a + Len(v)
                                   ELSE a + Len(v) + 1)
    BY <1>1, <2>2, ReadsNumber
  <2>3. At(text, q, w) /\ w \in Seq(NumberChar) /\ w # <<>> /\ q \in 1 .. Len(text) + 1
    BY <1>5, <1>6
  <2>. HIDE DEF w, q
  <2>. QED
    BY <2>1, <2>2, <2>3, Zenon
<1>. QED
  BY <1>1, <1>5, <1>9, <1>10

\* Its name.
LEMMA ReadsName ==
  ASSUME NEW start, Laid(start), NEW i \in 1 .. Len(lines), lines[i].kind \notin OtherKind,
         NEW wp, LineWords(start, i, wp)
  PROVE  /\ GetToken(text, wp[2], TRUE) = Token("string", Name, wp[3] - 1)
         /\ wp[2] \in 1 .. Len(text) + 1
<1>. DEFINE l == lines[i]
            w == Quoted(Name)
            q == wp[2]
<1>1. l \in Line /\ text \in Seq(Char)
  BY DEF Laid
<1>2. 2 # Count(l) /\ 2 \in 1 .. Count(l)
  BY <1>1, KindOf DEF Count
<1>3. WordIs(start, i, wp, 2)
  BY <1>2, LineWord
<1>4. Words(l)[2] = w
  BY DEF LineWords, WordsAre
<1>5. /\ q \in 1 .. Len(text) + 1 /\ At(text, q, w) /\ w \in Seq(Char)
      /\ wp[3] = (q + Len(w)) + 1
  BY <1>2, <1>3, <1>4 DEF WordIs, After
<1>6. w[1] = Quote /\ Len(w) # 0
  BY ConstTexts, Begins
<1>7. Skip(text, q, TRUE) = q
  <2>1. CharAt(text, q) = Quote
    BY <1>1, <1>5, <1>6, WordBegins
  <2>. QED
    BY <1>1, <1>5, <2>1, Chars, SkipStays
<1>8. \A j \in 1 .. Len(Name) : Name[j] \notin {Quote, Newline}
  BY DEF Name, Slash, Quote, Newline, Blank
<1>9. GetToken(text, q, TRUE) = Token("string", Name, q + Len(w))
  <2>1. ASSUME NEW a \in 1 .. Len(text) + 1, NEW v \in Seq(Char),
              Skip(text, q, TRUE) = a, At(text, a, Quoted(v)),
              \A j \in 1 .. Len(v) : v[j] \notin {Quote, Newline}
       PROVE  GetToken(text, q, TRUE) = Token("string", v, a + Len(Quoted(v)))
    BY <1>1, <1>5, <2>1, ReadsQuoted
  <2>. QED
    BY <1>5, <1>7, <1>8, <2>1, ConstTexts, Zenon
<1>10. wp[3] - 1 = q + Len(w)
  BY <1>5
<1>. QED
  BY <1>5, <1>9, <1>10

\* Its address, which is no string if it is not quoted.
LEMMA ReadsAddress ==
  ASSUME NEW start, Laid(start), NEW i \in 1 .. Len(lines), lines[i].kind \notin OtherKind,
         NEW wp, LineWords(start, i, wp)
  PROVE  /\ lines[i].kind # "unquoted" =>
              GetToken(text, wp[3] - 1, TRUE) = Token("string", Address, wp[4] - 1)
         /\ lines[i].kind = "unquoted" => GetToken(text, wp[3] - 1, TRUE).kind = "number"
         /\ wp[3] - 1 \in 1 .. Len(text) + 1
<1>. DEFINE l == lines[i]
            w == Words(l)[3]
            p == After(i, wp, 2)
            q == wp[3]
            e == After(i, wp, 3)
<1>1. l \in Line /\ text \in Seq(Char)
  BY DEF Laid
<1>2. 2 # Count(l) /\ 2 \in 1 .. Count(l) /\ 3 \in 1 .. Count(l)
      /\ (l.kind = "unquoted" => 3 # Count(l))
  BY <1>1, KindOf DEF Count
<1>3. WordIs(start, i, wp, 2) /\ WordIs(start, i, wp, 3)
  BY <1>2, LineWord
<1>4. w = IF l.kind = "unquoted" THEN Address ELSE Quoted(Address)
  BY DEF LineWords, WordsAre
<1>5. /\ p \in 1 .. Len(text) + 1 /\ q = p + 1 /\ CharAt(text, p) = Blank
      /\ q \in 1 .. Len(text) + 1 /\ At(text, q, w) /\ w \in Seq(Char)
      /\ e \in 1 .. Len(text) + 1 /\ wp[4] = e + 1
      /\ (l.kind = "unquoted" => CharAt(text, e) = Blank)
  BY <1>2, <1>3 DEF WordIs
<1>6. e = q + Len(w)
  BY DEF After
<1>7. Len(w) # 0 /\ (w[1] = Quote \/ w[1] \in NumberChar)
  BY <1>4, ConstTexts, Begins
<1>12. ASSUME NEW b \in 1 .. Len(text) + 1, NEW a \in 1 .. Len(text) + 1, NEW v \in Seq(Char),
              Skip(text, b, TRUE) = a, At(text, a, Quoted(v)),
              \A j \in 1 .. Len(v) : v[j] \notin {Quote, Newline}
       PROVE  GetToken(text, b, TRUE) = Token("string", v, a + Len(Quoted(v)))
  BY <1>1, <1>12, ReadsQuoted
<1>13. ASSUME NEW b \in 1 .. Len(text) + 1, NEW a \in 1 .. Len(text) + 1,
              NEW v \in Seq(NumberChar), v # <<>>,
              Skip(text, b, TRUE) = a, At(text, a, v),
              CharAt(text, a + Len(v)) \notin NumberChar
       PROVE  GetToken(text, b, TRUE) =
                Token("number", v, IF a + Len(v) = Len(text) + 1 THEN a + Len(v)
                                   ELSE a + Len(v) + 1)
  BY <1>1, <1>13, ReadsNumber
<1>. HIDE DEF w, p, q, e
<1>8. Skip(text, p, TRUE) = q
  <2>1. CharAt(text, q) = Quote \/ CharAt(text, q) \in NumberChar
    BY <1>1, <1>5, <1>7, WordBegins
  <2>2. Skip(text, q, TRUE) = q
    BY <1>1, <1>5, <2>1, Chars, SkipStays
  <2>3. Skip(text, p, TRUE) = Skip(text, p + 1, TRUE)
    BY <1>1, <1>5, Chars, SkipSpace
  <2>. QED
    BY <1>5, <2>2, <2>3
<1>9. ASSUME l.kind # "unquoted"
      PROVE  GetToken(text, p, TRUE) = Token("string", Address, wp[4] - 1)
  <2>1. \A j \in 1 .. Len(Address) : Address[j] \notin {Quote, Newline}
    BY DEF Address, Quote, Newline
  <2>2. At(text, q, Quoted(Address))
    BY <1>4, <1>5, <1>9
  <2>3. GetToken(text, p, TRUE) = Token("string", Address, q + Len(Quoted(Address)))
    BY <1>5, <1>8, <1>12, <2>1, <2>2, ConstTexts, Zenon
  <2>4. wp[4] - 1 = q + Len(Quoted(Address))
    BY <1>4, <1>5, <1>6, <1>9
  <2>. QED
    BY <2>3, <2>4
<1>10. ASSUME l.kind = "unquoted" PROVE GetToken(text, p, TRUE).kind = "number"
  <2>1. w = Address /\ w \in Seq(NumberChar) /\ w # <<>>
    BY <1>4, <1>10, Begins
  <2>2. CharAt(text, q + Len(w)) \notin NumberChar
    BY <1>5, <1>6, <1>10, Chars
  <2>3. PICK next : next = IF q + Len(w) = Len(text) + 1 THEN q + Len(w) ELSE q + Len(w) + 1
    OBVIOUS
  <2>4. GetToken(text, p, TRUE) = Token("number", w, next)
    BY <1>5, <1>8, <1>13, <2>1, <2>2, <2>3, Zenon
  <2>5. Token("number", w, next).kind = "number"
    BY DEF Token
  <2>. QED
    BY <2>4, <2>5
<1>11. wp[3] - 1 = p
  BY <1>5 DEF q
<1>. QED
  BY <1>5, <1>9, <1>10, <1>11

\* Behind its port: past the character that ends it, unless the file ends there.
BehindPort(wp) == IF wp[5] - 1 = Len(text) + 1 THEN wp[5] - 1 ELSE wp[5]

\* Its port, if it has one.
LEMMA ReadsPort ==
  ASSUME NEW start, Laid(start), NEW i \in 1 .. Len(lines), lines[i].kind \notin OtherKind,
         lines[i].kind # "unquoted", NEW wp, LineWords(start, i, wp)
  PROVE  /\ lines[i].kind # "noPort" =>
              GetToken(text, wp[4] - 1, TRUE) = Token("number", Port, BehindPort(wp))
         /\ lines[i].kind = "noPort" => GetToken(text, wp[4] - 1, TRUE).kind # "number"
         /\ wp[4] - 1 \in 1 .. Len(text) + 1
<1>. DEFINE l == lines[i]
            p == After(i, wp, 3)
            q == wp[4]
            e == After(i, wp, 4)
<1>1. l \in Line /\ text \in Seq(Char)
  BY DEF Laid
<1>2. /\ 3 \in 1 .. Count(l)
      /\ l.kind = "noPort" => 3 = Count(l)
      /\ l.kind # "noPort" => 3 # Count(l) /\ 4 \in 1 .. Count(l)
  BY <1>1, KindOf DEF Count
<1>3. WordIs(start, i, wp, 3) /\ (l.kind # "noPort" => WordIs(start, i, wp, 4))
  BY <1>2, LineWord
<1>4. /\ p \in 1 .. Len(text) + 1 /\ q = p + 1
      /\ l.kind # "noPort" => CharAt(text, p) = Blank
      /\ l.kind = "noPort" => CharAt(text, p) = Newline \/ CharAt(text, p) = EOF
  BY <1>2, <1>3 DEF WordIs
<1>5. wp[4] - 1 = p
  <2>. HIDE DEF p
  <2>. QED
    BY <1>4
<1>6. ASSUME l.kind = "noPort" PROVE GetToken(text, p, TRUE).kind # "number"
  <2>. HIDE DEF p
  <2>1. CharAt(text, p) = Newline \/ CharAt(text, p) = EOF
    BY <1>4, <1>6
  <2>2. Skip(text, p, TRUE) = p
    BY <1>1, <1>4, <2>1, Chars, SkipStays
  <2>3. GetToken(text, p, TRUE).kind = "endLine" \/ GetToken(text, p, TRUE).kind = "end"
    BY <1>1, <1>4, <2>1, <2>2, ReadsOther
  <2>. QED
    BY <2>3
<1>7. ASSUME l.kind # "noPort"
      PROVE  GetToken(text, p, TRUE) = Token("number", Port, BehindPort(wp))
  <2>1. Words(l)[4] = Port
    BY <1>7 DEF LineWords, WordsAre
  <2>2. /\ q \in 1 .. Len(text) + 1 /\ At(text, q, Port)
        /\ e \in 1 .. Len(text) + 1 /\ wp[5] = e + 1
        /\ CharAt(text, e) \in {Blank, Newline, EOF}
    BY <1>3, <1>7, <2>1 DEF WordIs
  <2>3. e = q + Len(Port)
    BY <2>1 DEF After
  <2>4. Port \in Seq(NumberChar) /\ Port # <<>> /\ Port[1] \in NumberChar /\ Len(Port) # 0
        /\ Port \in Seq(Char)
    BY Begins, ConstTexts
  <2>. HIDE DEF p, q, e
  <2>5. Skip(text, p, TRUE) = q
    <3>1. CharAt(text, q) \in NumberChar
      BY <1>1, <2>2, <2>4, WordBegins
    <3>2. Skip(text, q, TRUE) = q
      BY <1>1, <2>2, <3>1, Chars, SkipStays
    <3>3. CharAt(text, p) \in Space /\ CharAt(text, p) # Newline
      BY <1>4, <1>7, Chars
    <3>4. Skip(text, p, TRUE) = Skip(text, p + 1, TRUE)
      BY <1>1, <1>4, <3>3, SkipSpace
    <3>. QED
      BY <1>4, <3>2, <3>4
  <2>6. CharAt(text, q + Len(Port)) \notin NumberChar
    BY <2>2, <2>3, Chars
  <2>7. GetToken(text, p, TRUE) =
          Token("number", Port, IF q + Len(Port) = Len(text) + 1 THEN q + Len(Port)
                                ELSE q + Len(Port) + 1)
    <3>1. ASSUME NEW a \in 1 .. Len(text) + 1, NEW v \in Seq(NumberChar), v # <<>>,
                Skip(text, p, TRUE) = a, At(text, a, v),
                CharAt(text, a + Len(v)) \notin NumberChar
         PROVE  GetToken(text, p, TRUE) =
                  Token("number", v, IF a + Len(v) = Len(text) + 1 THEN a + Len(v)
                                     ELSE a + Len(v) + 1)
      BY <1>1, <1>4, <3>1, ReadsNumber
    <3>. QED
      BY <2>2, <2>4, <2>5, <2>6, <3>1, Zenon
  <2>8. wp[5] - 1 = e
    BY <2>2
  <2>9. GetToken(text, p, TRUE) = Token("number", Port, IF e = Len(text) + 1 THEN e ELSE e + 1)
    BY <2>3, <2>7, Zenon
  <2>. QED
    BY <2>2, <2>8, <2>9 DEF BehindPort
<1>. QED
  BY <1>4, <1>5, <1>6, <1>7

\* The flag, which ends a complete line but for a comment.
LEMMA ReadsFlag ==
  ASSUME NEW start, Laid(start), NEW i \in 1 .. Len(lines), lines[i] \in CompleteLine,
         NEW wp, LineWords(start, i, wp)
  PROVE  /\ GetToken(text, BehindPort(wp), TRUE) = Token("string", Flag(lines[i]), wp[6] - 1)
         /\ BehindPort(wp) \in 1 .. Len(text) + 1
<1>. DEFINE l == lines[i]
            f == Flag(l)
            q == wp[5]
            e == After(i, wp, 5)
<1>1. /\ l \in Line /\ text \in Seq(Char) /\ l.kind \notin OtherKind
      /\ l.kind \in {"server", "commented"}
  BY KindOf DEF Laid, OtherKind
<1>2. /\ 4 \in 1 .. Count(l) /\ 4 # Count(l) /\ 5 \in 1 .. Count(l)
      /\ 5 = Count(l) => l.kind = "server"
  BY <1>1 DEF Count
<1>3. WordIs(start, i, wp, 4) /\ WordIs(start, i, wp, 5)
  BY <1>1, <1>2, LineWord
<1>4. Words(l)[5] = IF l.bare THEN f ELSE Quoted(f)
  BY DEF LineWords, WordsAre
<1>5. BehindPort(wp) = q /\ q \in 1 .. Len(text) + 1
  <2>1. /\ After(i, wp, 4) \in 1 .. Len(text) + 1 /\ q = After(i, wp, 4) + 1
        /\ CharAt(text, After(i, wp, 4)) = Blank
    BY <1>2, <1>3 DEF WordIs
  <2>2. After(i, wp, 4) # Len(text) + 1
    BY <1>1, <2>1, AtEnd, Chars
  <2>. DEFINE d == After(i, wp, 4)
  <2>3. d \in 1 .. Len(text) + 1 /\ d # Len(text) + 1 /\ q = d + 1 /\ Len(text) \in Nat
    BY <1>1, <2>1, <2>2
  <2>. HIDE DEF d
  <2>. QED
    BY <2>3 DEF BehindPort
<1>6. /\ At(text, q, Words(l)[5]) /\ e \in 1 .. Len(text) + 1 /\ wp[6] - 1 = e
      /\ CharAt(text, e) \in {Blank, Newline, EOF}
      /\ CharAt(text, e) = EOF => ~(l.kind = "server" /\ l.bare)
  <2>1. /\ At(text, q, Words(l)[5]) /\ e \in 1 .. Len(text) + 1 /\ wp[6] = e + 1
    BY <1>3 DEF WordIs
  <2>2. 5 # Count(l) => CharAt(text, e) = Blank
    BY <1>3 DEF WordIs
  <2>3. 5 = Count(l) =>
          \/ CharAt(text, e) = Newline
          \/ CharAt(text, e) = EOF /\ ~(l.kind = "server" /\ l.bare)
    BY <1>3 DEF WordIs
  <2>. HIDE DEF e
  <2>. QED
    BY <2>1, <2>2, <2>3, Chars
<1>7. e = q + Len(Words(l)[5])
  BY DEF After
<1>8. CharAt(text, e) = EOF => ~l.bare
  <2>1. CharAt(text, e) = EOF => 5 = Count(l)
    BY <1>3, Chars DEF WordIs
  <2>. QED
    BY <1>2, <1>6, <2>1
<1>. HIDE DEF e
<1>9. f \in Seq(Char) /\ (f = <<"a">> \/ f = <<"SHOW">>)
  BY ConstTexts DEF Flag
<1>10. CASE ~l.bare
  <2>1. Words(l)[5] = Quoted(f) /\ At(text, q, Quoted(f))
    BY <1>4, <1>6, <1>10
  <2>2. Skip(text, q, TRUE) = q
    <3>1. CharAt(text, q) = Quote
      BY <1>1, <1>5, <1>9, <2>1, Begins, WordBegins
    <3>. QED
      BY <1>1, <1>5, <3>1, Chars, SkipStays
  <2>3. ASSUME NEW a \in 1 .. Len(text) + 1, NEW v \in Seq(Char),
               Skip(text, a, TRUE) = a, At(text, a, Quoted(v)),
               \A j \in 1 .. Len(v) : v[j] \notin {Quote, Newline}
        PROVE  GetToken(text, a, TRUE) = Token("string", v, a + Len(Quoted(v)))
    BY <1>1, <2>3, ReadsQuoted
  <2>4. \A j \in 1 .. Len(f) : f[j] \notin {Quote, Newline}
    <3>1. \A v \in {<<"a">>, <<"SHOW">>} : \A j \in 1 .. Len(v) : v[j] \notin {Quote, Newline}
      BY DEF Quote, Newline
    <3>. QED
      BY <1>9, <3>1
  <2>5. GetToken(text, q, TRUE) = Token("string", f, q + Len(Quoted(f)))
    <3>. HIDE DEF f, q
    <3>. QED
      BY <1>5, <1>9, <2>1, <2>2, <2>3, <2>4, Zenon
  <2>. QED
    BY <1>5, <1>6, <1>7, <2>1, <2>5
<1>11. CASE l.bare
  <2>1. PICK c \in {"a", "SHOW"} : f = <<c>>
    BY <1>9
  <2>2. /\ Words(l)[5] = <<c>> /\ At(text, q, <<c>>) /\ c \in Letter /\ c # "end"
        /\ c \in Char /\ <<c>> \in Seq(Char) /\ Len(<<c>>) = 1 /\ <<c>>[1] = c
    <3>1. Words(l)[5] = <<c>> /\ At(text, q, <<c>>)
      BY <1>4, <1>6, <1>11, <2>1
    <3>2. c \in Letter /\ c \in Char /\ c # "end"
      BY Chars
    <3>. QED
      BY <3>1, <3>2
  <2>3. Skip(text, q, TRUE) = q
    <3>1. CharAt(text, q) = c
      <4>1. ASSUME NEW v \in Seq(Char), At(text, q, v), Len(v) # 0 PROVE CharAt(text, q) = v[1]
        BY <1>1, <1>5, <4>1, WordBegins
      <4>2. <<c>> \in Seq(Char) /\ At(text, q, <<c>>) /\ Len(<<c>>) # 0 /\ <<c>>[1] = c
        BY <2>2
      <4>. DEFINE w == <<c>>
      <4>. HIDE DEF w, q
      <4>3. w \in Seq(Char) /\ At(text, q, w) /\ Len(w) # 0 /\ w[1] = c
        BY <4>2 DEF w
      <4>. QED
        BY <4>1, <4>3
    <3>2. c # Slash /\ c \notin Space
      BY <2>2, Chars
    <3>. QED
      BY <1>1, <1>5, <3>1, <3>2, SkipStays
  <2>4. e = q + 1
    BY <1>7, <2>2
  <2>5. CharAt(text, q + 1) \notin WordChar /\ CharAt(text, q + 1) # EOF
    BY <1>6, <1>8, <1>11, <2>4, Chars
  <2>6. ASSUME NEW a \in 1 .. Len(text) + 1, NEW ch \in Letter, ch # "end",
               Skip(text, a, TRUE) = a, At(text, a, <<ch>>),
               CharAt(text, a + 1) \notin WordChar, CharAt(text, a + 1) # EOF
        PROVE  GetToken(text, a, TRUE) = Token("string", <<ch>>, a + Len(<<ch>>))
    BY <1>1, <2>6, ReadsWord
  <2>7. GetToken(text, q, TRUE) = Token("string", <<c>>, q + Len(<<c>>))
    <3>. HIDE DEF q
    <3>. QED
      BY <1>5, <2>2, <2>3, <2>5, <2>6, Zenon
  <2>8. q + Len(<<c>>) = e
    BY <2>2, <2>4
  <2>9. GetToken(text, q, TRUE) = Token("string", <<c>>, e)
    BY <2>7, <2>8, Zenon
  <2>. QED
    BY <1>5, <1>6, <2>1, <2>9
<1>. QED
  BY <1>5, <1>10, <1>11

\* The end of a line is passed over where a code is looked for.
LEMMA SkipEnd ==
  ASSUME NEW start, Laid(start), NEW i \in 1 .. Len(lines), NEW e \in 1 .. Len(text) + 1,
         \/ CharAt(text, e) = Newline /\ start[i + 1] = e + 1
         \/ CharAt(text, e) = EOF /\ start[i + 1] = e
  PROVE  Skip(text, e, FALSE) = Skip(text, start[i + 1], FALSE)
<1>1. text \in Seq(Char)
  BY DEF Laid
<1>2. CASE CharAt(text, e) = Newline /\ start[i + 1] = e + 1
  <2>1. CharAt(text, e) \in Space
    BY <1>2, Chars
  <2>2. Skip(text, e, FALSE) = Skip(text, e + 1, FALSE)
    BY <1>1, <2>1, SkipSpace
  <2>. QED
    BY <1>2, <2>2
<1>. QED
  BY <1>2

\* What follows the flag is passed over, too.
LEMMA SkipRest ==
  ASSUME NEW start, Laid(start), NEW i \in 1 .. Len(lines), lines[i] \in CompleteLine,
         NEW wp, LineWords(start, i, wp)
  PROVE  /\ Skip(text, wp[6] - 1, FALSE) = Skip(text, start[i + 1], FALSE)
         /\ wp[6] - 1 \in 1 .. Len(text) + 1
<1>. DEFINE l == lines[i]
            p == After(i, wp, 5)
            e == After(i, wp, 6)
<1>1. /\ l \in Line /\ text \in Seq(Char) /\ l.kind \notin OtherKind
      /\ l.kind \in {"server", "commented"}
  BY KindOf DEF Laid, OtherKind
<1>2. /\ 5 \in 1 .. Count(l) /\ (l.kind = "server" => 5 = Count(l))
      /\ l.kind = "commented" => 5 # Count(l) /\ 6 \in 1 .. Count(l) /\ 6 = Count(l)
  BY <1>1 DEF Count
<1>3. WordIs(start, i, wp, 5) /\ (l.kind = "commented" => WordIs(start, i, wp, 6))
  BY <1>1, <1>2, LineWord
<1>4. p \in 1 .. Len(text) + 1 /\ wp[6] = p + 1
  BY <1>3 DEF WordIs
<1>5. wp[6] - 1 = p
  <2>. HIDE DEF p
  <2>. QED
    BY <1>4
<1>6. CASE l.kind = "server"
  <2>1. \/ CharAt(text, p) = Newline /\ start[i + 1] = p + 1
        \/ CharAt(text, p) = EOF /\ start[i + 1] = p
    BY <1>2, <1>3, <1>6 DEF WordIs
  <2>2. ASSUME NEW a \in 1 .. Len(text) + 1,
               \/ CharAt(text, a) = Newline /\ start[i + 1] = a + 1
               \/ CharAt(text, a) = EOF /\ start[i + 1] = a
        PROVE  Skip(text, a, FALSE) = Skip(text, start[i + 1], FALSE)
    BY <2>2, SkipEnd
  <2>. HIDE DEF p
  <2>. QED
    BY <1>4, <1>5, <2>1, <2>2
<1>7. CASE l.kind = "commented"
  <2>. DEFINE q == wp[6]
  <2>1. Words(l)[6] = Comment /\ Len(Comment) = 5
    BY <1>7 DEF LineWords, WordsAre, Comment
  <2>2. /\ CharAt(text, p) = Blank /\ q \in 1 .. Len(text) + 1 /\ At(text, q, Comment)
        /\ e \in 1 .. Len(text) + 1
        /\ \/ CharAt(text, e) = Newline /\ start[i + 1] = e + 1
           \/ CharAt(text, e) = EOF /\ start[i + 1] = e
    BY <1>2, <1>3, <1>7, <2>1 DEF WordIs
  <2>3. e = q + 5
    BY <2>1 DEF After
  <2>4. ASSUME NEW a \in 1 .. Len(text) + 1,
               \/ CharAt(text, a) = Newline /\ start[i + 1] = a + 1
               \/ CharAt(text, a) = EOF /\ start[i + 1] = a
        PROVE  Skip(text, a, FALSE) = Skip(text, start[i + 1], FALSE)
    BY <2>4, SkipEnd
  <2>5. ASSUME NEW a \in 1 .. Len(text) + 1, At(text, a, Comment),
               CharAt(text, a + 5) \in {Newline, EOF}
        PROVE  Skip(text, a, FALSE) = Skip(text, a + 5, FALSE)
    BY <1>1, <2>5, SkipComment
  <2>6. ASSUME NEW a \in 1 .. Len(text) + 1, CharAt(text, a) = Blank
        PROVE  Skip(text, a, FALSE) = Skip(text, a + 1, FALSE)
    BY <1>1, <2>6, Chars, SkipSpace
  <2>. HIDE DEF p, q, e
  <2>7. Skip(text, e, FALSE) = Skip(text, start[i + 1], FALSE)
    BY <2>2, <2>4
  <2>8. Skip(text, q, FALSE) = Skip(text, e, FALSE)
    BY <2>2, <2>3, <2>5
  <2>9. Skip(text, p, FALSE) = Skip(text, q, FALSE)
    BY <1>4, <2>2, <2>6 DEF q
  <2>. QED
    BY <1>4, <1>5, <2>7, <2>8, <2>9
<1>. QED
  BY <1>1, <1>4, <1>5, <1>6, <1>7

\* Blank lines and comments are passed over.
LEMMA SkipQuiet ==
  ASSUME NEW start, Laid(start), NEW i \in 1 .. Len(lines),
         lines[i].kind \in {"blank", "comment"}
  PROVE  Skip(text, start[i], FALSE) = Skip(text, start[i + 1], FALSE)
<1>. DEFINE e == LineEnd(start, i)
            q == start[i]
<1>1. /\ lines[i] \in Line /\ text \in Seq(Char)
      /\ q \in 1 .. Len(text) + 1 /\ At(text, q, LineText(lines[i]))
      /\ e \in 1 .. Len(text) + 1
      /\ \/ CharAt(text, e) = Newline /\ start[i + 1] = e + 1
         \/ CharAt(text, e) = EOF /\ start[i + 1] = e
  BY DEF Laid
<1>2. e = q + Len(LineText(lines[i]))
  BY DEF LineEnd
<1>3. ASSUME NEW a \in 1 .. Len(text) + 1,
             \/ CharAt(text, a) = Newline /\ start[i + 1] = a + 1
             \/ CharAt(text, a) = EOF /\ start[i + 1] = a
      PROVE  Skip(text, a, FALSE) = Skip(text, start[i + 1], FALSE)
  BY <1>3, SkipEnd
<1>4. ASSUME NEW a \in 1 .. Len(text) + 1, At(text, a, Comment),
             CharAt(text, a + 5) \in {Newline, EOF}
      PROVE  Skip(text, a, FALSE) = Skip(text, a + 5, FALSE)
  BY <1>1, <1>4, SkipComment
<1>. HIDE DEF e, q
<1>5. Skip(text, e, FALSE) = Skip(text, start[i + 1], FALSE)
  BY <1>1, <1>3
<1>6. CASE lines[i].kind = "blank"
  <2>1. LineText(lines[i]) = <<>> /\ Len(<<>>) = 0
    BY <1>6 DEF LineText
  <2>2. e = q
    BY <1>1, <1>2, <2>1
  <2>. QED
    BY <1>5, <2>2 DEF q
<1>7. CASE lines[i].kind = "comment"
  <2>1. LineText(lines[i]) = Comment
    BY <1>7 DEF LineText
  <2>2. Len(Comment) = 5
    BY DEF Comment
  <2>3. e = q + 5
    BY <1>2, <2>1, <2>2
  <2>4. Skip(text, q, FALSE) = Skip(text, e, FALSE)
    BY <1>1, <1>4, <2>1, <2>3
  <2>. QED
    BY <1>5, <2>4 DEF q
<1>. QED
  BY <1>6, <1>7

\* What a read finds at a line that is no server's, and at the end of the file.
LEMMA ReadsLine ==
  ASSUME NEW start, Laid(start), NEW i \in 1 .. Len(lines) + 1, NEW p \in 1 .. Len(text) + 1,
         NEW endLine \in BOOLEAN, Skip(text, p, endLine) = Skip(text, start[i], endLine)
  PROVE  /\ i = Len(lines) + 1 => GetToken(text, p, endLine).kind = "end"
         /\ i # Len(lines) + 1 /\ lines[i].kind = "end" =>
              GetToken(text, p, endLine).kind = "endSection"
         /\ i # Len(lines) + 1 /\ lines[i].kind = "hash" =>
              GetToken(text, p, endLine).kind = "error"
         /\ i # Len(lines) + 1 /\ lines[i].kind \in {"blank", "comment"} /\ endLine =>
              GetToken(text, p, endLine).kind \in {"endLine", "end"}
<1>. DEFINE q == start[i]
            e == LineEnd(start, i)
            K == GetToken(text, p, endLine).kind
<1>1. /\ text \in Seq(Char) /\ q \in 1 .. Len(text) + 1
      /\ Skip(text, p, endLine) = Skip(text, q, endLine)
  BY DEF Laid
<1>2. ASSUME NEW a \in 1 .. Len(text) + 1, Skip(text, p, endLine) = a
      PROVE  /\ CharAt(text, a) = EOF => K = "end"
             /\ CharAt(text, a) = Newline => K = "endLine"
             /\ CharAt(text, a) = "#" => K = "error"
  BY <1>1, <1>2, ReadsOther
<1>3. ASSUME NEW a \in 1 .. Len(text) + 1,
             \/ CharAt(text, a) \notin Space /\ CharAt(text, a) # Slash
             \/ endLine /\ CharAt(text, a) = Newline
      PROVE  Skip(text, a, endLine) = a
  BY <1>1, <1>3, SkipStays
<1>4. CASE i = Len(lines) + 1
  <2>1. q = Len(text) + 1
    BY <1>4 DEF Laid
  <2>2. CharAt(text, q) = EOF
    BY <1>1, <2>1, AtEnd
  <2>3. CharAt(text, q) \notin Space /\ CharAt(text, q) # Slash
    BY <2>2, Chars
  <2>. HIDE DEF q, K
  <2>4. Skip(text, p, endLine) = q
    BY <1>1, <1>3, <2>3
  <2>5. K = "end"
    BY <1>1, <1>2, <2>2, <2>4
  <2>. QED
    BY <1>4, <2>5 DEF K
<1>5. CASE i # Len(lines) + 1
  <2>. DEFINE l == lines[i]
              t == LineText(l)
  <2>1. /\ At(text, q, t) /\ e \in 1 .. Len(text) + 1 /\ CharAt(text, e) \in {Newline, EOF}
        /\ e = q + Len(t)
    <3>1. i \in 1 .. Len(lines)
      BY <1>5 DEF Laid
    <3>. QED
      BY <3>1 DEF Laid, LineEnd
  <2>2. ASSUME NEW w \in Seq(Char), At(text, q, w), Len(w) # 0 PROVE CharAt(text, q) = w[1]
    BY <1>1, <2>2, WordBegins
  <2>3. CASE l.kind = "end"
    <3>1. t = <<"end">> /\ Len(<<"end">>) = 1 /\ <<"end">>[1] = "end" /\ <<"end">> \in Seq(Char)
      BY <2>3, ConstTexts DEF LineText
    <3>2. CharAt(text, q) = "end" /\ At(text, q, <<"end">>) /\ e = q + 1
      <4>1. /\ At(text, q, t) /\ t \in Seq(Char) /\ Len(t) # 0 /\ t[1] = "end"
            /\ At(text, q, <<"end">>)
        BY <2>1, <3>1
      <4>2. e = q + Len(t) /\ Len(t) = 1
        BY <2>1, <3>1
      <4>. HIDE DEF t, q, e
      <4>. QED
        BY <2>2, <4>1, <4>2
    <3>3. CharAt(text, q) \notin Space /\ CharAt(text, q) # Slash /\ "end" \in Letter
      BY <3>2, Chars
    <3>4. CharAt(text, q + 1) \notin WordChar
      BY <2>1, <3>2, Chars
    <3>5. ASSUME NEW a \in 1 .. Len(text) + 1, Skip(text, p, endLine) = a,
                 At(text, a, <<"end">>), CharAt(text, a + 1) \notin WordChar
          PROVE  K = "endSection"
      BY <1>1, <3>3, <3>5, ReadsWord
    <3>. HIDE DEF q, K
    <3>6. Skip(text, p, endLine) = q
      BY <1>1, <1>3, <3>3
    <3>7. K = "endSection"
      BY <1>1, <3>2, <3>4, <3>5, <3>6
    <3>. QED
      BY <1>5, <2>3, <3>7 DEF K
  <2>4. CASE l.kind = "hash"
    <3>1. t = <<"#", "a", Blank, "1">> /\ t \in Seq(Char) /\ Len(t) # 0 /\ t[1] = "#"
      BY <2>4, ConstTexts DEF LineText
    <3>2. CharAt(text, q) = "#"
      <4>1. At(text, q, t) /\ t \in Seq(Char) /\ Len(t) # 0 /\ t[1] = "#"
        BY <2>1, <3>1
      <4>. HIDE DEF t, q
      <4>. QED
        BY <2>2, <4>1
    <3>3. CharAt(text, q) \notin Space /\ CharAt(text, q) # Slash
      BY <3>2, Chars
    <3>. HIDE DEF q, K
    <3>4. Skip(text, p, endLine) = q
      BY <1>1, <1>3, <3>3
    <3>5. K = "error"
      BY <1>1, <1>2, <3>2, <3>4
    <3>. QED
      BY <1>5, <2>4, <3>5 DEF K
  <2>5. ASSUME endLine, l.kind \in {"blank", "comment"} PROVE K \in {"endLine", "end"}
    <3>1. Skip(text, q, endLine) = Skip(text, e, endLine)
      <4>1. CASE l.kind = "blank"
        <5>1. t = <<>> /\ Len(<<>>) = 0
          BY <4>1 DEF LineText
        <5>2. e = q
          BY <1>1, <2>1, <5>1
        <5>. QED
          BY <5>2
      <4>2. CASE l.kind = "comment"
        <5>1. t = Comment /\ Len(Comment) = 5
          BY <4>2 DEF LineText, Comment
        <5>2. At(text, q, Comment) /\ e = q + 5 /\ CharAt(text, q + 5) \in {Newline, EOF}
          BY <2>1, <5>1
        <5>3. ASSUME NEW a \in 1 .. Len(text) + 1, At(text, a, Comment),
                     CharAt(text, a + 5) \in {Newline, EOF}
              PROVE  Skip(text, a, endLine) = Skip(text, a + 5, endLine)
          BY <1>1, <5>3, SkipComment
        <5>. HIDE DEF q, e
        <5>. QED
          BY <1>1, <5>2, <5>3
      <4>. QED
        BY <2>5, <4>1, <4>2
    <3>2. \/ CharAt(text, e) \notin Space /\ CharAt(text, e) # Slash
          \/ endLine /\ CharAt(text, e) = Newline
      BY <2>1, <2>5, Chars
    <3>. HIDE DEF q, e, K
    <3>3. Skip(text, p, endLine) = e
      BY <1>1, <1>3, <2>1, <3>1, <3>2
    <3>. QED
      BY <1>2, <2>1, <3>3
  <2>. QED
    BY <1>5, <2>3, <2>4, <2>5
<1>. QED
  BY <1>4, <1>5

\* The port the lines name is 10.
LEMMA PortIs10 == NumberOf(Port) = 10
<1>. DEFINE L == Leading(Port)
<1>0. Port \in Seq(Digit) /\ Len(Port) = 2 /\ Port[1] = "1" /\ Port[2] = "0"
  BY DEF Port, Digit
<1>1. L = Port
  <2>. DEFINE w == Port
  <2>1. w \in Seq(Digit) /\ Len(w) = 2
    BY <1>0
  <2>. HIDE DEF w
  <2>2. \A j \in 1 .. 2 : w[j] \in Digit
    BY <2>1
  <2>3. FirstNotIn(w, 1, Digit) = 3
    <3>1. ASSUME NEW e \in 1 .. Len(w) + 1, e = Len(w) + 1, \A j \in 1 .. e - 1 : w[j] \in Digit
          PROVE  FirstNotIn(w, 1, Digit) = e
      <4>1. 1 \in 1 .. Len(w) + 1
        BY <2>1
      <4>. QED
        BY <2>1, <3>1, <4>1, FirstIs
    <3>2. 3 \in 1 .. Len(w) + 1 /\ 3 = Len(w) + 1 /\ \A j \in 1 .. 3 - 1 : w[j] \in Digit
      BY <2>1, <2>2
    <3>. QED
      BY <3>1, <3>2
  <2>4. SubSeq(w, 1, 2) = w
    BY <2>1
  <2>. QED
    BY <2>3, <2>4 DEF Leading, w
<1>2. PICK v : /\ NumberOf(Port) = v[Len(L)] % 65536
               /\ v[0] = 0
               /\ \A k \in 1 .. Len(L) : v[k] = 10 * v[k - 1] + Value(L[k])
  BY <1>0, NumberByDigits
<1>3. Value("1") = 1 /\ Value("0") = 0
  <2>. DEFINE places == <<"0", "1", "2", "3", "4", "5", "6", "7", "8", "9">>
  <2>1. (CHOOSE i \in 1 .. 10 : "1" = places[i]) = 2
    <3>1. places[2] = "1" /\ \A i \in 1 .. 10 : "1" = places[i] => i = 2
      OBVIOUS
    <3>. HIDE DEF places
    <3>. QED
      BY <3>1
  <2>2. (CHOOSE i \in 1 .. 10 : "0" = places[i]) = 1
    <3>1. places[1] = "0" /\ \A i \in 1 .. 10 : "0" = places[i] => i = 1
      OBVIOUS
    <3>. HIDE DEF places
    <3>. QED
      BY <3>1
  <2>. QED
    BY <2>1, <2>2 DEF Value
<1>. HIDE DEF L
<1>4. v[1] = 10 * v[0] + Value("1") /\ v[2] = 10 * v[1] + Value("0")
  <2>1. Len(L) = 2 /\ L[1] = "1" /\ L[2] = "0"
    BY <1>0, <1>1
  <2>2. 1 \in 1 .. 2 /\ 2 \in 1 .. 2 /\ 1 - 1 = 0 /\ 2 - 1 = 1
    OBVIOUS
  <2>3. v[1] = 10 * v[1 - 1] + Value(L[1]) /\ v[2] = 10 * v[2 - 1] + Value(L[2])
    BY <1>2, <2>1, <2>2
  <2>. QED
    BY <2>1, <2>2, <2>3
<1>5. v[1] = 1
  BY <1>2, <1>3, <1>4
<1>6. v[2] = 10
  BY <1>3, <1>4, <1>5
<1>7. NumberOf(Port) = v[2] % 65536
  BY <1>0, <1>1, <1>2
<1>. QED
  BY <1>6, <1>7

\* No flag is read on a line that has none, nor on the line behind it.
LEMMA ReadsNoFlag ==
  ASSUME NEW start, Laid(start), NEW i \in 1 .. Len(lines), lines[i].kind = "noFlag",
         NEW wp, LineWords(start, i, wp)
  PROVE  /\ GetToken(text, BehindPort(wp), TRUE).kind # "string"
         /\ BehindPort(wp) \in 1 .. Len(text) + 1
<1>. DEFINE b == BehindPort(wp)
            K == GetToken(text, b, TRUE).kind
            e == After(i, wp, 4)
<1>1. text \in Seq(Char) /\ Len(text) \in Nat /\ lines \in Seq(Line) /\ Len(lines) \in Nat
  BY DEF Laid
<1>2. b = start[i + 1]
  <2>1. lines[i].kind \notin OtherKind /\ Count(lines[i]) = 4 /\ 4 \in 1 .. 4
    BY DEF OtherKind, Count
  <2>2. WordIs(start, i, wp, 4)
    BY <2>1, LineWord
  <2>3. /\ e \in 1 .. Len(text) + 1 /\ wp[5] = e + 1
        /\ \/ CharAt(text, e) = Newline /\ start[i + 1] = e + 1
           \/ CharAt(text, e) = EOF /\ start[i + 1] = e
    BY <2>1, <2>2 DEF WordIs
  <2>. HIDE DEF e
  <2>4. e = Len(text) + 1 <=> CharAt(text, e) = EOF
    BY <1>1, <2>3, AtEnd
  <2>5. Newline # EOF
    BY Chars
  <2>6. wp[5] - 1 = e
    BY <2>3
  <2>. QED
    BY <2>3, <2>4, <2>5, <2>6 DEF BehindPort
<1>3. i + 1 \in 1 .. Len(lines) + 1 /\ b \in 1 .. Len(text) + 1
  <2>1. i + 1 \in 1 .. Len(lines) + 1
    BY <1>1
  <2>. HIDE DEF b
  <2>. QED
    BY <1>2, <2>1 DEF Laid
<1>4. ASSUME NEW j \in 1 .. Len(lines) + 1, NEW p \in 1 .. Len(text) + 1,
             Skip(text, p, TRUE) = Skip(text, start[j], TRUE)
      PROVE  GetToken(text, p, TRUE).kind # "string"
  <2>1. /\ j = Len(lines) + 1 => GetToken(text, p, TRUE).kind = "end"
        /\ j # Len(lines) + 1 /\ lines[j].kind = "end" =>
             GetToken(text, p, TRUE).kind = "endSection"
        /\ j # Len(lines) + 1 /\ lines[j].kind = "hash" => GetToken(text, p, TRUE).kind = "error"
        /\ j # Len(lines) + 1 /\ lines[j].kind \in {"blank", "comment"} =>
             GetToken(text, p, TRUE).kind \in {"endLine", "end"}
    BY <1>4, ReadsLine
  <2>2. CASE j = Len(lines) + 1 \/ lines[j].kind \in OtherKind
    BY <2>1, <2>2 DEF OtherKind
  <2>3. CASE j # Len(lines) + 1 /\ lines[j].kind \notin OtherKind
    <3>1. j \in 1 .. Len(lines)
      BY <1>1, <2>3
    <3>2. PICK v : LineWords(start, j, v)
      BY <2>3, <3>1, ServerLineWords
    <3>3. ASSUME NEW endLine \in BOOLEAN,
                 Skip(text, p, endLine) = Skip(text, start[j], endLine)
          PROVE  GetToken(text, p, endLine) = Token("number", Numeral[lines[j].code], v[2])
      BY <2>3, <3>1, <3>2, <3>3, ReadsCode
    <3>4. GetToken(text, p, TRUE) = Token("number", Numeral[lines[j].code], v[2])
      BY <1>4, <3>3
    <3>5. \A value, next : Token("number", value, next).kind = "number"
      BY DEF Token
    <3>6. GetToken(text, p, TRUE).kind = "number"
      BY <3>4, <3>5
    <3>. QED
      BY <3>6
  <2>. QED
    BY <2>2, <2>3
<1>. HIDE DEF b
<1>5. GetToken(text, b, TRUE).kind # "string"
  BY <1>2, <1>3, <1>4
<1>. QED
  BY <1>3, <1>5 DEF b

----------------------------------------------------------------------------
(* Load reads the lines one after the other.                               *)

\* Blank lines and comments are passed over.
QuietKind == {"blank", "comment"}

\* From any line on, the next that is not passed over is found.
LEMMA NextLine ==
  ASSUME NEW start, Laid(start), NEW m \in 0 .. Len(lines)
  PROVE  \E k \in m .. Len(lines) :
           /\ k = Len(lines) \/ lines[k + 1].kind \notin QuietKind
           /\ \A j \in m + 1 .. k : lines[j].kind \in QuietKind
           /\ Skip(text, start[m + 1], FALSE) = Skip(text, start[k + 1], FALSE)
<1>. DEFINE n == Len(lines)
            S == {k \in m .. n : k = n \/ lines[k + 1].kind \notin QuietKind}
            k == Min(S)
<1>1. n \in Nat /\ m \in Nat /\ n \in S
  BY DEF Laid
<1>2. k \in S /\ \A y \in S : k <= y
  <2>1. S \subseteq Nat /\ S # {}
    BY <1>1
  <2>. HIDE DEF S
  <2>. QED
    BY <2>1, LeastElement
<1>. HIDE DEF k
<1>3. k \in m .. n /\ (k = n \/ lines[k + 1].kind \notin QuietKind)
  BY <1>2
<1>4. ASSUME NEW j \in m + 1 .. k PROVE lines[j].kind \in QuietKind /\ j \in 1 .. n
  <2>1. j - 1 \in m .. n /\ j - 1 # n /\ (j - 1) + 1 = j /\ ~(k <= j - 1) /\ j \in 1 .. n
    BY <1>1, <1>3
  <2>2. j - 1 \notin S
    BY <1>2, <2>1
  <2>. QED
    BY <2>1, <2>2
<1>. DEFINE from == Skip(text, start[m + 1], FALSE)
            P == {d \in 0 .. k - m : Skip(text, start[m + d + 1], FALSE) = from}
<1>5. k - m \in Nat
  BY <1>1, <1>3
<1>6. 0 \in P
  <2>1. 0 \in 0 .. k - m /\ m + 0 + 1 = m + 1
    BY <1>1, <1>5
  <2>. QED
    BY <2>1
<1>7. ASSUME NEW d \in 0 .. k - m, d \in P, d < k - m PROVE d + 1 \in P
  <2>1. m + d + 1 \in m + 1 .. k /\ m + (d + 1) + 1 = (m + d + 1) + 1 /\ d + 1 \in 0 .. k - m
    BY <1>1, <1>3, <1>7
  <2>2. m + d + 1 \in 1 .. Len(lines) /\ lines[m + d + 1].kind \in QuietKind
    BY <1>4, <2>1
  <2>3. Skip(text, start[m + d + 1], FALSE) = Skip(text, start[(m + d + 1) + 1], FALSE)
    BY <2>2, SkipQuiet DEF QuietKind
  <2>. QED
    BY <1>7, <2>1, <2>3
<1>8. k - m \in P
  <2>1. \A d \in 0 .. k - m : d \in P
    <3>. HIDE DEF P
    <3>. QED
      BY <1>5, <1>6, <1>7, UpTo
  <2>2. k - m \in 0 .. k - m
    BY <1>5
  <2>. HIDE DEF P
  <2>. QED
    BY <2>1, <2>2
<1>9. m + (k - m) + 1 = k + 1
  BY <1>1, <1>3
<1>10. from = Skip(text, start[k + 1], FALSE)
  BY <1>8, <1>9
<1>. QED
  BY <1>3, <1>4, <1>10

\* The complete lines among the first m, and the servers they list.
CompleteTo(m) == {i \in 1 .. m : lines[i] \in CompleteLine}

ListOf(S) ==
  [c \in {lines[i].code : i \in S} |-> Entry(lines[Min({i \in S : lines[i].code = c})])]

\* None of them ends the list.
WholeTo(m) == \A j \in 1 .. m : lines[j] \in CompleteLine \/ lines[j].kind \in QuietKind

\* Another complete line adds its server, unless an earlier one has its code.
LEMMA NextServer ==
  ASSUME NEW m \in Nat, lines[m + 1] \in CompleteLine
  PROVE  LET old == ListOf(CompleteTo(m))
             l == lines[m + 1]
         IN  ListOf(CompleteTo(m + 1)) =
               [c \in DOMAIN old \cup {l.code} |->
                  IF c \in DOMAIN old THEN old[c] ELSE Entry(l)]
<1>. DEFINE A == CompleteTo(m)
            B == CompleteTo(m + 1)
            code(i) == lines[i].code
            same(S, c) == {i \in S : lines[i].code = c}
            old == ListOf(A)
            l == lines[m + 1]
<1>1. B = A \cup {m + 1} /\ A \subseteq 1 .. m
  BY DEF CompleteTo
<1>2. DOMAIN old = {lines[i].code : i \in A}
  BY DEF ListOf
<1>. HIDE DEF A, B
<1>3. {lines[i].code : i \in B} = DOMAIN old \cup {l.code}
  BY <1>1, <1>2
<1>4. ASSUME NEW c \in DOMAIN old
      PROVE  Entry(lines[Min(same(B, c))]) = old[c]
  <2>. DEFINE x == Min(same(A, c))
              y == Min(same(B, c))
  <2>1. same(A, c) \subseteq Nat /\ same(A, c) # {} /\ same(B, c) \subseteq Nat
        /\ same(B, c) # {} /\ same(A, c) \subseteq same(B, c)
        /\ same(A, c) \subseteq 1 .. m /\ same(B, c) \subseteq same(A, c) \cup {m + 1}
    BY <1>1, <1>2
  <2>2. old[c] = Entry(lines[x])
    BY <1>2 DEF ListOf
  <2>. HIDE DEF same
  <2>3. /\ x \in same(A, c) /\ \A i \in same(A, c) : x <= i
        /\ y \in same(B, c) /\ \A i \in same(B, c) : y <= i
    BY <2>1, LeastElement
  <2>. HIDE DEF x, y
  <2>4. x \in 1 .. m /\ y \in Nat /\ y <= x
    BY <2>1, <2>3
  <2>5. y \in same(A, c)
    BY <2>1, <2>3, <2>4
  <2>6. x = y
    BY <2>3, <2>4, <2>5
  <2>. QED
    BY <2>2, <2>6 DEF y
<1>5. ASSUME l.code \notin DOMAIN old PROVE Min(same(B, l.code)) = m + 1
  <2>1. same(B, l.code) = {m + 1}
    BY <1>1, <1>2, <1>5
  <2>2. Min({m + 1}) = m + 1
    BY DEF Min
  <2>. QED
    BY <2>1, <2>2
<1>6. ListOf(B) = [c \in DOMAIN old \cup {l.code} |-> Entry(lines[Min(same(B, c))])]
  BY <1>3 DEF ListOf
<1>. HIDE DEF old, same
<1>7. \A c \in DOMAIN old \cup {l.code} :
        Entry(lines[Min(same(B, c))]) = IF c \in DOMAIN old THEN old[c] ELSE Entry(l)
  BY <1>4, <1>5
<1>8. ListOf(B) = [c \in DOMAIN old \cup {l.code} |->
                     IF c \in DOMAIN old THEN old[c] ELSE Entry(l)]
  BY <1>6, <1>7
<1>. QED
  BY <1>8 DEF old, A, B

\* Where the list ends, the lines that count are the complete ones before.
LEMMA CountingIs ==
  ASSUME lines \in Seq(Line), NEW m \in 0 .. Len(lines), WholeTo(m),
         m # Len(lines) => lines[m + 1] \in BrokenLine \/ lines[m + 1].kind \in {"end", "hash"}
  PROVE  Counting = CompleteTo(m)
<1>1. DOMAIN lines = 1 .. Len(lines) /\ Len(lines) \in Nat
  OBVIOUS
<1>2. ASSUME NEW i \in Counting PROVE i \in CompleteTo(m)
  <2>1. /\ i \in 1 .. Len(lines) /\ lines[i] \in CompleteLine
        /\ \A j \in 1 .. i : lines[j] \notin BrokenLine /\ lines[j].kind \notin {"end", "hash"}
    BY <1>1 DEF Counting
  <2>2. i <= m
    <3>. SUFFICES ASSUME ~(i <= m) PROVE FALSE
      OBVIOUS
    <3>. DEFINE n == Len(lines)
    <3>1. i \in 1 .. n /\ n \in Nat
      BY <1>1, <2>1
    <3>. HIDE DEF n
    <3>2. m # n /\ m + 1 \in 1 .. i
      BY <3>1 DEF n
    <3>. QED
      BY <2>1, <3>2 DEF n
  <2>3. i \in 1 .. m
    BY <2>1, <2>2
  <2>. QED
    BY <2>1, <2>3 DEF CompleteTo
<1>3. ASSUME NEW i \in CompleteTo(m) PROVE i \in Counting
  <2>. DEFINE n == Len(lines)
  <2>1. i \in 1 .. m /\ lines[i] \in CompleteLine
    BY DEF CompleteTo
  <2>2. n \in Nat /\ m \in 0 .. n
    BY <1>1
  <2>. HIDE DEF n
  <2>3. i \in 1 .. n /\ \A j \in 1 .. i : j \in 1 .. m /\ j \in 1 .. n
    BY <2>1, <2>2
  <2>4. ASSUME NEW j \in 1 .. i
        PROVE  lines[j] \notin BrokenLine /\ lines[j].kind \notin {"end", "hash"}
    <3>1. lines[j] \in Line
      BY <2>3 DEF n
    <3>2. lines[j] \in CompleteLine \/ lines[j].kind \in {"blank", "comment"}
      BY <2>3 DEF WholeTo, QuietKind
    <3>. QED
      BY <3>1, <3>2, KindOf
  <2>. QED
    BY <1>1, <2>1, <2>3, <2>4 DEF Counting, n
<1>. QED
  BY <1>2, <1>3

\* The parts of a token.
LEMMA TokenIs ==
  ASSUME NEW kind, NEW value, NEW next, NEW t, t = Token(kind, value, next)
  PROVE  t.kind = kind /\ t.value = value /\ t.next = next
BY DEF Token

\* Where the next read is, on the line of a server, and what has been read of it.
InLine(l, wp) ==
  \/ field = "name" /\ pos = wp[2] /\ info = <<l.code>>
  \/ field = "address" /\ pos = wp[3] - 1 /\ info = <<l.code, Name>>
  \/ /\ field = "port" /\ pos = wp[4] - 1 /\ info = <<l.code, Name, Address>>
     /\ l.kind # "unquoted"
  \/ /\ field = "show" /\ pos = BehindPort(wp) /\ info = <<l.code, Name, Address, 10>>
     /\ l.kind \notin {"unquoted", "noPort"}

\* Load has read the first m lines, and is before the next one or in it.
Reached(start, m) ==
  /\ m \in 0 .. Len(lines) /\ WholeTo(m) /\ servers = ListOf(CompleteTo(m))
  /\ \/ /\ field = "code" /\ info = <<>>
        /\ Skip(text, pos, FALSE) = Skip(text, start[m + 1], FALSE)
     \/ /\ m # Len(lines) /\ lines[m + 1].kind \notin OtherKind
        /\ \E wp : LineWords(start, m + 1, wp) /\ InLine(lines[m + 1], wp)

\* While the file is loaded, the servers are those of its first lines.
LoadingOK == loading => \E start : Laid(start) /\ \E m : Reached(start, m)

\* The file stays as it is while it is loaded.
LEMMA FileStays ==
  ASSUME lines' = lines, text' = text, NEW start
  PROVE  /\ Laid(start) => Laid(start)'
         /\ \A i, wp : LineWords(start, i, wp) => LineWords(start, i, wp)'
         /\ \A m : /\ WholeTo(m) => WholeTo(m)'
                   /\ ListOf(CompleteTo(m))' = ListOf(CompleteTo(m))
<1>1. Laid(start) => Laid(start)'
  BY DEF Laid, LineEnd
<1>2. ASSUME NEW i, NEW wp, LineWords(start, i, wp) PROVE LineWords(start, i, wp)'
  BY <1>2 DEF LineWords, LineEnd
<1>3. ASSUME NEW m
      PROVE  (WholeTo(m) => WholeTo(m)') /\ ListOf(CompleteTo(m))' = ListOf(CompleteTo(m))
  BY DEF WholeTo, ListOf, CompleteTo
<1>. QED
  BY <1>1, <1>2, <1>3

\* Before a line, Load is as well before the next one that is not passed over.
LEMMA NextReached ==
  ASSUME NEW start, Laid(start), NEW m, Reached(start, m), field = "code"
  PROVE  \E k \in 0 .. Len(lines) :
           /\ Reached(start, k)
           /\ k = Len(lines) \/ lines[k + 1].kind \notin QuietKind
<1>. DEFINE n == Len(lines)
<1>0. n \in Nat /\ lines \in Seq(Line)
  BY DEF Laid
<1>1. /\ m \in 0 .. n /\ WholeTo(m) /\ servers = ListOf(CompleteTo(m)) /\ info = <<>>
      /\ Skip(text, pos, FALSE) = Skip(text, start[m + 1], FALSE)
  BY DEF Reached, InLine
<1>2. PICK k \in m .. n : /\ k = n \/ lines[k + 1].kind \notin QuietKind
                          /\ \A j \in m + 1 .. k : lines[j].kind \in QuietKind
                          /\ Skip(text, start[m + 1], FALSE) = Skip(text, start[k + 1], FALSE)
  BY <1>1, NextLine
<1>3. ASSUME NEW j \in 1 .. k PROVE j \in 1 .. n /\ (j \in 1 .. m \/ j \in m + 1 .. k)
  BY <1>0, <1>1
<1>4. WholeTo(k)
  BY <1>1, <1>2, <1>3 DEF WholeTo
<1>5. CompleteTo(k) = CompleteTo(m)
  <2>1. ASSUME NEW j \in CompleteTo(k) PROVE j \in CompleteTo(m)
    <3>1. j \in 1 .. k /\ lines[j] \in CompleteLine
      BY DEF CompleteTo
    <3>2. lines[j] \in Line
      BY <1>0, <1>3, <3>1
    <3>3. lines[j].kind \notin QuietKind
      BY <3>1, <3>2, KindOf DEF QuietKind
    <3>. QED
      BY <1>2, <1>3, <3>1, <3>3 DEF CompleteTo
  <2>2. ASSUME NEW j \in CompleteTo(m) PROVE j \in CompleteTo(k)
    BY <1>0, <1>1 DEF CompleteTo
  <2>. QED
    BY <2>1, <2>2
<1>6. k \in 0 .. n
  BY <1>0, <1>1
<1>7. Reached(start, k)
  BY <1>1, <1>2, <1>4, <1>5, <1>6 DEF Reached
<1>. QED
  BY <1>2, <1>6, <1>7

\* What is read there: the code of a server, or no number.
LEMMA CodeRead ==
  ASSUME NEW start, Laid(start), NEW m \in 0 .. Len(lines), pos \in 1 .. Len(text) + 1,
         m = Len(lines) \/ lines[m + 1].kind \notin QuietKind,
         Skip(text, pos, FALSE) = Skip(text, start[m + 1], FALSE), field = "code"
  PROVE  IF m = Len(lines) \/ lines[m + 1].kind \in OtherKind
         THEN NextToken.kind # "number"
         ELSE \E wp : /\ LineWords(start, m + 1, wp)
                      /\ NextToken.kind = "number" /\ NextToken.next = wp[2]
                      /\ NumberOf(NextToken.value) = lines[m + 1].code
<1>0. Len(lines) \in Nat
  BY DEF Laid
<1>1. m + 1 \in 1 .. Len(lines) + 1 /\ (m + 1 = Len(lines) + 1 <=> m = Len(lines))
  BY <1>0
<1>2. NextToken = GetToken(text, pos, FALSE)
  BY DEF NextToken
<1>3. CASE m = Len(lines) \/ lines[m + 1].kind \in OtherKind
  <2>1. ASSUME NEW endLine \in BOOLEAN, NEW i \in 1 .. Len(lines) + 1,
               Skip(text, pos, endLine) = Skip(text, start[i], endLine)
        PROVE  /\ i = Len(lines) + 1 => GetToken(text, pos, endLine).kind = "end"
               /\ i # Len(lines) + 1 /\ lines[i].kind = "end" =>
                    GetToken(text, pos, endLine).kind = "endSection"
               /\ i # Len(lines) + 1 /\ lines[i].kind = "hash" =>
                    GetToken(text, pos, endLine).kind = "error"
    BY <2>1, ReadsLine
  <2>2. /\ m = Len(lines) => GetToken(text, pos, FALSE).kind = "end"
        /\ m # Len(lines) /\ lines[m + 1].kind = "end" =>
             GetToken(text, pos, FALSE).kind = "endSection"
        /\ m # Len(lines) /\ lines[m + 1].kind = "hash" =>
             GetToken(text, pos, FALSE).kind = "error"
    BY <1>1, <2>1
  <2>3. m = Len(lines) \/ lines[m + 1].kind \in {"end", "hash"}
    BY <1>3 DEF OtherKind, QuietKind
  <2>. QED
    BY <1>2, <1>3, <2>2, <2>3
<1>4. CASE ~(m = Len(lines) \/ lines[m + 1].kind \in OtherKind)
  <2>1. m + 1 \in 1 .. Len(lines) /\ lines[m + 1].kind \notin OtherKind
    BY <1>0, <1>4
  <2>2. PICK wp : LineWords(start, m + 1, wp)
    BY <2>1, ServerLineWords
  <2>3. ASSUME NEW endLine \in BOOLEAN, NEW i \in 1 .. Len(lines), lines[i].kind \notin OtherKind,
               LineWords(start, i, wp), Skip(text, pos, endLine) = Skip(text, start[i], endLine)
        PROVE  /\ GetToken(text, pos, endLine) = Token("number", Numeral[lines[i].code], wp[2])
               /\ lines[i].code \in Code
    BY <2>3, ReadsCode
  <2>4. /\ GetToken(text, pos, FALSE) = Token("number", Numeral[lines[m + 1].code], wp[2])
        /\ lines[m + 1].code \in Code
    BY <2>1, <2>2, <2>3
  <2>5. NextToken = Token("number", Numeral[lines[m + 1].code], wp[2])
    BY <1>2, <2>4, Zenon
  <2>6. /\ NextToken.kind = "number" /\ NextToken.next = wp[2]
        /\ NextToken.value = Numeral[lines[m + 1].code]
    BY <2>5, TokenIs
  <2>7. NumberOf(NextToken.value) = lines[m + 1].code
    BY <2>4, <2>6, ServerFileAssumption
  <2>. QED
    BY <1>4, <2>2, <2>6, <2>7
<1>. QED
  BY <1>3, <1>4


\* A sequence that has another's elements and one more.
LEMMA AppendTo ==
  ASSUME NEW T, NEW s \in Seq(T), NEW x \in T, NEW u \in Seq(T), Len(u) = Len(s) + 1,
         u[Len(s) + 1] = x, \A i \in 1 .. Len(s) : u[i] = s[i]
  PROVE  Append(s, x) = u
<1>. DEFINE t == Append(s, x)
            n == Len(s) + 1
<1>1. /\ t \in Seq(T) /\ Len(t) = n /\ t[n] = x
      /\ \A i \in 1 .. Len(s) : t[i] = s[i]
  BY AppendProperties
<1>2. \A i \in 1 .. n : i = n \/ i \in 1 .. Len(s)
  OBVIOUS
<1>. HIDE DEF t
<1>3. \A i \in 1 .. Len(t) : t[i] = u[i]
  BY <1>1, <1>2
<1>4. t = u
  BY <1>1, <1>3, SeqEqual
<1>. QED
  BY <1>4 DEF t

\* Fields that are appended one after the other.
LEMMA Tuples ==
  /\ \A a : Append(<<>>, a) = <<a>>
  /\ \A a, b : Append(<<a>>, b) = <<a, b>>
  /\ \A a, b, c : Append(<<a, b>>, c) = <<a, b, c>>
  /\ \A a, b, c, d : Append(<<a, b, c>>, d) = <<a, b, c, d>>
  /\ \A a, b, c, d, e : Append(<<a, b, c, d>>, e) = <<a, b, c, d, e>>
<1>1. \A a : Append(<<>>, a) = <<a>>
  OBVIOUS
<1>2. ASSUME NEW a, NEW b
      PROVE  Append(<<a>>, b) = <<a, b>>
  <2>. DEFINE T == {a, b}
              s == <<a>>
              u == <<a, b>>
  <2>1. s \in Seq(T) /\ u \in Seq(T) /\ Len(s) = 1 /\ Len(u) = 2 /\ b \in T
    OBVIOUS
  <2>2. u[2] = b /\ \A i \in 1 .. 1 : u[i] = s[i]
    OBVIOUS
  <2>3. ASSUME NEW p \in Seq(T), NEW y \in T, NEW q \in Seq(T), Len(q) = Len(p) + 1,
               q[Len(p) + 1] = y, \A i \in 1 .. Len(p) : q[i] = p[i]
        PROVE  Append(p, y) = q
    BY <2>3, AppendTo
  <2>. HIDE DEF s, u, T
  <2>4. /\ Len(u) = Len(s) + 1 /\ u[Len(s) + 1] = b
        /\ \A i \in 1 .. Len(s) : u[i] = s[i]
    BY <2>1, <2>2
  <2>5. Append(s, b) = u
    BY <2>1, <2>3, <2>4, Zenon
  <2>. QED
    BY <2>5 DEF s, u
<1>3. ASSUME NEW a, NEW b, NEW c
      PROVE  Append(<<a, b>>, c) = <<a, b, c>>
  <2>. DEFINE T == {a, b, c}
              s == <<a, b>>
              u == <<a, b, c>>
  <2>1. s \in Seq(T) /\ u \in Seq(T) /\ Len(s) = 2 /\ Len(u) = 3 /\ c \in T
    OBVIOUS
  <2>2. u[3] = c /\ \A i \in 1 .. 2 : u[i] = s[i]
    OBVIOUS
  <2>3. ASSUME NEW p \in Seq(T), NEW y \in T, NEW q \in Seq(T), Len(q) = Len(p) + 1,
               q[Len(p) + 1] = y, \A i \in 1 .. Len(p) : q[i] = p[i]
        PROVE  Append(p, y) = q
    BY <2>3, AppendTo
  <2>. HIDE DEF s, u, T
  <2>4. /\ Len(u) = Len(s) + 1 /\ u[Len(s) + 1] = c
        /\ \A i \in 1 .. Len(s) : u[i] = s[i]
    BY <2>1, <2>2
  <2>5. Append(s, c) = u
    BY <2>1, <2>3, <2>4, Zenon
  <2>. QED
    BY <2>5 DEF s, u
<1>4. ASSUME NEW a, NEW b, NEW c, NEW d
      PROVE  Append(<<a, b, c>>, d) = <<a, b, c, d>>
  <2>. DEFINE T == {a, b, c, d}
              s == <<a, b, c>>
              u == <<a, b, c, d>>
  <2>1. s \in Seq(T) /\ u \in Seq(T) /\ Len(s) = 3 /\ Len(u) = 4 /\ d \in T
    OBVIOUS
  <2>2. u[4] = d /\ \A i \in 1 .. 3 : u[i] = s[i]
    OBVIOUS
  <2>3. ASSUME NEW p \in Seq(T), NEW y \in T, NEW q \in Seq(T), Len(q) = Len(p) + 1,
               q[Len(p) + 1] = y, \A i \in 1 .. Len(p) : q[i] = p[i]
        PROVE  Append(p, y) = q
    BY <2>3, AppendTo
  <2>. HIDE DEF s, u, T
  <2>4. /\ Len(u) = Len(s) + 1 /\ u[Len(s) + 1] = d
        /\ \A i \in 1 .. Len(s) : u[i] = s[i]
    BY <2>1, <2>2
  <2>5. Append(s, d) = u
    BY <2>1, <2>3, <2>4, Zenon
  <2>. QED
    BY <2>5 DEF s, u
<1>5. ASSUME NEW a, NEW b, NEW c, NEW d, NEW e
      PROVE  Append(<<a, b, c, d>>, e) = <<a, b, c, d, e>>
  <2>. DEFINE T == {a, b, c, d, e}
              s == <<a, b, c, d>>
              u == <<a, b, c, d, e>>
  <2>1. s \in Seq(T) /\ u \in Seq(T) /\ Len(s) = 4 /\ Len(u) = 5 /\ e \in T
    OBVIOUS
  <2>2. u[5] = e /\ \A i \in 1 .. 4 : u[i] = s[i]
    OBVIOUS
  <2>3. ASSUME NEW p \in Seq(T), NEW y \in T, NEW q \in Seq(T), Len(q) = Len(p) + 1,
               q[Len(p) + 1] = y, \A i \in 1 .. Len(p) : q[i] = p[i]
        PROVE  Append(p, y) = q
    BY <2>3, AppendTo
  <2>. HIDE DEF s, u, T
  <2>4. /\ Len(u) = Len(s) + 1 /\ u[Len(s) + 1] = e
        /\ \A i \in 1 .. Len(s) : u[i] = s[i]
    BY <2>1, <2>2
  <2>5. Append(s, e) = u
    BY <2>1, <2>3, <2>4, Zenon
  <2>. QED
    BY <2>5 DEF s, u
<1>. QED
  BY <1>1, <1>2, <1>3, <1>4, <1>5

\* Of a server's line a read takes the next word, or finds none.
LEMMA WordRead ==
  ASSUME NEW start, Laid(start), NEW i \in 1 .. Len(lines), lines[i].kind \notin OtherKind,
         NEW wp, LineWords(start, i, wp), InLine(lines[i], wp)
  PROVE  /\ field = "name" => NextToken = Token("string", Name, wp[3] - 1)
         /\ field = "address" =>
              IF lines[i].kind = "unquoted" THEN NextToken.kind = "number"
              ELSE NextToken = Token("string", Address, wp[4] - 1)
         /\ field = "port" =>
              IF lines[i].kind = "noPort" THEN NextToken.kind # "number"
              ELSE NextToken = Token("number", Port, BehindPort(wp))
         /\ field = "show" =>
              IF lines[i].kind = "noFlag" THEN NextToken.kind # "string"
              ELSE /\ lines[i] \in CompleteLine
                   /\ NextToken = Token("string", Flag(lines[i]), wp[6] - 1)
<1>1. field # "code" => NextToken = GetToken(text, pos, TRUE)
  BY DEF NextToken
<1>2. lines[i] \in Line
  BY DEF Laid
<1>3. ASSUME field = "name" PROVE NextToken = Token("string", Name, wp[3] - 1)
  <2>1. pos = wp[2]
    BY <1>3 DEF InLine
  <2>2. GetToken(text, wp[2], TRUE) = Token("string", Name, wp[3] - 1)
    BY ReadsName
  <2>. QED
    BY <1>1, <1>3, <2>1, <2>2
<1>4. ASSUME field = "address"
      PROVE  IF lines[i].kind = "unquoted" THEN NextToken.kind = "number"
             ELSE NextToken = Token("string", Address, wp[4] - 1)
  <2>1. pos = wp[3] - 1
    BY <1>4 DEF InLine
  <2>2. IF lines[i].kind = "unquoted" THEN GetToken(text, wp[3] - 1, TRUE).kind = "number"
        ELSE GetToken(text, wp[3] - 1, TRUE) = Token("string", Address, wp[4] - 1)
    BY ReadsAddress
  <2>. QED
    BY <1>1, <1>4, <2>1, <2>2
<1>5. ASSUME field = "port"
      PROVE  IF lines[i].kind = "noPort" THEN NextToken.kind # "number"
             ELSE NextToken = Token("number", Port, BehindPort(wp))
  <2>1. pos = wp[4] - 1 /\ lines[i].kind # "unquoted"
    BY <1>5 DEF InLine
  <2>2. IF lines[i].kind = "noPort" THEN GetToken(text, wp[4] - 1, TRUE).kind # "number"
        ELSE GetToken(text, wp[4] - 1, TRUE) = Token("number", Port, BehindPort(wp))
    BY <2>1, ReadsPort
  <2>. QED
    BY <1>1, <1>5, <2>1, <2>2
<1>6. ASSUME field = "show"
      PROVE  IF lines[i].kind = "noFlag" THEN NextToken.kind # "string"
             ELSE /\ lines[i] \in CompleteLine
                  /\ NextToken = Token("string", Flag(lines[i]), wp[6] - 1)
  <2>1. pos = BehindPort(wp) /\ lines[i].kind \notin {"unquoted", "noPort"}
    BY <1>6 DEF InLine
  <2>2. CASE lines[i].kind = "noFlag"
    <3>1. GetToken(text, BehindPort(wp), TRUE).kind # "string"
      BY <2>2, ReadsNoFlag
    <3>. QED
      BY <1>1, <1>6, <2>1, <2>2, <3>1
  <2>3. CASE lines[i].kind # "noFlag"
    <3>1. lines[i] \in CompleteLine
      BY <1>2, <2>1, <2>3, KindOf
    <3>2. GetToken(text, BehindPort(wp), TRUE) = Token("string", Flag(lines[i]), wp[6] - 1)
      BY <3>1, ReadsFlag
    <3>. QED
      BY <1>1, <1>6, <2>1, <2>3, <3>1, <3>2
  <2>. QED
    BY <2>2, <2>3
<1>. QED
  BY <1>3, <1>4, <1>5, <1>6

\* The entry of a complete line, from what its reads have appended.
LEMMA EntryIs ==
  ASSUME NEW l \in CompleteLine, NEW value, value = Flag(l)
  PROVE  Append(<<l.code, Name, Address, 10>>, value = <<"SHOW">>) = Entry(l)
<1>1. l.show \in BOOLEAN
  BY DEF CompleteLine
<1>2. (value = <<"SHOW">>) = l.show
  <2>1. <<"SHOW">> # <<"a">>
    OBVIOUS
  <2>. QED
    BY <1>1, <2>1 DEF Flag
<1>3. Append(<<l.code, Name, Address, 10>>, l.show) = <<l.code, Name, Address, 10, l.show>>
  BY Tuples
<1>. QED
  BY <1>2, <1>3, Zenon DEF Entry

\* Load goes on on the same line.
LEMMA ReachedInLine ==
  ASSUME lines' = lines, text' = text, servers' = servers,
         NEW start, Laid(start), NEW m \in 0 .. Len(lines), WholeTo(m),
         servers = ListOf(CompleteTo(m)), m # Len(lines), lines[m + 1].kind \notin OtherKind,
         NEW wp, LineWords(start, m + 1, wp), InLine(lines[m + 1], wp)'
  PROVE  LoadingOK'
<1>1. /\ Laid(start)' /\ LineWords(start, m + 1, wp)' /\ WholeTo(m)'
      /\ ListOf(CompleteTo(m))' = ListOf(CompleteTo(m))
  BY FileStays
<1>2. /\ m \in 0 .. Len(lines') /\ servers' = ListOf(CompleteTo(m))'
      /\ m # Len(lines') /\ lines'[m + 1].kind \notin OtherKind
  BY <1>1
<1>3. Reached(start, m)'
  BY <1>1, <1>2 DEF Reached
<1>. QED
  BY <1>1, <1>3 DEF LoadingOK

\* Load goes on behind the lines it has read.
LEMMA ReachedLine ==
  ASSUME lines' = lines, text' = text, NEW start, Laid(start), NEW m \in 0 .. Len(lines),
         WholeTo(m), servers' = ListOf(CompleteTo(m)), field' = "code", info' = <<>>,
         Skip(text, pos', FALSE) = Skip(text, start[m + 1], FALSE)
  PROVE  LoadingOK'
<1>1. Laid(start)' /\ WholeTo(m)' /\ ListOf(CompleteTo(m))' = ListOf(CompleteTo(m))
  BY FileStays
<1>2. /\ m \in 0 .. Len(lines') /\ servers' = ListOf(CompleteTo(m))'
      /\ Skip(text', pos', FALSE) = Skip(text', start[m + 1], FALSE)
  BY <1>1
<1>3. Reached(start, m)'
  BY <1>1, <1>2 DEF Reached
<1>. QED
  BY <1>1, <1>3 DEF LoadingOK

\* Load returns with the list, if the lines that count are those it has read.
LEMMA LoadedIs ==
  ASSUME lines' = lines, servers' = servers, NEW m, servers = ListOf(CompleteTo(m)),
         Counting = CompleteTo(m)
  PROVE  LoadsTheList'
<1>1. servers = ListOf(Counting)
  BY Zenon
<1>2. Counting' = Counting
  BY DEF Counting
<1>. HIDE DEF Counting
<1>3. LoadsTheList' <=>
        (~loading' => servers' = [c \in {lines'[i].code : i \in Counting'} |->
                                    Entry(lines'[Min({i \in Counting' : lines'[i].code = c})])])
  BY DEF LoadsTheList
<1>. QED
  BY <1>1, <1>2, <1>3 DEF ListOf

\* A read before a line.
LEMMA LoadAtLine ==
  ASSUME FileInv, NEW start, Laid(start), NEW k, Reached(start, k), Load, field = "code"
  PROVE  LoadingOK' /\ (~loading' => LoadsTheList')
<1>1. /\ ReadCode \/ Stop
      /\ lines' = lines /\ text' = text /\ servers' = servers
      /\ loading
  BY DEF Load, ReadCode, ReadName, ReadAddress, ReadPort, ReadShow, Read, Stop
<1>2. PICK m \in 0 .. Len(lines) : /\ Reached(start, m)
                                   /\ m = Len(lines) \/ lines[m + 1].kind \notin QuietKind
  BY NextReached
<1>3. /\ WholeTo(m) /\ servers = ListOf(CompleteTo(m)) /\ info = <<>>
      /\ Skip(text, pos, FALSE) = Skip(text, start[m + 1], FALSE)
  BY <1>2 DEF Reached, InLine
<1>4. pos \in 1 .. Len(text) + 1
  BY DEF FileInv, TextOK
<1>5. IF m = Len(lines) \/ lines[m + 1].kind \in OtherKind
      THEN NextToken.kind # "number"
      ELSE \E wp : /\ LineWords(start, m + 1, wp)
                   /\ NextToken.kind = "number" /\ NextToken.next = wp[2]
                   /\ NumberOf(NextToken.value) = lines[m + 1].code
  BY <1>2, <1>3, <1>4, CodeRead
<1>6. CASE ReadCode
  <2>1. /\ NextToken.kind = "number" /\ pos' = NextToken.next /\ field' = "name"
        /\ info' = Append(info, NumberOf(NextToken.value)) /\ loading' = loading
    BY <1>6 DEF ReadCode, Read
  <2>2. m # Len(lines) /\ lines[m + 1].kind \notin OtherKind
    BY <1>5, <2>1
  <2>3. PICK wp : /\ LineWords(start, m + 1, wp) /\ NextToken.next = wp[2]
                  /\ NumberOf(NextToken.value) = lines[m + 1].code
    BY <1>5, <2>2
  <2>4. info' = <<lines[m + 1].code>>
    BY <1>3, <2>1, <2>3, Tuples
  <2>5. InLine(lines[m + 1], wp)'
    BY <1>1, <2>1, <2>3, <2>4 DEF InLine
  <2>6. LoadingOK'
    BY <1>1, <1>3, <2>2, <2>3, <2>5, ReachedInLine
  <2>. QED
    BY <1>1, <2>1, <2>6
<1>7. CASE Stop
  <2>1. NextToken.kind # "number" /\ ~loading'
    BY <1>7 DEF Stop
  <2>2. m = Len(lines) \/ lines[m + 1].kind \in {"end", "hash"}
    BY <1>2, <1>5, <2>1 DEF OtherKind, QuietKind
  <2>3. Counting = CompleteTo(m)
    BY <1>3, <2>2, CountingIs DEF Laid
  <2>4. LoadsTheList'
    BY <1>1, <1>3, <2>3, LoadedIs
  <2>. QED
    BY <2>1, <2>4 DEF LoadingOK
<1>. QED
  BY <1>1, <1>6, <1>7

\* A read in the line of a server: the reads of name, address and port go on in
\* it, that of the flag is behind it, and none of them stops in a complete line.
LEMMA LoadInLine ==
  ASSUME NEW start, Laid(start), NEW m, Reached(start, m), Load, field # "code"
  PROVE  LoadingOK' /\ (~loading' => LoadsTheList')
<1>. DEFINE l == lines[m + 1]
<1>1. /\ lines' = lines /\ text' = text /\ loading
      /\ ReadName \/ ReadAddress \/ ReadPort \/ ReadShow \/ Stop
  BY DEF Load, ReadCode, ReadName, ReadAddress, ReadPort, ReadShow, Read, Stop
<1>2. /\ m \in 0 .. Len(lines) /\ WholeTo(m) /\ servers = ListOf(CompleteTo(m))
      /\ m # Len(lines) /\ l.kind \notin OtherKind
  BY DEF Reached
<1>3. PICK wp : LineWords(start, m + 1, wp) /\ InLine(l, wp)
  BY DEF Reached
<1>4. m + 1 \in 1 .. Len(lines) /\ m \in Nat /\ l \in Line
  <2>1. Len(lines) \in Nat /\ lines \in Seq(Line)
    BY DEF Laid
  <2>2. m + 1 \in 1 .. Len(lines) /\ m \in Nat
    BY <1>2, <2>1
  <2>. QED
    BY <2>1, <2>2
<1>5. /\ field = "name" => NextToken = Token("string", Name, wp[3] - 1)
      /\ field = "address" =>
           IF l.kind = "unquoted" THEN NextToken.kind = "number"
           ELSE NextToken = Token("string", Address, wp[4] - 1)
      /\ field = "port" =>
           IF l.kind = "noPort" THEN NextToken.kind # "number"
           ELSE NextToken = Token("number", Port, BehindPort(wp))
      /\ field = "show" =>
           IF l.kind = "noFlag" THEN NextToken.kind # "string"
           ELSE l \in CompleteLine /\ NextToken = Token("string", Flag(l), wp[6] - 1)
  BY <1>2, <1>3, <1>4, WordRead
<1>6. ASSUME NEW kind, NEW value, NEW next, NextToken = Token(kind, value, next)
      PROVE  NextToken.kind = kind /\ NextToken.value = value /\ NextToken.next = next
  BY <1>6, TokenIs
<1>7. ASSUME servers' = servers, loading' = loading, InLine(l, wp)' PROVE LoadingOK'
  BY <1>1, <1>2, <1>3, <1>7, ReachedInLine
<1>8. l' = l
  BY <1>1
<1>. HIDE DEF l
<1>9. CASE ReadName
  <2>1. /\ field = "name" /\ pos' = NextToken.next /\ field' = "address"
        /\ info' = Append(info, NextToken.value) /\ servers' = servers /\ loading' = loading
    BY <1>9 DEF ReadName, Read
  <2>2. NextToken.value = Name /\ NextToken.next = wp[3] - 1
    BY <1>5, <1>6, <2>1
  <2>3. info = <<l.code>>
    BY <1>3, <2>1 DEF InLine
  <2>4. info' = <<l.code, Name>>
    BY <2>1, <2>2, <2>3, Tuples
  <2>5. InLine(l, wp)'
    BY <1>8, <2>1, <2>2, <2>4 DEF InLine
  <2>. QED
    BY <1>1, <1>7, <2>1, <2>5
<1>10. CASE ReadAddress
  <2>1. /\ field = "address" /\ pos' = NextToken.next /\ field' = "port"
        /\ NextToken.kind = "string"
        /\ info' = Append(info, NextToken.value) /\ servers' = servers /\ loading' = loading
    BY <1>10 DEF ReadAddress, Read
  <2>2. l.kind # "unquoted"
    BY <1>5, <2>1
  <2>3. NextToken.value = Address /\ NextToken.next = wp[4] - 1
    BY <1>5, <1>6, <2>1, <2>2
  <2>4. info = <<l.code, Name>>
    BY <1>3, <2>1 DEF InLine
  <2>5. info' = <<l.code, Name, Address>>
    BY <2>1, <2>3, <2>4, Tuples
  <2>6. InLine(l, wp)'
    BY <1>8, <2>1, <2>2, <2>3, <2>5 DEF InLine
  <2>. QED
    BY <1>1, <1>7, <2>1, <2>6
<1>11. CASE ReadPort
  <2>1. /\ field = "port" /\ pos' = NextToken.next /\ field' = "show"
        /\ NextToken.kind = "number" /\ text' = text
        /\ info' = Append(info, NumberOf(NextToken.value))
        /\ servers' = servers /\ loading' = loading
    BY <1>11 DEF ReadPort, Read
  <2>2. l.kind # "noPort" /\ l.kind # "unquoted"
    BY <1>3, <1>5, <2>1 DEF InLine
  <2>3. NextToken.value = Port /\ NextToken.next = BehindPort(wp)
    BY <1>5, <1>6, <2>1, <2>2
  <2>4. info = <<l.code, Name, Address>>
    BY <1>3, <2>1 DEF InLine
  <2>5. info' = <<l.code, Name, Address, 10>>
    BY <2>1, <2>3, <2>4, PortIs10, Tuples
  <2>6. BehindPort(wp)' = BehindPort(wp)
    BY <2>1 DEF BehindPort
  <2>7. InLine(l, wp)'
    BY <1>8, <2>1, <2>2, <2>3, <2>5, <2>6 DEF InLine
  <2>. QED
    BY <1>1, <1>7, <2>1, <2>7
<1>12. CASE ReadShow
  <2>1. /\ field = "show" /\ pos' = NextToken.next /\ field' = "code" /\ info' = <<>>
        /\ NextToken.kind = "string" /\ loading' = loading
        /\ servers' = [c \in DOMAIN servers \cup {info[1]} |->
                         IF c \in DOMAIN servers THEN servers[c]
                         ELSE Append(info, NextToken.value = <<"SHOW">>)]
    BY <1>12 DEF ReadShow
  <2>2. l \in CompleteLine /\ NextToken = Token("string", Flag(l), wp[6] - 1)
    BY <1>5, <2>1
  <2>3. NextToken.value = Flag(l) /\ NextToken.next = wp[6] - 1
    BY <1>6, <2>2
  <2>4. info = <<l.code, Name, Address, 10>>
    BY <1>3, <2>1 DEF InLine
  <2>5. info[1] = l.code /\ Append(info, NextToken.value = <<"SHOW">>) = Entry(l)
    BY <2>2, <2>3, <2>4, EntryIs
  <2>6. servers' = ListOf(CompleteTo(m + 1))
    <3>1. ListOf(CompleteTo(m + 1)) =
            [c \in DOMAIN servers \cup {l.code} |->
               IF c \in DOMAIN servers THEN servers[c] ELSE Entry(l)]
      BY <1>2, <1>4, <2>2, NextServer DEF l
    <3>. QED
      BY <2>1, <2>5, <3>1
  <2>7. WholeTo(m + 1) /\ m + 1 \in 0 .. Len(lines)
    <3>1. \A j \in 1 .. m + 1 : j \in 1 .. m \/ j = m + 1
      BY <1>4
    <3>. QED
      BY <1>2, <1>4, <2>2, <3>1 DEF WholeTo, l
  <2>8. Skip(text, pos', FALSE) = Skip(text, start[(m + 1) + 1], FALSE)
    <3>1. Skip(text, wp[6] - 1, FALSE) = Skip(text, start[(m + 1) + 1], FALSE)
      BY <1>3, <1>4, <2>2, SkipRest DEF l
    <3>. QED
      BY <2>1, <2>3, <3>1
  <2>9. LoadingOK'
    BY <1>1, <2>1, <2>6, <2>7, <2>8, ReachedLine
  <2>. QED
    BY <1>1, <2>1, <2>9
<1>13. CASE Stop
  <2>1. /\ NextToken.kind # (IF field \in {"code", "port"} THEN "number" ELSE "string")
        /\ ~loading' /\ servers' = servers
    BY <1>13 DEF Stop
  <2>2. l.kind \in {"unquoted", "noPort", "noFlag"}
    <3>1. field \in {"name", "address", "port", "show"}
      BY <1>3 DEF InLine
    <3>2. field # "name"
      BY <1>5, <1>6, <2>1
    <3>3. field = "address" => l.kind = "unquoted"
      BY <1>5, <1>6, <2>1
    <3>4. field = "port" => l.kind = "noPort"
      BY <1>5, <1>6, <2>1
    <3>5. field = "show" => l.kind = "noFlag"
      BY <1>5, <1>6, <2>1
    <3>. QED
      BY <3>1, <3>2, <3>3, <3>4, <3>5
  <2>3. l \in BrokenLine
    BY <1>4, <2>2, KindOf
  <2>4. Counting = CompleteTo(m)
    BY <1>2, <2>3, CountingIs DEF Laid, l
  <2>5. LoadsTheList'
    BY <1>1, <1>2, <2>1, <2>4, LoadedIs
  <2>. QED
    BY <2>1, <2>5 DEF LoadingOK
<1>. QED
  BY <1>1, <1>9, <1>10, <1>11, <1>12, <1>13

\* The first read is that of the first line.
LEMMA LoadingInit == Init => LoadingOK /\ ServesTheFile
<1>. SUFFICES ASSUME Init PROVE LoadingOK /\ ServesTheFile
  OBVIOUS
<1>1. /\ lines \in BoundedSeq(Line, MaxLines)
      /\ pos = 1 /\ field = "code" /\ info = <<>> /\ loading = TRUE
      /\ servers = [c \in {} |-> <<>>]
  BY DEF Init, LoadInit
<1>2. lines \in Seq(Line)
  <2>1. PICK m \in Nat : lines \in [1 .. m -> Line]
    BY <1>1, ServerFileAssumption DEF BoundedSeq, SeqOf
  <2>. QED
    BY <2>1, SeqByElements
<1>3. PICK end \in {<<>>, <<Newline>>} : Terminated(lines, end) /\ text = FileText(lines, end)
  BY DEF Init, LoadInit
<1>4. PICK start : Laid(start)
  BY <1>2, <1>3, FileLaid
<1>5. 0 \in 0 .. Len(lines)
  BY <1>2
<1>6. WholeTo(0) /\ CompleteTo(0) = {}
  BY DEF WholeTo, CompleteTo
<1>7. servers = ListOf({})
  BY <1>1 DEF ListOf
<1>8. Skip(text, pos, FALSE) = Skip(text, start[0 + 1], FALSE)
  <2>1. start[0 + 1] = 1
    BY <1>4 DEF Laid
  <2>. QED
    BY <1>1, <2>1
<1>9. Reached(start, 0)
  BY <1>1, <1>5, <1>6, <1>7, <1>8 DEF Reached
<1>10. LoadingOK
  BY <1>4, <1>9 DEF LoadingOK
<1>. QED
  BY <1>1, <1>10 DEF ServesTheFile, LoadsTheList

\* Every read keeps the list right, and nothing else touches it.
LEMMA LoadingNext ==
  FileInv /\ LoadingOK /\ ServesTheFile /\ [Next]_vars => (LoadingOK /\ ServesTheFile)'
<1>. SUFFICES ASSUME FileInv, LoadingOK, ServesTheFile, [Next]_vars
              PROVE  (LoadingOK /\ ServesTheFile)'
  OBVIOUS
<1>1. ASSUME Load PROVE (LoadingOK /\ ServesTheFile)'
  <2>1. loading
    BY <1>1 DEF Load, ReadCode, ReadName, ReadAddress, ReadPort, ReadShow, Read, Stop
  <2>2. PICK start : Laid(start) /\ \E m : Reached(start, m)
    BY <2>1 DEF LoadingOK
  <2>3. PICK m : Reached(start, m)
    BY <2>2
  <2>4. LoadingOK' /\ (~loading' => LoadsTheList')
    BY <1>1, <2>2, <2>3, LoadAtLine, LoadInLine
  <2>5. LoadsTheList'
    BY <2>4 DEF LoadsTheList
  <2>. QED
    BY <2>4, <2>5 DEF ServesTheFile
<1>2. CASE Serve
  BY <1>2 DEF Serve, LoadingOK, ServesTheFile
<1>3. ASSUME UNCHANGED <<fileVars, serving>> PROVE (LoadingOK /\ ServesTheFile)'
  <2>1. UNCHANGED <<lines, text, pos, field, info, servers, loading, serving>>
    BY <1>3 DEF fileVars
  <2>2. LoadingOK'
    <3>1. ASSUME loading
          PROVE  \E start : Laid(start)' /\ \E m : Reached(start, m)'
      <4>1. PICK start : Laid(start) /\ \E m : Reached(start, m)
        BY <3>1 DEF LoadingOK
      <4>2. PICK m : Reached(start, m)
        BY <4>1
      <4>3. /\ Laid(start)' /\ (WholeTo(m) => WholeTo(m)')
            /\ ListOf(CompleteTo(m))' = ListOf(CompleteTo(m))
            /\ \A i, wp : LineWords(start, i, wp) => LineWords(start, i, wp)'
        BY <2>1, <4>1, FileStays
      <4>4. \A l, wp : InLine(l, wp) => InLine(l, wp)'
        BY <2>1 DEF InLine, BehindPort
      <4>5. Reached(start, m)'
        BY <2>1, <4>2, <4>3, <4>4 DEF Reached
      <4>. QED
        BY <4>3, <4>5
    <3>. QED
      BY <2>1, <3>1 DEF LoadingOK
  <2>3. LoadsTheList' <=> LoadsTheList
    BY <2>1 DEF LoadsTheList, Counting
  <2>. QED
    BY <2>1, <2>2, <2>3 DEF ServesTheFile
<1>4. ASSUME NEW c \in Code, NEW total \in {0, 1}, GameServerLive(c, total)
      PROVE  (LoadingOK /\ ServesTheFile)'
  BY <1>3, <1>4 DEF GameServerLive
<1>5. ASSUME NEW r \in Request, Receive(r) PROVE (LoadingOK /\ ServesTheFile)'
  BY <1>3, <1>5 DEF Receive
<1>6. CASE CCCustomServerListSend
  BY <1>3, <1>6 DEF CCCustomServerListSend, SendList
<1>7. CASE CCServerListRecv
  BY <1>3, <1>7 DEF CCServerListRecv, SendList
<1>8. CASE UNCHANGED vars
  BY <1>3, <1>8 DEF vars, serviceVars
<1>. QED
  BY <1>1, <1>2, <1>4, <1>5, <1>6, <1>7, <1>8 DEF Next

\* The servers that are served are those the file lists up to its end, its first
\* broken line or its first line with a #, each as the first line of its code has
\* it, for every file of such lines, of any length and order (Terminated leaves out
\* a last bare word without a newline), and every set of codes (GetToken,
\* CServerList::Load).
THEOREM FileIsServed == Spec => []ServesTheFile
<1>1. Init => FileInv /\ LoadingOK /\ ServesTheFile
  BY FileInit, LoadingInit
<1>2. FileInv /\ LoadingOK /\ ServesTheFile /\ [Next]_vars
        => (FileInv /\ LoadingOK /\ ServesTheFile)'
  BY FileNext, LoadingNext
<1>. QED
  BY <1>1, <1>2, PTL DEF Spec

=============================================================================
