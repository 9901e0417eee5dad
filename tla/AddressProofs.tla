----------------------------- MODULE AddressProofs -----------------------------
(***************************************************************************)
(* Proofs about ParseAddress.  The parser decides where the suffixes of a  *)
(* piece begin by looking two tokens ahead.  The invariant says that this  *)
(* decision is settled by the input alone (Begins), that what the parser   *)
(* has read since is a part of the one reading it leaves, and that the     *)
(* address holds, of each field, the last statement read.                  *)
(***************************************************************************)
EXTENDS ParseAddress, FiniteSetTheorems, WellFoundedInduction, TLAPS

\* The tokens ts are those behind position n.
Behind(n, ts) ==
    /\ n \in 0..Len(input) /\ Len(ts) = Len(input) - n
    /\ \A i \in 1..Len(ts) : ts[i] = input[n + i]

IsHead(b) == b + 1 <= Len(input) /\ input[b] \in Word /\ input[b + 1] \in Separator

\* The suffixes of the piece that begins at b begin at a.
Begins(b, a) ==
    \/ /\ a = b /\ b <= Len(input) /\ input[b] \in Separator
    \/ /\ a = b + 1 /\ IsHead(b)
       /\ b + 2 <= Len(input) /\ input[b + 2] \in Word \cup {input[b + 1]}
    \/ /\ a = b + 2 /\ IsHead(b)
       /\ b + 2 <= Len(input) => input[b + 2] \notin Word \cup {input[b + 1]}

\* What the piece states up to position n.
Part(b, a, n) == (IF a = b THEN {} ELSE {HeadOf(b)}) \cup SuffixesOf(a, n)

Reads(r) == \A s \in r : Value(s) # Bad
Fine(b) == \E r \in Readings(b) : Readings(b) = {r} /\ Reads(r)

\* What the pieces state that begin no later than at n.
Said(n) == UNION UNION {Readings(b) : b \in {b \in Starts : b <= n}}

\* Nothing in S is behind n, and the address holds what is last in it.
Holds(adr, S, n) ==
    /\ \A s \in S : s.field \in Field /\ s.at \in 1..n /\ s = Statement(s.field, s.at)
    /\ \A f \in Field :
          \/ adr[f] = 0 /\ \A s \in S : s.field # f
          \/ \E s \in S : /\ s.field = f /\ adr[f] = Value(s)
                          /\ \A t \in S : t.field = f => t.at <= s.at

AtTerm(n) ==
    /\ n + 1 \in Starts /\ Behind(n, tokens)
    /\ \A b \in Starts : b <= n => Fine(b)
    /\ Holds(address, Said(n), n)

AtSuffix(b, a, n) ==
    /\ b \in Starts /\ Begins(b, a) /\ n >= a - 1 /\ Behind(n, tokens)
    /\ \A i \in b..n : ~Comma(i)
    /\ \A c \in Starts : c < b => Fine(c)
    /\ IsSuffixes(a, n) /\ Reads(Part(b, a, n))
    /\ Holds(address, Said(b - 1) \cup Part(b, a, n), n)

IsStated == \A f \in Field : address[f] = Stated(f)

Typed ==
    /\ given \in BOOLEAN /\ input \in Seq(Token) /\ tokens \in Seq(Token)
    /\ address \in Address /\ let \subseteq Usb
    /\ pc \in {"term", "suffix", "accepted", "refused", "filtered"}

Inv ==
    /\ Typed
    /\ pc = "term" => given /\ \E n \in 0..Len(input) : AtTerm(n)
    /\ pc = "suffix" =>
          given /\ \E b \in Starts, n \in 0..Len(input) :
                      \E a \in b..(b + 2) : AtSuffix(b, a, n)
    /\ pc = "refused" => given /\ ~Meaningful
    /\ pc \in {"accepted", "filtered"} => IsStated /\ (given => Meaningful)
    /\ pc = "filtered" => let = {d \in Usb : Passes(address, d)}

-----------------------------------------------------------------------------
(***************************************************************************)
(* Tokens.                                                                 *)
(***************************************************************************)
IsComma(t) == t = ","
IsEnd(t) == t = "end"
IsError(t) == t = "?"

LEMMA Kinds ==
  \A t : /\ t \in Word => /\ t \notin Separator /\ ~IsComma(t)
                          /\ ~IsEnd(t) /\ ~IsError(t)
         /\ t \in Separator => ~IsComma(t) /\ ~IsEnd(t) /\ ~IsError(t)
         /\ IsComma(t) => ~IsEnd(t) /\ ~IsError(t)
         /\ IsError(t) => ~IsEnd(t)
  <1>1. \A t : t \in Word => t \notin Separator /\ t \notin {",", "?", "end"}
    <2> DEFINE Other == Separator \cup {",", "?", "end"}
    <2>1. Word \cap Other = {}
      BY WordAssumption, Zenon
    <2> HIDE DEF Other
    <2>2. \A t : t \in Word => t \notin Other
      BY <2>1
    <2> USE DEF Other
    <2> QED BY <2>2, Zenon
  <1> QED BY <1>1, Zenon DEF Separator, IsComma, IsEnd, IsError

LEMMA TokenIs ==
  \A t : t \in Token <=> t \in Word \/ t \in Separator \/ IsComma(t) \/ IsError(t)
  BY Zenon DEF Token, IsComma, IsError

LEMMA CommaIs == \A i : Comma(i) <=> i \in 1..Len(input) /\ IsComma(input[i])
  BY Zenon DEF Comma, IsComma

LEMMA CurrentIs ==
  ASSUME NEW ts
  PROVE  /\ ts = <<>> => IsEnd(Current(ts))
         /\ ts # <<>> => Current(ts) = Head(ts)
         /\ Scan(ts) = IF IsEnd(Current(ts)) \/ IsError(Current(ts)) THEN ts
                       ELSE Tail(ts)
  BY Zenon DEF Current, Scan, IsEnd, IsError

(***************************************************************************)
(* The current token and the next, by the position they have.              *)
(***************************************************************************)
LEMMA CurrentAt ==
  ASSUME input \in Seq(Token), NEW ts \in Seq(Token), NEW n, Behind(n, ts)
  PROVE  /\ n = Len(input) => IsEnd(Current(ts))
         /\ n < Len(input) => /\ Current(ts) = input[n + 1]
                              /\ input[n + 1] \in Token
                              /\ ~IsEnd(Current(ts))
  <1>1. n \in Nat /\ Len(input) \in Nat /\ n <= Len(input)
    BY DEF Behind
  <1>2. CASE n = Len(input)
    <2>1. ts = <<>>
      BY <1>2 DEF Behind
    <2> QED BY <2>1, <1>2, <1>1, CurrentIs
  <1>3. CASE n < Len(input)
    <2>1. ts # <<>> /\ Head(ts) = ts[1] /\ 1 \in 1..Len(ts)
      BY <1>3 DEF Behind
    <2>2. ts[1] = input[n + 1] /\ ts[1] \in Token
      BY <2>1 DEF Behind
    <2>3. Current(ts) = input[n + 1]
      BY <2>1, <2>2, CurrentIs
    <2> QED BY <2>2, <2>3, <1>3, <1>1, TokenIs, Kinds
  <1> QED BY <1>1, <1>2, <1>3

LEMMA ScanAt ==
  ASSUME input \in Seq(Token), NEW ts \in Seq(Token), NEW n, Behind(n, ts),
         n < Len(input), ~IsError(input[n + 1])
  PROVE  Scan(ts) \in Seq(Token) /\ Behind(n + 1, Scan(ts))
  <1>1. Scan(ts) = Tail(ts) /\ ts # <<>>
    <2>1. Current(ts) = input[n + 1] /\ ~IsEnd(Current(ts))
      BY CurrentAt
    <2> QED BY <2>1, CurrentIs DEF Behind
  <1>2. /\ Tail(ts) \in Seq(Token) /\ Len(Tail(ts)) = Len(ts) - 1
        /\ \A i \in 1..Len(Tail(ts)) : Tail(ts)[i] = ts[i + 1]
    BY <1>1
  <1>3. \A i \in 1..Len(Tail(ts)) : Tail(ts)[i] = input[n + 1 + i]
    BY <1>2 DEF Behind
  <1> QED BY <1>1, <1>2, <1>3 DEF Behind

LEMMA AheadAt ==
  ASSUME input \in Seq(Token), NEW ts \in Seq(Token), NEW n, Behind(n, ts),
         n < Len(input), ~IsError(input[n + 1])
  PROVE  /\ n + 1 = Len(input) => IsEnd(LookAhead(ts))
         /\ n + 1 < Len(input) => LookAhead(ts) = input[n + 2] /\ ~IsEnd(LookAhead(ts))
  <1>0. n \in Nat
    BY DEF Behind
  <1>1. Scan(ts) \in Seq(Token) /\ Behind(n + 1, Scan(ts))
    BY ScanAt
  <1> DEFINE m == n + 1
  <1>2. /\ m = Len(input) => IsEnd(Current(Scan(ts)))
        /\ m < Len(input) => /\ Current(Scan(ts)) = input[m + 1]
                             /\ ~IsEnd(Current(Scan(ts)))
    BY <1>1, CurrentAt
  <1>3. m + 1 = n + 2
    BY <1>0
  <1> QED BY <1>2, <1>3, Zenon DEF LookAhead

-----------------------------------------------------------------------------
(***************************************************************************)
(* Pieces.                                                                 *)
(***************************************************************************)
LEMMA LeastNatural ==
  ASSUME NEW T, T \subseteq Nat, T # {}
  PROVE  \E m \in T : \A k \in T : m <= k
  <1>1. PICK m \in T : \A k \in T : <<k, m>> \notin OpToRel(<, Nat)
    BY WFMin, NatLessThanWellFounded, Zenon
  <1>2. \A k \in T : ~(k < m)
    BY <1>1, Zenon DEF OpToRel
  <1> QED BY <1>2

LEMMA EndUnique ==
  ASSUME input \in Seq(Token), NEW b \in Starts,
         NEW e \in (b - 1)..Len(input), EndsAt(b, e)
  PROVE  End(b) = e
  <1>1. b \in 1..(Len(input) + 1) /\ Len(input) \in Nat
    BY DEF Starts
  <1>2. ASSUME NEW d \in (b - 1)..Len(input), EndsAt(b, d) PROVE d = e
    <2>1. ~(d < e)
      <3> SUFFICES ASSUME d < e PROVE FALSE
        OBVIOUS
      <3>1. Comma(d + 1) /\ d + 1 \in b..e
        BY <1>1, <1>2 DEF EndsAt
      <3> QED BY <3>1 DEF EndsAt
    <2>2. ~(e < d)
      <3> SUFFICES ASSUME e < d PROVE FALSE
        OBVIOUS
      <3>1. Comma(e + 1) /\ e + 1 \in b..d
        BY <1>1, <1>2 DEF EndsAt
      <3> QED BY <3>1, <1>2 DEF EndsAt
    <2> QED BY <2>1, <2>2, <1>1
  <1>3. \E x \in (b - 1)..Len(input) : EndsAt(b, x)
    OBVIOUS
  <1>4. End(b) \in (b - 1)..Len(input) /\ EndsAt(b, End(b))
    BY <1>3, Zenon DEF End
  <1> QED BY <1>2, <1>4, Zenon

LEMMA EndExists ==
  ASSUME input \in Seq(Token), NEW b \in Starts
  PROVE  End(b) \in (b - 1)..Len(input) /\ EndsAt(b, End(b))
  <1>1. b \in 1..(Len(input) + 1) /\ Len(input) \in Nat
    BY DEF Starts
  <1> DEFINE T == {e \in (b - 1)..Len(input) : e = Len(input) \/ Comma(e + 1)}
  <1>2. T \subseteq Nat /\ Len(input) \in T
    BY <1>1
  <1>3. PICK e \in T : \A k \in T : e <= k
    <2> HIDE DEF T
    <2> QED BY <1>2, LeastNatural, Zenon
  <1>4. \A i \in b..e : ~Comma(i)
    <2> SUFFICES ASSUME NEW i \in b..e, Comma(i) PROVE FALSE
      OBVIOUS
    <2>1. i - 1 \in (b - 1)..Len(input) /\ (i - 1) + 1 = i
      BY <1>1
    <2>2. i - 1 \in T
      BY <2>1
    <2>3. e <= i - 1
      BY <2>2, <1>3
    <2> QED BY <2>3, <1>1
  <1>5. EndsAt(b, e) /\ e \in (b - 1)..Len(input)
    BY <1>4 DEF EndsAt
  <1> QED BY <1>5, EndUnique, Zenon

(***************************************************************************)
(* Where the suffixes begin, the piece has one reading or none.            *)
(***************************************************************************)
LEMMA ReadingIs ==
  ASSUME NEW b, NEW r
  PROVE  r \in Readings(b) <=>
           \/ b <= End(b) /\ IsSuffixes(b, End(b)) /\ r = SuffixesOf(b, End(b))
           \/ /\ HasHead(b, End(b)) /\ IsSuffixes(b + 1, End(b))
              /\ r = {HeadOf(b)} \cup SuffixesOf(b + 1, End(b))
           \/ /\ HasHead(b, End(b)) /\ IsSuffixes(b + 2, End(b))
              /\ b + 2 <= End(b) => input[b + 2] # input[b + 1]
              /\ r = {HeadOf(b)} \cup SuffixesOf(b + 2, End(b))
  <1> DEFINE e == End(b)
             A == b <= e /\ IsSuffixes(b, e)
             B == HasHead(b, e) /\ IsSuffixes(b + 1, e)
             C == /\ HasHead(b, e)
                  /\ IsSuffixes(b + 2, e) /\ (b + 2 <= e => input[b + 2] # input[b + 1])
             x == SuffixesOf(b, e)
             y == {HeadOf(b)} \cup SuffixesOf(b + 1, e)
             z == {HeadOf(b)} \cup SuffixesOf(b + 2, e)
  <1>1. Readings(b) = (IF A THEN {x} ELSE {}) \cup (IF B THEN {y} ELSE {})
                      \cup (IF C THEN {z} ELSE {})
    BY Zenon DEF Readings
  <1> HIDE DEF A, B, C, x, y, z
  <1>2. r \in Readings(b) <=> (A /\ r = x) \/ (B /\ r = y) \/ (C /\ r = z)
    BY <1>1
  <1> QED BY <1>2, Zenon DEF A, B, C, x, y, z

LEMMA NoComma ==
  ASSUME input \in Seq(Token), NEW i \in 1..Len(input),
         input[i] \in Word \/ input[i] \in Separator
  PROVE  ~Comma(i)
  BY Kinds, CommaIs

LEMMA EndBehind ==
  ASSUME input \in Seq(Token), NEW b \in Starts, NEW n \in b..Len(input),
         \A i \in b..n : ~Comma(i)
  PROVE  End(b) >= n /\ End(b) \in Nat
  <1>1. b \in 1..(Len(input) + 1) /\ Len(input) \in Nat
    BY DEF Starts
  <1>2. End(b) \in (b - 1)..Len(input) /\ EndsAt(b, End(b))
    BY EndExists
  <1> SUFFICES ASSUME End(b) < n PROVE FALSE
    BY <1>1, <1>2
  <1>3. Comma(End(b) + 1) /\ End(b) + 1 \in b..n
    BY <1>1, <1>2 DEF EndsAt
  <1> QED BY <1>3

LEMMA ReadingsAre ==
  ASSUME input \in Seq(Token), NEW b \in Starts, NEW a \in b..(b + 2), Begins(b, a)
  PROVE  /\ End(b) >= a - 1 /\ End(b) >= b /\ End(b) \in Nat
         /\ Readings(b) = IF IsSuffixes(a, End(b)) THEN {Part(b, a, End(b))} ELSE {}
  <1>1. b \in 1..(Len(input) + 1) /\ Len(input) \in Nat
    BY DEF Starts
  <1>2. End(b) \in (b - 1)..Len(input)
    BY EndExists
  <1> DEFINE e == End(b)
  <1>3. CASE a = b
    <2>1. b <= Len(input) /\ input[b] \in Separator /\ input[b] \notin Word
      BY <1>1, <1>3, Kinds DEF Begins, IsHead
    <2>2. e >= b
      <3>1. ~Comma(b)
        BY <1>1, <2>1, NoComma
      <3> QED BY <1>1, <2>1, <3>1, EndBehind
    <2>3. ~HasHead(b, e)
      BY <2>1 DEF HasHead
    <2>4. Part(b, a, e) = SuffixesOf(b, e)
      BY <1>3 DEF Part
    <2>5. \A r : r \in Readings(b) <=> IsSuffixes(a, e) /\ r = Part(b, a, e)
      BY <1>3, <2>2, <2>3, <2>4, ReadingIs
    <2> QED BY <1>1, <1>2, <1>3, <2>2, <2>5
  <1>4. CASE a = b + 1
    <2>1. /\ IsHead(b)
          /\ b + 2 <= Len(input) /\ input[b + 2] \in Word \cup {input[b + 1]}
      BY <1>1, <1>4 DEF Begins
    <2>2. /\ input[b] \in Word /\ input[b + 1] \in Separator
          /\ input[b] \notin Separator /\ input[b + 1] \notin Word
      BY <2>1, Kinds DEF IsHead
    <2>3. e >= b + 2
      <3>1. ~Comma(b) /\ ~Comma(b + 1) /\ ~Comma(b + 2)
        BY <1>1, <2>1, <2>2, NoComma
      <3>2. \A i \in b..(b + 2) : ~Comma(i)
        BY <3>1, <1>1
      <3> QED BY <1>1, <2>1, <3>2, EndBehind
    <2>4. HasHead(b, e) /\ ~IsSuffixes(b, e)
      BY <1>1, <1>2, <2>2, <2>3 DEF HasHead, IsSuffixes
    <2>5. ~(/\ IsSuffixes(b + 2, e)
            /\ b + 2 <= e => input[b + 2] # input[b + 1])
      <3>1. input[b + 2] \in Word => input[b + 2] \notin Separator
        BY Kinds
      <3> QED BY <1>1, <1>2, <2>1, <2>3, <3>1 DEF IsSuffixes
    <2>6. Part(b, a, e) = {HeadOf(b)} \cup SuffixesOf(b + 1, e)
      BY <1>1, <1>4 DEF Part
    <2>7. \A r : r \in Readings(b) <=> IsSuffixes(a, e) /\ r = Part(b, a, e)
      BY <1>4, <2>4, <2>5, <2>6, ReadingIs
    <2> QED BY <1>1, <1>2, <1>4, <2>3, <2>7
  <1>5. CASE a = b + 2
    <2>1. /\ IsHead(b)
          /\ b + 2 <= Len(input) => input[b + 2] \notin Word \cup {input[b + 1]}
      BY <1>1, <1>5 DEF Begins
    <2>2. /\ input[b] \in Word /\ input[b + 1] \in Separator
          /\ input[b] \notin Separator /\ input[b + 1] \notin Word
      BY <2>1, Kinds DEF IsHead
    <2>3. e >= b + 1
      <3>1. ~Comma(b) /\ ~Comma(b + 1)
        BY <1>1, <2>1, <2>2, NoComma DEF IsHead
      <3>2. \A i \in b..(b + 1) : ~Comma(i)
        BY <3>1, <1>1
      <3> QED BY <1>1, <2>1, <3>2, EndBehind DEF IsHead
    <2>4. HasHead(b, e) /\ ~IsSuffixes(b, e)
      BY <1>1, <1>2, <2>2, <2>3 DEF HasHead, IsSuffixes
    <2>5. ~IsSuffixes(b + 1, e)
      <3>1. CASE e = b + 1
        BY <1>1, <2>2, <3>1 DEF IsSuffixes
      <3>2. CASE b + 2 <= e
        BY <1>1, <1>2, <2>1, <2>2, <3>2 DEF IsSuffixes
      <3> QED BY <3>1, <3>2, <2>3, <1>1, <1>2
    <2>6. b + 2 <= e => input[b + 2] # input[b + 1]
      BY <1>1, <1>2, <2>1
    <2>7. Part(b, a, e) = {HeadOf(b)} \cup SuffixesOf(b + 2, e)
      BY <1>1, <1>5 DEF Part
    <2>8. \A r : r \in Readings(b) <=> IsSuffixes(a, e) /\ r = Part(b, a, e)
      BY <1>5, <2>4, <2>5, <2>6, <2>7, ReadingIs
    <2> QED BY <1>1, <1>2, <1>5, <2>3, <2>8
  <1> QED BY <1>1, <1>3, <1>4, <1>5

(***************************************************************************)
(* A piece that was read to its end, and a piece that cannot be read on.   *)
(***************************************************************************)
LEMMA WholePiece ==
  ASSUME input \in Seq(Token), NEW b \in Starts, NEW a \in b..(b + 2), Begins(b, a),
         IsSuffixes(a, End(b)), Reads(Part(b, a, End(b)))
  PROVE  Readings(b) = {Part(b, a, End(b))} /\ Fine(b)
  <1>1. Readings(b) = {Part(b, a, End(b))}
    BY ReadingsAre
  <1> QED BY <1>1, Zenon DEF Fine

LEMMA InPart ==
  ASSUME NEW b, NEW a, NEW n, NEW m \in a..n, input[m] \in Word
  PROVE  Statement(SuffixField(input[m - 1]), m) \in Part(b, a, n)
  <1>1. Statement(SuffixField(input[m - 1]), m) \in SuffixesOf(a, n)
    BY DEF SuffixesOf
  <1> QED BY <1>1, Zenon DEF Part

LEMMA ValueIs ==
  ASSUME NEW f, NEW p
  PROVE  /\ Value(Statement(f, p)) = Decode(f, input[p])
         /\ Statement(f, p).field = f /\ Statement(f, p).at = p
  BY DEF Value, Statement

LEMMA SuffixRefused ==
  ASSUME input \in Seq(Token), NEW b \in Starts, NEW a \in b..(b + 2), Begins(b, a),
         NEW n \in Nat, n >= a - 1, n + 1 <= End(b), IsSuffixes(a, n),
         ~(/\ input[n + 1] \in Separator
           /\ n + 2 <= Len(input) /\ input[n + 2] \in Word
           /\ Decode(SuffixField(input[n + 1]), input[n + 2]) # Bad)
  PROVE  ~Fine(b)
  <1>1. b \in 1..(Len(input) + 1) /\ Len(input) \in Nat
    BY DEF Starts
  <1> DEFINE e == End(b)
  <1>2. e \in (b - 1)..Len(input)
    BY EndExists
  <1> SUFFICES ASSUME Fine(b) PROVE FALSE
    OBVIOUS
  <1>3. Readings(b) = IF IsSuffixes(a, e) THEN {Part(b, a, e)} ELSE {}
    BY ReadingsAre
  <1> HIDE DEF e
  <1>4. IsSuffixes(a, e) /\ Reads(Part(b, a, e))
    BY <1>3, Zenon DEF Fine
  <1>5. /\ input[a] \in Separator /\ input[e] \in Word
        /\ \A m \in a..(e - 1) :
               \/ input[m] \in Separator /\ input[m + 1] \in Word
               \/ input[m] \in Word /\ input[m + 1] \in Separator
    BY <1>1, <1>2, <1>4 DEF IsSuffixes, e
  <1>6. input[n + 1] \in Separator
    <2>1. CASE n = a - 1
      <3>1. n + 1 = a
        BY <1>1, <2>1
      <3> QED BY <3>1, <1>5
    <2>2. CASE n >= a
      <3>1. input[n] \in Word /\ input[n] \notin Separator
        BY <1>1, <2>2, Kinds DEF IsSuffixes
      <3>2. n \in a..(e - 1)
        BY <1>1, <1>2, <2>2 DEF e
      <3> QED BY <3>1, <3>2, <1>5
    <2> QED BY <2>1, <2>2, <1>1
  <1>7. n + 1 # e
    BY <1>5, <1>6, Kinds
  <1>8. /\ n + 1 \in a..(e - 1) /\ n + 2 \in a..e
        /\ (n + 1) + 1 = n + 2 /\ (n + 2) - 1 = n + 1
    BY <1>1, <1>2, <1>7 DEF e
  <1>9. input[n + 2] \in Word
    BY <1>5, <1>6, <1>8, Kinds
  <1> DEFINE s == Statement(SuffixField(input[n + 1]), n + 2)
  <1>10. s \in Part(b, a, e)
    <2> DEFINE m == n + 2
    <2>1. Statement(SuffixField(input[m - 1]), m) \in Part(b, a, e)
      BY <1>8, <1>9, InPart
    <2> QED BY <2>1, <1>8
  <1>11. Value(s) # Bad
    BY <1>10, <1>4, Zenon DEF Reads
  <1>12. Decode(SuffixField(input[n + 1]), input[n + 2]) # Bad
    BY <1>11, ValueIs, Zenon
  <1> QED BY <1>2, <1>6, <1>8, <1>9, <1>12 DEF e

LEMMA TermRefused ==
  ASSUME input \in Seq(Token), NEW b \in Starts,
         b <= Len(input) => input[b] \notin Separator,
         ~(IsHead(b) /\ Decode(HeadField(input[b + 1]), input[b]) # Bad)
  PROVE  ~Fine(b)
  <1>1. b \in 1..(Len(input) + 1) /\ Len(input) \in Nat
    BY DEF Starts
  <1> DEFINE e == End(b)
  <1>2. e \in (b - 1)..Len(input)
    BY EndExists
  <1> SUFFICES ASSUME NEW r \in Readings(b), Reads(r) PROVE FALSE
    BY Zenon DEF Fine
  <1>3. ~(b <= e /\ IsSuffixes(b, e))
    BY <1>1, <1>2 DEF IsSuffixes
  <1>4. HasHead(b, e) /\ HeadOf(b) \in r
    BY <1>3, ReadingIs
  <1>5. IsHead(b)
    BY <1>1, <1>2, <1>4 DEF HasHead, IsHead
  <1>6. Value(HeadOf(b)) # Bad
    BY <1>4, Zenon DEF Reads
  <1>7. Decode(HeadField(input[b + 1]), input[b]) # Bad
    BY <1>6, ValueIs, Zenon DEF HeadOf
  <1> QED BY <1>5, <1>7

(***************************************************************************)
(* One more suffix, and one more statement.                                *)
(***************************************************************************)
LEMMA MoreSuffixes ==
  ASSUME NEW a \in Nat, NEW n \in Nat, n >= a - 1, IsSuffixes(a, n),
         input[n + 1] \in Separator, input[n + 2] \in Word
  PROVE  /\ IsSuffixes(a, n + 2)
         /\ SuffixesOf(a, n + 2) =
               SuffixesOf(a, n) \cup {Statement(SuffixField(input[n + 1]), n + 2)}
  <1>1. IsSuffixes(a, n + 2)
    <2>1. input[a] \in Separator
      BY DEF IsSuffixes
    <2>2. ASSUME NEW m \in a..(n + 1)
          PROVE  \/ input[m] \in Separator /\ input[m + 1] \in Word
                 \/ input[m] \in Word /\ input[m + 1] \in Separator
      <3>1. CASE m < n
        BY <3>1 DEF IsSuffixes
      <3>2. CASE m = n
        <4>1. input[m] \in Word
          BY <3>2 DEF IsSuffixes
        <4> QED BY <3>2, <4>1
      <3>3. CASE m = n + 1
        <4>1. m + 1 = n + 2
          BY <3>3
        <4> QED BY <3>3, <4>1
      <3> QED BY <3>1, <3>2, <3>3
    <2>3. (n + 2) - 1 = n + 1
      OBVIOUS
    <2> QED BY <2>1, <2>2, <2>3 DEF IsSuffixes
  <1>2. {m \in a..(n + 2) : input[m] \in Word} =
            {m \in a..n : input[m] \in Word} \cup {n + 2}
    <2>1. input[n + 1] \notin Word
      BY Kinds
    <2> QED BY <2>1
  <1>3. (n + 2) - 1 = n + 1
    OBVIOUS
  <1> QED BY <1>1, <1>2, <1>3 DEF SuffixesOf

LEMMA HoldsMore ==
  ASSUME NEW adr, NEW S, NEW n \in Nat, Holds(adr, S, n),
         NEW f \in Field, NEW p \in Nat, n < p, NEW q \in Nat, p <= q,
         DOMAIN adr = Field
  PROVE  Holds([adr EXCEPT ![f] = Decode(f, input[p])], S \cup {Statement(f, p)}, q)
  <1> DEFINE s == Statement(f, p)
             T == S \cup {s}
             adr2 == [adr EXCEPT ![f] = Decode(f, input[p])]
  <1>1. Value(s) = Decode(f, input[p]) /\ s.field = f /\ s.at = p
    BY ValueIs
  <1>2. adr2[f] = Value(s) /\ \A g \in Field : g # f => adr2[g] = adr[g]
    BY <1>1
  <1> HIDE DEF s, adr2
  <1>3. ASSUME NEW t \in T
        PROVE  t.field \in Field /\ t.at \in 1..q /\ t = Statement(t.field, t.at)
    <2>1. CASE t \in S
      BY <2>1 DEF Holds
    <2>2. CASE t = s
      <3>1. t = Statement(t.field, t.at)
        BY <2>2, <1>1 DEF s
      <3> QED BY <3>1, <2>2, <1>1
    <2> QED BY <2>1, <2>2
  <1>4. ASSUME NEW g \in Field
        PROVE  \/ adr2[g] = 0 /\ \A t \in T : t.field # g
               \/ \E t \in T : /\ t.field = g /\ adr2[g] = Value(t)
                               /\ \A u \in T : u.field = g => u.at <= t.at
    <2>1. CASE g = f
      <3>1. \A u \in T : u.at <= s.at
        BY <1>1 DEF Holds
      <3> QED BY <2>1, <3>1, <1>1, <1>2
    <2>2. CASE g # f
      <3>1. s.field # g
        BY <2>2, <1>1
      <3>2. \/ adr[g] = 0 /\ \A t \in S : t.field # g
            \/ \E t \in S : /\ t.field = g /\ adr[g] = Value(t)
                            /\ \A u \in S : u.field = g => u.at <= t.at
        BY Zenon DEF Holds
      <3> QED BY <2>2, <3>1, <3>2, <1>2
    <2> QED BY <2>1, <2>2
  <1>5. Holds(adr2, T, q)
    BY <1>3, <1>4, Zenon DEF Holds
  <1> QED BY <1>5 DEF adr2, s

(***************************************************************************)
(* When the input stays what it is, so does what it means.                 *)
(***************************************************************************)
LEMMA SamePieces ==
  ASSUME input' = input
  PROVE  /\ Starts' = Starts
         /\ \A i : Comma(i)' <=> Comma(i)
         /\ \A b, a : Begins(b, a)' <=> Begins(b, a)
         /\ \A i, j : IsSuffixes(i, j)' <=> IsSuffixes(i, j)
         /\ \A b, a, n : Part(b, a, n)' = Part(b, a, n)
         /\ \A b : Readings(b)' = Readings(b)
         /\ \A s : Value(s)' = Value(s)
  <1>1. \A i : Comma(i)' <=> Comma(i)
    BY Zenon DEF Comma
  <1>2. Starts' = Starts
    BY Zenon DEF Starts, Comma
  <1>3. \A b, a : Begins(b, a)' <=> Begins(b, a)
    BY ZenonT(60) DEF Begins, IsHead
  <1>4. \A i, j : IsSuffixes(i, j)' <=> IsSuffixes(i, j)
    <2> SUFFICES ASSUME NEW i, NEW j PROVE IsSuffixes(i, j)' <=> IsSuffixes(i, j)
      OBVIOUS
    <2> QED BY DEF IsSuffixes
  <1>5. \A b, a, n : Part(b, a, n)' = Part(b, a, n)
    BY Zenon DEF Part, HeadOf, SuffixesOf
  <1>6. \A b : Readings(b)' = Readings(b)
    <2>1. \A b : End(b)' = End(b)
      BY Zenon DEF End, EndsAt, Comma
    <2>2. \A i, j : SuffixesOf(i, j)' = SuffixesOf(i, j)
      BY Zenon DEF SuffixesOf
    <2>3. \A b, e : HasHead(b, e)' <=> HasHead(b, e)
      BY Zenon DEF HasHead
    <2>4. \A b : HeadOf(b)' = HeadOf(b)
      BY Zenon DEF HeadOf
    <2> SUFFICES ASSUME NEW b PROVE Readings(b)' = Readings(b)
      OBVIOUS
    <2>5. (End(b) = End(b)') /\ (HeadOf(b)' = HeadOf(b))
      BY <2>1, <2>4
    <2> QED BY <1>4, <2>2, <2>3, <2>5 DEF Readings
  <1>7. \A s : Value(s)' = Value(s)
    BY Zenon DEF Value
  <1> QED BY <1>1, <1>2, <1>3, <1>4, <1>5, <1>6, <1>7

LEMMA SameMeaning ==
  ASSUME input' = input
  PROVE  /\ \A b : Fine(b)' <=> Fine(b)
         /\ \A n : Said(n)' = Said(n)
         /\ \A r : Reads(r)' <=> Reads(r)
         /\ \A adr, S, n : Holds(adr, S, n)' <=> Holds(adr, S, n)
         /\ \A n, ts : Behind(n, ts)' <=> Behind(n, ts)
         /\ Meaningful' <=> Meaningful
         /\ \A f : Stated(f)' = Stated(f)
  <1>1. /\ Starts' = Starts /\ \A b : Readings(b)' = Readings(b)
        /\ \A s : Value(s)' = Value(s)
    BY SamePieces
  <1>2. \A r : Reads(r)' <=> Reads(r)
    BY <1>1, Zenon DEF Reads
  <1>3. \A b : Fine(b)' <=> Fine(b)
    BY <1>1, <1>2, Zenon DEF Fine
  <1>4. \A n : Said(n)' = Said(n)
    <2> SUFFICES ASSUME NEW n PROVE Said(n)' = Said(n)
      OBVIOUS
    <2>1. {Readings(b)' : b \in {b \in Starts' : b <= n}}
              = {Readings(b) : b \in {b \in Starts : b <= n}}
      BY <1>1
    <2> QED BY <2>1, Zenon DEF Said
  <1>5. \A adr, S, n : Holds(adr, S, n)' <=> Holds(adr, S, n)
    BY <1>1, Zenon DEF Holds
  <1>6. \A n, ts : Behind(n, ts)' <=> Behind(n, ts)
    BY Zenon DEF Behind
  <1>7. Meaningful' <=> Meaningful
    BY <1>1, Zenon DEF Meaningful
  <1>8. \A f : Stated(f)' = Stated(f)
    <2>1. {Readings(b)' : b \in Starts'} = {Readings(b) : b \in Starts}
      BY <1>1
    <2>2. Statements' = Statements
      BY <2>1, Zenon DEF Statements
    <2> QED BY <1>1, <2>2 DEF Stated
  <1> QED BY <1>2, <1>3, <1>4, <1>5, <1>6, <1>7, <1>8

(***************************************************************************)
(* A piece has ended.                                                      *)
(***************************************************************************)
LEMMA PieceDone ==
  ASSUME input \in Seq(Token), NEW b \in Starts, NEW a \in b..(b + 2), Begins(b, a),
         NEW n \in (b - 1)..Len(input), \A i \in b..n : ~Comma(i),
         n = Len(input) \/ Comma(n + 1),
         IsSuffixes(a, n), Reads(Part(b, a, n)), \A c \in Starts : c < b => Fine(c)
  PROVE  /\ \A c \in Starts : c <= n + 1 => Fine(c)
         /\ Said(n + 1) = Said(b - 1) \cup Part(b, a, n)
  <1>1. b \in 1..(Len(input) + 1) /\ Len(input) \in Nat
    BY DEF Starts
  <1>2. End(b) = n
    BY EndUnique DEF EndsAt
  <1>3. Readings(b) = {Part(b, a, n)} /\ Fine(b)
    BY <1>2, WholePiece
  <1>4. \A c \in Starts : c \in Int /\ (c <= n + 1 <=> c <= b - 1 \/ c = b)
    <2>1. ASSUME NEW c \in Starts, b < c, c <= n + 1 PROVE FALSE
      <3>1. Comma(c - 1) /\ c - 1 \in b..n
        BY <1>1, <2>1 DEF Starts
      <3> QED BY <3>1
    <2>2. \A c \in Starts : c \in Int
      BY DEF Starts
    <2>3. b <= n + 1
      BY <1>1
    <2> QED BY <1>1, <2>1, <2>2, <2>3
  <1>5. {c \in Starts : c <= n + 1} = {c \in Starts : c <= b - 1} \cup {b}
    BY <1>4
  <1>6. {Readings(c) : c \in {c \in Starts : c <= n + 1}} =
        {Readings(c) : c \in {c \in Starts : c <= b - 1}} \cup {{Part(b, a, n)}}
    <2> DEFINE Y == {c \in Starts : c <= n + 1}
               X == {c \in Starts : c <= b - 1}
    <2>1. Y = X \cup {b}
      BY <1>5
    <2> HIDE DEF X, Y
    <2>2. {Readings(c) : c \in Y} = {Readings(c) : c \in X} \cup {Readings(b)}
      BY <2>1
    <2> QED BY <2>2, <1>3 DEF X, Y
  <1>7. Said(n + 1) = Said(b - 1) \cup Part(b, a, n)
    <2> DEFINE X == {Readings(c) : c \in {c \in Starts : c <= b - 1}}
               P == Part(b, a, n)
    <2>1. Said(n + 1) = UNION UNION (X \cup {{P}}) /\ Said(b - 1) = UNION UNION X
      BY <1>6 DEF Said
    <2> HIDE DEF X, P
    <2>2. UNION UNION (X \cup {{P}}) = (UNION UNION X) \cup P
      OBVIOUS
    <2> QED BY <2>1, <2>2 DEF P
  <1>8. \A c \in Starts : c <= n + 1 => Fine(c)
    BY <1>1, <1>3, <1>4
  <1> QED BY <1>7, <1>8

(***************************************************************************)
(* The last statement of a field is its stated value.                      *)
(***************************************************************************)
LEMMA StatedIs ==
  ASSUME NEW n, Holds(address, Statements, n)
  PROVE  IsStated
  <1> SUFFICES ASSUME NEW f \in Field PROVE address[f] = Stated(f)
    BY DEF IsStated
  <1> DEFINE of == {s \in Statements : s.field = f}
             Last(s) == \A t \in of : t.at <= s.at
  <1>1. Stated(f) = IF of = {} THEN 0 ELSE Value(CHOOSE s \in of : Last(s))
    BY DEF Stated
  <1>2. CASE address[f] = 0 /\ \A s \in Statements : s.field # f
    BY <1>1, <1>2
  <1>3. CASE \E s \in Statements : /\ s.field = f /\ address[f] = Value(s)
                                   /\ \A t \in Statements : t.field = f => t.at <= s.at
    <2>1. PICK s \in of : address[f] = Value(s) /\ Last(s)
      BY <1>3
    <2>2. ASSUME NEW t \in of, Last(t) PROVE t = s
      <3>1. /\ t.at \in Int /\ s.at \in Int /\ t.field = s.field
            /\ t = Statement(t.field, t.at) /\ s = Statement(s.field, s.at)
        BY <2>1 DEF Holds
      <3>2. t.at = s.at
        BY <3>1, <2>1, <2>2
      <3> QED BY <3>1, <3>2
    <2> HIDE DEF of, Last
    <2>3. (CHOOSE x \in of : Last(x)) = s
      BY <2>1, <2>2
    <2> QED BY <1>1, <2>1, <2>3
  <1> QED BY <1>2, <1>3 DEF Holds

-----------------------------------------------------------------------------
(***************************************************************************)
(* The invariant.                                                          *)
(***************************************************************************)
LEMMA Fields ==
  /\ \A t : HeadField(t) \in Field
  /\ \A t \in Separator : SuffixField(t) \in Field
  BY Zenon DEF HeadField, SuffixField, Field, Separator

LEMMA Widths == Uint8 \subseteq Uint16 /\ 0 \in Uint16
  <1>1. UINT8_MAX \in Nat /\ UINT16_MAX \in Nat /\ UINT8_MAX <= UINT16_MAX
    BY DEF UINT8_MAX, UINT16_MAX
  <1> QED BY <1>1 DEF Uint8, Uint16

LEMMA DecodeType ==
  ASSUME NEW f, NEW w \in Word, Decode(f, w) # Bad
  PROVE  Decode(f, w) \in Uint16
  <1>1. Hex[w] \in Uint16 \cup {Bad} /\ Dec[w] \in Uint8 \cup {Bad}
    <2>1. Hex \in [Word -> Uint16 \cup {Bad}] /\ Dec \in [Word -> Uint8 \cup {Bad}]
      BY WordAssumption, ZenonT(60)
    <2> QED BY <2>1
  <1>2. Uint8 \subseteq Uint16
    BY Widths
  <1> QED BY <1>1, <1>2 DEF Decode

LEMMA AddressType ==
  ASSUME NEW adr \in Address, NEW f \in Field, NEW v \in Uint16
  PROVE  [adr EXCEPT ![f] = v] \in Address /\ DOMAIN adr = Field
  BY DEF Address

LEMMA NothingSaid ==
  Said(0) = {} /\ Holds(Unspecified, {}, 0) /\ Unspecified \in Address
  <1>1. {b \in Starts : b <= 0} = {}
    BY DEF Starts
  <1>2. Said(0) = {}
    <2> DEFINE X == {b \in Starts : b <= 0}
    <2>1. UNION UNION {Readings(b) : b \in X} = {}
      <3> HIDE DEF X
      <3>1. X = {}
        BY <1>1 DEF X
      <3> QED BY <3>1
    <2> QED BY <2>1, Zenon DEF Said
  <1>3. Holds(Unspecified, {}, 0)
    <2>1. \A f \in Field : Unspecified[f] = 0
      BY Zenon DEF Unspecified
    <2> QED BY <2>1, Zenon DEF Holds
  <1>4. Unspecified \in Address
    <2>1. 0 \in Uint16
      BY Widths
    <2> QED BY <2>1, Zenon DEF Unspecified, Address
  <1> QED BY <1>2, <1>3, <1>4

LEMMA InitInv == Init => Inv
  <1> SUFFICES ASSUME Init PROVE Inv
    OBVIOUS
  <1>1. tokens = input /\ address = Unspecified /\ let = {}
    BY DEF Init
  <1>2. CASE given = TRUE /\ input \in Spelling /\ pc = "term"
    <2>1. Typed
      BY <1>1, <1>2, NothingSaid, SpellingAssumption DEF Typed
    <2>2. Len(input) \in Nat /\ 0 \in 0..Len(input) /\ 0 + 1 \in Starts
      BY <2>1 DEF Typed, Starts
    <2>3. Behind(0, tokens)
      BY <1>1, <2>2 DEF Behind
    <2>4. \A b \in Starts : b <= 0 => Fine(b)
      BY DEF Starts
    <2>5. AtTerm(0)
      BY <1>1, <2>2, <2>3, <2>4, NothingSaid DEF AtTerm
    <2> QED BY <1>2, <2>1, <2>2, <2>5 DEF Inv
  <1>3. CASE given = FALSE /\ input = <<>> /\ pc = "accepted"
    <2>1. Typed
      <3>1. input \in Seq(Token)
        BY <1>3
      <3> QED BY <1>1, <1>3, <3>1, NothingSaid DEF Typed
    <2>2. Starts = {1} /\ Len(input) = 0 /\ input \in Seq(Token)
      <3>1. Len(input) = 0 /\ input \in Seq(Token)
      BY <1>3
    <3>2. \A i : ~Comma(i)
      BY <3>1, CommaIs
    <3> QED BY <3>1, <3>2 DEF Starts
    <2>3. End(1) = 0
      BY <2>2, EndExists
    <2>4. Readings(1) = {}
      BY <2>3, ReadingIs DEF HasHead
    <2>5. Statements = {}
      BY <2>2, <2>4 DEF Statements
    <2>6. IsStated
      BY <2>5, <1>1, NothingSaid, StatedIs, Zenon
    <2> QED BY <1>3, <2>1, <2>6 DEF Inv
  <1> QED BY <1>2, <1>3 DEF Init

(***************************************************************************)
(* From a term to its suffixes: the parser finds where they begin.         *)
(***************************************************************************)
LEMMA AfterHeadAt ==
  ASSUME input \in Seq(Token), NEW n \in 0..Len(input), n + 1 \in Starts,
         tokens \in Seq(Token), Behind(n, tokens),
         Current(tokens) \in Word, LookAhead(tokens) \in Separator
  PROVE  /\ IsHead(n + 1) /\ Current(tokens) = input[n + 1]
         /\ LookAhead(tokens) = input[n + 2] /\ AfterHead(tokens) \in Seq(Token)
         /\ \E a \in (n + 2)..(n + 3) :
               Begins(n + 1, a) /\ Behind(a - 1, AfterHead(tokens))
  <1>1. n \in Nat /\ Len(input) \in Nat /\ (n + 1) + 1 = n + 2 /\ (n + 1) + 2 = n + 3
    OBVIOUS
  <1>2. n < Len(input) /\ Current(tokens) = input[n + 1]
    BY <1>1, CurrentAt, Kinds
  <1>3. ~IsError(input[n + 1])
    BY <1>2, Kinds
  <1>4. n + 1 < Len(input) /\ LookAhead(tokens) = input[n + 2]
    BY <1>1, <1>2, <1>3, AheadAt, Kinds
  <1>5. IsHead(n + 1)
    BY <1>1, <1>2, <1>4 DEF IsHead
  <1> DEFINE rest == Scan(tokens)
  <1>6. rest \in Seq(Token) /\ Behind(n + 1, rest)
    BY <1>2, <1>3, ScanAt
  <1> HIDE DEF rest
  <1> DEFINE m == n + 1
  <1>7. m < Len(input) /\ ~IsError(input[m + 1]) /\ Behind(m, rest) /\ m \in Nat
    BY <1>1, <1>4, <1>6, Kinds
  <1>8. /\ m + 1 = Len(input) => IsEnd(LookAhead(rest))
        /\ m + 1 < Len(input) => LookAhead(rest) = input[m + 2]
        /\ Current(rest) = input[m + 1]
        /\ Scan(rest) \in Seq(Token) /\ Behind(m + 1, Scan(rest))
    <2> HIDE DEF m
    <2> QED BY <1>6, <1>7, AheadAt, CurrentAt, ScanAt
  <1>9. /\ n + 2 = Len(input) => IsEnd(LookAhead(rest))
        /\ n + 2 < Len(input) => LookAhead(rest) = input[n + 3]
        /\ Current(rest) = input[n + 2]
        /\ Scan(rest) \in Seq(Token) /\ Behind(n + 2, Scan(rest))
    <2>1. m + 1 = n + 2 /\ m + 2 = n + 3
      BY <1>1
    <2> HIDE DEF m
    <2> QED BY <1>8, <2>1
  <1>10. CASE LookAhead(rest) \in Word \cup {Current(rest)}
    <2>1. AfterHead(tokens) = rest
      BY <1>10 DEF AfterHead, rest
    <2>2. n + 2 < Len(input) /\ input[n + 3] \in Word \cup {input[n + 2]}
      BY <1>1, <1>4, <1>9, <1>10, Kinds
    <2>3. Begins(n + 1, n + 2)
      BY <1>1, <1>5, <2>2 DEF Begins
    <2>4. (n + 2) - 1 = n + 1
      BY <1>1
    <2> QED BY <1>1, <1>2, <1>4, <1>5, <1>6, <2>1, <2>3, <2>4
  <1>11. CASE LookAhead(rest) \notin Word \cup {Current(rest)}
    <2>1. AfterHead(tokens) = Scan(rest)
      BY <1>11 DEF AfterHead, rest
    <2>2. n + 3 <= Len(input) => input[n + 3] \notin Word \cup {input[n + 2]}
      BY <1>1, <1>9, <1>11
    <2>3. Begins(n + 1, n + 3)
      BY <1>1, <1>5, <2>2 DEF Begins
    <2>4. (n + 3) - 1 = n + 2
      BY <1>1
    <2> QED BY <1>1, <1>2, <1>4, <1>5, <1>9, <2>1, <2>3, <2>4
  <1> QED BY <1>10, <1>11

LEMMA NoSuffixes ==
  ASSUME NEW a \in Int
  PROVE  IsSuffixes(a, a - 1) /\ SuffixesOf(a, a - 1) = {}
  <1>1. a..(a - 1) = {} /\ a..((a - 1) - 1) = {}
    OBVIOUS
  <1> QED BY <1>1 DEF IsSuffixes, SuffixesOf

LEMMA SuffixNext ==
  ASSUME input' = input, NEW ts, NEW adr, tokens' = ts, address' = adr,
         NEW b \in Starts, NEW a, NEW n, Begins(b, a), n >= a - 1, Behind(n, ts),
         \A i \in b..n : ~Comma(i), \A c \in Starts : c < b => Fine(c),
         IsSuffixes(a, n), Reads(Part(b, a, n)),
         Holds(adr, Said(b - 1) \cup Part(b, a, n), n)
  PROVE  AtSuffix(b, a, n)'
  <1>1. /\ b \in Starts' /\ Begins(b, a)' /\ (\A i \in b..n : ~Comma(i)')
        /\ IsSuffixes(a, n)' /\ Part(b, a, n)' = Part(b, a, n)
    BY SamePieces
  <1>2. \A c \in Starts' : c < b => Fine(c)'
    BY SamePieces, SameMeaning
  <1>3. Reads(Part(b, a, n))'
    <2>1. \A r : Reads(r)' <=> Reads(r)
      BY SameMeaning
    <2> QED BY <1>1, <2>1
  <1>4. Behind(n, tokens)'
    BY DEF Behind
  <1>5. Holds(address, Said(b - 1) \cup Part(b, a, n), n)'
    <2> PICK S : S = Said(b - 1) \cup Part(b, a, n)
      OBVIOUS
    <2>1. Said(b - 1)' \cup Part(b, a, n)' = S
      BY <1>1, SameMeaning
    <2>2. Holds(adr, S, n)'
      BY SameMeaning
    <2> QED BY <2>1, <2>2 DEF Holds
  <1> QED BY <1>1, <1>2, <1>3, <1>4, <1>5 DEF AtSuffix

LEMMA TermNext ==
  ASSUME input' = input, NEW ts, tokens' = ts, address' = address, NEW n,
         n + 1 \in Starts, Behind(n, ts), \A b \in Starts : b <= n => Fine(b),
         Holds(address, Said(n), n)
  PROVE  AtTerm(n)'
  <1>1. n + 1 \in Starts' /\ \A b \in Starts' : b <= n => Fine(b)'
    BY SamePieces, SameMeaning
  <1>2. Behind(n, tokens)'
    BY DEF Behind
  <1>3. Holds(address, Said(n), n)'
    <2> PICK S, adr : S = Said(n) /\ adr = address
      OBVIOUS
    <2>1. Said(n)' = S /\ address' = adr
      BY SameMeaning
    <2>2. Holds(adr, S, n)'
      BY SameMeaning
    <2> QED BY <2>1, <2>2 DEF Holds
  <1> QED BY <1>1, <1>2, <1>3 DEF AtTerm

LEMMA TermInv == Inv /\ Term => Inv'
  <1> SUFFICES ASSUME Inv, Term PROVE Inv'
    OBVIOUS
  <1>1. Typed /\ given /\ \E n \in 0..Len(input) : AtTerm(n)
    BY DEF Inv, Term
  <1>2. /\ input' = input /\ given' = given /\ let' = let /\ pc' = "suffix"
        /\ tokens' = AfterHead(tokens) /\ HeadReads
        /\ address' = [address EXCEPT ![HeadField(LookAhead(tokens))] =
                          Decode(HeadField(LookAhead(tokens)), Current(tokens))]
    BY DEF Term
  <1>3. PICK n \in 0..Len(input) : AtTerm(n)
    BY <1>1
  <1>4. /\ n + 1 \in Starts /\ Behind(n, tokens) /\ Holds(address, Said(n), n)
        /\ \A b \in Starts : b <= n => Fine(b)
    BY <1>3 DEF AtTerm
  <1>5. /\ input \in Seq(Token) /\ tokens \in Seq(Token) /\ address \in Address
        /\ given \in BOOLEAN /\ let \subseteq Usb /\ n \in Nat /\ Len(input) \in Nat
    BY <1>1 DEF Typed
  <1>6. Current(tokens) \in Word /\ LookAhead(tokens) \in Separator
    BY <1>2 DEF HeadReads
  <1> DEFINE b == n + 1
             field == HeadField(input[b + 1])
             value == Decode(field, input[b])
  <1>7. /\ IsHead(b) /\ Current(tokens) = input[b] /\ b + 1 = n + 2
        /\ LookAhead(tokens) = input[b + 1] /\ AfterHead(tokens) \in Seq(Token)
        /\ \E a \in (n + 2)..(n + 3) : Begins(b, a) /\ Behind(a - 1, AfterHead(tokens))
    <2>1. b + 1 = n + 2
      BY <1>5
    <2> QED BY <1>4, <1>5, <1>6, <2>1, AfterHeadAt
  <1>8. PICK a \in (n + 2)..(n + 3) : Begins(b, a) /\ Behind(a - 1, AfterHead(tokens))
    BY <1>7
  <1>9. value # Bad /\ input[b] \in Word /\ address' = [address EXCEPT ![field] = value]
    BY <1>2, <1>6, <1>7 DEF HeadReads
  <1>10. field \in Field /\ value \in Uint16
    BY <1>9, Fields, DecodeType
  <1>11. address' \in Address /\ DOMAIN address = Field
    BY <1>5, <1>9, <1>10, AddressType
  <1>12. Typed'
    BY <1>2, <1>5, <1>7, <1>11 DEF Typed
  <1>13. Part(b, a, a - 1) = {HeadOf(b)} /\ IsSuffixes(a, a - 1)
    <2>1. IsSuffixes(a, a - 1) /\ SuffixesOf(a, a - 1) = {}
      <3>1. a \in Int
        BY <1>5
      <3> QED BY <3>1, NoSuffixes, Zenon
    <2>2. a # b
      BY <1>5
    <2> QED BY <2>1, <2>2 DEF Part
  <1>14. Reads({HeadOf(b)})
    BY <1>9, ValueIs DEF Reads, HeadOf
  <1>15. Holds(address', Said(n) \cup {HeadOf(b)}, a - 1)
    <2>1. b \in Nat /\ n < b /\ a - 1 \in Nat /\ b <= a - 1
      BY <1>5
    <2> HIDE DEF b, field
    <2>2. Holds([address EXCEPT ![field] = Decode(field, input[b])],
                Said(n) \cup {Statement(field, b)}, a - 1)
      BY <1>4, <1>5, <1>10, <1>11, <2>1, HoldsMore
    <2> QED BY <2>2, <1>9 DEF HeadOf, field
  <1>16. \A i \in b..(a - 1) : ~Comma(i)
    <2>1. /\ b \in 1..Len(input) /\ b + 1 \in 1..Len(input)
          /\ input[b] \in Word /\ input[b + 1] \in Separator
      BY <1>5, <1>7 DEF IsHead
    <2>2. ~Comma(b) /\ ~Comma(b + 1)
      BY <2>1, <1>5, NoComma
    <2>3. \A i \in b..(a - 1) : i = b \/ i = b + 1
      BY <1>5
    <2> QED BY <2>2, <2>3
  <1>17. AtSuffix(b, a, a - 1)'
    <2>1. PICK ts, adr : ts = AfterHead(tokens) /\ adr = address'
      OBVIOUS
    <2> PICK m : m = a - 1
      OBVIOUS
    <2>2. tokens' = ts /\ address' = adr /\ Behind(m, ts)
      BY <1>2, <1>8, <2>1
    <2>3. \A c \in Starts : c < b => Fine(c)
      BY <1>4, <1>5 DEF Starts
    <2>4. Reads(Part(b, a, m)) /\ m >= a - 1
      <3>1. Part(b, a, m) = {HeadOf(b)}
        BY <1>13
      <3>2. a - 1 >= a - 1
        BY <1>5
      <3> QED BY <3>1, <3>2, <1>14
    <2>5. Holds(adr, Said(b - 1) \cup Part(b, a, m), m)
      <3>1. b - 1 = n
        BY <1>5
      <3> QED BY <3>1, <2>1, <1>13, <1>15
    <2>6. b \in Starts /\ Begins(b, a) /\ IsSuffixes(a, m) /\ \A i \in b..m : ~Comma(i)
      BY <1>4, <1>8, <1>13, <1>16
    <2> HIDE DEF b
    <2> QED BY <1>2, <2>2, <2>3, <2>4, <2>5, <2>6, SuffixNext
  <1>18. b \in Starts' /\ a - 1 \in 0..Len(input') /\ a \in b..(b + 2)
    BY <1>2, <1>4, <1>5, <1>8, SamePieces DEF Behind
  <1> QED BY <1>1, <1>2, <1>12, <1>17, <1>18 DEF Inv

LEMMA BareTermInv == Inv /\ BareTerm => Inv'
  <1> SUFFICES ASSUME Inv, BareTerm PROVE Inv'
    OBVIOUS
  <1>1. Typed /\ given /\ \E n \in 0..Len(input) : AtTerm(n)
    BY DEF Inv, BareTerm
  <1>2. /\ input' = input /\ given' = given /\ let' = let /\ pc' = "suffix"
        /\ tokens' = tokens /\ address' = address /\ Current(tokens) \in Separator
    BY DEF BareTerm
  <1>3. PICK n \in 0..Len(input) : AtTerm(n)
    BY <1>1
  <1>4. /\ n + 1 \in Starts /\ Behind(n, tokens) /\ Holds(address, Said(n), n)
        /\ \A b \in Starts : b <= n => Fine(b)
    BY <1>3 DEF AtTerm
  <1>5. input \in Seq(Token) /\ tokens \in Seq(Token) /\ n \in Nat /\ Len(input) \in Nat
    BY <1>1 DEF Typed
  <1>6. Typed'
    BY <1>1, <1>2 DEF Typed
  <1>7. n < Len(input) /\ input[n + 1] \in Separator
    BY <1>2, <1>4, <1>5, CurrentAt, Kinds
  <1> PICK b : b = n + 1
    OBVIOUS
  <1>8. Begins(b, b) /\ b \in Nat /\ n = b - 1 /\ b..n = {}
    BY <1>5, <1>7 DEF Begins
  <1>9. IsSuffixes(b, n) /\ Part(b, b, n) = {} /\ Reads({})
    <2>1. IsSuffixes(b, b - 1) /\ SuffixesOf(b, b - 1) = {}
      BY <1>8, NoSuffixes
    <2> QED BY <1>8, <2>1 DEF Part, Reads
  <1>10. AtSuffix(b, b, n)'
    <2>1. PICK ts, adr : ts = tokens /\ adr = address
      OBVIOUS
    <2>2. tokens' = ts /\ address' = adr /\ Behind(n, ts) /\ n >= b - 1
      BY <1>2, <1>4, <1>8, <2>1
    <2>3. b \in Starts /\ (\A c \in Starts : c < b => Fine(c)) /\ \A i \in b..n : ~Comma(i)
      BY <1>4, <1>5, <1>8 DEF Starts
    <2>4. Holds(adr, Said(b - 1) \cup Part(b, b, n), n)
      BY <2>1, <1>4, <1>8, <1>9
    <2> QED BY <1>2, <1>8, <1>9, <2>2, <2>3, <2>4, SuffixNext
  <1>11. b \in Starts' /\ n \in 0..Len(input') /\ b \in b..(b + 2)
    BY <1>2, <1>4, <1>8, SamePieces
  <1> QED BY <1>1, <1>2, <1>6, <1>10, <1>11 DEF Inv

(***************************************************************************)
(* One turn of the inner loop.                                             *)
(***************************************************************************)
LEMMA SuffixAt ==
  ASSUME input \in Seq(Token), tokens \in Seq(Token), NEW n, Behind(n, tokens)
  PROVE  /\ Current(tokens) \in Separator /\ LookAhead(tokens) \in Word <=>
               n + 2 <= Len(input) /\ input[n + 1] \in Separator /\ input[n + 2] \in Word
         /\ Current(tokens) \in Separator /\ LookAhead(tokens) \in Word =>
               /\ Current(tokens) = input[n + 1] /\ LookAhead(tokens) = input[n + 2]
               /\ Behind(n + 2, Scan(Scan(tokens))) /\ Scan(Scan(tokens)) \in Seq(Token)
  <1>1. n \in Nat /\ Len(input) \in Nat /\ n <= Len(input) /\ (n + 1) + 1 = n + 2
    BY DEF Behind
  <1>2. CASE n < Len(input) /\ input[n + 1] \in Separator
    <2>1. ~IsError(input[n + 1]) /\ Current(tokens) = input[n + 1]
      BY <1>2, Kinds, CurrentAt
    <2>2. /\ n + 1 = Len(input) => IsEnd(LookAhead(tokens))
          /\ n + 1 < Len(input) => LookAhead(tokens) = input[n + 2]
      BY <1>2, <2>1, AheadAt
    <2>3. Scan(tokens) \in Seq(Token) /\ Behind(n + 1, Scan(tokens))
      BY <1>2, <2>1, ScanAt
    <2>4. LookAhead(tokens) \in Word <=> n + 2 <= Len(input) /\ input[n + 2] \in Word
      BY <1>1, <1>2, <2>2, Kinds
    <2>5. ASSUME n + 2 <= Len(input), input[n + 2] \in Word
          PROVE  Behind(n + 2, Scan(Scan(tokens))) /\ Scan(Scan(tokens)) \in Seq(Token)
      <3> DEFINE m == n + 1
      <3>1. m < Len(input) /\ ~IsError(input[m + 1])
        BY <1>1, <2>5, Kinds
      <3>2. Scan(Scan(tokens)) \in Seq(Token) /\ Behind(m + 1, Scan(Scan(tokens)))
        <4> HIDE DEF m
        <4> QED BY <2>3, <3>1, ScanAt DEF m
      <3> QED BY <3>2, <1>1
    <2> QED BY <1>1, <1>2, <2>1, <2>2, <2>4, <2>5
  <1>3. CASE ~(n < Len(input) /\ input[n + 1] \in Separator)
    <2>1. Current(tokens) \notin Separator
      BY <1>1, <1>3, CurrentAt, Kinds
    <2> QED BY <1>1, <1>3, <2>1
  <1> QED BY <1>2, <1>3

LEMMA SuffixInv == Inv /\ Suffix => Inv'
  <1> SUFFICES ASSUME Inv, Suffix PROVE Inv'
    OBVIOUS
  <1>1. Typed /\ given /\ \E b \in Starts, n \in 0..Len(input) :
                             \E a \in b..(b + 2) : AtSuffix(b, a, n)
    BY DEF Inv, Suffix
  <1>2. /\ input' = input /\ given' = given /\ let' = let /\ pc' = "suffix"
        /\ tokens' = Scan(Scan(tokens)) /\ SuffixReads
        /\ address' = [address EXCEPT ![SuffixField(Current(tokens))] =
                          Decode(SuffixField(Current(tokens)), LookAhead(tokens))]
    BY DEF Suffix, SuffixReads
  <1>3. PICK b \in Starts, n \in 0..Len(input) : \E a \in b..(b + 2) : AtSuffix(b, a, n)
    BY <1>1
  <1>4. PICK a \in b..(b + 2) : AtSuffix(b, a, n)
    BY <1>3
  <1>5. /\ Begins(b, a) /\ n >= a - 1 /\ Behind(n, tokens) /\ IsSuffixes(a, n)
        /\ \A i \in b..n : ~Comma(i)
        /\ \A c \in Starts : c < b => Fine(c)
        /\ Reads(Part(b, a, n)) /\ Holds(address, Said(b - 1) \cup Part(b, a, n), n)
    BY <1>4 DEF AtSuffix
  <1>6. /\ input \in Seq(Token) /\ tokens \in Seq(Token) /\ address \in Address
        /\ n \in Nat /\ Len(input) \in Nat /\ b \in 1..(Len(input) + 1) /\ a \in Nat
    BY <1>1 DEF Typed, Starts
  <1>7. /\ n + 2 <= Len(input) /\ input[n + 1] \in Separator /\ input[n + 2] \in Word
        /\ Current(tokens) = input[n + 1] /\ LookAhead(tokens) = input[n + 2]
        /\ Behind(n + 2, Scan(Scan(tokens))) /\ Scan(Scan(tokens)) \in Seq(Token)
    BY <1>2, <1>5, <1>6, SuffixAt DEF SuffixReads
  <1> DEFINE field == SuffixField(input[n + 1])
             value == Decode(field, input[n + 2])
             s == Statement(field, n + 2)
  <1>8. value # Bad /\ address' = [address EXCEPT ![field] = value]
    BY <1>2, <1>7 DEF SuffixReads
  <1>9. field \in Field /\ value \in Uint16
    BY <1>7, <1>8, Fields, DecodeType
  <1>10. address' \in Address /\ DOMAIN address = Field
    BY <1>6, <1>8, <1>9, AddressType
  <1>11. Typed'
    BY <1>1, <1>2, <1>7, <1>10 DEF Typed
  <1>12. IsSuffixes(a, n + 2) /\ Part(b, a, n + 2) = Part(b, a, n) \cup {s}
    <2>1. IsSuffixes(a, n + 2) /\ SuffixesOf(a, n + 2) = SuffixesOf(a, n) \cup {s}
      BY <1>5, <1>6, <1>7, MoreSuffixes
    <2> HIDE DEF s
    <2> QED BY <2>1 DEF Part
  <1>13. Reads(Part(b, a, n) \cup {s})
    <2>1. Value(s) # Bad
      BY <1>8, ValueIs, Zenon
    <2> HIDE DEF s
    <2> QED BY <1>5, <2>1 DEF Reads
  <1>14. Holds(address', Said(b - 1) \cup Part(b, a, n) \cup {s}, n + 2)
    <2> DEFINE p == n + 2
               S == Said(b - 1) \cup Part(b, a, n)
    <2>1. p \in Nat /\ n < p /\ p <= p /\ Holds(address, S, n)
      BY <1>5, <1>6
    <2> HIDE DEF p, field, S
    <2>2. Holds([address EXCEPT ![field] = Decode(field, input[p])],
                S \cup {Statement(field, p)}, p)
      BY <1>6, <1>9, <1>10, <2>1, HoldsMore
    <2> QED BY <2>2, <1>8 DEF p, field, S
  <1>15. \A i \in b..(n + 2) : ~Comma(i)
    <2>1. n + 1 \in 1..Len(input) /\ n + 2 \in 1..Len(input)
      BY <1>6, <1>7
    <2>2. ~Comma(n + 1) /\ ~Comma(n + 2)
      BY <2>1, <1>6, <1>7, NoComma
    <2>3. \A i \in b..(n + 2) : i \in b..n \/ i = n + 1 \/ i = n + 2
      BY <1>6
    <2> QED BY <1>5, <2>2, <2>3
  <1>16. AtSuffix(b, a, n + 2)'
    <2>1. PICK ts, adr : ts = Scan(Scan(tokens)) /\ adr = address'
      OBVIOUS
    <2> PICK m : m = n + 2
      OBVIOUS
    <2>2. tokens' = ts /\ address' = adr /\ Behind(m, ts) /\ m >= a - 1
      <3>1. m >= a - 1
        BY <1>5, <1>6
      <3>2. tokens' = ts /\ Behind(m, ts)
        BY <1>2, <1>7, <2>1
      <3> QED BY <3>1, <3>2, <2>1
    <2>3. IsSuffixes(a, m) /\ Reads(Part(b, a, m)) /\ \A i \in b..m : ~Comma(i)
      BY <1>12, <1>13, <1>15
    <2>4. Holds(adr, Said(b - 1) \cup Part(b, a, m), m)
      <3> HIDE DEF s
      <3>1. Said(b - 1) \cup Part(b, a, m) = Said(b - 1) \cup Part(b, a, n) \cup {s}
        BY <1>12
      <3> QED BY <2>1, <3>1, <1>14
    <2> QED BY <1>2, <1>5, <2>2, <2>3, <2>4, SuffixNext
  <1>17. b \in Starts' /\ n + 2 \in 0..Len(input')
    BY <1>2, <1>6, <1>7, SamePieces
  <1> QED BY <1>1, <1>2, <1>11, <1>16, <1>17 DEF Inv

(***************************************************************************)
(* The end of a piece: another follows, or the address is accepted.        *)
(***************************************************************************)
LEMMA HoldsLater ==
  ASSUME NEW adr, NEW S, NEW n \in Nat, NEW m \in Nat, n <= m, Holds(adr, S, n)
  PROVE  Holds(adr, S, m)
  BY DEF Holds

LEMMA NextTermInv == Inv /\ NextTerm => Inv'
  <1> SUFFICES ASSUME Inv, NextTerm PROVE Inv'
    OBVIOUS
  <1>1. Typed /\ given /\ \E b \in Starts, n \in 0..Len(input) :
                             \E a \in b..(b + 2) : AtSuffix(b, a, n)
    BY Zenon DEF Inv, NextTerm
  <1>2. /\ input' = input /\ given' = given /\ let' = let /\ pc' = "term"
        /\ tokens' = Scan(tokens) /\ address' = address /\ IsComma(Current(tokens))
    BY Zenon DEF NextTerm, IsComma
  <1>3. PICK b \in Starts, n \in 0..Len(input) : \E a \in b..(b + 2) : AtSuffix(b, a, n)
    BY <1>1
  <1>4. PICK a \in b..(b + 2) : AtSuffix(b, a, n)
    BY <1>3
  <1>5. /\ Begins(b, a) /\ n >= a - 1 /\ Behind(n, tokens) /\ IsSuffixes(a, n)
        /\ \A i \in b..n : ~Comma(i)
        /\ \A c \in Starts : c < b => Fine(c)
        /\ Reads(Part(b, a, n)) /\ Holds(address, Said(b - 1) \cup Part(b, a, n), n)
    BY <1>4 DEF AtSuffix
  <1>6. /\ input \in Seq(Token) /\ tokens \in Seq(Token)
        /\ n \in Nat /\ Len(input) \in Nat /\ b \in 1..(Len(input) + 1) /\ a \in Nat
    BY <1>1 DEF Typed, Starts
  <1>7. n < Len(input) /\ IsComma(input[n + 1])
    BY <1>2, <1>5, <1>6, CurrentAt, Kinds
  <1>8. Comma(n + 1)
    BY <1>6, <1>7, CommaIs
  <1>9. Scan(tokens) \in Seq(Token) /\ Behind(n + 1, Scan(tokens))
    BY <1>5, <1>6, <1>7, ScanAt, Kinds
  <1>10. Typed'
    BY <1>1, <1>2, <1>9 DEF Typed
  <1>11. /\ \A c \in Starts : c <= n + 1 => Fine(c)
         /\ Said(n + 1) = Said(b - 1) \cup Part(b, a, n)
    <2>1. n \in (b - 1)..Len(input)
      BY <1>5, <1>6
    <2> QED BY <1>5, <1>6, <1>8, <2>1, PieceDone
  <1>12. Holds(address, Said(n + 1), n + 1)
    <2>1. n + 1 \in Nat /\ n <= n + 1
      BY <1>6
    <2> QED BY <1>5, <1>6, <1>11, <2>1, HoldsLater
  <1>13. (n + 1) + 1 \in Starts
    <2>1. (n + 1) + 1 \in 1..(Len(input) + 1) /\ ((n + 1) + 1) - 1 = n + 1
      BY <1>6, <1>7
    <2> QED BY <1>8, <2>1 DEF Starts
  <1>14. AtTerm(n + 1)'
    <2>1. PICK ts, m : ts = Scan(tokens) /\ m = n + 1
      OBVIOUS
    <2>2. tokens' = ts /\ Behind(m, ts)
      BY <1>2, <1>9, <2>1
    <2>3. m + 1 \in Starts /\ (\A c \in Starts : c <= m => Fine(c))
          /\ Holds(address, Said(m), m)
      BY <1>11, <1>12, <1>13, <2>1
    <2>4. AtTerm(m)'
      BY <1>2, <2>2, <2>3, TermNext
    <2> QED BY <2>1, <2>4
  <1>15. n + 1 \in 0..Len(input')
    BY <1>2, <1>6, <1>7
  <1> QED BY <1>1, <1>2, <1>10, <1>14, <1>15 DEF Inv

LEMMA ReturnInv == Inv /\ Return => Inv'
  <1> SUFFICES ASSUME Inv, Return PROVE Inv'
    OBVIOUS
  <1>1. Typed /\ given /\ \E b \in Starts, n \in 0..Len(input) :
                             \E a \in b..(b + 2) : AtSuffix(b, a, n)
    BY Zenon DEF Inv, Return
  <1>2. /\ input' = input /\ given' = given /\ let' = let /\ pc' = "accepted"
        /\ tokens' = tokens /\ address' = address /\ IsEnd(Current(tokens))
    BY Zenon DEF Return, IsEnd
  <1>3. PICK b \in Starts, n \in 0..Len(input) : \E a \in b..(b + 2) : AtSuffix(b, a, n)
    BY <1>1
  <1>4. PICK a \in b..(b + 2) : AtSuffix(b, a, n)
    BY <1>3
  <1>5. /\ Begins(b, a) /\ n >= a - 1 /\ Behind(n, tokens) /\ IsSuffixes(a, n)
        /\ \A i \in b..n : ~Comma(i)
        /\ \A c \in Starts : c < b => Fine(c)
        /\ Reads(Part(b, a, n)) /\ Holds(address, Said(b - 1) \cup Part(b, a, n), n)
    BY <1>4 DEF AtSuffix
  <1>6. /\ input \in Seq(Token) /\ tokens \in Seq(Token)
        /\ n \in Nat /\ Len(input) \in Nat /\ b \in 1..(Len(input) + 1) /\ a \in Nat
    BY <1>1 DEF Typed, Starts
  <1>7. n = Len(input)
    BY <1>2, <1>5, <1>6, CurrentAt
  <1>8. Typed'
    BY <1>1, <1>2 DEF Typed
  <1>9. /\ \A c \in Starts : c <= n + 1 => Fine(c)
        /\ Said(n + 1) = Said(b - 1) \cup Part(b, a, n)
    <2>1. n \in (b - 1)..Len(input)
      BY <1>5, <1>6
    <2> QED BY <1>5, <1>6, <1>7, <2>1, PieceDone
  <1>10. \A c \in Starts : c <= n + 1
    BY <1>7 DEF Starts
  <1>11. Meaningful
    BY <1>9, <1>10, Zenon DEF Meaningful, Fine, Reads
  <1>12. Statements = Said(n + 1)
    <2>1. {c \in Starts : c <= n + 1} = Starts
      BY <1>10
    <2> QED BY <2>1, Zenon DEF Statements, Said
  <1>13. IsStated
    BY <1>5, <1>9, <1>12, StatedIs
  <1>14. IsStated' /\ Meaningful'
    BY <1>2, <1>11, <1>13, SameMeaning DEF IsStated
  <1> QED BY <1>2, <1>8, <1>14 DEF Inv

(***************************************************************************)
(* What is refused has a piece without a meaning.                          *)
(***************************************************************************)
LEMMA RefuseInv == Inv /\ Refuse => Inv'
  <1> SUFFICES ASSUME Inv, Refuse PROVE Inv'
    OBVIOUS
  <1>1. /\ input' = input /\ given' = given /\ let' = let /\ pc' = "refused"
        /\ tokens' = tokens /\ address' = address
    BY DEF Refuse
  <1>2. Typed /\ Typed'
    BY <1>1 DEF Inv, Typed
  <1>3. input \in Seq(Token) /\ tokens \in Seq(Token) /\ Len(input) \in Nat
    BY <1>2 DEF Typed
  <1>4. given /\ \E b \in Starts : ~Fine(b)
    <2>1. CASE pc = "term" /\ Current(tokens) \notin Separator /\ ~HeadReads
      <3>1. given /\ \E n \in 0..Len(input) : AtTerm(n)
        BY <2>1 DEF Inv
      <3>2. PICK n \in 0..Len(input) : AtTerm(n)
        BY <3>1
      <3>3. n + 1 \in Starts /\ Behind(n, tokens) /\ n \in Nat
        BY <3>2 DEF AtTerm
      <3> PICK b : b = n + 1
        OBVIOUS
      <3>4. b <= Len(input) => input[b] \notin Separator
        BY <2>1, <3>3, <1>3, CurrentAt
      <3>5. ASSUME IsHead(b), Decode(HeadField(input[b + 1]), input[b]) # Bad
            PROVE  FALSE
        <4>1. n < Len(input) /\ input[n + 1] \in Word /\ n + 1 < Len(input)
          BY <1>3, <3>3, <3>5 DEF IsHead
        <4>2. Current(tokens) = input[b] /\ LookAhead(tokens) = input[n + 2]
          BY <1>3, <3>3, <4>1, CurrentAt, AheadAt, Kinds
        <4>3. b + 1 = n + 2
          BY <3>3
        <4> QED BY <2>1, <3>5, <4>2, <4>3 DEF HeadReads, IsHead
      <3>6. ~Fine(b)
        BY <1>3, <3>3, <3>4, <3>5, TermRefused
      <3> QED BY <3>1, <3>3, <3>6
    <2>2. CASE /\ pc = "suffix" /\ ~SuffixReads
               /\ ~IsComma(Current(tokens)) /\ ~IsEnd(Current(tokens))
      <3>1. given /\ \E b \in Starts, n \in 0..Len(input) :
                         \E a \in b..(b + 2) : AtSuffix(b, a, n)
        BY <2>2 DEF Inv
      <3>2. PICK b \in Starts, n \in 0..Len(input) :
                     \E a \in b..(b + 2) : AtSuffix(b, a, n)
        BY <3>1
      <3>3. PICK a \in b..(b + 2) : AtSuffix(b, a, n)
        BY <3>2
      <3>4. /\ Begins(b, a) /\ n >= a - 1 /\ Behind(n, tokens) /\ IsSuffixes(a, n)
            /\ \A i \in b..n : ~Comma(i)
        BY <3>3 DEF AtSuffix
      <3>5. n \in Nat /\ b \in 1..(Len(input) + 1) /\ a \in Nat
        BY DEF Starts
      <3>6. n < Len(input) /\ ~IsComma(input[n + 1])
        BY <2>2, <3>4, <3>5, <1>3, CurrentAt
      <3>7. n + 1 <= End(b)
        <4>1. ~Comma(n + 1)
          BY <3>6, CommaIs
        <4>2. \A i \in b..(n + 1) : ~Comma(i)
          <5>1. \A i \in b..(n + 1) : i \in b..n \/ i = n + 1
            BY <3>5
          <5> QED BY <4>1, <5>1, <3>4
        <4>3. n + 1 \in b..Len(input)
          BY <3>4, <3>5, <3>6, <1>3
        <4> QED BY <1>3, <4>2, <4>3, EndBehind
      <3>8. ~(/\ input[n + 1] \in Separator
              /\ n + 2 <= Len(input) /\ input[n + 2] \in Word
              /\ Decode(SuffixField(input[n + 1]), input[n + 2]) # Bad)
        BY <2>2, <1>3, <3>4, SuffixAt DEF SuffixReads
      <3>9. ~Fine(b)
        BY <1>3, <3>4, <3>5, <3>7, <3>8, SuffixRefused
      <3> QED BY <3>1, <3>9
    <2>3. \/ pc = "term" /\ Current(tokens) \notin Separator /\ ~HeadReads
          \/ /\ pc = "suffix" /\ ~SuffixReads
             /\ ~IsComma(Current(tokens)) /\ ~IsEnd(Current(tokens))
      BY Zenon DEF Refuse, IsComma, IsEnd
    <2> QED BY <2>1, <2>2, <2>3
  <1>5. ~Meaningful
    BY <1>4, Zenon DEF Meaningful, Fine, Reads
  <1>6. ~Meaningful'
    BY <1>1, <1>5, SameMeaning
  <1> QED BY <1>1, <1>2, <1>4, <1>6 DEF Inv

LEMMA FilterInv == Inv /\ Filter => Inv'
  <1> SUFFICES ASSUME Inv, Filter PROVE Inv'
    OBVIOUS
  <1>1. /\ input' = input /\ given' = given /\ pc' = "filtered"
        /\ tokens' = tokens /\ address' = address
        /\ let' = {d \in Usb : Passes(address, d)}
    BY DEF Filter
  <1>2. Typed'
    BY <1>1 DEF Inv, Typed
  <1>3. IsStated /\ (given => Meaningful)
    BY DEF Inv, Filter
  <1>4. IsStated' /\ (given' => Meaningful')
    BY <1>1, <1>3, SameMeaning DEF IsStated
  <1>5. let' = {d \in Usb : Passes(address', d)}
    BY <1>1
  <1> QED BY <1>1, <1>2, <1>4, <1>5 DEF Inv

LEMMA StutterInv == Inv /\ UNCHANGED vars => Inv'
  <1> SUFFICES ASSUME Inv, UNCHANGED vars PROVE Inv'
    OBVIOUS
  <1>1. /\ input' = input /\ given' = given /\ pc' = pc /\ let' = let
        /\ tokens' = tokens /\ address' = address
    BY DEF vars
  <1>2. Typed'
    BY <1>1 DEF Inv, Typed
  <1>3. ASSUME NEW n, AtTerm(n) PROVE AtTerm(n)'
    <2>1. PICK ts : ts = tokens
      OBVIOUS
    <2>2. /\ n + 1 \in Starts /\ Behind(n, ts) /\ Holds(address, Said(n), n)
          /\ \A b \in Starts : b <= n => Fine(b)
      BY <1>3, <2>1 DEF AtTerm
    <2>3. tokens' = ts
      BY <1>1, <2>1
    <2> QED BY <1>1, <2>2, <2>3, TermNext
  <1>4. ASSUME NEW b, NEW a, NEW n, AtSuffix(b, a, n) PROVE AtSuffix(b, a, n)'
    <2>1. PICK ts, adr : ts = tokens /\ adr = address
      OBVIOUS
    <2>2. /\ b \in Starts /\ Begins(b, a) /\ n >= a - 1 /\ Behind(n, ts)
          /\ IsSuffixes(a, n) /\ Reads(Part(b, a, n))
          /\ \A i \in b..n : ~Comma(i)
          /\ \A c \in Starts : c < b => Fine(c)
          /\ Holds(adr, Said(b - 1) \cup Part(b, a, n), n)
      BY <1>4, <2>1 DEF AtSuffix
    <2>3. tokens' = ts /\ address' = adr
      BY <1>1, <2>1
    <2> QED BY <1>1, <2>2, <2>3, SuffixNext
  <1>5. pc' = "term" => given' /\ \E n \in 0..Len(input') : AtTerm(n)'
    BY <1>1, <1>3 DEF Inv
  <1>6. pc' = "suffix" =>
          given' /\ \E b \in Starts', n \in 0..Len(input') :
                       \E a \in b..(b + 2) : AtSuffix(b, a, n)'
    BY <1>1, <1>4, SamePieces DEF Inv
  <1>7. pc' = "refused" => given' /\ ~Meaningful'
    BY <1>1, SameMeaning DEF Inv
  <1>8. pc' \in {"accepted", "filtered"} => IsStated' /\ (given' => Meaningful')
    BY <1>1, SameMeaning DEF Inv, IsStated
  <1>9. pc' = "filtered" => let' = {d \in Usb : Passes(address', d)}
    BY <1>1 DEF Inv
  <1> QED BY <1>2, <1>5, <1>6, <1>7, <1>8, <1>9 DEF Inv

(***************************************************************************)
(* Where the parser is, where the suffixes of its piece begin, and what    *)
(* the address holds, follows from the input alone.                        *)
(***************************************************************************)
THEOREM Invariance == Spec => []Inv
  <1>1. Inv /\ [Next]_vars => Inv'
    BY TermInv, BareTermInv, SuffixInv, NextTermInv, ReturnInv, RefuseInv, FilterInv,
       StutterInv DEF Next
  <1> QED BY InitInv, <1>1, PTL DEF Spec

LEMMA FilterIsMeant ==
  ASSUME IsStated, NEW d \in Usb
  PROVE  Passes(address, d) <=>
           /\ \A f \in Field : Stated(f) \in {0, d[f]}
           /\ Stated("vendor") = 0 =>
                /\ d["vendor"] = DefaultVendor
                /\ Stated("product") = 0 => d["product"] \in KnownProduct
  <1>1. \A f \in Field : address[f] = Stated(f)
    BY DEF IsStated
  <1>2. Field = {"vendor", "product", "bus", "device", "port"}
    BY DEF Field
  <1> QED BY <1>1, <1>2 DEF Passes

(***************************************************************************)
(* An address is refused exactly if one of its pieces has no reading or    *)
(* two, and the devices let through are those of which all that is stated  *)
(* last is true.                                                           *)
(***************************************************************************)
THEOREM AddressCorrect == Spec => []AddressIsMeant
  <1>1. Inv => AddressIsMeant
    <2> SUFFICES ASSUME Inv PROVE AddressIsMeant
      OBVIOUS
    <2>1. pc = "refused" => given /\ ~Meaningful
      BY DEF Inv
    <2>2. ASSUME pc = "filtered"
          PROVE  /\ given => Meaningful
                 /\ let = {d \in Usb :
                             /\ \A f \in Field : Stated(f) \in {0, d[f]}
                             /\ Stated("vendor") = 0 =>
                                  /\ d["vendor"] = DefaultVendor
                                  /\ Stated("product") = 0 => d["product"] \in KnownProduct}
      <3>1. IsStated /\ (given => Meaningful) /\ let = {d \in Usb : Passes(address, d)}
        BY <2>2 DEF Inv
      <3> QED BY <3>1, FilterIsMeant
    <2> QED BY <2>1, <2>2, Zenon DEF AddressIsMeant
  <1> QED BY Invariance, <1>1, PTL
===============================================================================
