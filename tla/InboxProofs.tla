----------------------------- MODULE InboxProofs -----------------------------
(***************************************************************************)
(* Proofs about Inbox, for any number of messages and of acknowledgements.  *)
(* The lock gives InboxInv, as long as no process dies within a write and no *)
(* body holds a Unicode line separator (the runs InboxDeaths and            *)
(* InboxSeparator show what each of these costs), and InboxInv gives that   *)
(* the file behaves as a Mailbox.  OrderForReaders is about those who read  *)
(* it in chunks, without the lock, while it is rewritten.  With deaths,     *)
(* DeathInv counts what they cost.                                          *)
(***************************************************************************)
EXTENDS InboxReaders, SequenceTheorems, FiniteSetTheorems, TLAPS

-----------------------------------------------------------------------------
(* What Without leaves of a file.                                           *)

Kept(bad, s)    == {i \in 1 .. Len(s) : s[i].m \notin bad}
Rank(bad, s, i) == Cardinality({j \in Kept(bad, s) : j <= i})
Nth(bad, s, k)  == CHOOSE i \in Kept(bad, s) : Rank(bad, s, i) = k

LEMMA WithoutIs ==
  ASSUME NEW bad, NEW s
  PROVE  Without(bad, s) = [k \in 1 .. Cardinality(Kept(bad, s)) |-> s[Nth(bad, s, k)]]
BY DEF Without, Kept, Rank, Nth

LEMMA RankFacts ==
  ASSUME NEW X, NEW s \in Seq(X), NEW bad
  PROVE  /\ IsFiniteSet(Kept(bad, s)) /\ Cardinality(Kept(bad, s)) \in Nat
         /\ \A i \in Kept(bad, s) : Rank(bad, s, i) \in 1 .. Cardinality(Kept(bad, s))
         /\ \A i, j \in Kept(bad, s) : i < j => Rank(bad, s, i) < Rank(bad, s, j)
<1> DEFINE K == Kept(bad, s)
           Below(i) == {j \in K : j <= i}
<1>1. Len(s) \in Nat /\ K \in SUBSET (1 .. Len(s)) /\ \A i \in K : i \in Nat
  BY DEF Kept
<1>2. IsFiniteSet(K) /\ Cardinality(K) \in Nat
  <2>1. IsFiniteSet(1 .. Len(s))
    BY <1>1, FS_Interval
  <2> HIDE DEF K
  <2> QED  BY <1>1, <2>1, FS_Subset, FS_CardinalityType
<1> HIDE DEF K
<1>3. \A i \in K : /\ IsFiniteSet(Below(i)) /\ Cardinality(Below(i)) \in Nat
                   /\ Cardinality(Below(i)) <= Cardinality(K) /\ i \in Below(i)
  <2> SUFFICES ASSUME NEW i \in K
               PROVE  /\ IsFiniteSet(Below(i)) /\ Cardinality(Below(i)) \in Nat
                      /\ Cardinality(Below(i)) <= Cardinality(K) /\ i \in Below(i)
    OBVIOUS
  <2>1. i \in Below(i) /\ Below(i) \in SUBSET K
    BY <1>1
  <2> HIDE DEF Below
  <2> QED  BY <1>2, <2>1, FS_Subset, FS_CardinalityType
<1>4. \A i \in K : Rank(bad, s, i) = Cardinality(Below(i))
  BY DEF Rank, K
<1>5. \A i \in K : Cardinality(Below(i)) # 0
  <2> SUFFICES ASSUME NEW i \in K PROVE Cardinality(Below(i)) # 0
    OBVIOUS
  <2>1. IsFiniteSet(Below(i)) /\ Below(i) # {}
    BY <1>3
  <2> HIDE DEF Below
  <2> QED  BY <2>1, FS_EmptySet
<1>6. ASSUME NEW i \in K, NEW j \in K, i < j PROVE Cardinality(Below(i)) < Cardinality(Below(j))
  <2>1. i \in Nat /\ j \in Nat
    BY <1>1
  <2>2. Below(i) \in SUBSET Below(j) /\ j \notin Below(i) /\ j \in Below(j)
    <3>1. \A x \in K : x <= i => x <= j
      BY <1>1, <1>6, <2>1
    <3>2. ~ j <= i /\ j <= j
      BY <1>6, <2>1
    <3> QED  BY <3>1, <3>2
  <2> HIDE DEF Below
  <2>3. Below(i) # Below(j)
    BY <2>2
  <2>4. Cardinality(Below(i)) <= Cardinality(Below(j)) /\ Cardinality(Below(i)) # Cardinality(Below(j))
    BY <1>3, <2>2, <2>3, FS_Subset
  <2> QED  BY <1>3, <2>4
<1> QED
  <2>1. \A i \in K : Rank(bad, s, i) \in 1 .. Cardinality(K)
    <3> SUFFICES ASSUME NEW i \in K PROVE Rank(bad, s, i) \in 1 .. Cardinality(K)
      OBVIOUS
    <3> HIDE DEF Below
    <3> QED  BY <1>2, <1>3, <1>4, <1>5
  <2>2. \A i, j \in K : i < j => Rank(bad, s, i) < Rank(bad, s, j)
    BY <1>4, <1>6
  <2> QED  BY <1>2, <2>1, <2>2 DEF K

\* The ranks count through: every number up to the last is one of them.
LEMMA NthFacts ==
  ASSUME NEW X, NEW s \in Seq(X), NEW bad
  PROVE  /\ \A k \in 1 .. Cardinality(Kept(bad, s)) :
              Nth(bad, s, k) \in Kept(bad, s) /\ Rank(bad, s, Nth(bad, s, k)) = k
         /\ \A i \in Kept(bad, s) : Nth(bad, s, Rank(bad, s, i)) = i
<1> DEFINE K == Kept(bad, s)
           N == Cardinality(K)
           r == [i \in K |-> Rank(bad, s, i)]
<1>1. IsFiniteSet(K) /\ N \in Nat /\ K \subseteq Nat
  <2>1. K \subseteq Nat
    BY DEF Kept
  <2> QED  BY <2>1, RankFacts
<1>2. \A i \in K : r[i] = Rank(bad, s, i) /\ r[i] \in 1 .. N
  BY RankFacts
<1>3. \A i, j \in K : i < j => r[i] < r[j]
  BY RankFacts
<1> HIDE DEF K
<1>4. r \in [K -> 1 .. N]
  BY <1>2
<1>5. \A i, j \in K : r[i] = r[j] => i = j
  <2> SUFFICES ASSUME NEW i \in K, NEW j \in K, i # j PROVE r[i] # r[j]
    OBVIOUS
  <2>1. i \in Nat /\ j \in Nat /\ r[i] \in Nat /\ r[j] \in Nat
    BY <1>1, <1>2
  <2>2. (i < j \/ j < i) /\ (i < j => r[i] < r[j]) /\ (j < i => r[j] < r[i])
    BY <1>3, <2>1
  <2> QED  BY <2>1, <2>2
<1>6. \A k \in 1 .. N : \E i \in K : r[i] = k
  <2> HIDE DEF r, N
  <2>1. r \in Injection(K, 1 .. N)
    BY <1>4, <1>5 DEF Injection, IsInjective
  <2>2. IsFiniteSet(1 .. N) /\ Cardinality(1 .. N) = N
    BY <1>1, FS_Interval
  <2>3. r \in Surjection(K, 1 .. N)
    BY <2>1, <2>2, FS_Injection DEF N
  <2> QED  BY <2>3 DEF Surjection
<1>7. \A k \in 1 .. N : \E i \in K : Rank(bad, s, i) = k
  BY <1>2, <1>6
<1>8. \A k \in 1 .. N : Nth(bad, s, k) \in K /\ Rank(bad, s, Nth(bad, s, k)) = k
  BY <1>7 DEF Nth, K
<1>9. \A i \in K : Nth(bad, s, Rank(bad, s, i)) = i
  <2> SUFFICES ASSUME NEW i \in K PROVE Nth(bad, s, Rank(bad, s, i)) = i
    OBVIOUS
  <2> DEFINE j == Nth(bad, s, Rank(bad, s, i))
  <2>1. j \in K /\ Rank(bad, s, j) = Rank(bad, s, i)
    BY <1>2, <1>8
  <2> HIDE DEF j
  <2> QED  BY <1>2, <1>5, <2>1 DEF j
<1> QED  BY <1>8, <1>9 DEF K

\* What is left is in the file and not of bad, and all such lines are left.
LEMMA WithoutFacts ==
  ASSUME NEW X, NEW s \in Seq(X), NEW bad
  PROVE  /\ Without(bad, s) \in Seq(X)
         /\ \A k \in 1 .. Len(Without(bad, s)) :
              \E i \in 1 .. Len(s) : Without(bad, s)[k] = s[i] /\ s[i].m \notin bad
         /\ \A i \in 1 .. Len(s) : s[i].m \notin bad =>
              \E k \in 1 .. Len(Without(bad, s)) : Without(bad, s)[k] = s[i]
<1> DEFINE w == Without(bad, s)
           N == Cardinality(Kept(bad, s))
<1>1. N \in Nat
  BY RankFacts
<1>2. w = [k \in 1 .. N |-> s[Nth(bad, s, k)]]
  BY WithoutIs
<1>3. \A k \in 1 .. N : \E i \in 1 .. Len(s) : w[k] = s[i] /\ s[i].m \notin bad
  <2>1. \A k \in 1 .. N : Nth(bad, s, k) \in Kept(bad, s) /\ w[k] = s[Nth(bad, s, k)]
    BY <1>2, NthFacts
  <2>2. \A i \in Kept(bad, s) : i \in 1 .. Len(s) /\ s[i].m \notin bad
    BY DEF Kept
  <2> HIDE DEF w, N
  <2> QED  BY <2>1, <2>2
<1>4. w \in Seq(X) /\ Len(w) = N
  <2>1. \A k \in 1 .. N : w[k] \in X
    BY <1>3
  <2> HIDE DEF w, N
  <2> QED  BY <1>1, <1>2, <2>1
<1>5. ASSUME NEW i \in 1 .. Len(s), s[i].m \notin bad
      PROVE  \E k \in 1 .. N : w[k] = s[i]
  <2>1. i \in Kept(bad, s)
    BY <1>5 DEF Kept
  <2>2. Rank(bad, s, i) \in 1 .. N /\ Nth(bad, s, Rank(bad, s, i)) = i
    BY <2>1, RankFacts, NthFacts
  <2> HIDE DEF w, N
  <2> QED  BY <1>2, <2>2
<1> HIDE DEF w, N
<1> QED  BY <1>3, <1>4, <1>5 DEF w

\* Where only the last line may be of bad, the rest is left as it is.
LEMMA WithoutLast ==
  ASSUME NEW X, NEW s \in Seq(X), NEW n \in {Len(s), Len(s) - 1}, n \in Nat, NEW bad,
         \A i \in 1 .. n : s[i].m \notin bad, n # Len(s) => s[Len(s)].m \in bad
  PROVE  Len(Without(bad, s)) = n /\ \A i \in 1 .. n : Without(bad, s)[i] = s[i]
<1>1. Kept(bad, s) = 1 .. n
  BY DEF Kept
<1>2. Cardinality(1 .. n) = n
  BY FS_Interval
<1>3. \A i \in 1 .. n : Rank(bad, s, i) = i
  <2> SUFFICES ASSUME NEW i \in 1 .. n PROVE Rank(bad, s, i) = i
    OBVIOUS
  <2>1. {j \in Kept(bad, s) : j <= i} = 1 .. i
    BY <1>1
  <2>2. Cardinality(1 .. i) = i
    BY FS_Interval
  <2> QED  BY <2>1, <2>2 DEF Rank
<1>4. \A i \in 1 .. n : Nth(bad, s, i) = i
  BY <1>1, <1>3, NthFacts
<1>5. Without(bad, s) = [k \in 1 .. n |-> s[Nth(bad, s, k)]]
  BY <1>1, <1>2, WithoutIs
<1>6. \A i \in 1 .. n : Without(bad, s)[i] = s[i]
  BY <1>4, <1>5
<1>7. Len(Without(bad, s)) = n
  BY <1>5
<1> QED  BY <1>6, <1>7

LEMMA WithoutNone ==
  ASSUME NEW X, NEW s \in Seq(X), NEW bad, \A i \in 1 .. Len(s) : s[i].m \notin bad
  PROVE  Without(bad, s) = s
<1>1. /\ Len(s) \in {Len(s), Len(s) - 1} /\ Len(s) \in Nat
      /\ Without(bad, s) \in Seq(X)
  BY WithoutFacts
<1>2. Len(Without(bad, s)) = Len(s) /\ \A i \in 1 .. Len(s) : Without(bad, s)[i] = s[i]
  BY <1>1, WithoutLast
<1> QED BY <1>1, <1>2, SeqEqual

-----------------------------------------------------------------------------
(* The invariant.                                                           *)

Copy == [m : Message, acked : BOOLEAN]

\* Marking keeps the length and the messages of a sequence.
LEMMA MarkedFacts ==
  ASSUME NEW s \in Seq(Line), NEW I
  PROVE  /\ Marked(s, I) \in Seq(Line)
         /\ Len(Marked(s, I)) = Len(s)
         /\ \A i \in 1 .. Len(s) : Marked(s, I)[i].m = s[i].m
         /\ (\A i \in 1 .. Len(s) : s[i].m \in Message) => Marked(s, I) \in Seq(Copy)
<1> DEFINE t == Marked(s, I)
<1>1. t = [i \in 1 .. Len(s) |-> [m |-> s[i].m, acked |-> s[i].acked \/ s[i].m \in I]]
  BY DEF Marked
<1>2. Len(s) \in Nat /\ DOMAIN t = 1 .. Len(s) /\ \A i \in 1 .. Len(s) : s[i] \in Line
  BY <1>1
<1>3. \A i \in 1 .. Len(s) : t[i].m = s[i].m
  BY <1>1, <1>2
<1>4. \A i \in 1 .. Len(s) : t[i] \in Line
  BY <1>1, <1>2 DEF Line
<1>5. t \in Seq(Line) /\ Len(t) = Len(s)
  BY <1>1, <1>2, <1>4
<1>6. ASSUME \A i \in 1 .. Len(s) : s[i].m \in Message PROVE t \in Seq(Copy)
  <2>1. \A i \in 1 .. Len(s) : t[i] \in Copy
    BY <1>1, <1>2, <1>6 DEF Line, Copy
  <2> QED BY <1>1, <1>2, <2>1
<1> QED BY <1>3, <1>5, <1>6

\* A rewrite needs the lock, and so does a writer: Box is the file but for the
\* holder's own copy.
LEMMA BoxFacts ==
  ASSUME InboxInv
  PROVE  /\ Box \in Seq(Line)
         /\ \A i \in 1 .. Len(Box) : Box[i].m \in Message
         /\ lock \notin Acker => Box = file
         /\ \A a \in Acker : lock = a /\ ack[a].pc = "read" => Box = file
         /\ \A a \in Acker : ack[a].pc \in {"copied", "write"} => lock = a /\ Box = ack[a].copy
<1>1. \A a \in Acker : ack[a].copy \in Seq(Copy) /\ ack[a].copy \in Seq(Line)
  <2> SUFFICES ASSUME NEW a \in Acker
               PROVE  ack[a].copy \in Seq(Copy) /\ ack[a].copy \in Seq(Line)
    OBVIOUS
  <2>1. ack[a].copy \in Seq(Copy)
    BY DEF InboxInv, InboxTypeOK, AckState, Copy
  <2>2. Copy \subseteq Line
    BY DEF Copy, Line
  <2> QED BY <2>1, <2>2
<1>2. CASE Rewriting
  <2>1. PICK a \in Acker : lock = a /\ ack[a].pc \in {"copied", "write"}
    BY <1>2 DEF Rewriting
  <2>2. Box = ack[a].copy
    BY <1>2, <2>1 DEF Box
  <2>3. \A i \in 1 .. Len(Box) : Box[i] \in Copy
    BY <1>1, <2>2
  <2>4. \A i \in 1 .. Len(Box) : Box[i].m \in Message
    BY <2>3 DEF Copy
  <2>5. \A b \in Acker : ack[b].pc \in {"copied", "write"} => lock = b
    BY DEF InboxInv, Exclusive
  <2> QED BY <1>1, <2>1, <2>2, <2>4, <2>5
<1>3. CASE ~ Rewriting
  <2>1. Box = file
    BY <1>3 DEF Box
  <2>2. \A a \in Acker : ack[a].pc \notin {"copied", "write"}
    BY <1>3 DEF Rewriting, InboxInv, Exclusive
  <2>3. file \in Seq(Line) /\ \A i \in 1 .. Len(file) : file[i].m \in Message
    BY <2>2 DEF InboxInv, InboxTypeOK, FileInv
  <2>4. \A i \in 1 .. Len(file) : file[i] \in Line
    BY <2>3
  <2>5. \A i \in 1 .. Len(file) : file[i].m \in Message
    BY <2>3, <2>4 DEF Line
  <2> QED BY <2>1, <2>2, <2>3, <2>5
<1> QED BY <1>2, <1>3

\* A step that leaves the file alone, appends nothing and touches no copy that
\* is on its way to the file keeps what InboxInv says of the file.
LEMMA QuietStep ==
  ASSUME InboxInv, InboxTypeOK', Exclusive', file' = file, open' = open,
         \A m \in Message : snd'[m] \in {"stored", "sent"} <=> snd[m] \in {"stored", "sent"},
         \A a \in Acker : ack[a].pc \in {"copied", "write"} \/ ack'[a].pc \in {"copied", "write"}
                          => ack'[a] = ack[a]
  PROVE  InboxInv' /\ Box' = Box
<1>1. \A a \in Acker : ack[a].pc \in {"copied", "write"} => lock = a /\ lock' = a /\ ack'[a] = ack[a]
  BY DEF InboxInv, Exclusive
<1>2. \A a \in Acker : ack'[a].pc \in {"copied", "write"} => lock = a /\ lock' = a /\ ack'[a] = ack[a]
  BY DEF InboxInv, Exclusive
<1>3. Box' = Box
  <2>1. CASE Rewriting
    BY <1>1, <2>1 DEF Rewriting, Box
  <2>2. CASE ~ Rewriting
    <3>1. ~ Rewriting'
      BY <1>2, <2>2 DEF Rewriting
    <3> QED BY <2>2, <3>1 DEF Box
  <2> QED BY <2>1, <2>2
<1>4. FileInv'
  <2>1. CASE \E a \in Acker : lock = a /\ ack[a].pc = "write"
    BY <1>1, <2>1 DEF InboxInv, FileInv
  <2>2. CASE ~ \E a \in Acker : lock = a /\ ack[a].pc = "write"
    <3>1. ~ \E a \in Acker : lock' = a /\ ack'[a].pc = "write"
      BY <1>2, <2>2
    <3> QED BY <2>2, <3>1 DEF InboxInv, FileInv
  <2> QED BY <2>1, <2>2
<1>5. CopyInv'
  BY <1>2 DEF InboxInv, CopyInv
<1>6. BoxInv'
  BY <1>3 DEF InboxInv, BoxInv
<1> QED BY <1>3, <1>4, <1>5, <1>6 DEF InboxInv

\* The senders.
LEMMA SenderStep ==
  ASSUME InboxInv, NEW m \in Message, SBegin(m) \/ Sender(m)
  PROVE  InboxInv'
<1> USE NoneAssumption, ApartAssumption
<1>1. CASE SBegin(m)
  <2>1. InboxTypeOK' /\ Exclusive'
    BY <1>1 DEF InboxInv, InboxTypeOK, Exclusive, SBegin
  <2> QED BY <1>1, <2>1, QuietStep DEF InboxInv, InboxTypeOK, SBegin
<1>2. CASE SLock(m)
  <2>1. InboxTypeOK' /\ Exclusive'
    BY <1>2 DEF InboxInv, InboxTypeOK, Exclusive, SLock
  <2> QED BY <1>2, <2>1, QuietStep DEF InboxInv, InboxTypeOK, SLock
<1>3. CASE SUnlock(m)
  <2>1. InboxTypeOK' /\ Exclusive'
    BY <1>3 DEF InboxInv, InboxTypeOK, Exclusive, SUnlock
  <2> QED BY <1>3, <2>1, QuietStep DEF InboxInv, InboxTypeOK, SUnlock
<1>4. CASE SAppend(m)
  <2>1. lock = m /\ lock \notin Acker /\ lock' = lock /\ ack' = ack
    BY <1>4 DEF SAppend, InboxInv, Exclusive
  <2>2. open = FALSE /\ \A i \in 1 .. Len(file) : file[i].m \in Message
    BY <2>1 DEF InboxInv, FileInv
  <2>3. file' = Append(file, New(m)) /\ open' = FALSE
    <3>1. ~ open
      BY <2>2
    <3> QED BY <1>4, <3>1 DEF SAppend
  <2>4. New(m) \in Line /\ New(m).m = m
    BY DEF New, Line
  <2>5. /\ file \in Seq(Line) /\ New(m) \in Line /\ New(m).m = m
        /\ file' = Append(file, New(m)) /\ open' = FALSE
    BY <2>3, <2>4 DEF InboxInv, InboxTypeOK
  <2>6. InboxTypeOK'
    <3>1. file' \in Seq(Line)
      BY <2>5, AppendProperties
    <3>2. open' \in BOOLEAN
      BY <2>3
    <3> QED BY <1>4, <3>1, <3>2 DEF InboxInv, InboxTypeOK, SAppend
  <2>7. Exclusive'
    BY <1>4 DEF InboxInv, InboxTypeOK, Exclusive, SAppend
  <2>8. /\ Len(file') = Len(file) + 1 /\ Len(file) \in Nat
        /\ file'[Len(file) + 1].m = m
        /\ \A i \in 1 .. Len(file) : file'[i] = file[i]
    BY <2>5
  <2>9. FileInv' /\ CopyInv'
    BY <2>1, <2>2, <2>5, <2>8 DEF FileInv, CopyInv
  <2>10. Box = file /\ Box' = file'
    BY <2>1 DEF Box, Rewriting
  <2>11. BoxInv'
    <3>1. \A u \in Message : u # m =>
            ((\E i \in 1 .. Len(file') : file'[i].m = u) <=> (\E i \in 1 .. Len(file) : file[i].m = u))
      BY <2>8
    <3>2. \A u \in Message : u # m => snd'[u] = snd[u]
      BY <1>4 DEF SAppend, InboxInv, InboxTypeOK
    <3>3. snd'[m] = "stored" /\ \E i \in 1 .. Len(file') : file'[i].m = m
      BY <1>4, <2>8 DEF SAppend, InboxInv, InboxTypeOK
    <3> QED BY <2>10, <3>1, <3>2, <3>3 DEF InboxInv, BoxInv
  <2> QED BY <2>6, <2>7, <2>9, <2>11 DEF InboxInv
<1> QED BY <1>1, <1>2, <1>3, <1>4 DEF Sender

\* Where nobody dies within a write and no body splits a line, an
\* acknowledgement reads the whole file.
LEMMA ReadsEverything ==
  ASSUME InboxInv, Split = {}, NEW a \in Acker, ack[a].pc = "read"
  PROVE  AckLoaded(file) = file /\ ~ AReadRaises(a)
<1>1. lock = a
  BY DEF InboxInv, Exclusive
<1>2. \A i \in 1 .. Len(file) : file[i].m \in Message
  BY <1>1 DEF InboxInv, FileInv
<1>3. \A i \in 1 .. Len(file) : file[i].m \notin {None} \cup Split /\ file[i].m # Junk
  BY <1>2, NoneAssumption
<1>4. ~ AReadRaises(a)
  BY <1>3 DEF AReadRaises, Decodes
<1>5. AckLoaded(file) = file
  BY <1>3, WithoutNone DEF AckLoaded, InboxInv, InboxTypeOK
<1> QED BY <1>4, <1>5

\* The acknowledgements.
LEMMA AckQuietStep ==
  ASSUME InboxInv, NEW a \in Acker, ALock(a) \/ \E I \in (SUBSET Message) \ {{}} : ABegin(a, I)
  PROVE  InboxInv' /\ Box' = Box
<1> USE NoneAssumption, ApartAssumption
<1>1. CASE ALock(a)
  <2>1. ack \in [Acker -> AckState] /\ ack' = [ack EXCEPT ![a].pc = "read"]
    BY <1>1 DEF InboxInv, InboxTypeOK, ALock
  <2>2. ack' \in [Acker -> AckState]
    BY <2>1 DEF AckState
  <2>3. InboxTypeOK'
    BY <1>1, <2>2 DEF InboxInv, InboxTypeOK, ALock
  <2>4. Exclusive'
    BY <1>1 DEF InboxInv, InboxTypeOK, AckState, Exclusive, ALock
  <2>5. \A b \in Acker : ack[b].pc \in {"copied", "write"} \/ ack'[b].pc \in {"copied", "write"}
                          => ack'[b] = ack[b]
    BY <1>1 DEF InboxInv, InboxTypeOK, AckState, ALock, Exclusive
  <2> QED BY <1>1, <2>3, <2>4, <2>5, QuietStep DEF ALock
<1>2. ASSUME NEW I \in SUBSET Message, ABegin(a, I) PROVE InboxInv' /\ Box' = Box
  <2>1. <<>> \in Seq([m : Message, acked : BOOLEAN])
    OBVIOUS
  <2>2. [AckIdle EXCEPT !.pc = "wait", !.ids = I] \in AckState
    BY <2>1 DEF AckState, AckIdle
  <2>3. ack' \in [Acker -> AckState]
    BY <1>2, <2>2 DEF InboxInv, InboxTypeOK, ABegin
  <2>4. acks \in Nat /\ acks' = acks + 1
    BY <1>2 DEF InboxInv, InboxTypeOK, ABegin
  <2>5. UNCHANGED <<file, open, lock, snd, crashes>>
    BY <1>2 DEF ABegin
  <2>6. acks' \in Nat
    BY <2>4
  <2>7. InboxTypeOK'
    BY <2>3, <2>5, <2>6 DEF InboxInv, InboxTypeOK
  <2>8. Exclusive'
    BY <1>2 DEF InboxInv, InboxTypeOK, Exclusive, ABegin, AckIdle
  <2>9. \A b \in Acker : ack[b].pc \in {"copied", "write"} \/ ack'[b].pc \in {"copied", "write"}
                          => ack'[b] = ack[b]
    BY <1>2 DEF InboxInv, InboxTypeOK, ABegin, AckIdle
  <2> QED BY <1>2, <2>8, <2>9, <2>7, QuietStep DEF ABegin
<1> QED BY <1>1, <1>2

LEMMA CopiedState ==
  ASSUME NEW x \in AckState, NEW copy \in Seq(Copy)
  PROVE  [x EXCEPT !.pc = "copied", !.copy = copy] \in AckState
BY DEF AckState, Copy

LEMMA AReadStep ==
  ASSUME InboxInv, Split = {}, NEW a \in Acker, ARead(a)
  PROVE  InboxInv' /\ Box = file /\ Box' = Marked(file, ack[a].ids)
<1> DEFINE copy == Marked(file, ack[a].ids)
<1> USE NoneAssumption, ApartAssumption
<1>1. lock = a /\ lock' = a /\ file' = file /\ open' = open /\ snd' = snd /\ ack[a].pc = "read"
  BY DEF ARead, InboxInv, Exclusive
<1>2. ack' = [ack EXCEPT ![a].pc = "copied", ![a].copy = copy]
  BY <1>1, ReadsEverything DEF ARead
<1>3. ack'[a].pc = "copied" /\ ack'[a].copy = copy /\ ack'[a].ids = ack[a].ids
  BY <1>2 DEF InboxInv, InboxTypeOK, AckState
<1>4. Box = file
  BY <1>1, BoxFacts
<1>5. Box' = copy
  BY <1>1, <1>3 DEF Box, Rewriting
<1>6. copy \in Seq(Copy) /\ Len(copy) = Len(file) /\ \A i \in 1 .. Len(file) : copy[i].m = file[i].m
  BY <1>4, BoxFacts, MarkedFacts DEF InboxInv, InboxTypeOK
<1>7. InboxTypeOK'
  <2> HIDE DEF copy
  <2>1. /\ ack' = [ack EXCEPT ![a] = [@ EXCEPT !.pc = "copied", !.copy = copy]]
        /\ ack \in [Acker -> AckState]
    BY <1>2 DEF InboxInv, InboxTypeOK
  <2>2. ack' \in [Acker -> AckState]
    BY <1>6, <2>1, CopiedState
  <2> QED BY <1>1, <2>2 DEF ARead, InboxInv, InboxTypeOK
<1>8. Exclusive'
  BY <1>1, <1>2 DEF InboxInv, InboxTypeOK, AckState, Exclusive
<1>9. FileInv'
  BY <1>1, <1>3 DEF InboxInv, FileInv
<1>10. CopyInv'
  BY <1>1, <1>3 DEF CopyInv
<1>11. BoxInv'
  BY <1>1, <1>4, <1>5, <1>6 DEF InboxInv, BoxInv
<1> QED BY <1>4, <1>5, <1>7, <1>8, <1>9, <1>10, <1>11 DEF InboxInv

LEMMA ATruncateStep ==
  ASSUME InboxInv, NEW a \in Acker, ATruncate(a)
  PROVE  InboxInv' /\ Box' = Box
<1> USE NoneAssumption, ApartAssumption
<1>1. /\ lock = a /\ lock' = a /\ file' = <<>> /\ open' = FALSE /\ snd' = snd
      /\ ack[a].pc = "copied" /\ ack' = [ack EXCEPT ![a].pc = "write"]
  BY DEF ATruncate, InboxInv, Exclusive
<1>2. ack'[a].pc = "write" /\ ack'[a].copy = ack[a].copy
  BY <1>1 DEF InboxInv, InboxTypeOK, AckState
<1>3. Box' = Box
  BY <1>1, <1>2 DEF Box, Rewriting
<1>4. ack[a].copy \in Seq(Copy)
  BY DEF InboxInv, InboxTypeOK, AckState, Copy
<1>5. InboxTypeOK'
  <2>1. ack' \in [Acker -> AckState]
    BY <1>1 DEF InboxInv, InboxTypeOK, AckState
  <2>2. file' \in Seq(Line)
    BY <1>1
  <2> QED BY <1>1, <2>1, <2>2 DEF ATruncate, InboxInv, InboxTypeOK
<1>6. Exclusive'
  BY <1>1 DEF InboxInv, InboxTypeOK, AckState, Exclusive
<1>7. FileInv'
  <2>1. 0 \in 0 .. Len(ack[a].copy) /\ SubSeq(ack[a].copy, 1, 0) = <<>>
    BY <1>4
  <2> QED BY <1>1, <1>2, <2>1 DEF FileInv
<1>8. CopyInv'
  BY <1>1, <1>2 DEF CopyInv
<1>9. BoxInv'
  BY <1>1, <1>3 DEF InboxInv, BoxInv
<1> QED BY <1>3, <1>5, <1>6, <1>7, <1>8, <1>9 DEF InboxInv

LEMMA AFlushStep ==
  ASSUME InboxInv, NEW a \in Acker, AFlush(a)
  PROVE  InboxInv' /\ Box' = Box
<1> USE NoneAssumption, ApartAssumption
<1> DEFINE copy == ack[a].copy
<1>1. /\ lock = a /\ lock' = a /\ snd' = snd /\ ack' = ack /\ acks' = acks /\ crashes' = crashes
      /\ ack[a].pc = "write"
  BY DEF AFlush, InboxInv, Exclusive
<1>2. Box' = Box
  BY <1>1 DEF Box, Rewriting
<1>3. copy \in Seq(Copy) /\ copy \in Seq(Line)
  <2>1. copy \in Seq(Copy)
    BY DEF InboxInv, InboxTypeOK, AckState, Copy
  <2>2. Copy \subseteq Line
    BY DEF Copy, Line
  <2> QED BY <2>1, <2>2
<1>4. PICK k \in 0 .. Len(copy) :
        \/ file' = SubSeq(copy, 1, k) /\ open' = FALSE
        \/ /\ k < Len(copy) /\ open' = TRUE
           /\ \E l \in Cut : file' = Append(SubSeq(copy, 1, k), l)
  BY <1>1 DEF AFlush
<1>5. FileInv'
  BY <1>1, <1>4 DEF FileInv
<1>6. InboxTypeOK'
  <2>1. SubSeq(copy, 1, k) \in Seq(Line)
    BY <1>3
  <2>2. Cut \subseteq Line
    BY DEF Cut, Line
  <2>3. file' \in Seq(Line)
    BY <1>4, <2>1, <2>2
  <2>4. open' \in BOOLEAN
    BY <1>4
  <2> QED BY <1>1, <2>3, <2>4 DEF InboxInv, InboxTypeOK
<1>7. Exclusive'
  BY <1>1 DEF InboxInv, Exclusive
<1>8. CopyInv'
  BY <1>1 DEF CopyInv
<1>9. BoxInv'
  BY <1>1, <1>2 DEF InboxInv, BoxInv
<1> QED BY <1>2, <1>5, <1>6, <1>7, <1>8, <1>9 DEF InboxInv

LEMMA AUnlockStep ==
  ASSUME InboxInv, NEW a \in Acker, AUnlock(a)
  PROVE  InboxInv' /\ Box' = Box
<1> USE NoneAssumption, ApartAssumption
<1> DEFINE copy == ack[a].copy
<1>1. /\ lock = a /\ lock' = None /\ snd' = snd /\ acks' = acks /\ crashes' = crashes
      /\ file' = file /\ open' = open /\ file = copy
      /\ ack[a].pc = "write" /\ ack' = [ack EXCEPT ![a] = AckIdle]
  BY DEF AUnlock, InboxInv, Exclusive
<1>2. Box = copy
  BY <1>1 DEF Box, Rewriting
<1>3. \A i \in 1 .. Len(file) : file[i].m \in Message
  BY <1>1, <1>2, BoxFacts
<1>4. open = FALSE
  <2>1. copy \in Seq(Copy)
    BY DEF InboxInv, InboxTypeOK, AckState, Copy
  <2>2. PICK k \in 0 .. Len(copy) :
          \/ file = SubSeq(copy, 1, k) /\ open = FALSE
          \/ k < Len(copy) /\ open = TRUE /\ \E l \in Cut : file = Append(SubSeq(copy, 1, k), l)
    BY <1>1 DEF InboxInv, FileInv
  <2>3. ASSUME k < Len(copy), NEW l \in Cut, file = Append(SubSeq(copy, 1, k), l) PROVE FALSE
    <3>1. SubSeq(copy, 1, k) \in Seq(Copy) /\ Len(SubSeq(copy, 1, k)) = k
      BY <2>1
    <3>2. Len(file) = k + 1 /\ file[k + 1] = l
      BY <2>3, <3>1
    <3>3. l.m \notin Message /\ k + 1 \in 1 .. Len(file)
      BY <3>2 DEF Cut
    <3> QED BY <1>3, <3>2, <3>3
  <2> QED BY <2>2, <2>3
<1>5. Box' = Box
  BY <1>1, <1>2 DEF Box, Rewriting
<1>6. InboxTypeOK'
  <2>1. AckIdle \in AckState
    <3>1. <<>> \in Seq([m : Message, acked : BOOLEAN])
      OBVIOUS
    <3> QED BY <3>1 DEF AckIdle, AckState
  <2>2. ack' \in [Acker -> AckState]
    BY <1>1, <2>1 DEF InboxInv, InboxTypeOK
  <2> QED BY <1>1, <2>2 DEF InboxInv, InboxTypeOK
<1>7. Exclusive'
  BY <1>1 DEF InboxInv, InboxTypeOK, Exclusive, AckIdle
<1>8. FileInv'
  BY <1>1, <1>3, <1>4 DEF FileInv
<1>9. CopyInv'
  BY <1>1 DEF CopyInv
<1>10. BoxInv'
  BY <1>1, <1>5 DEF InboxInv, BoxInv
<1> QED BY <1>5, <1>6, <1>7, <1>8, <1>9, <1>10 DEF InboxInv

LEMMA InitInboxInv == InboxInit => InboxInv
<1> SUFFICES ASSUME InboxInit PROVE InboxInv
  OBVIOUS
<1> USE NoneAssumption, LimitsAssumption DEF InboxInit
<1>1. AckIdle \in AckState
  <2>1. <<>> \in Seq([m : Message, acked : BOOLEAN])
    OBVIOUS
  <2> QED BY <2>1 DEF AckIdle, AckState
<1>2. file = <<>> /\ file \in Seq(Line) /\ Len(file) = 0
  OBVIOUS
<1>3. lock \notin Acker /\ lock \notin Message
  OBVIOUS
<1>4. InboxTypeOK
  BY <1>1, <1>2 DEF InboxTypeOK
<1>5. Exclusive
  BY <1>3 DEF Exclusive, AckIdle
<1>6. FileInv /\ CopyInv
  BY <1>2, <1>3 DEF FileInv, CopyInv
<1>7. BoxInv
  BY <1>2, <1>3 DEF BoxInv, Box, Rewriting
<1> QED BY <1>4, <1>5, <1>6, <1>7 DEF InboxInv

\* Where nobody dies, every step keeps InboxInv.
LEMMA NextInboxInv ==
  ASSUME InboxInv, Mortal = {}, Split = {}, [InboxNext]_inboxVars
  PROVE  InboxInv'
<1>1. CASE UNCHANGED inboxVars
  BY <1>1 DEF inboxVars, InboxInv, InboxTypeOK, Exclusive, FileInv, CopyInv, BoxInv, Box, Rewriting
<1>2. ASSUME NEW m \in Message, SBegin(m) \/ Sender(m) \/ SCut(m) PROVE InboxInv'
  BY <1>2, SenderStep DEF SCut
<1>3. ASSUME NEW a \in Acker, AckStep(a) \/ (\E I \in (SUBSET Message) \ {{}} : ABegin(a, I))
      PROVE  InboxInv'
  BY <1>3, AckQuietStep, AReadStep, ATruncateStep, AFlushStep, AUnlockStep,
     ReadsEverything DEF AckStep, AReadRaises
<1> QED BY <1>1, <1>2, <1>3 DEF InboxNext

\* The lock makes every process that writes the file find it whole: whoever
\* rewrites it holds the lock from its read to its last byte, so that no append
\* falls into the copy that is truncated away.  (ack_inbox, send.py main)
THEOREM InboxInvariant ==
  ASSUME Mortal = {}, Split = {}
  PROVE  InboxSpec => []InboxInv
<1>1. InboxInit => InboxInv
  BY InitInboxInv
<1>2. InboxInv /\ [InboxNext]_inboxVars => InboxInv'
  BY NextInboxInv
<1> QED BY <1>1, <1>2, PTL DEF InboxSpec

-----------------------------------------------------------------------------
(* The file implements a Mailbox.                                           *)

Sent == {m \in Message : snd[m] = "sent"}

LEMMA InitKeepsMail == InboxInit => Promise!Init
<1> SUFFICES ASSUME InboxInit PROVE Promise!Init
  OBVIOUS
<1>1. Box = <<>>
  BY NoneAssumption DEF InboxInit, Box, Rewriting
<1>2. Sent = {}
  BY DEF InboxInit, Sent
<1> QED BY <1>1, <1>2 DEF Promise!Init, Sent

LEMMA SenderKeepsMail ==
  ASSUME InboxInv, NEW m \in Message, SBegin(m) \/ Sender(m)
  PROVE  [Promise!Next]_(Promise!vars)
<1> USE NoneAssumption, ApartAssumption
<1>1. CASE SBegin(m) \/ SLock(m)
  <2>1. Sent' = Sent
    BY <1>1 DEF SBegin, SLock, Sent, InboxInv, InboxTypeOK
  <2>2. Box' = Box
    BY <1>1 DEF SBegin, SLock, Box, Rewriting
  <2> QED BY <2>1, <2>2 DEF Promise!vars, Sent
<1>2. CASE SAppend(m)
  <2>1. lock = m /\ lock' = m /\ ack' = ack
    BY <1>2 DEF SAppend, InboxInv, Exclusive
  <2>2. ~ open
    BY <2>1 DEF InboxInv, FileInv
  <2>3. file' = Append(file, New(m))
    BY <1>2, <2>2 DEF SAppend
  <2>4. Box = file /\ Box' = Append(Box, [m |-> m, acked |-> FALSE])
    BY <2>1, <2>3 DEF Box, Rewriting, New
  <2>5. ~ \E i \in 1 .. Len(Box) : Box[i].m = m
    BY <1>2 DEF SAppend, InboxInv, BoxInv
  <2>6. Sent' = Sent
    BY <1>2 DEF SAppend, Sent, InboxInv, InboxTypeOK
  <2>7. Promise!Deliver(m)
    BY <2>4, <2>5, <2>6 DEF Promise!Deliver, Promise!In, Sent
  <2> QED BY <2>7 DEF Promise!Next
<1>3. CASE SUnlock(m)
  <2>1. lock = m /\ lock' = None /\ file' = file /\ snd[m] = "stored"
    BY <1>3 DEF SUnlock, InboxInv, Exclusive
  <2>2. Box' = Box
    BY <2>1 DEF Box, Rewriting
  <2>3. \E i \in 1 .. Len(Box) : Box[i].m = m
    BY <2>1 DEF InboxInv, BoxInv
  <2>4. Sent' = Sent \cup {m}
    BY <1>3 DEF SUnlock, Sent, InboxInv, InboxTypeOK
  <2>5. Promise!Confirm(m)
    BY <2>2, <2>3, <2>4 DEF Promise!Confirm, Promise!In, Sent
  <2> QED BY <2>5 DEF Promise!Next
<1> QED BY <1>1, <1>2, <1>3 DEF Sender

LEMMA AckerKeepsMail ==
  ASSUME InboxInv, Split = {}, NEW a \in Acker,
         AckStep(a) \/ (\E I \in (SUBSET Message) \ {{}} : ABegin(a, I))
  PROVE  [Promise!Next]_(Promise!vars)
<1>1. Sent' = Sent
  BY DEF AckStep, ABegin, ALock, ARead, AReadRaises, ATruncate, AFlush, AUnlock, Sent
<1>2. CASE ARead(a)
  <2> DEFINE I == ack[a].ids
  <2>1. I \in SUBSET Message
    BY DEF InboxInv, InboxTypeOK, AckState
  <2>2. Box' = Marked(Box, I)
    BY <1>2, AReadStep
  <2>3. Promise!Acknowledge(I)
    BY <1>1, <2>2 DEF Promise!Acknowledge, Marked, Sent
  <2> QED BY <2>1, <2>3 DEF Promise!Next
<1>3. CASE ~ ARead(a)
  <2>1. Box' = Box
    BY <1>3, AckQuietStep, ATruncateStep, AFlushStep, AUnlockStep, ReadsEverything
    DEF AckStep, AReadRaises
  <2> QED BY <1>1, <2>1 DEF Promise!vars, Sent
<1> QED BY <1>2, <1>3

LEMMA NextKeepsMail ==
  ASSUME InboxInv, Mortal = {}, Split = {}, [InboxNext]_inboxVars
  PROVE  [Promise!Next]_(Promise!vars)
<1>1. CASE UNCHANGED inboxVars
  BY <1>1 DEF inboxVars, Promise!vars, Box, Rewriting
<1>2. ASSUME NEW m \in Message, SBegin(m) \/ Sender(m) \/ SCut(m)
      PROVE  [Promise!Next]_(Promise!vars)
  BY <1>2, SenderKeepsMail DEF SCut
<1>3. ASSUME NEW a \in Acker,
             AckStep(a) \/ (\E I \in (SUBSET Message) \ {{}} : ABegin(a, I))
      PROVE  [Promise!Next]_(Promise!vars)
  BY <1>3, AckerKeepsMail
<1> QED BY <1>1, <1>2, <1>3 DEF InboxNext

\* A message that send.py reported is in the inbox for good, once and in the
\* order of arrival, and an acknowledgement changes no more than its mark,
\* however senders and read.py --ack interleave.  (send.py main, ack_inbox)
THEOREM FileIsAMailbox ==
  ASSUME Mortal = {}, Split = {}
  PROVE  InboxSpec => KeepsMail
<1>1. InboxInit => Promise!Init
  BY InitKeepsMail
<1>2. InboxInv /\ [InboxNext]_inboxVars => [Promise!Next]_(Promise!vars)
  BY NextKeepsMail
<1>3. InboxSpec => []InboxInv
  BY InboxInvariant
<1> QED BY <1>1, <1>2, <1>3, PTL DEF InboxSpec, KeepsMail, Promise!Spec

-----------------------------------------------------------------------------
(* Readers.                                                                 *)

\* Readers change nothing that the writers see.
LEMMA ReadersAreQuiet == ReadersSpec => InboxSpec
<1>1. ReadersInit => InboxInit
  BY DEF ReadersInit
<1>2. [ReadersNext]_readersVars => [InboxNext]_inboxVars
  <2>1. ASSUME UNCHANGED readersVars PROVE UNCHANGED inboxVars
    BY <2>1 DEF readersVars, inboxVars
  <2>2. ASSUME NEW a \in Acker, TruncateUnderReaders(a) PROVE InboxNext
    BY <2>2 DEF TruncateUnderReaders, InboxNext, AckStep
  <2> QED BY <2>1, <2>2 DEF ReadersNext
<1> QED BY <1>1, <1>2, PTL DEF ReadersSpec, InboxSpec

\* The mailbox grows, and what is in it keeps its place.
Grows(b, c) == Len(b) <= Len(c) /\ \A i \in 1 .. Len(b) : c[i].m = b[i].m

LEMMA BoxGrows ==
  ASSUME InboxInv, Mortal = {}, Split = {}, [InboxNext]_inboxVars
  PROVE  Box \in Seq(Line) /\ Box' \in Seq(Line) /\ Grows(Box, Box')
<1>1. Box \in Seq(Line) /\ Len(Box) \in Nat
  BY BoxFacts
<1>2. [Promise!Next]_(Promise!vars)
  BY NextKeepsMail
<1>3. CASE Box' = Box
  BY <1>1, <1>3 DEF Grows
<1>4. ASSUME NEW m \in Message, Box' = Append(Box, [m |-> m, acked |-> FALSE])
      PROVE  Box' \in Seq(Line) /\ Grows(Box, Box')
  <2>1. [m |-> m, acked |-> FALSE] \in Line
    BY DEF Line
  <2>2. /\ Len(Box') = Len(Box) + 1 /\ \A i \in 1 .. Len(Box) : Box'[i] = Box[i]
        /\ Box' \in Seq(Line)
    BY <1>1, <1>4, <2>1
  <2> QED BY <1>1, <2>2 DEF Grows
<1>5. ASSUME NEW I, Box' = Marked(Box, I) PROVE Box' \in Seq(Line) /\ Grows(Box, Box')
  <2>1. Box' \in Seq(Line) /\ Len(Box') = Len(Box) /\ \A i \in 1 .. Len(Box) : Box'[i].m = Box[i].m
    BY <1>1, <1>5, MarkedFacts
  <2> QED BY <1>1, <2>1 DEF Grows
<1> QED BY <1>1, <1>2, <1>3, <1>4, <1>5 DEF Promise!Next, Promise!vars, Promise!Deliver,
        Promise!Confirm, Promise!Acknowledge, Marked

\* The whole lines of the file are the first ones of the mailbox, also during a rewrite.
LEMMA WholeLines ==
  ASSUME InboxInv
  PROVE  /\ Len(file) \in Nat /\ Len(Box) \in Nat /\ Whole \in Int
         /\ Whole <= Len(file) /\ Len(file) <= Len(Box)
         /\ \A i \in 1 .. Whole : file[i].m = Box[i].m
<1>1. Box \in Seq(Line) /\ file \in Seq(Line)
  BY BoxFacts DEF InboxInv, InboxTypeOK
<1>2. CASE \E a \in Acker : lock = a /\ ack[a].pc = "write"
  <2>1. PICK a \in Acker : lock = a /\ ack[a].pc = "write"
    BY <1>2
  <2>2. Box = ack[a].copy /\ ack[a].copy \in Seq(Copy)
    BY <2>1 DEF Box, Rewriting, InboxInv, InboxTypeOK, AckState, Copy
  <2>3. PICK k \in 0 .. Len(Box) :
          \/ file = SubSeq(Box, 1, k) /\ open = FALSE
          \/ k < Len(Box) /\ open = TRUE /\ \E l \in Cut : file = Append(SubSeq(Box, 1, k), l)
    BY <2>1, <2>2 DEF InboxInv, FileInv
  <2> DEFINE part == SubSeq(Box, 1, k)
  <2>4. part \in Seq(Line) /\ Len(part) = k /\ \A i \in 1 .. k : part[i] = Box[i]
    BY <1>1
  <2> HIDE DEF part
  <2>0. k \in Nat /\ k <= Len(Box) /\ Len(Box) \in Nat /\ Len(file) \in Nat
    BY <1>1
  <2>5. ASSUME file = part, open = FALSE
        PROVE  Len(file) = k /\ Whole = k /\ \A i \in 1 .. k : file[i] = Box[i]
    BY <2>4, <2>5 DEF Whole
  <2>6. ASSUME k < Len(Box), open = TRUE, NEW l \in Cut, file = Append(part, l)
        PROVE  Len(file) = k + 1 /\ Whole = k /\ \A i \in 1 .. k : file[i] = Box[i]
    BY <1>1, <2>4, <2>6 DEF Whole
  <2>7. /\ Whole = k /\ (Len(file) = k \/ (Len(file) = k + 1 /\ k < Len(Box)))
        /\ \A i \in 1 .. k : file[i] = Box[i]
    BY <2>3, <2>5, <2>6 DEF part
  <2> QED BY <2>0, <2>7
<1>3. CASE ~ \E a \in Acker : lock = a /\ ack[a].pc = "write"
  <2>1. open = FALSE /\ Whole = Len(file)
    BY <1>3 DEF InboxInv, FileInv, Whole
  <2>2. Len(Box) = Len(file) /\ \A i \in 1 .. Len(file) : Box[i].m = file[i].m
    <3>1. CASE Rewriting
      <4>1. /\ lock \in Acker /\ ack[lock].pc = "copied"
            /\ Box = Marked(file, ack[lock].ids)
        BY <1>3, <3>1 DEF Rewriting, Box, InboxInv, CopyInv
      <4> QED BY <1>1, <4>1, MarkedFacts
    <3>2. CASE ~ Rewriting
      BY <3>2 DEF Box
    <3> QED BY <3>1, <3>2
  <2> QED BY <1>1, <2>1, <2>2
<1> QED BY <1>2, <1>3

ReaderState ==
  [on : BOOLEAN, at : Nat, part : Part, got : Seq(Message), odd : BOOLEAN, torn : BOOLEAN]

\* How many lines of the mailbox may be among what q has found.
Reach(q) == IF q.part = "end" THEN q.at + 1 ELSE q.at

\* What q has found is in the order of the mailbox b, and ends where q is in the file.
InOrder(q, b) ==
  \E place \in [1 .. Len(q.got) -> 1 .. Len(b)] :
     /\ Rising(place)
     /\ \A i \in 1 .. Len(q.got) : q.got[i] = b[place[i]].m /\ place[i] <= Reach(q)

\* A read that is not torn has found every line up to its offset.
Gapless(q, b) ==
  /\ ~ q.odd /\ q.part # "mixed"
  /\ Len(q.got) = q.at \/ (q.part = "end" /\ Len(q.got) = q.at + 1)
  /\ Len(q.got) <= Len(b) /\ \A i \in 1 .. Len(q.got) : q.got[i] = b[i].m

Sees(q, b) ==
  /\ q.at <= Len(b) /\ (q.part = "begin" => q.at < Len(b))
  /\ InOrder(q, b)
  /\ ~ q.torn => Gapless(q, b)

ReaderInv ==
  /\ rd \in [Reader -> ReaderState]
  /\ \A r \in Reader : Sees(rd[r], Box)

LEMMA SeesNothing ==
  ASSUME NEW b \in Seq(Line), NEW q \in ReaderState, q.at = 0, q.part = "none", q.got = <<>>, ~ q.odd
  PROVE  Sees(q, b)
<1>1. Len(q.got) = 0 /\ Len(b) \in Nat /\ 1 .. 0 = {}
  OBVIOUS
<1>2. [i \in {} |-> 0] \in [1 .. Len(q.got) -> 1 .. Len(b)] /\ Rising([i \in {} |-> 0])
  BY <1>1 DEF Rising
<1>3. InOrder(q, b)
  BY <1>1, <1>2 DEF InOrder
<1>4. Gapless(q, b)
  BY <1>1 DEF Gapless
<1> QED BY <1>1, <1>3, <1>4 DEF Sees

LEMMA SeesGrown ==
  ASSUME NEW b \in Seq(Line), NEW c \in Seq(Line), NEW q \in ReaderState, Sees(q, b), Grows(b, c)
  PROVE  Sees(q, c)
<1>1. /\ Len(b) \in Nat /\ Len(c) \in Nat /\ Len(q.got) \in Nat /\ q.at \in Nat
      /\ Len(b) <= Len(c) /\ \A i \in 1 .. Len(b) : c[i].m = b[i].m
  BY DEF Grows, ReaderState
<1>2. PICK place \in [1 .. Len(q.got) -> 1 .. Len(b)] :
        /\ Rising(place)
        /\ \A i \in 1 .. Len(q.got) : q.got[i] = b[place[i]].m /\ place[i] <= Reach(q)
  BY DEF Sees, InOrder
<1>3. \A i \in 1 .. Len(q.got) : place[i] \in 1 .. Len(b) /\ place[i] \in 1 .. Len(c)
  BY <1>1, <1>2
<1>4. place \in [1 .. Len(q.got) -> 1 .. Len(c)]
  BY <1>2, <1>3
<1>5. InOrder(q, c)
  BY <1>1, <1>2, <1>3, <1>4 DEF InOrder
<1>6. Gapless(q, b) => Gapless(q, c)
  BY <1>1 DEF Gapless
<1> QED BY <1>1, <1>5, <1>6 DEF Sees

\* Going on without finding anything.
LEMMA SeesFurther ==
  ASSUME NEW b \in Seq(Line), NEW q \in ReaderState, NEW x \in ReaderState, Sees(q, b),
         x.got = q.got, Reach(q) <= Reach(x), x.at <= Len(b), x.part # "begin" \/ x.at < Len(b),
         x.torn \/ (~ q.torn /\ Gapless(x, b))
  PROVE  Sees(x, b)
<1>1. Reach(q) \in Nat /\ Reach(x) \in Nat /\ Len(b) \in Nat
  BY DEF Reach, ReaderState
<1>2. PICK place \in [1 .. Len(q.got) -> 1 .. Len(b)] :
        /\ Rising(place)
        /\ \A i \in 1 .. Len(q.got) : q.got[i] = b[place[i]].m /\ place[i] <= Reach(q)
  BY DEF Sees, InOrder
<1>3. \A i \in 1 .. Len(q.got) : place[i] \in Nat
  BY <1>2
<1>4. \A i \in 1 .. Len(q.got) : place[i] <= Reach(x)
  BY <1>1, <1>2, <1>3
<1>5. InOrder(x, b)
  BY <1>2, <1>4 DEF InOrder
<1> QED BY <1>5 DEF Sees

LEMMA Concat ==
  ASSUME NEW s \in Seq(Message), NEW t \in Seq(Message)
  PROVE  /\ Len(s \o t) = Len(s) + Len(t)
         /\ \A k \in 1 .. Len(s) + Len(t) :
              (s \o t)[k] = IF k <= Len(s) THEN s[k] ELSE t[k - Len(s)]
OBVIOUS

\* Finding the lines from after i to n.
LEMMA SeesMore ==
  ASSUME NEW b \in Seq(Line), NEW q \in ReaderState, NEW x \in ReaderState, Sees(q, b),
         NEW i \in Nat, NEW n \in Nat, Reach(q) <= i, i <= n, n <= Len(b), n <= Reach(x),
         NEW more \in Seq(Message), Len(more) = n - i, \A k \in 1 .. n - i : more[k] = b[i + k].m,
         x.got = q.got \o more, x.at <= Len(b), x.part # "begin" \/ x.at < Len(b),
         x.torn \/ (/\ ~ q.torn /\ i = Len(q.got) /\ ~ x.odd /\ x.part # "mixed"
                    /\ (n = x.at \/ (x.part = "end" /\ n = x.at + 1)))
  PROVE  Sees(x, b)
<1> DEFINE l == Len(q.got)
<1>1. /\ Reach(q) \in Nat /\ Reach(x) \in Nat /\ Len(b) \in Nat /\ l \in Nat
      /\ q.got \in Seq(Message) /\ x.at \in Nat
  BY DEF Reach, ReaderState
<1>2. /\ Len(x.got) = l + (n - i)
      /\ \A k \in 1 .. l : x.got[k] = q.got[k]
      /\ \A k \in l + 1 .. l + (n - i) : x.got[k] = b[i + (k - l)].m
  <2>0. /\ Len(q.got \o more) = Len(q.got) + Len(more)
        /\ \A k \in 1 .. Len(q.got) + Len(more) : (q.got \o more)[k] =
                    IF k <= Len(q.got) THEN q.got[k] ELSE more[k - Len(q.got)]
    BY <1>1, Concat, Zenon
  <2>1. /\ Len(x.got) = l + (n - i)
        /\ \A k \in 1 .. l + (n - i) :
             x.got[k] = IF k <= l THEN q.got[k] ELSE more[k - l]
    BY <2>0, Zenon DEF l
  <2> HIDE DEF l
  <2>2. \A k \in 1 .. l : k \in 1 .. l + (n - i) /\ k <= l
    BY <1>1
  <2>3. \A k \in l + 1 .. l + (n - i) : /\ k \in 1 .. l + (n - i) /\ ~ k <= l
                                       /\ k - l \in 1 .. n - i
    BY <1>1
  <2> QED BY <2>1, <2>2, <2>3
<1>3. PICK place \in [1 .. l -> 1 .. Len(b)] :
        /\ Rising(place)
        /\ \A k \in 1 .. l : q.got[k] = b[place[k]].m /\ place[k] <= Reach(q)
  BY DEF Sees, InOrder
<1>4. \A k \in 1 .. l : place[k] \in Nat /\ place[k] \in 1 .. Len(b) /\ place[k] <= i
  <2> HIDE DEF l
  <2> SUFFICES ASSUME NEW k \in 1 .. l
               PROVE  place[k] \in Nat /\ place[k] \in 1 .. Len(b) /\ place[k] <= i
    OBVIOUS
  <2>1. place[k] \in 1 .. Len(b) /\ place[k] <= Reach(q)
    BY <1>3
  <2> QED BY <1>1, <2>1
<1> HIDE DEF l
<1> DEFINE L == l + (n - i)
           P == [k \in 1 .. L |-> IF k <= l THEN place[k] ELSE i + (k - l)]
<1>5. L \in Nat /\ L >= l
  BY <1>1
<1>6. \A k \in 1 .. L : \/ k \in 1 .. l /\ P[k] = place[k]
                        \/ k \in l + 1 .. L /\ P[k] = i + (k - l)
  BY <1>1, <1>5
<1>7. \A k \in l + 1 .. L : i + (k - l) \in 1 .. Len(b) /\ i + (k - l) <= n /\ i + (k - l) > i
  BY <1>1
<1>8. P \in [1 .. L -> 1 .. Len(b)]
  <2>1. \A k \in 1 .. L : P[k] \in 1 .. Len(b)
    BY <1>4, <1>6, <1>7
  <2> QED BY <2>1
<1>9. Rising(P)
  <2> SUFFICES ASSUME NEW j \in 1 .. L, NEW k \in 1 .. L, j < k PROVE P[j] < P[k]
    BY DEF Rising
  <2>1. CASE k <= l
    <3>1. j \in 1 .. l /\ k \in 1 .. l /\ P[j] = place[j] /\ P[k] = place[k]
      BY <1>1, <2>1
    <3> QED BY <1>3, <3>1 DEF Rising
  <2>2. CASE ~ k <= l
    <3>1. P[k] = i + (k - l) /\ k \in l + 1 .. L
      BY <1>1, <2>2
    <3>2. CASE j <= l
      <4>1. j \in 1 .. l /\ P[j] = place[j]
        BY <1>1, <3>2
      <4>2. place[j] <= i /\ place[j] \in Nat
        BY <1>4, <4>1
      <4>3. i + (k - l) > i /\ i + (k - l) \in Nat
        BY <1>1, <1>7, <3>1
      <4> HIDE DEF P
      <4> QED BY <3>1, <4>1, <4>2, <4>3
    <3>3. CASE ~ j <= l
      <4>1. P[j] = i + (j - l)
        BY <1>1, <3>3
      <4> QED BY <1>1, <3>1, <4>1
    <3> QED BY <3>2, <3>3
  <2> QED BY <2>1, <2>2
<1>10. \A k \in 1 .. L : x.got[k] = b[P[k]].m /\ P[k] <= Reach(x)
  <2> SUFFICES ASSUME NEW k \in 1 .. L PROVE x.got[k] = b[P[k]].m /\ P[k] <= Reach(x)
    OBVIOUS
  <2> HIDE DEF P
  <2>1. CASE k \in 1 .. l /\ P[k] = place[k]
    <3>1. place[k] <= i /\ place[k] \in Nat
      BY <1>4, <2>1
    <3>2. place[k] <= Reach(x)
      BY <1>1, <3>1
    <3> QED BY <1>2, <1>3, <2>1, <3>2
  <2>2. CASE k \in l + 1 .. L /\ P[k] = i + (k - l)
    <3>1. P[k] <= n /\ P[k] \in Nat
      BY <1>7, <2>2
    <3>2. P[k] <= Reach(x)
      BY <1>1, <3>1
    <3> QED BY <1>2, <2>2, <3>2
  <2> QED BY <1>6, <2>1, <2>2 DEF P
<1>11. InOrder(x, b)
  <2> HIDE DEF P
  <2>1. Len(x.got) = L
    BY <1>2
  <2> HIDE DEF L
  <2> QED BY <1>8, <1>9, <1>10, <2>1 DEF InOrder
<1>12. ~ x.torn => Gapless(x, b)
  <2> SUFFICES ASSUME ~ x.torn PROVE Gapless(x, b)
    OBVIOUS
  <2>1. /\ ~ q.torn /\ i = l /\ ~ x.odd /\ x.part # "mixed"
        /\ (n = x.at \/ (x.part = "end" /\ n = x.at + 1))
    BY DEF l
  <2>2. Gapless(q, b)
    BY <2>1 DEF Sees
  <2>3. Len(x.got) = n
    BY <1>1, <1>2, <2>1
  <2>4. \A k \in 1 .. l : x.got[k] = b[k].m
    BY <1>2, <2>2 DEF Gapless, l
  <2>5. \A k \in l + 1 .. n : x.got[k] = b[k].m
    <3>1. l + (n - i) = n /\ \A k \in l + 1 .. n : i + (k - l) = k
      BY <1>1, <2>1
    <3> QED BY <1>2, <3>1
  <2>6. \A k \in 1 .. n : k \in 1 .. l \/ k \in l + 1 .. n
    BY <1>1
  <2>7. \A k \in 1 .. n : x.got[k] = b[k].m
    BY <2>4, <2>5, <2>6
  <2> QED BY <2>1, <2>3, <2>7 DEF Gapless
<1> QED BY <1>11, <1>12 DEF Sees

LEMMA OneReaderMoves ==
  ASSUME ReaderInv, Box' = Box, NEW r \in Reader, NEW x \in ReaderState, Sees(x, Box),
         rd' = [rd EXCEPT ![r] = x]
  PROVE  ReaderInv'
<1>1. rd' \in [Reader -> ReaderState] /\ \A u \in Reader : rd'[u] = IF u = r THEN x ELSE rd[u]
  BY DEF ReaderInv
<1>2. \A u \in Reader : Sees(rd'[u], Box')
  BY <1>1 DEF ReaderInv
<1> QED BY <1>1, <1>2 DEF ReaderInv

LEMMA ChunkSees ==
  ASSUME InboxInv, NEW q \in ReaderState, Sees(q, Box), NEW n \in q.at + 1 .. Whole,
         NEW p \in {"none", "begin"}, NEW odd \in {q.odd, q.odd \/ q.part = "mixed"},
         p = "begin" => n < Len(file), NEW x,
         x = [q EXCEPT !.at = n, !.part = p, !.got = Found(q, n), !.odd = odd,
                       !.torn = @ \/ q.part = "end"]
  PROVE  x \in ReaderState /\ Sees(x, Box)
<1> DEFINE i == IF q.part \in {"mixed", "end"} THEN q.at + 1 ELSE q.at
           more == [k \in 1 .. n - i |-> file[i + k].m]
<1>1. /\ q.at \in Nat /\ q.part \in Part /\ q.got \in Seq(Message) /\ q.odd \in BOOLEAN
      /\ q.torn \in BOOLEAN /\ q.on \in BOOLEAN
  BY DEF ReaderState
<1>2. /\ Len(file) \in Nat /\ Len(Box) \in Nat /\ Whole \in Int
      /\ Whole <= Len(file) /\ Len(file) <= Len(Box)
      /\ \A k \in 1 .. Whole : file[k].m = Box[k].m
  BY WholeLines
<1>3. n \in Nat /\ n <= Whole /\ q.at < n /\ n <= Len(Box)
  BY <1>1, <1>2
<1>4. i \in Nat /\ i <= n /\ Reach(q) <= i
  BY <1>1, <1>3 DEF Reach
<1>5. more \in Seq(Message) /\ Len(more) = n - i /\ \A k \in 1 .. n - i : more[k] = Box[i + k].m
  <2> HIDE DEF i
  <2>1. \A k \in 1 .. n - i : i + k \in 1 .. Whole /\ i + k \in 1 .. Len(Box)
    BY <1>2, <1>3, <1>4
  <2>2. \A k \in 1 .. n - i : file[i + k].m = Box[i + k].m /\ Box[i + k].m \in Message
    BY <1>2, <2>1, BoxFacts
  <2>3. n - i \in Nat
    BY <1>3, <1>4
  <2>4. \A k \in 1 .. n - i : more[k] = Box[i + k].m
    BY <2>2
  <2>5. \A k \in 1 .. n - i : more[k] \in Message
    BY <2>2
  <2> QED BY <2>3, <2>4, <2>5
<1>6. Found(q, n) = q.got \o more
  BY DEF Found
<1> HIDE DEF i, more
<1>7. /\ x.on = q.on /\ x.at = n /\ x.part = p /\ x.got = q.got \o more /\ x.odd = odd
      /\ x.torn = (q.torn \/ q.part = "end")
  BY <1>6 DEF ReaderState
<1>8. x \in ReaderState
  <2>1. q.got \o more \in Seq(Message)
    BY <1>1, <1>5
  <2>3. odd \in BOOLEAN
    BY <1>1
  <2>4. (q.torn \/ q.part = "end") \in BOOLEAN
    OBVIOUS
  <2>2. x = [on |-> q.on, at |-> n, part |-> p, got |-> q.got \o more, odd |-> odd,
             torn |-> (q.torn \/ q.part = "end")]
    BY <1>6 DEF ReaderState
  <2>5. p \in Part
    BY DEF Part
  <2> DEFINE t == (q.torn \/ q.part = "end")
             g == q.got \o more
  <2>6. x = [on |-> q.on, at |-> n, part |-> p, got |-> g, odd |-> odd, torn |-> t]
        /\ t \in BOOLEAN /\ g \in Seq(Message)
    BY <2>1, <2>2, <2>4
  <2> HIDE DEF t, g
  <2> QED BY <1>1, <1>3, <2>3, <2>5, <2>6 DEF ReaderState
<1>9. Reach(x) = n /\ Reach(x) \in Nat
  BY <1>3, <1>7 DEF Reach
<1>10. ASSUME ~ x.torn
       PROVE  /\ ~ q.torn /\ i = Len(q.got) /\ ~ x.odd /\ x.part # "mixed" /\ n = x.at
  <2>1. ~ q.torn /\ q.part # "end"
    BY <1>7, <1>10
  <2>2. Gapless(q, Box)
    BY <2>1 DEF Sees
  <2>3. ~ q.odd /\ q.part # "mixed" /\ Len(q.got) = q.at
    BY <2>1, <2>2 DEF Gapless
  <2> QED BY <1>7, <2>1, <2>3 DEF i
<1>11. x.at <= Len(Box) /\ (x.part # "begin" \/ x.at < Len(Box))
  BY <1>2, <1>3, <1>7
<1>12. Box \in Seq(Line)
  BY BoxFacts
<1>13. /\ n <= Reach(x)
       /\ x.torn \/ (/\ ~ q.torn /\ i = Len(q.got) /\ ~ x.odd /\ x.part # "mixed"
                     /\ (n = x.at \/ (x.part = "end" /\ n = x.at + 1)))
  BY <1>3, <1>9, <1>10
<1>14. Sees(x, Box)
  <2>1. x.got = q.got \o more
    BY <1>7
  <2>2. n \in Nat /\ n <= Len(Box)
    BY <1>3
  <2> QED BY <1>4, <1>5, <1>8, <1>11, <1>12, <1>13, <2>1, <2>2, SeesMore
<1> QED BY <1>8, <1>14

LEMMA ReadKeepsSight ==
  ASSUME InboxInv, ReaderInv, NEW r \in Reader, Read(r), UNCHANGED inboxVars
  PROVE  ReaderInv'
<1> DEFINE q == rd[r]
<1>1. Box' = Box
  BY DEF inboxVars, Box, Rewriting
<1>2. q \in ReaderState /\ Sees(q, Box) /\ Box \in Seq(Line)
  BY BoxFacts DEF ReaderInv
<1>3. rd \in [Reader -> ReaderState]
  BY DEF ReaderInv
<1>4. SUFFICES \E x \in ReaderState : rd' = [rd EXCEPT ![r] = x] /\ Sees(x, Box)
  BY <1>1, OneReaderMoves
<1>5. CASE RBegin(r) \/ RRaise(r)
  <2>1. <<>> \in Seq(Message)
    OBVIOUS
  <2>2. Fresh \in ReaderState /\ [Fresh EXCEPT !.on = FALSE] \in ReaderState
    BY <2>1 DEF Fresh, ReaderState, Part
  <2>3. Sees(Fresh, Box) /\ Sees([Fresh EXCEPT !.on = FALSE], Box)
    BY <1>2, <2>2, SeesNothing DEF Fresh
  <2> QED BY <1>5, <2>2, <2>3 DEF RBegin, RRaise
<1> HIDE DEF q
<1>6. CASE RChunk(r)
  <2>1. PICK n \in q.at + 1 .. Whole, p \in {"none", "begin"},
             odd \in {q.odd, q.odd \/ q.part = "mixed"} :
          /\ p = "begin" => n < Len(file)
          /\ rd' = [rd EXCEPT ![r] = [q EXCEPT !.at = n, !.part = p, !.got = Found(q, n), !.odd = odd,
                                               !.torn = @ \/ q.part = "end"]]
    BY <1>6 DEF RChunk, q
  <2> QED BY <1>2, <2>1, ChunkSees
<1>7. CASE RChunkWithin(r)
  <2> DEFINE x == [q EXCEPT !.part = "begin"]
  <2>1. rd' = [rd EXCEPT ![r] = x] /\ q.part = "none" /\ q.at < Len(file)
    BY <1>3, <1>7 DEF RChunkWithin, q
  <2>2. x \in ReaderState /\ x.at = q.at /\ x.got = q.got /\ x.part = "begin" /\ x.odd = q.odd
        /\ x.torn = q.torn
    BY <1>2 DEF ReaderState, Part
  <2> HIDE DEF x
  <2>3. x.at < Len(Box) /\ x.at <= Len(Box) /\ Reach(q) <= Reach(x)
    BY <1>2, <2>1, <2>2, WholeLines DEF Reach, ReaderState
  <2>4. ~ q.torn => Gapless(x, Box)
    BY <1>2, <2>1, <2>2 DEF Sees, Gapless
  <2>5. q.torn \in BOOLEAN
    BY <1>2 DEF ReaderState
  <2>6. Sees(x, Box)
    BY <1>2, <2>2, <2>3, <2>4, <2>5, SeesFurther
  <2> QED BY <2>1, <2>2, <2>6
<1>8. ASSUME RLast(r), q.part = "begin"
      PROVE  \E x \in ReaderState : rd' = [rd EXCEPT ![r] = x] /\ Sees(x, Box)
  <2>1. PICK got \in {q.got, Append(q.got, Box[q.at + 1].m)} :
          rd' = [rd EXCEPT ![r] = [q EXCEPT !.part = "end", !.got = got]]
    BY <1>8 DEF RLast, q
  <2> DEFINE x == [q EXCEPT !.part = "end", !.got = got]
             m == Box[q.at + 1].m
  <2>2. /\ q.at \in Nat /\ q.at < Len(Box) /\ Len(Box) \in Nat /\ q.got \in Seq(Message)
        /\ q.torn \in BOOLEAN
    BY <1>2, <1>8 DEF Sees, ReaderState
  <2>3. m \in Message
    BY <2>2, BoxFacts
  <2>9. got \in Seq(Message) /\ "end" \in Part
    <3>1. got = q.got \/ got = Append(q.got, m)
      OBVIOUS
    <3> HIDE DEF m
    <3>2. Append(q.got, m) \in Seq(Message)
      BY <2>2, <2>3
    <3> QED BY <2>2, <3>1, <3>2 DEF Part
  <2>4. x \in ReaderState /\ x.at = q.at /\ x.got = got /\ x.part = "end" /\ x.odd = q.odd
        /\ x.torn = q.torn
    BY <1>2, <2>9 DEF ReaderState
  <2> HIDE DEF x
  <2>5. /\ Reach(q) = q.at /\ Reach(x) = q.at + 1
    BY <1>8, <2>4 DEF Reach
  <2>6. ~ q.torn => ~ q.odd /\ Len(q.got) = q.at /\ Gapless(q, Box)
    BY <1>2, <1>8 DEF Sees, Gapless
  <2>7. CASE got = q.got
    <3>1. ~ q.torn => Gapless(x, Box)
      BY <2>4, <2>6, <2>7 DEF Gapless
    <3>2. Reach(q) <= Reach(x) /\ x.at <= Len(Box) /\ x.part # "begin"
      BY <2>2, <2>4, <2>5
    <3>3. Sees(x, Box)
      BY <1>2, <2>2, <2>4, <2>7, <3>1, <3>2, SeesFurther
    <3> QED BY <2>1, <2>4, <3>3 DEF x
  <2>8. CASE got = Append(q.got, m)
    <3> DEFINE i == q.at
               n == q.at + 1
               more == <<m>>
    <3>1. i \in Nat /\ n \in Nat /\ Reach(q) <= i /\ i <= n /\ n <= Len(Box) /\ n <= Reach(x)
      BY <2>2, <2>5
    <3>2. more \in Seq(Message) /\ Len(more) = n - i /\ \A k \in 1 .. n - i : more[k] = Box[i + k].m
      BY <2>2, <2>3
    <3>3. x.got = q.got \o more
      BY <2>2, <2>3, <2>4, <2>8, AppendIsConcat
    <3>4. x.torn \/ (/\ ~ q.torn /\ i = Len(q.got) /\ ~ x.odd /\ x.part # "mixed"
                     /\ (n = x.at \/ (x.part = "end" /\ n = x.at + 1)))
      BY <2>2, <2>4, <2>6
    <3>5. x.at <= Len(Box) /\ x.part # "begin"
      BY <2>2, <2>4
    <3> HIDE DEF i, n, more
    <3>6. Sees(x, Box)
      BY <1>2, <2>4, <3>1, <3>2, <3>3, <3>4, <3>5, SeesMore
    <3> QED BY <2>1, <2>4, <3>6 DEF x
  <2> QED BY <2>1, <2>7, <2>8
<1>9. ASSUME RLast(r), q.part = "mixed"
      PROVE  \E x \in ReaderState : rd' = [rd EXCEPT ![r] = x] /\ Sees(x, Box)
  <2>1. PICK p \in {"none", "end"}, odd \in BOOLEAN :
          rd' = [rd EXCEPT ![r] = [q EXCEPT !.part = p, !.odd = @ \/ odd]]
    BY <1>9 DEF RLast, q
  <2> DEFINE x == [q EXCEPT !.part = p, !.odd = @ \/ odd]
  <2>2. q.at \in Nat /\ q.odd \in BOOLEAN /\ q.torn
    BY <1>2, <1>9 DEF ReaderState, Sees, Gapless
  <2>3. x \in ReaderState /\ x.at = q.at /\ x.got = q.got /\ x.part = p /\ x.torn = q.torn
    BY <1>2, <2>1, <2>2 DEF ReaderState, Part
  <2> HIDE DEF x
  <2>4. Reach(q) <= Reach(x) /\ x.at <= Len(Box) /\ x.part # "begin"
    BY <1>2, <1>9, <2>1, <2>2, <2>3 DEF Reach, Sees
  <2>5. Sees(x, Box)
    BY <1>2, <2>2, <2>3, <2>4, SeesFurther
  <2> QED BY <2>1, <2>3, <2>5 DEF x
<1>10. CASE REnd(r)
  <2> DEFINE x == [q EXCEPT !.on = FALSE]
  <2>1. rd' = [rd EXCEPT ![r] = x]
    BY <1>3, <1>10 DEF REnd, q
  <2>2. x \in ReaderState /\ x.at = q.at /\ x.got = q.got /\ x.part = q.part /\ x.odd = q.odd
        /\ x.torn = q.torn
    BY <1>2 DEF ReaderState
  <2> HIDE DEF x
  <2>3. Sees(x, Box)
    BY <1>2, <2>2 DEF Sees, InOrder, Gapless, Reach
  <2> QED BY <2>1, <2>2, <2>3
<1>11. RLast(r) => q.part \in {"begin", "mixed"}
  BY DEF RLast, q
<1> QED BY <1>5, <1>6, <1>7, <1>8, <1>9, <1>10, <1>11 DEF Read

LEMMA TruncateKeepsSight ==
  ASSUME InboxInv, ReaderInv, NEW a \in Acker, TruncateUnderReaders(a)
  PROVE  ReaderInv'
<1> DEFINE copy == ack[a].copy
<1>1. ATruncate(a) /\ \A r \in Reader : Lands(rd[r], rd'[r], copy)
  BY DEF TruncateUnderReaders
<1>2. Box' = Box /\ Box = copy /\ Box \in Seq(Line) /\ Len(Box) \in Nat
  <2>1. ack[a].pc = "copied"
    BY <1>1 DEF ATruncate
  <2> QED BY <1>1, <2>1, ATruncateStep, BoxFacts
<1>3. PICK S : rd' \in [Reader -> S]
  BY DEF TruncateUnderReaders
<1>4. ASSUME NEW r \in Reader PROVE rd'[r] \in ReaderState /\ Sees(rd'[r], Box)
  <2> DEFINE q == rd[r]
             x == rd'[r]
  <2>1. q \in ReaderState /\ Sees(q, Box)
    BY DEF ReaderInv
  <2>2. x = q \/ \E n \in q.at .. Len(copy), p \in Part :
                   /\ x = Shifted(q, n, p)
                   /\ IF q.part \in {"none", "end"} THEN p = "end" \/ (p = "none" /\ n > q.at)
                      ELSE p = "mixed"
    <3>1. Lands(q, x, copy)
      BY <1>1
    <3> HIDE DEF q, x
    <3> QED BY <3>1 DEF Lands
  <2> HIDE DEF q, x
  <2>3. CASE x = q
    BY <2>1, <2>3 DEF x
  <2>4. CASE x # q
    <3>1. PICK n \in q.at .. Len(copy), p \in Part :
             /\ x = Shifted(q, n, p)
             /\ IF q.part \in {"none", "end"} THEN p = "end" \/ (p = "none" /\ n > q.at)
                ELSE p = "mixed"
      BY <2>2, <2>4
    <3>2. q.at \in Nat /\ n \in Nat /\ q.at <= n /\ n <= Len(Box)
      BY <1>2, <2>1 DEF ReaderState
    <3>3. /\ x \in ReaderState /\ x.at = n /\ x.part = p /\ x.got = q.got /\ x.torn
      BY <2>1, <3>1, <3>2 DEF ReaderState, Shifted
    <3>4. Reach(q) <= Reach(x)
      BY <3>1, <3>2, <3>3 DEF Reach
    <3>6. x.at <= Len(Box) /\ x.part # "begin"
      BY <3>1, <3>2, <3>3
    <3>5. Sees(x, Box)
      BY <1>2, <2>1, <3>3, <3>4, <3>6, SeesFurther
    <3> QED BY <3>3, <3>5 DEF x
  <2> QED BY <2>3, <2>4
<1>5. rd' \in [Reader -> ReaderState]
  BY <1>3, <1>4
<1>6. \A r \in Reader : Sees(rd'[r], Box')
  BY <1>2, <1>4
<1> QED BY <1>5, <1>6 DEF ReaderInv

\* Readers take no lock, and yet what load_inbox has found is in the order of the
\* mailbox, nothing twice and nothing that was not sent, whatever is rewritten under it;
\* where nothing before its offset is rewritten and it does not go on in the middle of a
\* line, it is the oldest part of the mailbox.  (load_inbox beside ack_inbox, where nobody
\* dies and no body holds a Unicode line separator)
THEOREM OrderForReaders ==
  ASSUME Mortal = {}, Split = {}
  PROVE  ReadersSpec => []ReadersKeepOrder
<1>0. Mortal = {} /\ Split = {}
  OBVIOUS
<1>1. ReadersSpec => []InboxInv
  BY <1>0, ReadersAreQuiet, InboxInvariant, PTL
<1>2. ReadersInit => ReaderInv
  <2> SUFFICES ASSUME ReadersInit PROVE ReaderInv
    OBVIOUS
  <2>1. InboxInv
    BY InitInboxInv DEF ReadersInit
  <2>2. <<>> \in Seq(Message)
    OBVIOUS
  <2> DEFINE x == [Fresh EXCEPT !.on = FALSE]
  <2>3. x \in ReaderState /\ Sees(x, Box)
    <3>1. x \in ReaderState
      BY <2>2 DEF Fresh, ReaderState, Part
    <3> QED BY <2>1, <3>1, BoxFacts, SeesNothing DEF Fresh
  <2>4. rd = [r \in Reader |-> x]
    BY DEF ReadersInit
  <2> HIDE DEF x
  <2> QED BY <2>3, <2>4 DEF ReaderInv
<1>3. InboxInv /\ ReaderInv /\ InboxInv' /\ [ReadersNext]_readersVars => ReaderInv'
  <2> SUFFICES ASSUME InboxInv, ReaderInv, InboxInv', [ReadersNext]_readersVars PROVE ReaderInv'
    OBVIOUS
  <2>1. ASSUME [InboxNext]_inboxVars, UNCHANGED rd PROVE ReaderInv'
    <3>1. Grows(Box, Box') /\ Box \in Seq(Line) /\ Box' \in Seq(Line)
      BY <1>0, <2>1, BoxGrows
    <3>2. PICK b : b = Box'
      OBVIOUS
    <3>3. \A r \in Reader : Sees(rd[r], b)
      BY <3>1, <3>2, SeesGrown DEF ReaderInv
    <3> QED BY <2>1, <3>2, <3>3 DEF ReaderInv
  <2>2. CASE UNCHANGED readersVars
    BY <2>1, <2>2 DEF readersVars, inboxVars
  <2>3. ASSUME NEW r \in Reader, Read(r), UNCHANGED inboxVars PROVE ReaderInv'
    BY <2>3, ReadKeepsSight
  <2>4. ASSUME NEW a \in Acker, TruncateUnderReaders(a) PROVE ReaderInv'
    BY <2>4, TruncateKeepsSight
  <2> QED BY <2>1, <2>2, <2>3, <2>4 DEF ReadersNext
<1>4. InboxInv /\ ReaderInv => ReadersKeepOrder
  <2> SUFFICES ASSUME InboxInv, ReaderInv PROVE ReadersKeepOrder
    OBVIOUS
  <2>1. \A r \in Reader : Sees(rd[r], Box)
    BY DEF ReaderInv
  <2> QED BY <2>1 DEF ReadersKeepOrder, Sees, InOrder, Gapless
<1> QED BY <1>1, <1>2, <1>3, <1>4, PTL DEF ReadersSpec

-----------------------------------------------------------------------------
(* What a death costs, whoever may die.                                     *)

\* Appended, and neither in the mailbox any more nor gone with a read.py that died.
Pending == {m \in Message : /\ snd[m] \in {"stored", "sent"}
                            /\ \A i \in 1 .. Len(Box) : Box[i].m # m
                            /\ m \notin InHands}
Begun   == {m \in Message : snd[m] # "new"}

\* A line that somebody left without its end, which the next sender continues.
TornLine == open /\ ~ \E a \in Acker : lock = a /\ ack[a].pc = "write"

\* A line without its end is not a message.
OpenInv == open => Len(file) > 0 /\ file[Len(file)].m \notin Message

\* What an acknowledgement is about to write back is in the file, and the whole lines
\* that it has written are the first ones of its copy.
WriteInv ==
  \A a \in Acker :
     /\ ack[a].pc = "copied" =>
          \A k \in 1 .. Len(ack[a].copy) : \E i \in 1 .. Len(file) : file[i].m = ack[a].copy[k].m
     /\ ack[a].pc = "write" =>
          Whole <= Len(ack[a].copy) /\ \A i \in 1 .. Whole : file[i] = ack[a].copy[i]

\* Every message that is lost, and the torn line that waits for one, has a death
\* of its own.
CostInv ==
  /\ IsFiniteSet(Begun) /\ IsFiniteSet(Dead)
  /\ Cardinality(Pending) + (IF TornLine THEN 1 ELSE 0) <= Cardinality(Dead)

LockInv  == InboxTypeOK /\ Exclusive /\ OpenInv /\ WriteInv
DeathInv == LockInv /\ CostInv

LEMMA BoxType ==
  ASSUME LockInv
  PROVE  /\ Box \in Seq(Line) /\ file \in Seq(Line)
         /\ \A a \in Acker : ack[a].copy \in Seq(Copy) /\ ack[a].copy \in Seq(Line)
         /\ lock \notin Acker => Box = file
         /\ \A a \in Acker : lock = a /\ ack[a].pc = "read" => Box = file
         /\ \A a \in Acker : ack[a].pc \in {"copied", "write"} => lock = a /\ Box = ack[a].copy
<1>1. \A a \in Acker : ack[a].copy \in Seq(Copy) /\ ack[a].copy \in Seq(Line)
  <2> SUFFICES ASSUME NEW a \in Acker
               PROVE  ack[a].copy \in Seq(Copy) /\ ack[a].copy \in Seq(Line)
    OBVIOUS
  <2>1. ack[a].copy \in Seq(Copy)
    BY DEF LockInv, InboxTypeOK, AckState, Copy
  <2>2. Copy \subseteq Line
    BY DEF Copy, Line
  <2> QED BY <2>1, <2>2
<1>2. file \in Seq(Line)
  BY DEF LockInv, InboxTypeOK
<1>3. /\ \A a \in Acker : ack[a].pc \in {"copied", "write"} => lock = a /\ Rewriting
      /\ Rewriting => lock \in Acker /\ ack[lock].pc \in {"copied", "write"}
  BY DEF LockInv, Exclusive, Rewriting
<1>4. Box = IF Rewriting THEN ack[lock].copy ELSE file
  BY DEF Box
<1> QED BY <1>1, <1>2, <1>3, <1>4

\* The senders keep the types, the lock and the end of the file.
LEMMA SenderKeepsTypes ==
  ASSUME LockInv, NEW m \in Message, SBegin(m) \/ Sender(m) \/ SCut(m)
  PROVE  InboxTypeOK' /\ Exclusive' /\ OpenInv'
<1> USE NoneAssumption, ApartAssumption
<1>1. CASE SBegin(m)
  BY <1>1 DEF LockInv, InboxTypeOK, Exclusive, OpenInv, SBegin
<1>2. CASE SLock(m)
  BY <1>2 DEF LockInv, InboxTypeOK, Exclusive, OpenInv, SLock
<1>3. CASE SUnlock(m)
  BY <1>3 DEF LockInv, InboxTypeOK, Exclusive, OpenInv, SUnlock
<1>4. CASE SAppend(m)
  <2>1. New(m) \in Line
    BY DEF New, Line
  <2>2. file' \in Seq(Line) /\ ~ open'
    BY <1>4, <2>1 DEF LockInv, InboxTypeOK, SAppend
  <2>3. InboxTypeOK' /\ Exclusive'
    BY <1>4, <2>2 DEF LockInv, InboxTypeOK, Exclusive, SAppend
  <2> QED BY <2>2, <2>3 DEF LockInv, OpenInv
<1>5. CASE SCut(m)
  <2>1. file \in Seq(Line) /\ Cut \subseteq Line /\ \A l \in Cut : l.m \notin Message
    BY DEF LockInv, InboxTypeOK, Cut, Line
  <2>2. file' \in Seq(Line) /\ Len(file') > 0 /\ file'[Len(file')].m \notin Message
    <3>1. CASE ~ open
      <4>1. PICK l \in Cut : file' = Append(file, l)
        BY <1>5, <3>1 DEF SCut
      <4> QED BY <2>1, <4>1
    <3>2. CASE open
      <4> DEFINE n == Len(file)
      <4>1. n > 0 /\ n \in Nat /\ file[n] \in Line
        BY <2>1, <3>2 DEF LockInv, OpenInv
      <4>2. PICK l \in Cut : file' = [file EXCEPT ![n].m = IF @ = Junk THEN Junk ELSE l.m]
        BY <1>5, <3>2 DEF SCut
      <4> DEFINE x == [file[n] EXCEPT !.m = IF @ = Junk THEN Junk ELSE l.m]
      <4>3. x \in Line /\ x.m \notin Message
        BY <2>1, <4>1 DEF Line, Cut
      <4>4. file' = [file EXCEPT ![n] = x]
        BY <4>2
      <4> HIDE DEF x
      <4> QED BY <2>1, <4>1, <4>3, <4>4
    <3> QED BY <3>1, <3>2
  <2>3. InboxTypeOK'
    BY <1>5, <2>2 DEF LockInv, InboxTypeOK, SCut
  <2>4. Exclusive'
    BY <1>5 DEF LockInv, InboxTypeOK, Exclusive, SCut
  <2> QED BY <2>2, <2>3, <2>4 DEF LockInv, OpenInv
<1> QED BY <1>1, <1>2, <1>3, <1>4, <1>5 DEF Sender

\* What ack_inbox has read and marked.
LEMMA ReadFacts ==
  ASSUME LockInv, Split = {}, NEW a \in Acker, ARead(a)
  PROVE  LET copy == Marked(AckLoaded(file), ack[a].ids) IN
         /\ copy \in Seq(Copy)
         /\ \A i \in 1 .. Len(file) : file[i].m \in Message =>
              \E k \in 1 .. Len(copy) : copy[k].m = file[i].m
         /\ \A k \in 1 .. Len(copy) : \E i \in 1 .. Len(file) : file[i].m = copy[k].m
<1> DEFINE loaded == AckLoaded(file)
           copy == Marked(loaded, ack[a].ids)
<1>1. file \in Seq(Line) /\ \A i \in 1 .. Len(file) : file[i] \in Line /\ file[i].m # Junk
  BY DEF LockInv, InboxTypeOK, ARead, Decodes
<1>2. loaded = Without({None}, file)
  BY DEF AckLoaded
<1>3. /\ loaded \in Seq(Line)
      /\ \A k \in 1 .. Len(loaded) : \E i \in 1 .. Len(file) : loaded[k] = file[i] /\ file[i].m # None
      /\ \A i \in 1 .. Len(file) : file[i].m # None => \E k \in 1 .. Len(loaded) : loaded[k] = file[i]
  <2> DEFINE bad == {None}
  <2>1. \A x : x \notin bad <=> x # None
    OBVIOUS
  <2> HIDE DEF bad
  <2>2. /\ Without(bad, file) \in Seq(Line)
        /\ \A k \in 1 .. Len(Without(bad, file)) :
             \E i \in 1 .. Len(file) : Without(bad, file)[k] = file[i] /\ file[i].m \notin bad
        /\ \A i \in 1 .. Len(file) : file[i].m \notin bad =>
             \E k \in 1 .. Len(Without(bad, file)) : Without(bad, file)[k] = file[i]
    BY <1>1, WithoutFacts
  <2>3. loaded = Without(bad, file)
    BY <1>2 DEF bad
  <2> HIDE DEF loaded
  <2> QED BY <2>1, <2>2, <2>3
<1> HIDE DEF loaded
<1>4. \A k \in 1 .. Len(loaded) : loaded[k].m \in Message
  BY <1>1, <1>3 DEF Line
<1>5. /\ copy \in Seq(Copy) /\ Len(copy) = Len(loaded)
      /\ \A k \in 1 .. Len(loaded) : copy[k].m = loaded[k].m
  BY <1>3, <1>4, MarkedFacts
<1> HIDE DEF copy
<1>6. \A i \in 1 .. Len(file) : file[i].m \in Message => \E k \in 1 .. Len(copy) : copy[k].m = file[i].m
  BY <1>3, <1>5, NoneAssumption
<1>7. \A k \in 1 .. Len(copy) : \E i \in 1 .. Len(file) : file[i].m = copy[k].m
  BY <1>3, <1>5
<1> QED BY <1>5, <1>6, <1>7 DEF copy, loaded

LEMMA AckerKeepsTypes ==
  ASSUME LockInv, Split = {}, NEW a \in Acker,
         AckStep(a) \/ (\E I \in (SUBSET Message) \ {{}} : ABegin(a, I))
  PROVE  InboxTypeOK' /\ Exclusive' /\ OpenInv'
<1> USE NoneAssumption, ApartAssumption
<1>0. AckIdle \in AckState /\ AckIdle.pc = "idle"
  <2>1. <<>> \in Seq([m : Message, acked : BOOLEAN])
    OBVIOUS
  <2> QED BY <2>1 DEF AckIdle, AckState
<1>1. ASSUME NEW I \in SUBSET Message, ABegin(a, I) PROVE InboxTypeOK' /\ Exclusive' /\ OpenInv'
  <2>1. /\ ack[a].pc = "idle"
        /\ ack' = [ack EXCEPT ![a] = [AckIdle EXCEPT !.pc = "wait", !.ids = I]]
        /\ acks' = acks + 1
        /\ UNCHANGED <<file, open, lock, snd, crashes>>
    BY <1>1 DEF ABegin
  <2>2. /\ [AckIdle EXCEPT !.pc = "wait", !.ids = I] \in AckState
        /\ [AckIdle EXCEPT !.pc = "wait", !.ids = I].pc = "wait"
    BY <1>0 DEF AckState
  <2>3. InboxTypeOK'
    BY <2>1, <2>2 DEF LockInv, InboxTypeOK
  <2>4. Exclusive'
    BY <2>1, <2>2 DEF LockInv, InboxTypeOK, Exclusive
  <2> QED BY <2>1, <2>3, <2>4 DEF LockInv, OpenInv
<1>2. CASE ALock(a)
  <2>1. ack' = [ack EXCEPT ![a].pc = "read"] /\ ack' \in [Acker -> AckState]
    BY <1>2 DEF LockInv, InboxTypeOK, ALock, AckState
  <2>2. InboxTypeOK'
    BY <1>2, <2>1 DEF LockInv, InboxTypeOK, ALock
  <2>3. Exclusive'
    BY <1>2, <2>1 DEF LockInv, InboxTypeOK, Exclusive, ALock, AckState
  <2> QED BY <1>2, <2>2, <2>3 DEF LockInv, OpenInv, ALock
<1>3. CASE ARead(a)
  <2> DEFINE copy == Marked(AckLoaded(file), ack[a].ids)
  <2>1. copy \in Seq(Copy)
    BY <1>3, ReadFacts
  <2>2. ack' = [ack EXCEPT ![a].pc = "copied", ![a].copy = copy] /\ ack[a].pc = "read"
        /\ UNCHANGED <<file, open, lock, snd, acks, crashes>>
    BY <1>3 DEF ARead
  <2> HIDE DEF copy
  <2>0. /\ ack' = [ack EXCEPT ![a] = [@ EXCEPT !.pc = "copied", !.copy = copy]]
        /\ ack \in [Acker -> AckState]
    BY <2>2 DEF LockInv, InboxTypeOK
  <2>3. ack' \in [Acker -> AckState]
    BY <2>0, <2>1, CopiedState
  <2>4. InboxTypeOK'
    BY <2>2, <2>3 DEF LockInv, InboxTypeOK
  <2>5. Exclusive'
    BY <2>2 DEF LockInv, InboxTypeOK, Exclusive, AckState
  <2> QED BY <2>2, <2>4, <2>5 DEF LockInv, OpenInv
<1>4. CASE AReadRaises(a)
  <2>1. InboxTypeOK'
    BY <1>0, <1>4 DEF LockInv, InboxTypeOK, AReadRaises
  <2>2. Exclusive'
    BY <1>0, <1>4 DEF LockInv, InboxTypeOK, Exclusive, AReadRaises
  <2> QED BY <1>4, <2>1, <2>2 DEF LockInv, OpenInv, AReadRaises
<1>5. CASE ATruncate(a)
  <2>1. ack' = [ack EXCEPT ![a].pc = "write"] /\ ack' \in [Acker -> AckState]
    BY <1>5 DEF LockInv, InboxTypeOK, ATruncate, AckState
  <2>0. file' = <<>> /\ open' = FALSE
    BY <1>5 DEF ATruncate
  <2>2. file' \in Seq(Line) /\ ~ open' /\ open' \in BOOLEAN
    <3>1. <<>> \in Seq(Line)
      OBVIOUS
    <3> QED BY <2>0, <3>1
  <2>3. InboxTypeOK'
    BY <1>5, <2>1, <2>2 DEF LockInv, InboxTypeOK, ATruncate
  <2>4. Exclusive'
    BY <1>5, <2>1 DEF LockInv, InboxTypeOK, Exclusive, ATruncate, AckState
  <2> QED BY <2>2, <2>3, <2>4 DEF LockInv, OpenInv
<1>6. CASE AFlush(a)
  <2> DEFINE copy == ack[a].copy
  <2>1. copy \in Seq(Line)
    BY BoxType
  <2>2. PICK k \in 0 .. Len(copy) :
          \/ file' = SubSeq(copy, 1, k) /\ open' = FALSE
          \/ open' = TRUE /\ \E l \in Cut : file' = Append(SubSeq(copy, 1, k), l)
    BY <1>6 DEF AFlush
  <2>3. SubSeq(copy, 1, k) \in Seq(Line)
    BY <2>1
  <2>0. Cut \subseteq Line /\ \A l \in Cut : l.m \notin Message
    BY DEF Cut, Line
  <2>4. file' \in Seq(Line) /\ open' \in BOOLEAN /\ OpenInv'
    <3> DEFINE part == SubSeq(copy, 1, k)
    <3> HIDE DEF part
    <3>1. part \in Seq(Line)
      BY <2>3 DEF part
    <3>2. \/ file' = part /\ open' = FALSE
          \/ open' = TRUE /\ \E l \in Cut : file' = Append(part, l)
      BY <2>2 DEF part
    <3>3. ASSUME NEW l \in Cut, file' = Append(part, l)
          PROVE  file' \in Seq(Line) /\ Len(file') > 0 /\ file'[Len(file')].m \notin Message
      BY <2>0, <3>1, <3>3
    <3> QED BY <3>1, <3>2, <3>3 DEF OpenInv
  <2>5. UNCHANGED <<lock, snd, ack, acks, crashes>>
    BY <1>6 DEF AFlush
  <2>6. InboxTypeOK' /\ Exclusive'
    BY <2>4, <2>5 DEF LockInv, InboxTypeOK, Exclusive
  <2> QED BY <2>4, <2>6 DEF LockInv
<1>7. CASE AUnlock(a)
  <2>1. InboxTypeOK'
    BY <1>0, <1>7 DEF LockInv, InboxTypeOK, AUnlock
  <2>2. Exclusive'
    BY <1>0, <1>7 DEF LockInv, InboxTypeOK, Exclusive, AUnlock
  <2> QED BY <1>7, <2>1, <2>2 DEF LockInv, OpenInv, AUnlock
<1> QED BY <1>1, <1>2, <1>3, <1>4, <1>5, <1>6, <1>7 DEF AckStep

\* Nobody but the holder of the lock is at the file.
LEMMA SenderKeepsLock ==
  ASSUME LockInv, NEW m \in Message, SBegin(m) \/ Sender(m) \/ SCut(m)
  PROVE  LockInv'
<1> USE NoneAssumption, ApartAssumption
<1>1. InboxTypeOK' /\ Exclusive' /\ OpenInv'
  BY SenderKeepsTypes
<1>2. ack' = ack
  BY DEF SBegin, Sender, SLock, SAppend, SUnlock, SCut
<1>3. CASE SBegin(m) \/ SLock(m) \/ SUnlock(m)
  <2>1. file' = file /\ open' = open /\ Whole' = Whole
    BY <1>3 DEF SBegin, SLock, SUnlock, Whole
  <2>2. WriteInv'
    BY <1>2, <2>1 DEF LockInv, WriteInv
  <2> QED BY <1>1, <2>2 DEF LockInv
<1>4. CASE SAppend(m) \/ SCut(m)
  <2>1. lock = m
    BY <1>4 DEF SAppend, SCut, LockInv, Exclusive
  <2>2. \A a \in Acker : ack'[a].pc \notin {"copied", "write"}
    BY <1>2, <2>1 DEF LockInv, Exclusive
  <2>3. WriteInv'
    BY <2>2 DEF WriteInv
  <2> QED BY <1>1, <2>3 DEF LockInv
<1> QED BY <1>3, <1>4 DEF Sender

LEMMA AckerKeepsLock ==
  ASSUME LockInv, Split = {}, NEW a \in Acker,
         AckStep(a) \/ (\E I \in (SUBSET Message) \ {{}} : ABegin(a, I))
  PROVE  LockInv'
<1> USE NoneAssumption, ApartAssumption
<1>0. InboxTypeOK' /\ Exclusive' /\ OpenInv'
  BY AckerKeepsTypes
<1>1. SUFFICES WriteInv'
  BY <1>0 DEF LockInv
<1>2. ack \in [Acker -> AckState] /\ \A b \in Acker : b # a => ack'[b] = ack[b]
  BY DEF LockInv, InboxTypeOK, AckStep, ABegin, ALock, ARead, AReadRaises, ATruncate, AFlush, AUnlock
<1>3. CASE (\E I \in (SUBSET Message) \ {{}} : ABegin(a, I)) \/ ALock(a) \/ AReadRaises(a)
  <2>0. file' = file /\ open' = open
    BY <1>3, Zenon DEF ABegin, ALock, AReadRaises
  <2>1. file' = file /\ open' = open /\ Whole' = Whole
    BY <2>0 DEF Whole
  <2>2. ack'[a].pc \notin {"copied", "write"}
    <3>1. ASSUME NEW I, ABegin(a, I) PROVE ack'[a].pc = "wait"
      BY <1>2, <3>1 DEF ABegin, AckIdle
    <3>2. ASSUME ALock(a) PROVE ack'[a].pc = "read"
      BY <1>2, <3>2 DEF ALock, AckState
    <3>3. ASSUME AReadRaises(a) PROVE ack'[a].pc = "idle"
      BY <1>2, <3>3 DEF AReadRaises, AckIdle
    <3> QED BY <1>3, <3>1, <3>2, <3>3
  <2> QED BY <1>2, <2>1, <2>2 DEF LockInv, WriteInv
<1>4. ASSUME ack[a].pc \in {"read", "copied", "write"}
      PROVE  \A b \in Acker : b # a => ack'[b].pc \notin {"copied", "write"}
  BY <1>2, <1>4 DEF LockInv, Exclusive
<1>5. CASE ARead(a)
  <2> DEFINE copy == Marked(AckLoaded(file), ack[a].ids)
  <2>1. \A k \in 1 .. Len(copy) : \E i \in 1 .. Len(file) : file[i].m = copy[k].m
    BY <1>5, ReadFacts
  <2>2. /\ file' = file /\ ack[a].pc = "read"
        /\ ack' = [ack EXCEPT ![a].pc = "copied", ![a].copy = copy]
    BY <1>5 DEF ARead
  <2> HIDE DEF copy
  <2>3. ack'[a].pc = "copied" /\ ack'[a].copy = copy
    BY <1>2, <2>2 DEF AckState
  <2> QED BY <1>4, <2>1, <2>2, <2>3 DEF WriteInv
<1>6. CASE ATruncate(a)
  <2>1. file' = <<>> /\ open' = FALSE /\ ack[a].pc = "copied" /\ ack'[a].pc = "write"
    BY <1>2, <1>6 DEF ATruncate, AckState
  <2>2. ack'[a].copy \in Seq(Copy)
    <3>1. ack'[a].copy = ack[a].copy
      BY <1>2, <1>6 DEF ATruncate, AckState
    <3> QED BY <3>1, BoxType
  <2>3. Whole' = 0 /\ Len(ack'[a].copy) \in Nat
    BY <2>1, <2>2 DEF Whole
  <2> QED BY <1>4, <2>1, <2>3 DEF WriteInv
<1>7. CASE AFlush(a)
  <2> DEFINE copy == ack[a].copy
  <2>1. ack' = ack /\ ack[a].pc = "write"
    BY <1>7 DEF AFlush
  <2>2. PICK k \in 0 .. Len(copy) :
          \/ file' = SubSeq(copy, 1, k) /\ open' = FALSE
          \/ open' = TRUE /\ \E l \in Cut : file' = Append(SubSeq(copy, 1, k), l)
    BY <1>7 DEF AFlush
  <2>3. copy \in Seq(Line)
    BY BoxType
  <2> DEFINE part == SubSeq(copy, 1, k)
  <2>4. part \in Seq(Line) /\ Len(part) = k /\ k \in Nat /\ k <= Len(copy) /\ \A i \in 1 .. k : part[i] = copy[i]
    BY <2>3
  <2> HIDE DEF part, copy
  <2>5. Whole' = k /\ \A i \in 1 .. k : file'[i] = copy[i]
    <3>1. CASE file' = part /\ open' = FALSE
      BY <2>4, <3>1 DEF Whole
    <3>2. ASSUME NEW l \in Cut, file' = Append(part, l), open' = TRUE
          PROVE  Whole' = k /\ \A i \in 1 .. k : file'[i] = copy[i]
      BY <2>4, <3>2 DEF Whole
    <3> QED BY <2>2, <3>1, <3>2 DEF part
  <2> QED BY <1>4, <2>1, <2>4, <2>5 DEF WriteInv, copy
<1>8. CASE AUnlock(a)
  <2>1. ack[a].pc = "write" /\ ack'[a].pc = "idle"
    BY <1>2, <1>8 DEF AUnlock, AckIdle
  <2> QED BY <1>4, <2>1 DEF WriteInv
<1> QED BY <1>3, <1>5, <1>6, <1>7, <1>8 DEF AckStep

\* What a read.py leaves behind.
Left(p) == [AckIdle EXCEPT !.pc = "dead", !.copy = Unwritten(p)]

LEMMA LeftFacts ==
  ASSUME LockInv, NEW p \in Acker
  PROVE  Left(p) \in AckState /\ Left(p).pc = "dead" /\ Left(p).copy = Unwritten(p)
<1>1. Unwritten(p) \in Seq(Copy)
  <2>1. CASE ack[p].pc = "write"
    <3> DEFINE copy == ack[p].copy
    <3>1. copy \in Seq(Copy) /\ file \in Seq(Line)
      BY BoxType
    <3>2. Whole + 1 \in Nat
      <4>1. Len(file) \in Nat /\ (open => Len(file) > 0)
        BY <3>1 DEF LockInv, OpenInv
      <4> QED BY <4>1 DEF Whole
    <3> HIDE DEF copy
    <3>3. Whole <= Len(copy) /\ Len(copy) \in Nat
      BY <2>1, <3>1 DEF LockInv, WriteInv, copy
    <3>4. Whole + 1 \in 1 .. Len(copy) + 1
      <4>1. Len(file) \in Nat /\ (open => Len(file) > 0)
        BY <3>1 DEF LockInv, OpenInv
      <4>2. Whole \in Nat
        BY <4>1 DEF Whole
      <4> QED BY <3>3, <4>2
    <3>5. SubSeq(copy, Whole + 1, Len(copy)) \in Seq(Copy)
      BY <3>1, <3>3, <3>4
    <3> QED BY <2>1, <3>5 DEF Unwritten, copy
  <2>2. CASE ack[p].pc # "write"
    BY <2>2 DEF Unwritten
  <2> QED BY <2>1, <2>2
<1>2. AckIdle = [pc |-> "idle", ids |-> {}, copy |-> <<>>]
  BY DEF AckIdle
<1> QED BY <1>1, <1>2 DEF Left, AckState, Copy

LEMMA DieKeepsLock ==
  ASSUME LockInv, NEW p \in Mortal, Die(p)
  PROVE  LockInv'
<1> USE NoneAssumption, ApartAssumption, MortalAssumption
<1>1. /\ UNCHANGED <<file, open, acks>> /\ crashes' = crashes + 1
      /\ lock' = IF lock = p THEN None ELSE lock
  BY DEF Die
<1>4. Whole' = Whole
  BY <1>1 DEF Whole
<1>2. CASE p \in Message
  <2>1. snd' = [snd EXCEPT ![p] = "dead"] /\ ack' = ack
    BY <1>2 DEF Die
  <2>2. InboxTypeOK' /\ Exclusive' /\ OpenInv'
    BY <1>1, <1>2, <2>1 DEF LockInv, InboxTypeOK, Exclusive, OpenInv
  <2>3. WriteInv'
    BY <1>1, <1>4, <2>1 DEF LockInv, WriteInv
  <2> QED BY <2>2, <2>3 DEF LockInv
<1>3. CASE p \in Acker
  <2>1. ack' = [ack EXCEPT ![p] = Left(p)] /\ snd' = snd
    BY <1>3 DEF Die, Left
  <2>3. Left(p) \in AckState /\ Left(p).pc = "dead"
    BY <1>3, LeftFacts
  <2>4. ack \in [Acker -> AckState] /\ crashes \in Nat
    BY DEF LockInv, InboxTypeOK
  <2>5. crashes' \in Nat
    BY <1>1, <2>4
  <2>6. /\ ack' \in [Acker -> AckState]
        /\ \A b \in Acker : b # p => ack'[b] = ack[b]
        /\ ack'[p].pc = "dead"
    BY <1>3, <2>1, <2>3, <2>4
  <2>7. lock' \in Message \cup Acker \cup {None}
    BY <1>1 DEF LockInv, InboxTypeOK
  <2>2. InboxTypeOK'
    BY <1>1, <2>1, <2>5, <2>6, <2>7 DEF LockInv, InboxTypeOK
  <2>8. Exclusive'
    BY <1>1, <1>3, <2>1, <2>6 DEF LockInv, InboxTypeOK, Exclusive
  <2>9. WriteInv'
    BY <1>1, <1>4, <2>6 DEF LockInv, WriteInv
  <2>10. OpenInv'
    BY <1>1 DEF LockInv, OpenInv
  <2> QED BY <2>2, <2>8, <2>9, <2>10 DEF LockInv
<1> QED BY <1>2, <1>3

-----------------------------------------------------------------------------
(* How the sets move.                                                       *)

LEMMA SetsAreFinite ==
  ASSUME IsFiniteSet(Begun), IsFiniteSet(Dead)
  PROVE  /\ IsFiniteSet(Pending) /\ Cardinality(Pending) \in Nat
         /\ Cardinality(Dead) \in Nat
<1>1. Pending \in SUBSET Begun
  BY DEF Pending, Begun
<1> QED BY <1>1, FS_Subset, FS_CardinalityType

\* Nothing is lost and nobody dies.
LEMMA NothingLost ==
  ASSUME CostInv, NEW m, Begun' \subseteq Begun \cup {m}, Pending' \subseteq Pending, Dead' = Dead,
         TornLine' => TornLine
  PROVE  CostInv'
<1>1. IsFiniteSet(Begun) /\ IsFiniteSet(Begun') /\ IsFiniteSet(Dead)
  BY FS_AddElement, FS_Subset DEF CostInv
<1>2. Cardinality(Pending') <= Cardinality(Pending) /\ Cardinality(Pending') \in Nat
  BY <1>1, SetsAreFinite, FS_Subset, FS_CardinalityType
<1>3. Cardinality(Pending) \in Nat /\ Cardinality(Dead) \in Nat
  BY <1>1, SetsAreFinite
<1> QED BY <1>1, <1>2, <1>3 DEF CostInv

\* Somebody dies, and may leave a torn line.
LEMMA SomebodyDies ==
  ASSUME CostInv, NEW p, p \notin Dead, Dead' = Dead \cup {p}, Begun' = Begun, Pending' \subseteq Pending
  PROVE  CostInv'
<1>1. IsFiniteSet(Begun) /\ IsFiniteSet(Dead)
  BY DEF CostInv
<1>2. Cardinality(Pending') <= Cardinality(Pending) /\ Cardinality(Pending') \in Nat
  BY <1>1, SetsAreFinite, FS_Subset, FS_CardinalityType
<1>3. Cardinality(Pending) \in Nat /\ Cardinality(Dead) \in Nat
  BY <1>1, SetsAreFinite
<1>4. Cardinality(Dead') = Cardinality(Dead) + 1 /\ IsFiniteSet(Dead')
  BY <1>1, FS_AddElement
<1> QED BY <1>1, <1>2, <1>3, <1>4 DEF CostInv

\* The message that continues a torn line is lost with it.
LEMMA OneIsLost ==
  ASSUME CostInv, NEW m, Pending' \subseteq Pending \cup {m}, TornLine, ~ TornLine',
         Dead' = Dead, Begun' = Begun
  PROVE  CostInv'
<1>1. IsFiniteSet(Begun) /\ IsFiniteSet(Dead)
  BY DEF CostInv
<1>2. IsFiniteSet(Pending) /\ Cardinality(Pending) \in Nat /\ Cardinality(Dead) \in Nat
  BY <1>1, SetsAreFinite
<1>3. /\ IsFiniteSet(Pending \cup {m})
      /\ Cardinality(Pending \cup {m}) \in Nat
      /\ Cardinality(Pending \cup {m}) <= Cardinality(Pending) + 1
  <2>1. /\ IsFiniteSet(Pending \cup {m})
        /\ Cardinality(Pending \cup {m}) = IF m \in Pending THEN Cardinality(Pending)
                                           ELSE Cardinality(Pending) + 1
    BY <1>2, FS_AddElement
  <2> QED BY <1>2, <2>1
<1>4. Cardinality(Pending') <= Cardinality(Pending \cup {m}) /\ Cardinality(Pending') \in Nat
  BY <1>3, FS_Subset, FS_CardinalityType
<1> QED BY <1>1, <1>2, <1>3, <1>4 DEF CostInv

LEMMA SenderCosts ==
  ASSUME DeathInv, NEW m \in Message, SBegin(m) \/ Sender(m) \/ SCut(m)
  PROVE  CostInv'
<1> USE NoneAssumption, ApartAssumption
<1>0. CostInv /\ LockInv /\ snd \in [Message -> {"new", "ready", "holds", "stored", "sent", "dead"}]
  BY DEF DeathInv, LockInv, InboxTypeOK
<1>1. ack' = ack /\ InHands' = InHands
  BY DEF InHands, SBegin, Sender, SLock, SAppend, SUnlock, SCut
<1>5. m \notin Acker
  OBVIOUS
<1>2. CASE SBegin(m) \/ SLock(m) \/ SUnlock(m)
  <2>1. Box' = Box
    BY <1>2 DEF SBegin, SLock, SUnlock, DeathInv, LockInv, Exclusive, Box, Rewriting
  <2>2. /\ \A u \in Message : u # m => snd'[u] = snd[u]
        /\ snd[m] # "dead" /\ snd'[m] # "dead"
        /\ snd'[m] \in {"stored", "sent"} => snd[m] \in {"stored", "sent"}
    BY <1>0, <1>2 DEF SBegin, SLock, SUnlock
  <2>3. Begun' \subseteq Begun \cup {m} /\ Dead' = Dead
    BY <1>1, <2>2 DEF Begun, Dead
  <2>4. Pending' \subseteq Pending
    BY <1>1, <2>1, <2>2 DEF Pending
  <2>5. TornLine' => TornLine
    BY <1>2 DEF SBegin, SLock, SUnlock, DeathInv, LockInv, Exclusive, TornLine
  <2> QED BY <1>0, <2>3, <2>4, <2>5, NothingLost
<1>3. CASE SAppend(m)
  <2>1. lock = m /\ lock' = lock /\ lock \notin Acker /\ ack' = ack /\ snd[m] = "holds"
    BY <1>3 DEF SAppend, DeathInv, LockInv, Exclusive
  <2>2. Box = file /\ Box' = file' /\ file \in Seq(Line)
    BY <1>0, <2>1, BoxType DEF Box, Rewriting
  <2>3. /\ \A u \in Message : u # m => snd'[u] = snd[u]
        /\ snd'[m] = "stored"
    BY <1>0, <1>3 DEF SAppend
  <2>4. Begun' = Begun /\ Dead' = Dead
    BY <1>1, <1>5, <2>1, <2>3 DEF Begun, Dead
  <2>5. CASE open
    <3>1. file' = file /\ ~ open'
      BY <1>3, <2>5 DEF SAppend
    <3>2. Pending' \subseteq Pending \cup {m}
      BY <1>1, <2>2, <2>3, <3>1 DEF Pending
    <3>3. TornLine /\ ~ TornLine'
      BY <2>1, <2>5, <3>1 DEF TornLine
    <3> QED BY <1>0, <2>4, <3>2, <3>3, OneIsLost
  <2>6. CASE ~ open
    <3>1. file' = Append(file, New(m)) /\ ~ open' /\ New(m).m = m
      BY <1>3, <2>6 DEF SAppend, New
    <3>2. /\ Len(file) \in Nat /\ Len(file') = Len(file) + 1 /\ file'[Len(file) + 1].m = m
          /\ \A i \in 1 .. Len(file) : file'[i] = file[i]
      BY <2>2, <3>1
    <3>3. /\ \E i \in 1 .. Len(file') : file'[i].m = m
          /\ \A i \in 1 .. Len(file) : i \in 1 .. Len(file') /\ file'[i].m = file[i].m
      BY <3>2
    <3>4. Pending' \subseteq Pending
      BY <1>1, <2>2, <2>3, <3>3 DEF Pending
    <3>5. ~ TornLine'
      BY <3>1 DEF TornLine
    <3> QED BY <1>0, <2>4, <3>4, <3>5, NothingLost
  <2> QED BY <2>5, <2>6
<1>4. CASE SCut(m)
  <2>1. lock = m /\ lock' = None /\ lock \notin Acker /\ ack' = ack /\ snd[m] = "holds"
    BY <1>4 DEF SCut, DeathInv, LockInv, Exclusive
  <2>2. Box = file /\ Box' = file' /\ file \in Seq(Line)
    BY <1>0, <2>1, BoxType DEF Box, Rewriting
  <2>3. /\ \A u \in Message : u # m => snd'[u] = snd[u]
        /\ snd'[m] = "dead"
    BY <1>0, <1>4 DEF SCut
  <2>4. Begun' = Begun /\ Dead' = Dead \cup {m} /\ m \notin Dead
    BY <1>1, <1>5, <2>1, <2>3 DEF Begun, Dead
  <2>5. \A i \in 1 .. Len(file) :
          file[i].m \in Message => i \in 1 .. Len(file') /\ file'[i].m = file[i].m
    <3>1. CASE ~ open
      <4>1. PICK l \in Cut : file' = Append(file, l)
        BY <1>4, <3>1 DEF SCut
      <4>2. Cut \subseteq Line
        BY DEF Cut, Line
      <4> QED BY <2>2, <4>1, <4>2
    <3>2. CASE open
      <4> DEFINE n == Len(file)
      <4>1. PICK l \in Cut : file' = [file EXCEPT ![n].m = IF @ = Junk THEN Junk ELSE l.m]
        BY <1>4, <3>2 DEF SCut
      <4>2. file[n].m \notin Message
        BY <1>0, <3>2 DEF LockInv, OpenInv
      <4>3. Len(file') = Len(file) /\ \A i \in 1 .. Len(file) : i # n => file'[i] = file[i]
        BY <2>2, <4>1
      <4> QED BY <4>2, <4>3
    <3> QED BY <3>1, <3>2
  <2>6. Pending' \subseteq Pending
    BY <1>1, <2>2, <2>3, <2>5 DEF Pending
  <2> QED BY <1>0, <2>4, <2>6, SomebodyDies
<1> QED BY <1>2, <1>3, <1>4 DEF Sender

LEMMA AckerCosts ==
  ASSUME DeathInv, Split = {}, NEW a \in Acker,
         AckStep(a) \/ (\E I \in (SUBSET Message) \ {{}} : ABegin(a, I))
  PROVE  CostInv'
<1> USE NoneAssumption, ApartAssumption
<1>0. CostInv /\ LockInv /\ ack \in [Acker -> AckState]
  BY DEF DeathInv, LockInv, InboxTypeOK
<1>9. snd' = snd /\ Begun' = Begun
  BY DEF AckStep, ABegin, ALock, ARead, AReadRaises, ATruncate, AFlush, AUnlock, Begun
<1>2. /\ ack[a].pc # "dead"
      /\ \A b \in Acker : b # a => ack'[b] = ack[b]
  BY <1>0 DEF AckStep, ABegin, ALock, ARead, AReadRaises, ATruncate, AFlush, AUnlock
<1>3. ack'[a].pc # "dead"
  <2>1. ASSUME NEW I, ABegin(a, I) PROVE ack'[a].pc = "wait"
    BY <1>0, <2>1 DEF ABegin, AckIdle
  <2>2. ASSUME ALock(a) PROVE ack'[a].pc = "read"
    BY <1>0, <2>2 DEF ALock, AckState
  <2>3. ASSUME AReadRaises(a) \/ AUnlock(a) PROVE ack'[a].pc = "idle"
    BY <1>0, <2>3 DEF AReadRaises, AUnlock, AckIdle
  <2>4. ASSUME ARead(a) PROVE ack'[a].pc = "copied"
    BY <1>0, <2>4 DEF ARead, AckState
  <2>5. ASSUME ATruncate(a) \/ AFlush(a) PROVE ack'[a].pc = "write"
    BY <1>0, <2>5 DEF ATruncate, AFlush, AckState
  <2> QED BY <2>1, <2>2, <2>3, <2>4, <2>5 DEF AckStep
<1>10. Dead' = Dead /\ InHands' = InHands
  BY <1>2, <1>3, <1>9 DEF Dead, InHands
<1>1. snd' = snd /\ Begun' = Begun /\ Dead' = Dead /\ InHands' = InHands
  BY <1>9, <1>10
<1>4. SUFFICES /\ \A i \in 1 .. Len(Box) : Box[i].m \in Message =>
                     \E k \in 1 .. Len(Box') : Box'[k].m = Box[i].m
               /\ TornLine' => TornLine
  <2>1. ASSUME \A i \in 1 .. Len(Box) : Box[i].m \in Message =>
                     \E k \in 1 .. Len(Box') : Box'[k].m = Box[i].m
        PROVE  Pending' \subseteq Pending
    BY <1>1, <2>1 DEF Pending
  <2> QED BY <1>0, <1>1, <1>4, <2>1, NothingLost
<1>5. CASE (\E I \in (SUBSET Message) \ {{}} : ABegin(a, I)) \/ ALock(a) \/ AReadRaises(a)
  <2>1. /\ file' = file /\ open' = open
        /\ ack[a].pc \notin {"copied", "write"} /\ ack'[a].pc \notin {"copied", "write"}
        /\ lock' = lock \/ lock' = a \/ lock' = None
        /\ lock' # lock => lock = None \/ lock = a
    <3>1. CASE \E I \in (SUBSET Message) \ {{}} : ABegin(a, I)
      <4>1. /\ UNCHANGED <<file, open, lock>> /\ ack[a].pc = "idle" /\ ack'[a].pc = "wait"
        BY <1>0, <3>1 DEF ABegin, AckIdle
      <4> QED BY <4>1
    <3>2. CASE ALock(a)
      <4>1. /\ UNCHANGED <<file, open>> /\ lock = None /\ lock' = a
            /\ ack[a].pc = "wait" /\ ack'[a].pc = "read"
        BY <1>0, <3>2 DEF ALock, AckState
      <4> QED BY <4>1
    <3>3. CASE AReadRaises(a)
      <4>1. /\ UNCHANGED <<file, open>> /\ lock = a /\ lock' = None
            /\ ack[a].pc = "read" /\ ack'[a].pc = "idle"
        BY <1>0, <3>3 DEF AReadRaises, AckIdle, LockInv, Exclusive
      <4> QED BY <4>1
    <3> QED BY <1>5, <3>1, <3>2, <3>3
  <2>2. Box' = Box
    BY <1>2, <2>1 DEF Box, Rewriting
  <2>3. TornLine' => TornLine
    BY <1>2, <2>1 DEF TornLine
  <2> QED BY <2>2, <2>3
<1>6. CASE ARead(a)
  <2> DEFINE copy == Marked(AckLoaded(file), ack[a].ids)
  <2>1. /\ lock = a /\ UNCHANGED <<file, open, lock>> /\ ack[a].pc = "read"
        /\ ack' = [ack EXCEPT ![a].pc = "copied", ![a].copy = copy]
    BY <1>0, <1>6 DEF ARead, LockInv, Exclusive
  <2>2. \A i \in 1 .. Len(file) : file[i].m \in Message =>
          \E k \in 1 .. Len(copy) : copy[k].m = file[i].m
    BY <1>0, <1>6, ReadFacts
  <2> HIDE DEF copy
  <2>3. ack'[a].pc = "copied" /\ ack'[a].copy = copy
    BY <1>0, <2>1 DEF AckState
  <2>4. Box = file /\ Box' = copy
    BY <2>1, <2>3 DEF Box, Rewriting
  <2>5. TornLine' => TornLine
    BY <2>1, <2>3 DEF TornLine
  <2> QED BY <2>2, <2>4, <2>5
<1>7. CASE ATruncate(a) \/ AFlush(a)
  <2>1. /\ lock = a /\ lock' = a /\ ack[a].pc \in {"copied", "write"}
        /\ ack'[a].pc = "write" /\ ack'[a].copy = ack[a].copy
    BY <1>0, <1>7 DEF ATruncate, AFlush, AckState, LockInv, Exclusive
  <2>2. Box' = Box /\ ~ TornLine'
    BY <2>1 DEF Box, Rewriting, TornLine
  <2> QED BY <2>2
<1>8. CASE AUnlock(a)
  <2>1. /\ lock = a /\ lock' = None /\ UNCHANGED <<file, open>> /\ file = ack[a].copy
        /\ ack[a].pc = "write"
    BY <1>0, <1>8 DEF AUnlock, LockInv, Exclusive
  <2>2. Box = ack[a].copy /\ Box' = file'
    BY <2>1 DEF Box, Rewriting
  <2>3. file \in Seq(Copy)
    BY <1>0, <2>1, BoxType
  <2>4. ~ open
    <3>1. ASSUME Len(file) > 0 PROVE file[Len(file)].m \in Message
      <4>1. file[Len(file)] \in Copy
        BY <2>3, <3>1
      <4> QED BY <4>1 DEF Copy
    <3> QED BY <1>0, <3>1 DEF LockInv, OpenInv
  <2>5. ~ TornLine'
    BY <2>1, <2>4 DEF TornLine
  <2>6. Box' = Box
    BY <2>1, <2>2
  <2> QED BY <2>5, <2>6
<1> QED BY <1>5, <1>6, <1>7, <1>8 DEF AckStep

\* The lines of a copy that was being written back are in the file, or lost with the
\* process.
LEMMA NothingInBetween ==
  ASSUME LockInv, NEW p \in Acker, ack[p].pc = "write"
  PROVE  \A k \in 1 .. Len(ack[p].copy) :
            \/ \E i \in 1 .. Len(file) : file[i] = ack[p].copy[k]
            \/ \E i \in 1 .. Len(Unwritten(p)) : Unwritten(p)[i] = ack[p].copy[k]
<1> DEFINE copy == ack[p].copy
           rest == SubSeq(copy, Whole + 1, Len(copy))
<1>1. copy \in Seq(Copy) /\ file \in Seq(Line)
  BY BoxType
<1>2. Unwritten(p) = rest
  BY DEF Unwritten
<1> HIDE DEF copy
<1>3. /\ Len(file) \in Nat /\ Len(copy) \in Nat /\ Whole \in Nat /\ Whole <= Len(file)
  <2>1. Len(file) \in Nat /\ Len(copy) \in Nat /\ (open => Len(file) > 0)
    BY <1>1 DEF LockInv, OpenInv
  <2> QED BY <2>1 DEF Whole
<1>4. Whole <= Len(copy) /\ \A i \in 1 .. Whole : file[i] = copy[i]
  BY DEF LockInv, WriteInv, copy
<1>5. Len(rest) = Len(copy) - Whole /\ \A i \in 1 .. Len(copy) - Whole : rest[i] = copy[Whole + i]
  BY <1>1, <1>3, <1>4
<1> HIDE DEF rest
<1>6. ASSUME NEW k \in 1 .. Len(copy)
      PROVE  \/ \E i \in 1 .. Len(file) : file[i] = copy[k]
             \/ \E i \in 1 .. Len(rest) : rest[i] = copy[k]
  <2>1. CASE k <= Whole
    <3>1. k \in 1 .. Whole /\ k \in 1 .. Len(file)
      BY <1>3, <2>1
    <3> QED BY <1>4, <3>1
  <2>2. CASE ~ k <= Whole
    <3>1. k - Whole \in 1 .. Len(copy) - Whole /\ Whole + (k - Whole) = k
      BY <1>3, <2>2
    <3> QED BY <1>5, <3>1
  <2> QED BY <2>1, <2>2
<1> QED BY <1>2, <1>6 DEF copy

LEMMA DieCosts ==
  ASSUME DeathInv, NEW p \in Mortal, Die(p)
  PROVE  CostInv'
<1> USE NoneAssumption, ApartAssumption, MortalAssumption
<1>0. CostInv /\ LockInv /\ ack \in [Acker -> AckState]
      /\ snd \in [Message -> {"new", "ready", "holds", "stored", "sent", "dead"}]
  BY DEF DeathInv, LockInv, InboxTypeOK
<1>1. CASE p \in Message
  <2>1. /\ snd' = [snd EXCEPT ![p] = "dead"] /\ ack' = ack /\ file' = file
        /\ lock' = IF lock = p THEN None ELSE lock
        /\ snd[p] \in {"ready", "holds", "stored"}
    BY <1>1 DEF Die
  <2>2. Box' = Box /\ InHands' = InHands
    BY <1>1, <2>1 DEF Box, Rewriting, InHands
  <2>3. \A u \in Message : snd'[u] = IF u = p THEN "dead" ELSE snd[u]
    BY <1>0, <2>1
  <2>4. Begun' = Begun /\ Dead' = Dead \cup {p} /\ p \notin Dead
    BY <1>1, <2>1, <2>3 DEF Begun, Dead
  <2>5. Pending' \subseteq Pending
    BY <2>2, <2>3 DEF Pending
  <2> QED BY <1>0, <2>4, <2>5, SomebodyDies
<1>2. CASE p \in Acker
  <2>1. /\ snd' = snd /\ file' = file /\ ack[p].pc # "dead"
        /\ lock' = IF lock = p THEN None ELSE lock
        /\ ack' = [ack EXCEPT ![p] = Left(p)]
    BY <1>2 DEF Die, Left
  <2>2. /\ \A b \in Acker : b # p => ack'[b] = ack[b]
        /\ ack'[p].pc = "dead" /\ ack'[p].copy = Unwritten(p)
    BY <1>0, <1>2, <2>1, LeftFacts
  <2>3. Begun' = Begun
    BY <2>1 DEF Begun
  <2>4. Dead' = Dead \cup {p} /\ p \notin Dead
    BY <1>2, <2>1, <2>2 DEF Dead
  <2>5. InHands \subseteq InHands'
    BY <2>1, <2>2 DEF InHands
  <2>6. \A m \in Message : (\E i \in 1 .. Len(Unwritten(p)) : Unwritten(p)[i].m = m) => m \in InHands'
    BY <1>2, <2>2 DEF InHands
  <2>7. SUFFICES \A m \in Message : (\E i \in 1 .. Len(Box) : Box[i].m = m)
                     => m \in InHands' \/ \E i \in 1 .. Len(Box') : Box'[i].m = m
    <3>1. ASSUME \A m \in Message : (\E i \in 1 .. Len(Box) : Box[i].m = m)
                     => m \in InHands' \/ \E i \in 1 .. Len(Box') : Box'[i].m = m
          PROVE  Pending' \subseteq Pending
      BY <2>1, <2>5, <3>1 DEF Pending
    <3> QED BY <1>0, <2>3, <2>4, <2>7, <3>1, SomebodyDies
  <2>8. CASE ack[p].pc = "write"
    <3>1. Box = ack[p].copy /\ Box' = file
      <4>1. lock = p /\ lock' = None
        BY <1>0, <1>2, <2>1, <2>8 DEF LockInv, Exclusive
      <4> QED BY <1>2, <2>1, <2>8, <4>1 DEF Box, Rewriting
    <3> QED BY <1>0, <1>2, <2>6, <2>8, <3>1, NothingInBetween
  <2>9. CASE ack[p].pc = "copied"
    <3>1. Box = ack[p].copy /\ Box' = file
      <4>1. lock = p /\ lock' = None
        BY <1>0, <1>2, <2>1, <2>9 DEF LockInv, Exclusive
      <4> QED BY <1>2, <2>1, <2>9, <4>1 DEF Box, Rewriting
    <3> QED BY <1>0, <1>2, <2>9, <3>1 DEF LockInv, WriteInv
  <2>10. CASE ack[p].pc \notin {"copied", "write"}
    <3>1. Box' = Box
      <4>1. CASE Rewriting
        <5>1. lock \in Acker /\ lock # p /\ lock' = lock /\ ack'[lock] = ack[lock]
          BY <2>1, <2>2, <2>10, <4>1 DEF Rewriting
        <5>2. Rewriting' /\ ack'[lock'] = ack[lock]
          BY <4>1, <5>1 DEF Rewriting
        <5> QED BY <4>1, <5>2 DEF Box
      <4>2. CASE ~ Rewriting
        <5>1. ~ Rewriting'
          BY <2>1, <2>2, <4>2 DEF Rewriting
        <5> QED BY <2>1, <4>2, <5>1 DEF Box
      <4> QED BY <4>1, <4>2
    <3> QED BY <3>1
  <2> QED BY <2>8, <2>9, <2>10
<1> QED BY <1>1, <1>2

LEMMA NextDeathInv ==
  ASSUME DeathInv, Split = {}, [InboxNext]_inboxVars
  PROVE  DeathInv'
<1>0. LockInv
  BY DEF DeathInv
<1>1. CASE UNCHANGED inboxVars
  <2>1. LockInv'
    BY <1>1 DEF inboxVars, DeathInv, LockInv, InboxTypeOK, Exclusive, OpenInv, WriteInv, Whole
  <2>2. CostInv'
    BY <1>1 DEF inboxVars, DeathInv, CostInv, Begun, Pending, InHands, Dead, TornLine, Box, Rewriting
  <2> QED BY <2>1, <2>2 DEF DeathInv
<1>2. ASSUME NEW m \in Message, SBegin(m) \/ Sender(m) \/ SCut(m) PROVE DeathInv'
  BY <1>0, <1>2, SenderKeepsLock, SenderCosts DEF DeathInv
<1>3. ASSUME NEW a \in Acker, AckStep(a) \/ (\E I \in (SUBSET Message) \ {{}} : ABegin(a, I))
      PROVE  DeathInv'
  BY <1>0, <1>3, AckerKeepsLock, AckerCosts DEF DeathInv
<1>4. ASSUME NEW p \in Mortal, Die(p) PROVE DeathInv'
  BY <1>0, <1>4, DieKeepsLock, DieCosts DEF DeathInv
<1> QED BY <1>1, <1>2, <1>3, <1>4 DEF InboxNext

LEMMA InitDeathInv == InboxInit => DeathInv
<1> SUFFICES ASSUME InboxInit PROVE DeathInv
  OBVIOUS
<1>1. InboxTypeOK /\ Exclusive
  BY InitInboxInv DEF InboxInv
<1>2. open = FALSE
  BY DEF InboxInit
<1>3. Begun = {} /\ Pending = {} /\ Dead = {}
  BY DEF InboxInit, Begun, Pending, Dead, AckIdle
<1>4. Cardinality(Pending) = 0 /\ Cardinality(Dead) = 0 /\ IsFiniteSet(Begun) /\ IsFiniteSet(Dead)
  BY <1>3, FS_EmptySet
<1>6. ~ TornLine
  BY <1>2 DEF TornLine
<1>7. CostInv
  BY <1>4, <1>6 DEF CostInv
<1>8. WriteInv
  BY DEF InboxInit, WriteInv, AckIdle
<1> QED BY <1>1, <1>2, <1>7, <1>8 DEF DeathInv, LockInv, OpenInv

\* Whoever may die, a sender or a read.py, and however often: while the file decodes, the
\* messages that send.py reported and that load_inbox does not return, but for those that
\* a dead read.py had not written back, are no more than the processes that died, through
\* any number of acknowledgements.  (send.py main, which appends after a torn line, and
\* ack_inbox, which leaves it out)
THEOREM DeathsAreCounted ==
  ASSUME Split = {}
  PROVE  InboxSpec => []DeathCostsOne
<1>1. InboxInit => DeathInv
  BY InitDeathInv
<1>2. DeathInv /\ [InboxNext]_inboxVars => DeathInv'
  BY NextDeathInv
<1>3. DeathInv => DeathCostsOne
  <2> SUFFICES ASSUME DeathInv, Decodes(Box)
               PROVE  Cardinality(Unread \ InHands) <= Cardinality(Dead)
    BY DEF DeathCostsOne
  <2>1. IsFiniteSet(Pending) /\ Cardinality(Pending) \in Nat /\ Cardinality(Dead) \in Nat
    BY SetsAreFinite DEF DeathInv, CostInv
  <2>2. Box \in Seq(Line)
    BY BoxType DEF DeathInv
  <2>3. \A i \in 1 .. Len(Box) : Box[i].m # None =>
          \E k \in 1 .. Len(Loaded(Box)) : Loaded(Box)[k] = Box[i]
    <3> DEFINE bad == {None}
    <3>1. \A x : x \notin bad <=> x # None
      OBVIOUS
    <3> HIDE DEF bad
    <3>2. \A i \in 1 .. Len(Box) : Box[i].m \notin bad =>
            \E k \in 1 .. Len(Without(bad, Box)) : Without(bad, Box)[k] = Box[i]
      BY <2>2, WithoutFacts
    <3>3. Loaded(Box) = Without(bad, Box)
      BY DEF Loaded, bad
    <3> QED BY <3>1, <3>2, <3>3
  <2>4. Unread \ InHands \in SUBSET Pending
    BY <2>3, NoneAssumption DEF Unread, Pending
  <2>5. Cardinality(Unread \ InHands) \in Nat /\ Cardinality(Unread \ InHands) <= Cardinality(Pending)
    BY <2>1, <2>4, FS_Subset, FS_CardinalityType
  <2>6. Cardinality(Pending) <= Cardinality(Dead)
    BY <2>1 DEF DeathInv, CostInv
  <2> QED BY <2>1, <2>5, <2>6
<1> QED BY <1>1, <1>2, <1>3, PTL DEF InboxSpec
=============================================================================
