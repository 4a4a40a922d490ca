---------------------------- MODULE ClientProofs ----------------------------
(***************************************************************************)
(* The two TCP clients of MCPrograms lose, repeat and reorder nothing and  *)
(* never wait for what cannot come, for every size of their buffers, of    *)
(* the socket buffers, of a record and of the input.                       *)
(***************************************************************************)
EXTENDS MCPrograms, SequenceTheorems, TLAPS

PrefixOf(a, s) == Len(a) <= Len(s) /\ a = SubSeq(s, 1, Len(a))

Whole == {"connecting", "open", "half", "closed"}

(* Carried, with what it says of the connection as parameters.             *)
Carries(back, u, p, all) == PrefixOf(back, all) /\ (p \in Whole => back \o u = all)

-----------------------------------------------------------------------------
(* Sequences                                                               *)

LEMMA PrefixMeans ==
    ASSUME NEW S, NEW a \in Seq(S), NEW s \in Seq(S)
    PROVE  PrefixOf(a, s) <=> Len(a) <= Len(s) /\ \A i \in 1..Len(a) : a[i] = s[i]
<1>1. Len(a) \in Nat /\ Len(s) \in Nat
  BY LenProperties
<1> SUFFICES ASSUME Len(a) <= Len(s)
             PROVE  a = SubSeq(s, 1, Len(a)) <=> \A i \in 1..Len(a) : a[i] = s[i]
  BY DEF PrefixOf
<1>2. \A i \in 1..Len(a) : s[i] \in S
  BY <1>1, ElementOfSeq
<1>3. /\ SubSeq(s, 1, Len(a)) \in Seq(S) /\ Len(SubSeq(s, 1, Len(a))) = Len(a)
      /\ \A i \in 1..Len(a) : SubSeq(s, 1, Len(a))[i] = s[i]
  BY <1>1, <1>2, SubSeqProperties
<1> QED BY <1>3, SeqEqual

LEMMA PrefixOfConcat == ASSUME NEW S, NEW a \in Seq(S), NEW b \in Seq(S)
                        PROVE  PrefixOf(a, a \o b)
<1>1. Len(a) \in Nat /\ Len(b) \in Nat
  BY LenProperties
<1>2. /\ a \o b \in Seq(S) /\ Len(a \o b) = Len(a) + Len(b)
      /\ \A i \in 1..Len(a) + Len(b) :
           (a \o b)[i] = IF i <= Len(a) THEN a[i] ELSE b[i - Len(a)]
  BY ConcatProperties
<1>3. \A i \in 1..Len(a) : a[i] = (a \o b)[i]
  BY <1>1, <1>2
<1>4. Len(a) <= Len(a \o b)
  BY <1>1, <1>2
<1> QED BY <1>2, <1>3, <1>4, PrefixMeans, Zenon

LEMMA PrefixTransitive ==
    ASSUME NEW S, NEW a \in Seq(S), NEW b \in Seq(S), NEW s \in Seq(S),
           PrefixOf(a, b), PrefixOf(b, s)
    PROVE  PrefixOf(a, s)
<1>1. Len(a) \in Nat /\ Len(b) \in Nat /\ Len(s) \in Nat
  BY LenProperties
<1> QED BY <1>1, PrefixMeans

(* What is cut off at the front of a sequence is put back by what follows. *)
LEMMA CutInTwo ==
    ASSUME NEW S, NEW s \in Seq(S), NEW n \in 0..Len(s)
    PROVE  /\ SubSeq(s, 1, n) \in Seq(S) /\ SubSeq(s, n + 1, Len(s)) \in Seq(S)
           /\ Len(SubSeq(s, 1, n)) = n
           /\ SubSeq(s, 1, n) \o SubSeq(s, n + 1, Len(s)) = s
<1>1. Len(s) \in Nat /\ \A i \in 1..Len(s) : s[i] \in S
  BY LenProperties, ElementOfSeq
<1>2. SubSeq(s, 1, n) \o SubSeq(s, n + 1, Len(s)) = SubSeq(s, 1, Len(s))
  <2>1. 1 \in 1..Len(s) + 1 /\ n \in 1 - 1..Len(s) /\ Len(s) \in n..Len(s)
    BY <1>1
  <2> QED BY <2>1, ConcatAdjacentSubSeq, Zenon
<1>3. SubSeq(s, 1, Len(s)) = s
  BY SubSeqFull
<1>4. SubSeq(s, 1, n) \in Seq(S) /\ Len(SubSeq(s, 1, n)) = n
  BY <1>1, SubSeqProperties
<1>5. SubSeq(s, n + 1, Len(s)) \in Seq(S)
  BY <1>1, SubSeqProperties
<1> QED BY <1>2, <1>3, <1>4, <1>5

LEMMA HeadMoves ==
    ASSUME NEW S, NEW d \in Seq(S), NEW u \in Seq(S), u # <<>>
    PROVE  /\ Append(d, Head(u)) \in Seq(S) /\ Tail(u) \in Seq(S)
           /\ Len(Tail(u)) = Len(u) - 1
           /\ Append(d, Head(u)) \o Tail(u) = d \o u
<1>1. Head(u) \in S /\ Tail(u) \in Seq(S) /\ Len(Tail(u)) = Len(u) - 1
  BY HeadTailProperties
<1>2. Append(d, Head(u)) \in Seq(S) /\ Append(d, Head(u)) = d \o <<Head(u)>>
  BY <1>1, AppendProperties, AppendIsConcat
<1>3. <<Head(u)>> \in Seq(S)
  BY <1>1
<1>4. <<Head(u)>> \o Tail(u) = u
  <2>1. Len(u) \in Nat \ {0}
    BY EmptySeq
  <2>2. Head(u) = u[1] /\ Tail(u) = SubSeq(u, 2, Len(u))
    BY TailIsSubSeq
  <2>3. SubSeq(u, 1, Len(u)) = <<u[1]>> \o SubSeq(u, 1 + 1, Len(u))
    BY <2>1, SubSeqRecursiveFirst
  <2> QED BY <2>1, <2>2, <2>3, SubSeqFull
<1>5. (d \o <<Head(u)>>) \o Tail(u) = d \o (<<Head(u)>> \o Tail(u))
  BY <1>1, <1>3, ConcatAssociative, SMTT(30)
<1> QED BY <1>1, <1>2, <1>4, <1>5

-----------------------------------------------------------------------------
(* The way of the cells                                                    *)

LEMMA CarriesFromWhole ==
    ASSUME NEW S, NEW back \in Seq(S), NEW u \in Seq(S), NEW p, NEW all,
           back \o u = all
    PROVE  Carries(back, u, p, all)
BY PrefixOfConcat DEF Carries

(* Cells that are sent behind the others.                                  *)
LEMMA CarriesMore ==
    ASSUME NEW S, NEW back \in Seq(S), NEW u \in Seq(S), NEW all \in Seq(S),
           NEW more \in Seq(S), NEW p, NEW q, Carries(back, u, p, all),
           q \in Whole => p \in Whole
    PROVE  /\ u \o more \in Seq(S)
           /\ Carries(back, u \o more, q, all \o more)
<1>1. u \o more \in Seq(S) /\ all \o more \in Seq(S)
  BY ConcatProperties
<1>2. PrefixOf(back, all \o more)
  BY <1>1, PrefixOfConcat, PrefixTransitive DEF Carries
<1>3. ASSUME q \in Whole PROVE back \o (u \o more) = all \o more
  <2>1. back \o u = all
    BY <1>3 DEF Carries
  <2>2. (back \o u) \o more = back \o (u \o more)
    BY ConcatAssociative, SMTT(30)
  <2> QED BY <2>1, <2>2
<1> QED BY <1>1, <1>2, <1>3 DEF Carries

(* Cells that are sent into a connection that has ended.                   *)
LEMMA CarriesLess ==
    ASSUME NEW S, NEW back \in Seq(S), NEW all \in Seq(S), NEW more \in Seq(S),
           NEW u, NEW p, Carries(back, u, p, all), NEW v, NEW q, q \notin Whole
    PROVE  Carries(back, v, q, all \o more)
<1>1. all \o more \in Seq(S)
  BY ConcatProperties
<1> QED BY <1>1, PrefixOfConcat, PrefixTransitive DEF Carries

LEMMA CarriesSame ==
    ASSUME NEW S, NEW front \in Seq(S), NEW d \in Seq(S), NEW u \in Seq(S),
           NEW e \in Seq(S), NEW v \in Seq(S), NEW p \in Whole, NEW all,
           Carries(front \o d, u, p, all)
    PROVE  e \o v = d \o u => Carries(front \o e, v, p, all)
<1>1. (front \o e) \o v = front \o (e \o v)
  BY ConcatAssociative, SMTT(30)
<1>2. (front \o d) \o u = front \o (d \o u)
  BY ConcatAssociative, SMTT(30)
<1>3. e \o v = d \o u => (front \o e) \o v = all
  BY <1>1, <1>2 DEF Carries
<1>4. front \o e \in Seq(S)
  BY ConcatProperties
<1> QED BY <1>3, <1>4, PrefixOfConcat DEF Carries

(* The server sends back the next cell.                                    *)
LEMMA CarriesEcho ==
    ASSUME NEW S, NEW front \in Seq(S), NEW d \in Seq(S), NEW u \in Seq(S),
           NEW p \in Whole, NEW all, u # <<>>, Carries(front \o d, u, p, all)
    PROVE  /\ Append(d, Head(u)) \in Seq(S) /\ Tail(u) \in Seq(S)
           /\ Len(Tail(u)) = Len(u) - 1
           /\ Carries(front \o Append(d, Head(u)), Tail(u), p, all)
<1>1. /\ Append(d, Head(u)) \in Seq(S) /\ Tail(u) \in Seq(S)
      /\ Len(Tail(u)) = Len(u) - 1
      /\ Append(d, Head(u)) \o Tail(u) = d \o u
  BY HeadMoves
<1>2. ASSUME NEW e \in Seq(S), NEW v \in Seq(S)
      PROVE  e \o v = d \o u => Carries(front \o e, v, p, all)
  BY CarriesSame
<1> QED BY <1>1, <1>2

(* What the user, the server and the kernel do.                            *)
LEMMA OthersCarry ==
    ASSUME NEW S, NEW front \in Seq(S), NEW all \in Seq(S),
           up \in Seq(S), down \in Seq(S), Len(up) <= UpSize,
           Carries(front \o down, up, peer, all), OthersStep
    PROVE  /\ up' \in Seq(S) /\ down' \in Seq(S) /\ Len(up') <= UpSize
           /\ Carries(front \o down', up', peer', all)
           /\ UNCHANGED <<program, taken, at, out>>
           /\ peer' \in {"half", "closed"} => peer \in {"half", "closed"}
<1>1. UNCHANGED <<program, taken, at, out>>
  BY DEF OthersStep
<1>2. Len(up) \in Nat /\ UpSize \in Nat
  BY LenProperties, ClientNetAssumption
<1>3. CASE Type \/ EndInput \/ Answer \/ EchoEnd
  <2>1. UNCHANGED <<up, down>>
    BY <1>3 DEF Type, EndInput, Answer, EchoEnd
  <2>2. peer' \in Whole => peer \in Whole
    BY <1>3 DEF Type, EndInput, Answer, EchoEnd, Whole
  <2>3. peer' \in {"half", "closed"} => peer \in {"half", "closed"}
    BY <1>3 DEF Type, EndInput, Answer, EchoEnd
  <2> QED BY <1>1, <2>1, <2>2, <2>3 DEF Carries
<1>4. CASE Echo
  <2>1. /\ peer \in Whole /\ peer' = peer /\ up # <<>>
        /\ down' = Append(down, Head(up)) /\ up' = Tail(up)
    BY <1>4 DEF Echo, Whole
  <2>2. /\ up' \in Seq(S) /\ down' \in Seq(S) /\ Len(up') = Len(up) - 1
        /\ Carries(front \o down', up', peer', all)
    BY <2>1, CarriesEcho
  <2> QED BY <1>1, <1>2, <2>1, <2>2
<1>5. CASE Quit
  <2>1. /\ up' = <<>> /\ peer' \in {"quit", "reset"}
        /\ down' = down \/ down' = <<>>
    BY <1>5 DEF Quit
  <2>2. <<>> \in Seq(S) /\ Len(<<>>) = 0
    BY EmptySeq
  <2>3. PrefixOf(front, front \o down) /\ front \o <<>> = front /\ front \o down \in Seq(S)
    BY PrefixOfConcat, ConcatEmptySeq, ConcatProperties
  <2>4. PrefixOf(front, all)
    BY <2>3, PrefixTransitive, Zenon DEF Carries
  <2>5. Carries(front \o down', up', peer', all)
    BY <2>1, <2>3, <2>4 DEF Carries, Whole
  <2>6. Len(up') <= UpSize
    BY <1>2, <2>1, <2>2, ClientNetAssumption
  <2>7. down' \in Seq(S) /\ up' \in Seq(S)
    BY <2>1, <2>2
  <2> QED BY <1>1, <2>1, <2>5, <2>6, <2>7
<1> QED BY <1>3, <1>4, <1>5 DEF OthersStep, ServerDue

-----------------------------------------------------------------------------
(* PollClient: its buffers                                                 *)

LEMMA SliceIs ==
    ASSUME NEW buf, NEW s \in Nat, NEW e \in Nat, s <= e,
           \A i \in s..e - 1 : buf[i] \in Nat
    PROVE  /\ Slice(buf, s, e) \in Seq(Nat) /\ Len(Slice(buf, s, e)) = e - s
           /\ \A i \in 1..e - s : Slice(buf, s, e)[i] = buf[s + i - 1]
<1>1. e - s \in Nat /\ \A i \in 1..e - s : buf[s + i - 1] \in Nat
  OBVIOUS
<1>2. Slice(buf, s, e) = [i \in 1..e - s |-> buf[s + i - 1]]
  BY DEF Slice
<1>3. Slice(buf, s, e) \in [1..e - s -> Nat]
  BY <1>1, <1>2
<1> QED BY <1>1, <1>2, <1>3

LEMMA SameNumbers == \A s, t \in Seq(Nat) :
                       Len(s) = Len(t) /\ (\A i \in 1..Len(s) : s[i] = t[i]) => s = t
<1> SUFFICES ASSUME NEW s \in Seq(Nat), NEW t \in Seq(Nat), Len(s) = Len(t),
                    \A i \in 1..Len(s) : s[i] = t[i]
             PROVE  s = t
  OBVIOUS
<1> QED BY SeqEqual

LEMMA NumbersJoin == \A a, b, c \in Seq(Nat) : (a \o b) \o c = a \o (b \o c)
<1> TAKE a, b, c \in Seq(Nat)
<1> QED BY ConcatAssociative, SMTT(30)

LEMMA SliceCut ==
    ASSUME NEW buf, NEW s \in Nat, NEW e \in Nat, s <= e,
           \A i \in s..e - 1 : buf[i] \in Nat,
           NEW n \in 0..e - s
    PROVE  Slice(buf, s, s + n) \o Slice(buf, s + n, e) = Slice(buf, s, e)
<1> DEFINE a == Slice(buf, s, s + n)
           b == Slice(buf, s + n, e)
           c == Slice(buf, s, e)
<1>1. /\ a \in Seq(Nat) /\ Len(a) = n
      /\ \A i \in 1..n : a[i] = buf[s + i - 1]
  <2>1. s + n \in Nat /\ s <= s + n /\ (s + n) - s = n
        /\ \A i \in s..(s + n) - 1 : buf[i] \in Nat
    OBVIOUS
  <2> DEFINE m == s + n
  <2> HIDE DEF m
  <2>2. m \in Nat /\ s <= m /\ \A i \in s..m - 1 : buf[i] \in Nat
    BY <2>1 DEF m
  <2>3. /\ Slice(buf, s, m) \in Seq(Nat) /\ Len(Slice(buf, s, m)) = m - s
        /\ \A i \in 1..m - s : Slice(buf, s, m)[i] = buf[s + i - 1]
    BY <2>2, SliceIs
  <2> QED BY <2>1, <2>3 DEF m
<1>2. /\ b \in Seq(Nat) /\ Len(b) = e - s - n
      /\ \A i \in 1..e - s - n : b[i] = buf[s + n + i - 1]
  <2>1. s + n \in Nat /\ s + n <= e /\ e - (s + n) = e - s - n
        /\ \A i \in s + n..e - 1 : buf[i] \in Nat
    OBVIOUS
  <2> DEFINE m == s + n
  <2> HIDE DEF m
  <2>2. m \in Nat /\ m <= e /\ \A i \in m..e - 1 : buf[i] \in Nat
    BY <2>1 DEF m
  <2>3. /\ Slice(buf, m, e) \in Seq(Nat) /\ Len(Slice(buf, m, e)) = e - m
        /\ \A i \in 1..e - m : Slice(buf, m, e)[i] = buf[m + i - 1]
    BY <2>2, SliceIs
  <2> QED BY <2>1, <2>3 DEF m
<1>3. /\ c \in Seq(Nat) /\ Len(c) = e - s
      /\ \A i \in 1..e - s : c[i] = buf[s + i - 1]
  BY SliceIs
<1> HIDE DEF a, b, c
<1>4. /\ a \o b \in Seq(Nat) /\ Len(a \o b) = Len(a) + Len(b)
      /\ \A i \in 1..Len(a) + Len(b) :
           (a \o b)[i] = IF i <= Len(a) THEN a[i] ELSE b[i - Len(a)]
  BY <1>1, <1>2, ConcatProperties
<1>5. Len(a) + Len(b) = e - s
  BY <1>1, <1>2
<1>6. ASSUME NEW i \in 1..e - s PROVE (a \o b)[i] = c[i]
  <2>1. CASE i <= n
    <3>1. i \in 1..n /\ i <= Len(a) /\ i \in 1..Len(a) + Len(b)
      BY <1>1, <1>5, <2>1
    <3>2. (a \o b)[i] = a[i]
      BY <1>4, <3>1
    <3> QED BY <1>1, <1>3, <3>1, <3>2
  <2>2. CASE i > n
    <3>1. i - n \in 1..e - s - n /\ s + n + (i - n) - 1 = s + i - 1
      BY <2>2
    <3>2. b[i - n] = buf[s + i - 1]
      BY <1>2, <3>1
    <3>3. ~(i <= Len(a)) /\ i - Len(a) = i - n /\ i \in 1..Len(a) + Len(b)
      BY <1>1, <1>5, <2>2
    <3>4. (a \o b)[i] = b[i - n]
      BY <1>4, <3>3
    <3> QED BY <1>3, <3>2, <3>4
  <2>3. i <= n \/ i > n
    OBVIOUS
  <2> QED BY <2>1, <2>2, <2>3, Zenon
<1>7. a \o b = c
  <2>1. a \o b \in Seq(Nat) /\ c \in Seq(Nat) /\ Len(a \o b) = Len(c)
    BY <1>3, <1>4, <1>5
  <2>2. \A i \in 1..Len(a \o b) : (a \o b)[i] = c[i]
    BY <1>4, <1>5, <1>6
  <2> QED BY <2>1, <2>2, SameNumbers
<1> QED BY <1>7 DEF a, b, c

LEMMA FilledIs ==
    ASSUME NEW last, NEW buf \in [0..last -> Nat], NEW e \in Nat,
           NEW bytes \in Seq(Nat)
    PROVE  /\ Filled(buf, e, bytes) \in [0..last -> Nat]
           /\ \A i \in 0..last : Filled(buf, e, bytes)[i] =
                IF i \in e..e + Len(bytes) - 1 THEN bytes[i - e + 1] ELSE buf[i]
<1>1. Len(bytes) \in Nat /\ \A i \in 1..Len(bytes) : bytes[i] \in Nat
  BY LenProperties, ElementOfSeq
<1>2. Filled(buf, e, bytes) =
        [i \in 0..last |-> IF i \in e..e + Len(bytes) - 1 THEN bytes[i - e + 1]
                           ELSE buf[i]]
  BY DEF Filled
<1>3. \A i \in 0..last : i \in e..e + Len(bytes) - 1 => i - e + 1 \in 1..Len(bytes)
  BY <1>1
<1> QED BY <1>1, <1>2, <1>3

LEMMA SliceFilled ==
    ASSUME NEW buf, NEW s \in Nat, NEW e \in Nat, s <= e, NEW bytes \in Seq(Nat),
           \A i \in s..e - 1 : buf[i] \in Nat,
           \A i \in s..e + Len(bytes) - 1 : i \in DOMAIN buf
    PROVE  Slice(Filled(buf, e, bytes), s, e + Len(bytes)) = Slice(buf, s, e) \o bytes
<1> DEFINE n == Len(bytes)
           new == Filled(buf, e, bytes)
           a == Slice(buf, s, e)
           c == Slice(new, s, e + n)
<1>1. n \in Nat /\ \A i \in 1..n : bytes[i] \in Nat
  BY LenProperties, ElementOfSeq
<1>2. \A i \in s..e + n - 1 : new[i] = IF i \in e..e + n - 1 THEN bytes[i - e + 1]
                                      ELSE buf[i]
  BY DEF Filled
<1>3. \A i \in s..e + n - 1 : new[i] \in Nat
  <2>1. \A i \in s..e + n - 1 : IF i \in e..e + n - 1 THEN i - e + 1 \in 1..n
                                ELSE i \in s..e - 1
    BY <1>1
  <2> HIDE DEF new, n
  <2> QED BY <1>1, <1>2, <2>1
<1>5. /\ a \in Seq(Nat) /\ Len(a) = e - s
      /\ \A i \in 1..e - s : a[i] = buf[s + i - 1]
  BY SliceIs
<1> HIDE DEF new
<1>6. /\ c \in Seq(Nat) /\ Len(c) = (e + n) - s
      /\ \A i \in 1..(e + n) - s : c[i] = new[s + i - 1]
  <2>1. /\ e + n \in Nat /\ s <= e + n
        /\ \A i \in s..(e + n) - 1 : new[i] \in Nat
    BY <1>1, <1>3
  <2> HIDE DEF n
  <2> QED BY <2>1, SliceIs
<1>7. /\ a \o bytes \in Seq(Nat) /\ Len(a \o bytes) = Len(a) + n
      /\ \A i \in 1..Len(a) + n :
           (a \o bytes)[i] = IF i <= Len(a) THEN a[i] ELSE bytes[i - Len(a)]
  BY <1>5, ConcatProperties
<1> HIDE DEF n, new, a, c
<1>8. Len(a) + n = (e + n) - s
  BY <1>1, <1>5
<1>9. ASSUME NEW i \in 1..(e + n) - s PROVE c[i] = (a \o bytes)[i]
  <2>1. s + i - 1 \in s..e + n - 1
    BY <1>1
  <2>2. CASE i <= e - s
    <3>1. i \in 1..e - s /\ i <= Len(a) /\ i \in 1..Len(a) + n
          /\ ~(s + i - 1 \in e..e + n - 1)
      BY <1>1, <1>5, <1>8, <2>2
    <3>2. (a \o bytes)[i] = a[i]
      BY <1>7, <3>1
    <3>3. new[s + i - 1] = buf[s + i - 1]
      BY <1>2, <2>1, <3>1
    <3> QED BY <1>5, <1>6, <3>1, <3>2, <3>3
  <2>3. CASE i > e - s
    <3>1. s + i - 1 \in e..e + n - 1 /\ s + i - 1 - e + 1 = i - (e - s)
      BY <1>1, <2>3
    <3>2. new[s + i - 1] = bytes[i - (e - s)]
      BY <1>2, <2>1, <3>1
    <3>3. ~(i <= Len(a)) /\ i - Len(a) = i - (e - s) /\ i \in 1..Len(a) + n
      BY <1>1, <1>5, <1>8, <2>3
    <3>4. (a \o bytes)[i] = bytes[i - (e - s)]
      BY <1>7, <3>3
    <3> QED BY <1>6, <3>2, <3>4
  <2>4. i <= e - s \/ i > e - s
    BY <1>1
  <2> QED BY <2>2, <2>3, <2>4, Zenon
<1>10. c = a \o bytes
  <2>1. c \in Seq(Nat) /\ a \o bytes \in Seq(Nat) /\ Len(c) = Len(a \o bytes)
    BY <1>6, <1>7, <1>8
  <2>2. \A i \in 1..Len(c) : c[i] = (a \o bytes)[i]
    BY <1>6, <1>9
  <2> QED BY <2>1, <2>2, SameNumbers
<1> QED BY <1>10 DEF n, new, a, c

(* n bytes that were typed after the first m.                              *)
Counted(m, n) == [i \in 1..n |-> m + i]

LEMMA CountedJoined ==
    ASSUME NEW k \in Nat, NEW m \in Nat, NEW n \in Nat
    PROVE  /\ Counted(k, m) \in Seq(Nat) /\ Len(Counted(k, m)) = m
           /\ Counted(k, m) \o Counted(k + m, n) = Counted(k, m + n)
<1>1. \A h, j \in Nat : /\ Counted(h, j) \in Seq(Nat) /\ Len(Counted(h, j)) = j
                        /\ \A i \in 1..j : Counted(h, j)[i] = h + i
  BY DEF Counted
<1> DEFINE a == Counted(k, m)
           b == Counted(k + m, n)
           c == Counted(k, m + n)
<1>2. /\ a \in Seq(Nat) /\ Len(a) = m /\ \A i \in 1..m : a[i] = k + i
      /\ b \in Seq(Nat) /\ Len(b) = n /\ \A i \in 1..n : b[i] = k + m + i
      /\ c \in Seq(Nat) /\ Len(c) = m + n /\ \A i \in 1..m + n : c[i] = k + i
  <2>1. k + m \in Nat /\ m + n \in Nat
    OBVIOUS
  <2> QED BY <1>1, <2>1
<1> HIDE DEF a, b, c
<1>3. /\ a \o b \in Seq(Nat) /\ Len(a \o b) = Len(a) + Len(b)
      /\ \A i \in 1..Len(a) + Len(b) :
           (a \o b)[i] = IF i <= Len(a) THEN a[i] ELSE b[i - Len(a)]
  BY <1>2, ConcatProperties
<1>4. Len(a \o b) = m + n
  BY <1>2, <1>3
<1>5. ASSUME NEW i \in 1..m + n PROVE (a \o b)[i] = c[i]
  <2>1. Len(a) = m /\ i \in 1..Len(a) + Len(b)
    BY <1>2
  <2>2. (a \o b)[i] = IF i <= m THEN a[i] ELSE b[i - m]
    BY <1>3, <2>1
  <2>3. CASE i <= m
    BY <1>2, <2>2, <2>3
  <2>4. CASE ~(i <= m)
    <3>1. i - m \in 1..n /\ k + m + (i - m) = k + i
      BY <2>4
    <3>2. b[i - m] = k + i
      BY <1>2, <3>1
    <3> QED BY <1>2, <2>2, <2>4, <3>2
  <2> QED BY <2>3, <2>4
<1>6. a \o b = c
  BY <1>2, <1>3, <1>4, <1>5, SameNumbers
<1> QED BY <1>2, <1>6 DEF a, b, c

LEMMA CountedMore ==
    ASSUME NEW m \in Nat, NEW n \in Nat
    PROVE  /\ Counted(m, n) \in Seq(Nat) /\ Len(Counted(m, n)) = n
           /\ Counted(0, m) \o Counted(m, n) = Counted(0, m + n)
           /\ Counted(0, m) \in Seq(Nat)
<1>1. 0 \in Nat /\ 0 + m = m
  OBVIOUS
<1>2. Counted(m, n) \in Seq(Nat) /\ Len(Counted(m, n)) = n
  BY CountedJoined
<1>3. Counted(0, m) \in Seq(Nat) /\ Counted(0, m) \o Counted(0 + m, n) = Counted(0, m + n)
  BY <1>1, CountedJoined
<1> QED BY <1>1, <1>2, <1>3

-----------------------------------------------------------------------------
(* PollClient                                                              *)

InTo == Slice(to, toS, toE)
InFr == Slice(fr, frS, frE)
Written == taken - (toE - toS)

PollTypeOK ==
    /\ typed \in Nat /\ taken \in 0..typed
    /\ inputEnded \in BOOLEAN /\ stdineof \in BOOLEAN
    /\ up \in Seq(Nat) /\ down \in Seq(Nat) /\ out \in Seq(Nat) /\ Len(up) <= UpSize
    /\ to \in [0..ToSize - 1 -> Nat] /\ toS \in 0..ToSize /\ toE \in toS..ToSize
    /\ fr \in [0..FrSize - 1 -> Nat] /\ frS \in 0..FrSize /\ frE \in frS..FrSize
    /\ outq \in 0..OutSize

(* The bytes are where BytesKept says.                                     *)
PollBytes ==
    /\ Written \in Nat
    /\ InTo = Counted(Written, toE - toS)
    /\ Carries((out \o InFr) \o down, up, peer, Counted(0, Written))

(* The end of the input, before and after the client has seen it.          *)
PollEnds ==
    /\ stdineof => inputEnded /\ taken = typed
    /\ at = "stdin" => InputReady
    /\ peer \in {"half", "closed"} => stdineof /\ Written = typed

PollInv == PollTypeOK /\ PollBytes /\ PollEnds

USE PollClientAssumption, ClientNetAssumption DEF At

SlicesOK == /\ InTo \in Seq(Nat) /\ Len(InTo) = toE - toS
            /\ InFr \in Seq(Nat) /\ Len(InFr) = frE - frS

LEMMA PollSlices == PollTypeOK => SlicesOK
<1> SUFFICES ASSUME PollTypeOK PROVE SlicesOK
  OBVIOUS
<1>1. InTo \in Seq(Nat) /\ Len(InTo) = toE - toS
  <2>1. /\ ToSize - 1 \in Int /\ to \in [0..ToSize - 1 -> Nat]
        /\ toS \in Nat /\ toE \in Nat /\ toS <= toE /\ toE <= (ToSize - 1) + 1
    BY DEF PollTypeOK
  <2>2. \A i \in toS..toE - 1 : to[i] \in Nat
    BY <2>1
  <2> QED BY <2>1, <2>2, SliceIs DEF InTo
<1>2. InFr \in Seq(Nat) /\ Len(InFr) = frE - frS
  <2>1. /\ FrSize - 1 \in Int /\ fr \in [0..FrSize - 1 -> Nat]
        /\ frS \in Nat /\ frE \in Nat /\ frS <= frE /\ frE <= (FrSize - 1) + 1
    BY DEF PollTypeOK
  <2>2. \A i \in frS..frE - 1 : fr[i] \in Nat
    BY <2>1
  <2> QED BY <2>1, <2>2, SliceIs DEF InFr
<1> QED BY <1>1, <1>2 DEF SlicesOK

LEMMA PollSlicesNext == PollTypeOK' => SlicesOK'
BY PollSlices, PTL

LEMMA PollMeans == PollInv => BytesKept
<1> SUFFICES ASSUME PollInv PROVE BytesKept
  OBVIOUS
<1>1. Written \in Nat /\ toE - toS \in Nat
  BY DEF PollInv, PollTypeOK, PollBytes
<1>2. Counted(0, Written) = [i \in 1..Written |-> i]
  BY <1>1 DEF Counted
<1>3. Counted(Written, toE - toS) = [i \in 1..toE - toS |-> Written + i]
  BY DEF Counted
<1> QED BY <1>2, <1>3 DEF PollInv, PollBytes, PollEnds, BytesKept, Written, InTo, InFr,
                          Carries, Carried, PrefixOf, Whole

LEMMA PollBegins ==
    ASSUME NEW p \in {"open", "connecting"}, PollClientStart(p), ClientsInit
    PROVE  program = "nbtc" => PollInv
<1> SUFFICES ASSUME program = "nbtc" PROVE PollInv
  OBVIOUS
<1>1. /\ typed = 0 /\ inputEnded = FALSE /\ taken = 0 /\ up = <<>> /\ down = <<>>
      /\ out = <<>> /\ at = "poll" /\ peer = p /\ toS = 0 /\ toE = 0 /\ frS = 0
      /\ frE = 0 /\ stdineof = FALSE /\ outq = 0
      /\ to = [i \in 0..ToSize - 1 |-> 0] /\ fr = [i \in 0..FrSize - 1 |-> 0]
  BY DEF ClientsInit, PollClientStart, Is
<1>2. <<>> \in Seq(Nat) /\ Len(<<>>) = 0
  BY EmptySeq
<1>3. PollTypeOK
  <2>1. to \in [0..ToSize - 1 -> Nat] /\ fr \in [0..FrSize - 1 -> Nat]
    BY <1>1
  <2> QED BY <1>1, <1>2, <2>1 DEF PollTypeOK
<1>4. Written = 0
  BY <1>1 DEF Written
<1>5. InTo = <<>> /\ InFr = <<>>
  <2>1. Len(InTo) = 0 /\ InTo \in Seq(Nat) /\ Len(InFr) = 0 /\ InFr \in Seq(Nat)
    BY <1>1, <1>3, PollSlices DEF SlicesOK
  <2> QED BY <2>1, EmptySeq
<1>6. Counted(0, 0) = <<>>
  <2>1. Counted(0, 0) \in Seq(Nat) /\ Len(Counted(0, 0)) = 0
    BY CountedMore
  <2> QED BY <2>1, EmptySeq
<1>7. Carries((out \o InFr) \o down, up, peer, Counted(0, Written))
  <2>1. <<>> \o <<>> = <<>>
    BY <1>2, ConcatEmptySeq
  <2>2. ((<<>> \o <<>>) \o <<>>) \o <<>> = <<>>
    BY <2>1
  <2>3. Carries(<<>>, <<>>, peer, <<>>)
    BY <1>2, <2>1, CarriesFromWhole
  <2> QED BY <1>1, <1>4, <1>5, <1>6, <2>1, <2>3
<1>8. PollEnds
  BY <1>1 DEF PollEnds
<1>9. toE - toS = 0 /\ Written \in Nat
  BY <1>1, <1>4
<1> QED BY <1>3, <1>4, <1>5, <1>6, <1>7, <1>8, <1>9 DEF PollInv, PollBytes

(* A step that moves no byte.                                              *)
LEMMA PollStays ==
    ASSUME PollInv,
           UNCHANGED <<typed, inputEnded, taken, up, down, peer, out, to, toS, toE,
                       fr, frS, frE, stdineof>>,
           outq' \in 0..OutSize, at' = "stdin" => InputReady
    PROVE  PollInv'
<1>1. PollTypeOK'
  BY DEF PollInv, PollTypeOK
<1>2. UNCHANGED <<InTo, InFr, Written>>
  BY DEF InTo, InFr, Written
<1>3. PollBytes'
  BY <1>2 DEF PollInv, PollBytes
<1>4. PollEnds'
  BY <1>2 DEF PollInv, PollEnds, InputReady
<1> QED BY <1>1, <1>3, <1>4 DEF PollInv

LEMMA PollKeeps == ASSUME PollInv, Poll PROVE PollInv'
<1>1. at' = "stdin" => InputReady
  <2>1. ASSUME at' = "stdin" PROVE "stdin" \in Reportable
    BY <2>1 DEF Poll, AfterStdin, AfterFd
  <2>2. ASSUME "stdin" \in Reportable PROVE InputReady
    BY <2>2 DEF Reportable
  <2> QED BY <2>1, <2>2
<1>2. outq' \in 0..OutSize
  BY DEF Poll, PollInv, PollTypeOK
<1> QED BY <1>1, <1>2, PollStays DEF Poll, toVars, frVars

LEMMA FdConnectedKeeps == ASSUME PollInv, FdConnected PROVE PollInv'
<1>1. at' # "stdin" /\ outq' \in 0..OutSize
  BY DEF FdConnected, PollInv, PollTypeOK
<1> QED BY <1>1, PollStays DEF FdConnected, toVars, frVars

LEMMA ReadOutKeeps == ASSUME PollInv, ReadOut PROVE PollInv'
<1>1. outq' \in 0..OutSize
  BY DEF ReadOut, PollInv, PollTypeOK
<1>2. at' = "stdin" => InputReady
  BY DEF ReadOut, netVars, PollInv, PollEnds
<1> QED BY <1>1, <1>2, PollStays DEF ReadOut, netVars, toVars, frVars

LEMMA StdinReadKeeps == ASSUME PollInv, StdinRead PROVE PollInv'
<1> PICK n \in 1..SmallerOf(typed - taken, ToSize - toE) :
       /\ to' = Filled(to, toE, [i \in 1..n |-> taken + i])
       /\ toE' = toE + n
       /\ taken' = taken + n
  BY DEF StdinRead
<1>1. /\ taken < typed /\ at' = "fd"
      /\ UNCHANGED <<typed, inputEnded, up, down, peer, out, toS, fr, frS, frE,
                     stdineof, outq>>
  BY DEF StdinRead, frVars
<1>2. PollTypeOK /\ PollBytes /\ PollEnds
  BY DEF PollInv
<1>3. n \in Nat \ {0} /\ taken + n <= typed /\ toE + n <= ToSize
  BY <1>1, <1>2 DEF PollTypeOK, SmallerOf
<1>4. /\ Counted(taken, n) \in Seq(Nat) /\ Len(Counted(taken, n)) = n
      /\ to' = Filled(to, toE, Counted(taken, n))
  <2>1. taken \in Nat /\ n \in Nat
    BY <1>2, <1>3 DEF PollTypeOK
  <2> QED BY <2>1, CountedMore DEF Counted
<1>5. /\ to' \in [0..ToSize - 1 -> Nat]
      /\ Slice(to', toS, toE + n) = InTo \o Counted(taken, n)
  <2>1. /\ ToSize - 1 \in Int /\ to \in [0..ToSize - 1 -> Nat]
        /\ toS \in Nat /\ toE \in Nat /\ toS <= toE /\ toE <= (ToSize - 1) + 1
    BY <1>2 DEF PollTypeOK
  <2>2. toE + Len(Counted(taken, n)) <= ToSize
    BY <1>3, <1>4
  <2> DEFINE bytes == Counted(taken, n)
  <2> HIDE DEF bytes
  <2>3. bytes \in Seq(Nat) /\ toE + Len(bytes) <= (ToSize - 1) + 1 /\ Len(bytes) = n
        /\ to' = Filled(to, toE, bytes)
    BY <1>4, <2>2 DEF bytes
  <2>4. /\ Filled(to, toE, bytes) \in [0..ToSize - 1 -> Nat]
        /\ Slice(Filled(to, toE, bytes), toS, toE + Len(bytes))
             = Slice(to, toS, toE) \o bytes
    <3>1. Filled(to, toE, bytes) \in [0..ToSize - 1 -> Nat]
      BY <2>1, <2>3, FilledIs
    <3>2. Slice(Filled(to, toE, bytes), toS, toE + Len(bytes))
            = Slice(to, toS, toE) \o bytes
      <4>1. /\ \A i \in toS..toE - 1 : to[i] \in Nat
            /\ \A i \in toS..toE + Len(bytes) - 1 : i \in DOMAIN to
            /\ toS \in Nat /\ toE \in Nat /\ toS <= toE /\ bytes \in Seq(Nat)
        BY <1>3, <2>1, <2>3
      <4> QED BY <4>1, SliceFilled
    <3> QED BY <3>1, <3>2
  <2>5. /\ to' \in [0..ToSize - 1 -> Nat]
        /\ Slice(to', toS, toE + n) = InTo \o bytes
    BY <2>3, <2>4 DEF InTo
  <2> QED BY <2>5 DEF bytes
<1>6. PollTypeOK'
  <2>1. typed' \in Nat /\ taken' \in 0..typed' /\ toE' \in toS'..ToSize
    BY <1>1, <1>2, <1>3 DEF PollTypeOK
  <2>2. to' \in [0..ToSize - 1 -> Nat]
    BY <1>5
  <2> QED BY <1>1, <1>2, <2>1, <2>2 DEF PollTypeOK
<1>7. Written' = Written /\ toE' - toS' = (toE - toS) + n
  BY <1>1, <1>2, <1>3 DEF Written, PollTypeOK
<1>8. InTo' = Counted(Written, toE' - toS')
  <2>1. InTo = Counted(Written, toE - toS) /\ taken = Written + (toE - toS)
    BY <1>2 DEF PollBytes, Written, PollTypeOK
  <2>2. Written \in Nat /\ toE - toS \in Nat /\ n \in Nat
    BY <1>2, <1>3 DEF PollBytes, PollTypeOK
  <2>3. Counted(Written, toE - toS) \o Counted(Written + (toE - toS), n)
          = Counted(Written, (toE - toS) + n)
    BY <2>2, CountedJoined
  <2>4. InTo' = InTo \o Counted(taken, n)
    BY <1>1, <1>5 DEF InTo
  <2> QED BY <1>7, <2>1, <2>3, <2>4
<1>9. PollBytes'
  <2>1. InFr' = InFr
    BY <1>1 DEF InFr
  <2>2. InTo' = Counted(Written', toE' - toS')
    BY <1>7, <1>8
  <2> QED BY <1>1, <1>2, <1>7, <2>1, <2>2 DEF PollBytes
<1>10. PollEnds'
  BY <1>1, <1>2, <1>7 DEF PollEnds, InputReady, PollTypeOK
<1> QED BY <1>6, <1>9, <1>10 DEF PollInv

LEMMA StdinEofKeeps == ASSUME PollInv, StdinEof PROVE PollInv'
<1>1. /\ at = "stdin" /\ taken = typed /\ stdineof' = TRUE
      /\ peer' = IF toS = toE THEN Shut(peer) ELSE peer
      /\ UNCHANGED <<typed, inputEnded, taken, up, down, out, to, toS, toE, fr, frS,
                     frE, outq>>
  BY DEF StdinEof, toVars, frVars
<1>2. at' # "stdin"
  BY DEF StdinEof, AfterStdin, AfterFd
<1>3. PollTypeOK'
  BY <1>1 DEF PollInv, PollTypeOK
<1>4. UNCHANGED <<InTo, InFr, Written>>
  BY <1>1 DEF InTo, InFr, Written
<1>5. peer' \in Whole => peer \in Whole
  BY <1>1 DEF Shut, Whole
<1>6. PollBytes'
  BY <1>1, <1>4, <1>5 DEF PollInv, PollBytes, Carries
<1>7. toS = toE => Written = typed
  BY <1>1 DEF Written, PollInv, PollTypeOK
<1>8. inputEnded
  BY <1>1 DEF PollInv, PollEnds, InputReady, PollTypeOK
<1>9. PollEnds'
  BY <1>1, <1>2, <1>4, <1>7, <1>8 DEF PollInv, PollEnds
<1> QED BY <1>3, <1>6, <1>9 DEF PollInv

(* Bytes of the connection that go into fr stay where they are on the way.  *)
LEMMA FdReadKeeps == ASSUME PollInv, FdRead PROVE PollInv'
<1>1. /\ at = "fd" /\ at' \in {"stdout", "done", "exit"}
      /\ UNCHANGED <<typed, inputEnded, taken, up, peer, out, to, toS, toE, frS,
                     stdineof, outq>>
  BY DEF FdRead, toVars
<1>2. PollTypeOK /\ PollBytes /\ PollEnds
  BY DEF PollInv
<1>3. CASE UNCHANGED <<fr, frE, down>>
  <2>1. outq' \in 0..OutSize
    BY <1>1, <1>2 DEF PollTypeOK
  <2> QED BY <1>1, <1>3, <2>1, PollStays
<1>4. CASE down # <<>>
  <2> DEFINE n == SmallerOf(Len(down), FrSize - frE)
             bytes == SubSeq(down, 1, n)
             rest == SubSeq(down, n + 1, Len(down))
  <2>1. fr' = Filled(fr, frE, bytes) /\ frE' = frE + n /\ down' = rest
    BY <1>4 DEF FdRead
  <2>2. n \in 0..Len(down) /\ n \in Nat /\ frE + n <= FrSize
    <3>1. Len(down) \in Nat /\ frE \in Nat /\ FrSize \in Nat /\ frE <= FrSize
      BY <1>2, LenProperties DEF PollTypeOK
    <3> QED BY <3>1 DEF SmallerOf
  <2>3. /\ bytes \in Seq(Nat) /\ rest \in Seq(Nat) /\ Len(bytes) = n
        /\ bytes \o rest = down
    <3> HIDE DEF n
    <3>1. down \in Seq(Nat)
      BY <1>2 DEF PollTypeOK
    <3> QED BY <2>2, <3>1, CutInTwo
  <2> HIDE DEF n, bytes, rest
  <2>4. /\ \A i \in frS..frE - 1 : fr[i] \in Nat
        /\ \A i \in frS..frE + Len(bytes) - 1 : i \in DOMAIN fr
        /\ frS \in Nat /\ frE \in Nat /\ frS <= frE /\ frE + n \in frS..FrSize
    BY <1>2, <2>2, <2>3 DEF PollTypeOK
  <2>5. InFr' = InFr \o bytes
    <3>1. Slice(Filled(fr, frE, bytes), frS, frE + Len(bytes)) = Slice(fr, frS, frE) \o bytes
      BY <2>3, <2>4, SliceFilled
    <3> QED BY <1>1, <2>1, <2>3, <3>1 DEF InFr
  <2>6. fr' \in [0..FrSize - 1 -> Nat]
    <3>1. fr \in [0..FrSize - 1 -> Nat] /\ frE \in Nat /\ bytes \in Seq(Nat)
      BY <1>2, <2>3, <2>4 DEF PollTypeOK
    <3>2. Filled(fr, frE, bytes) \in [0..FrSize - 1 -> Nat]
      BY <3>1, FilledIs
    <3> QED BY <2>1, <3>2
  <2>7. PollTypeOK'
    BY <1>1, <1>2, <2>1, <2>3, <2>4, <2>6 DEF PollTypeOK
  <2>8. (out' \o InFr') \o down' = (out \o InFr) \o down
    <3>1. out \in Seq(Nat) /\ InFr \in Seq(Nat) /\ bytes \in Seq(Nat) /\ rest \in Seq(Nat)
      BY <1>2, <2>3, PollSlices DEF PollTypeOK, SlicesOK
    <3>2. (out \o (InFr \o bytes)) \o rest = (out \o InFr) \o (bytes \o rest)
      <4>1. (out \o InFr) \o bytes = out \o (InFr \o bytes)
        BY <3>1, ConcatAssociative, SMTT(30)
      <4> DEFINE front == out \o InFr
      <4>2. front \in Seq(Nat)
        BY <3>1, ConcatProperties
      <4>3. (front \o bytes) \o rest = front \o (bytes \o rest)
        <5> HIDE DEF front
        <5>1. bytes \in Seq(Nat) /\ rest \in Seq(Nat)
          BY <3>1
        <5> QED BY <4>2, <5>1, NumbersJoin
      <4> QED BY <4>1, <4>3
    <3> QED BY <1>1, <2>1, <2>3, <2>5, <3>2
  <2>9. UNCHANGED <<InTo, Written>>
    BY <1>1 DEF InTo, Written
  <2>10. PollBytes'
    BY <1>1, <1>2, <2>8, <2>9 DEF PollBytes
  <2>11. PollEnds'
    BY <1>1, <1>2, <2>9 DEF PollEnds
  <2> QED BY <2>7, <2>10, <2>11 DEF PollInv
<1> QED BY <1>3, <1>4 DEF FdRead

LEMMA StdoutWriteKeeps == ASSUME PollInv, StdoutWrite PROVE PollInv'
<1> DEFINE n == SmallerOf(frE - frS, OutSize - outq)
           shownNow == Slice(fr, frS, frS + n)
           rest == Slice(fr, frS + n, frE)
<1>1. /\ at' = "poll"
      /\ UNCHANGED <<typed, inputEnded, taken, up, down, peer, to, toS, toE, fr,
                     stdineof>>
      /\ out' = out \o shownNow /\ outq' = outq + n
      /\ \/ frS + n = frE /\ frS' = 0 /\ frE' = 0
         \/ frS + n # frE /\ frS' = frS + n /\ frE' = frE
  BY DEF StdoutWrite, toVars
<1>2. PollTypeOK /\ PollBytes /\ PollEnds
  BY DEF PollInv
<1>3. n \in 0..frE - frS /\ n \in Nat /\ outq + n \in 0..OutSize
  BY <1>2 DEF PollTypeOK, SmallerOf
<1>4. /\ frS \in Nat /\ frE \in Nat /\ frS <= frE /\ frE <= FrSize
      /\ \A i \in frS..frE - 1 : fr[i] \in Nat
  BY <1>2 DEF PollTypeOK
<1> HIDE DEF n
<1>5. /\ shownNow \in Seq(Nat) /\ rest \in Seq(Nat) /\ shownNow \o rest = InFr
      /\ Len(rest) = frE - (frS + n)
  <2> DEFINE m == frS + n
  <2>1. m \in Nat /\ frS <= m /\ m <= frE
    BY <1>3, <1>4
  <2>2. /\ \A i \in frS..m - 1 : fr[i] \in Nat
        /\ \A i \in m..frE - 1 : fr[i] \in Nat
    BY <1>4, <2>1
  <2>3. Slice(fr, frS, frS + n) \o Slice(fr, frS + n, frE) = Slice(fr, frS, frE)
    BY <1>3, <1>4, SliceCut
  <2> HIDE DEF m
  <2>4. Slice(fr, frS, m) \in Seq(Nat)
    BY <1>4, <2>1, <2>2, SliceIs
  <2>5. Slice(fr, m, frE) \in Seq(Nat) /\ Len(Slice(fr, m, frE)) = frE - m
    BY <1>4, <2>1, <2>2, SliceIs
  <2> QED BY <2>3, <2>4, <2>5 DEF m, InFr
<1> HIDE DEF shownNow, rest
<1>6. /\ out \in Seq(Nat) /\ down \in Seq(Nat) /\ InFr \in Seq(Nat)
      /\ out' \in Seq(Nat)
  <2>1. out \in Seq(Nat) /\ down \in Seq(Nat) /\ InFr \in Seq(Nat)
    BY <1>2, PollSlices DEF PollTypeOK, SlicesOK
  <2> QED BY <1>1, <1>5, <2>1, ConcatProperties
<1>7. PollTypeOK'
  <2>1. frS' \in 0..FrSize /\ frE' \in frS'..FrSize
    BY <1>1, <1>3, <1>4
  <2>2. outq' \in 0..OutSize
    BY <1>1, <1>3
  <2> QED BY <1>1, <1>2, <1>6, <2>1, <2>2 DEF PollTypeOK
<1>8. InFr' = rest
  <2>1. CASE frS + n = frE /\ frS' = 0 /\ frE' = 0
    <3>1. InFr' \in Seq(Nat) /\ Len(InFr') = 0
      <4>1. InFr' \in Seq(Nat) /\ Len(InFr') = frE' - frS'
        BY <1>7, PollSlicesNext DEF SlicesOK
      <4> QED BY <2>1, <4>1
    <3>2. Len(rest) = 0
      BY <1>3, <1>4, <1>5, <2>1
    <3> QED BY <1>5, <3>1, <3>2, EmptySeq
  <2>2. CASE frS' = frS + n /\ frE' = frE
    BY <1>1, <2>2 DEF InFr, rest
  <2> QED BY <1>1, <2>1, <2>2
<1>9. (out' \o InFr') \o down' = (out \o InFr) \o down
  <2>1. (out \o shownNow) \o rest = out \o (shownNow \o rest)
    <3>1. out \in Seq(Nat) /\ shownNow \in Seq(Nat) /\ rest \in Seq(Nat)
      BY <1>5, <1>6
    <3> QED BY <3>1, ConcatAssociative, SMTT(30)
  <2> QED BY <1>1, <1>5, <1>8, <2>1
<1>10. UNCHANGED <<InTo, Written>>
  BY <1>1 DEF InTo, Written
<1>11. PollBytes'
  BY <1>1, <1>2, <1>9, <1>10 DEF PollBytes
<1>12. PollEnds'
  BY <1>1, <1>2, <1>10 DEF PollEnds
<1> QED BY <1>7, <1>11, <1>12 DEF PollInv

(* Where the next bytes of `to` are.                                       *)
LEMMA ToIsCounted ==
    ASSUME PollTypeOK, PollBytes, NEW n \in 0..toE - toS
    PROVE  /\ Slice(to, toS, toS + n) = Counted(Written, n)
           /\ Slice(to, toS + n, toE) = Counted(Written + n, toE - (toS + n))
           /\ Written + (toE - toS) = taken
<1>1. /\ toS \in Nat /\ toE \in Nat /\ toS <= toE /\ n \in Nat /\ Written \in Nat
      /\ Written + (toE - toS) = taken
  BY DEF PollTypeOK, PollBytes, Written
<1>2. [i \in 1..toE - toS |-> to[toS + i - 1]] = [i \in 1..toE - toS |-> Written + i]
  BY DEF PollBytes, InTo, Slice, Counted
<1>3. \A i \in 1..toE - toS : to[toS + i - 1] = Written + i
  <2> TAKE i \in 1..toE - toS
  <2>1. [j \in 1..toE - toS |-> to[toS + j - 1]][i] = to[toS + i - 1]
    OBVIOUS
  <2>2. [j \in 1..toE - toS |-> Written + j][i] = Written + i
    OBVIOUS
  <2> QED BY <1>2, <2>1, <2>2
<1>4. Slice(to, toS, toS + n) = Counted(Written, n)
  <2>1. (toS + n) - toS = n /\ \A i \in 1..n : to[toS + i - 1] = Written + i
    BY <1>1, <1>3
  <2>2. [i \in 1..n |-> to[toS + i - 1]] = [i \in 1..n |-> Written + i]
    BY <2>1
  <2> QED BY <2>1, <2>2 DEF Slice, Counted
<1>5. Slice(to, toS + n, toE) = Counted(Written + n, toE - (toS + n))
  <2> DEFINE rest == toE - (toS + n)
  <2>1. ASSUME NEW i \in 1..rest PROVE to[toS + n + i - 1] = Written + n + i
    <3>1. n + i \in 1..toE - toS
      BY <1>1, <2>1
    <3>2. to[toS + (n + i) - 1] = Written + (n + i)
      BY <1>3, <3>1
    <3>3. toS + n + i - 1 = toS + (n + i) - 1 /\ Written + n + i = Written + (n + i)
      BY <1>1, <2>1
    <3> QED BY <3>2, <3>3
  <2>2. [i \in 1..rest |-> to[toS + n + i - 1]] = [i \in 1..rest |-> Written + n + i]
    <3> HIDE DEF rest
    <3> QED BY <2>1
  <2> QED BY <2>2 DEF Slice, Counted
<1> QED BY <1>1, <1>4, <1>5

(* Bytes that leave `to` are behind those that have left it before.        *)
LEMMA FdWriteKeeps == ASSUME PollInv, FdWrite PROVE PollInv'
<1>1. /\ at' # "stdin" 
      /\ UNCHANGED <<typed, inputEnded, taken, down, out, to, fr, frS, frE, stdineof,
                     outq>>
  BY DEF FdWrite, frVars, AfterFd
<1>2. PollTypeOK /\ PollBytes /\ PollEnds
  BY DEF PollInv
<1>3. /\ toS \in Nat /\ toE \in Nat /\ toS <= toE /\ toE <= ToSize /\ toE - toS \in Nat
      /\ Written \in Nat /\ Written + (toE - toS) = taken /\ taken \in 0..typed
  BY <1>2 DEF PollTypeOK, PollBytes, Written
<1> DEFINE back == (out \o InFr) \o down
<1>4. back \in Seq(Nat) /\ back' = back /\ up \in Seq(Nat)
  <2>1. out \in Seq(Nat) /\ InFr \in Seq(Nat) /\ down \in Seq(Nat) /\ up \in Seq(Nat)
    BY <1>2, PollSlices DEF PollTypeOK, SlicesOK
  <2>2. out \o InFr \in Seq(Nat)
    BY <2>1, ConcatProperties
  <2>3. back \in Seq(Nat)
    BY <2>1, <2>2, ConcatProperties
  <2> QED BY <1>1, <2>1, <2>3 DEF InFr
<1>5. CASE peer = "reset"
  <2>1. UNCHANGED <<up, toS, toE, peer>>
    BY <1>5 DEF FdWrite
  <2>2. outq' \in 0..OutSize
    BY <1>1, <1>2 DEF PollTypeOK
  <2> QED BY <1>1, <2>1, <2>2, PollStays
<1>6. ASSUME NEW n \in 0..toE - toS, NEW p, Advanced(n, p), up' \in Seq(Nat),
             Len(up') <= UpSize,
             Carries(back, up', p, Counted(0, Written + n)),
             p = peer \/ p = "reset", p # "closed"
      PROVE  PollInv'
  <2>1. /\ peer' \in {p, Shut(p)} /\ p \notin {"open", "half"} => peer' = p
        /\ \/ /\ toS + n = toE /\ toS' = 0 /\ toE' = 0
              /\ peer' = IF stdineof THEN Shut(p) ELSE p
           \/ toS + n # toE /\ toS' = toS + n /\ toE' = toE /\ peer' = p
    BY <1>6 DEF Advanced, Shut
  <2>2. n \in Nat /\ toS' \in 0..ToSize /\ toE' \in toS'..ToSize
    BY <1>3, <2>1
  <2>3. PollTypeOK'
    BY <1>1, <1>2, <1>6, <2>2 DEF PollTypeOK
  <2>4. Written' = Written + n /\ Written' \in Nat
    <3>1. Written' = taken - (toE' - toS') /\ taken \in Nat
      BY <1>1, <1>3 DEF Written
    <3>2. CASE toS + n = toE /\ toS' = 0 /\ toE' = 0
      BY <1>3, <2>2, <3>1, <3>2
    <3>3. CASE toS' = toS + n /\ toE' = toE
      BY <1>3, <2>2, <3>1, <3>3
    <3> QED BY <2>1, <3>2, <3>3
  <2>5. InTo' = Counted(Written', toE' - toS')
    <3>1. CASE toS' = 0 /\ toE' = 0
      BY <3>1 DEF InTo, Slice, Counted
    <3>2. CASE toS' = toS + n /\ toE' = toE
      <4>1. InTo' = Slice(to, toS + n, toE)
        BY <1>1, <3>2 DEF InTo
      <4> QED BY <1>2, <1>6, <2>4, <3>2, <4>1, ToIsCounted
    <3> QED BY <2>1, <3>1, <3>2
  <2>6. Carries(back, up', peer', Counted(0, Written'))
    <3>1. peer' \in Whole => p \in Whole
      BY <2>1 DEF Shut, Whole
    <3> QED BY <1>6, <2>4, <3>1 DEF Carries
  <2>7. PollBytes'
    BY <1>4, <2>4, <2>5, <2>6 DEF PollBytes
  <2>8. ASSUME peer' \in {"half", "closed"} PROVE stdineof /\ Written' = typed
    <3>1. CASE peer \in {"half", "closed"}
      <4>1. stdineof /\ Written = typed
        BY <1>2, <3>1 DEF PollEnds
      <4>2. n = 0
        BY <1>3, <4>1
      <4> QED BY <1>3, <2>4, <4>1, <4>2
    <3>2. CASE peer \notin {"half", "closed"}
      <4>1. toS + n = toE /\ stdineof
        BY <1>6, <2>1, <2>8, <3>2 DEF Shut
      <4>2. taken = typed
        BY <1>2, <4>1 DEF PollEnds
      <4> QED BY <1>3, <2>2, <2>4, <4>1, <4>2
    <3> QED BY <3>1, <3>2
  <2>9. PollEnds'
    BY <1>1, <1>2, <2>8 DEF PollEnds
  <2> QED BY <2>3, <2>7, <2>9 DEF PollInv
<1>7. CASE peer # "reset" /\ Gone
  <2> DEFINE n == toE - toS
  <2>1. Advanced(n, "reset") /\ up' = up
    BY <1>7 DEF FdWrite
  <2>2. n \in 0..toE - toS /\ n \in Nat
    BY <1>3
  <2> HIDE DEF n
  <2>3. /\ Counted(Written, n) \in Seq(Nat) /\ Counted(0, Written) \in Seq(Nat)
        /\ Counted(0, Written) \o Counted(Written, n) = Counted(0, Written + n)
    BY <1>3, <2>2, CountedMore
  <2>4. Carries(back, up, peer, Counted(0, Written))
    BY <1>2 DEF PollBytes
  <2>5. Carries(back, up, "reset", Counted(0, Written) \o Counted(Written, n))
    <3>1. "reset" \notin Whole
      BY DEF Whole
    <3> HIDE DEF back
    <3> QED BY <1>4, <2>3, <2>4, <3>1, CarriesLess
  <2>6. Len(up') <= UpSize
    BY <1>2, <2>1 DEF PollTypeOK
  <2> QED BY <1>4, <1>6, <2>1, <2>2, <2>3, <2>5, <2>6
<1>8. CASE peer # "reset" /\ ~Gone
  <2> DEFINE n == SmallerOf(toE - toS, UpSize - Len(up))
  <2>1. up' = up \o Slice(to, toS, toS + n) /\ Advanced(n, peer)
    BY <1>8 DEF FdWrite
  <2>2. /\ n \in 0..toE - toS /\ n \in Nat
        /\ Len(up) \in Nat /\ Len(up) + n <= UpSize
    <3>1. Len(up) \in Nat /\ UpSize \in Nat /\ Len(up) <= UpSize
      BY <1>2, <1>4, LenProperties DEF PollTypeOK
    <3> QED BY <1>3, <3>1 DEF SmallerOf
  <2> HIDE DEF n
  <2>3. /\ Counted(Written, n) \in Seq(Nat) /\ Len(Counted(Written, n)) = n
        /\ Counted(0, Written) \in Seq(Nat)
        /\ Counted(0, Written) \o Counted(Written, n) = Counted(0, Written + n)
    BY <1>3, <2>2, CountedMore
  <2>4. Slice(to, toS, toS + n) = Counted(Written, n)
    BY <1>2, <2>2, ToIsCounted
  <2>5. Carries(back, up, peer, Counted(0, Written))
    BY <1>2 DEF PollBytes
  <2>6. /\ up \o Counted(Written, n) \in Seq(Nat)
        /\ Carries(back, up \o Counted(Written, n), peer,
                   Counted(0, Written) \o Counted(Written, n))
    <3> HIDE DEF back
    <3> QED BY <1>4, <2>3, <2>5, CarriesMore
  <2>7. up' \in Seq(Nat) /\ Len(up') <= UpSize
    <3>1. Len(up \o Counted(Written, n)) = Len(up) + Len(Counted(Written, n))
      BY <1>4, <2>3, ConcatProperties
    <3> QED BY <2>1, <2>2, <2>3, <2>4, <2>6, <3>1
  <2>8. peer # "closed"
    BY <1>8 DEF Gone
  <2> QED BY <1>6, <2>1, <2>2, <2>3, <2>4, <2>6, <2>7, <2>8
<1> QED BY <1>5, <1>7, <1>8

(* The user and the server.                                                *)
LEMMA OthersKeepPoll ==
    ASSUME PollInv, OthersStep, UNCHANGED pollVars PROVE PollInv'
<1> DEFINE front == out \o InFr
           all == Counted(0, Written)
<1>1. PollTypeOK /\ PollBytes /\ PollEnds
  BY DEF PollInv
<1>2. UNCHANGED <<to, toS, toE, fr, frS, frE, stdineof, outq>>
  BY DEF pollVars, toVars, frVars
<1>3. front \in Seq(Nat) /\ all \in Seq(Nat)
  <2>1. out \in Seq(Nat) /\ InFr \in Seq(Nat)
    BY <1>1, PollSlices DEF PollTypeOK, SlicesOK
  <2>2. Written \in Nat
    BY <1>1 DEF PollBytes
  <2> QED BY <2>1, <2>2, ConcatProperties, CountedMore
<1>4. up \in Seq(Nat) /\ down \in Seq(Nat) /\ Len(up) <= UpSize
  BY <1>1 DEF PollTypeOK
<1>5. Carries(front \o down, up, peer, all)
  BY <1>1 DEF PollBytes
<1> HIDE DEF front, all
<1>6. /\ up' \in Seq(Nat) /\ down' \in Seq(Nat) /\ Len(up') <= UpSize
      /\ Carries(front \o down', up', peer', all)
      /\ UNCHANGED <<program, taken, at, out>>
      /\ peer' \in {"half", "closed"} => peer \in {"half", "closed"}
  BY <1>3, <1>4, <1>5, OthersCarry
<1>7. /\ typed' \in {typed, typed + 1} /\ inputEnded' \in BOOLEAN
      /\ inputEnded => inputEnded' /\ typed' = typed
  BY <1>1 DEF OthersStep, Type, EndInput, ServerDue, Answer, Echo, EchoEnd, Quit,
              PollTypeOK
<1>8. PollTypeOK'
  <2>1. typed' \in Nat /\ taken' \in 0..typed'
    BY <1>1, <1>6, <1>7 DEF PollTypeOK
  <2> QED BY <1>1, <1>2, <1>6, <1>7, <2>1 DEF PollTypeOK
<1>9. UNCHANGED <<InTo, InFr, Written>>
  BY <1>2, <1>6 DEF InTo, InFr, Written
<1>10. PollBytes'
  BY <1>1, <1>2, <1>6, <1>9 DEF PollBytes, front, all
<1>11. PollEnds'
  BY <1>1, <1>2, <1>6, <1>7, <1>9 DEF PollEnds, InputReady, PollTypeOK
<1> QED BY <1>8, <1>10, <1>11 DEF PollInv

LEMMA ProgramStays == ASSUME [Next]_vars PROVE program' = program
BY DEF Next, vars, PollClientRuns, OutputIsRead, SelectClientRuns, UserActs, DuRuns,
   StackRuns, TreeRuns, PipesRun, Killed, RaceRuns, CopyRuns, ForkWaitRuns,
   PollClientStep, Poll, StdinRead, StdinEof, FdConnected, FdRead, FdWrite,
   StdoutWrite, ReadOut, SelectClientStep, Select, FdReceive, Fgets, WriteRecord,
   OthersStep, clientVars, netVars, NotDu, NotStack, NotTree, NotPipes, NotRace,
   NotCopy, NotFork

(* The steps that concern the program that runs.                           *)
LEMMA NbtcSteps ==
    ASSUME [Next]_vars, program = "nbtc"
    PROVE  \/ PollClientStep
           \/ ReadOut
           \/ OthersStep /\ UNCHANGED pollVars
           \/ UNCHANGED <<netVars, pollVars>>
BY DEF Next, vars, PollClientRuns, OutputIsRead, SelectClientRuns, UserActs,
   DuRuns, StackRuns, TreeRuns, PipesRun, Killed, RaceRuns, CopyRuns, ForkWaitRuns,
   SelectClientStep, Select, FdReceive, Fgets, WriteRecord, Is, clientVars,
   NotDu, NotStack, NotTree, NotPipes, NotRace, NotCopy, NotFork

LEMMA TcpClientSteps ==
    ASSUME [Next]_vars, program = "tcp-client"
    PROVE  \/ SelectClientStep
           \/ OthersStep /\ UNCHANGED selectVars
           \/ UNCHANGED <<netVars, selectVars>>
BY DEF Next, vars, PollClientRuns, OutputIsRead, SelectClientRuns, UserActs,
   DuRuns, StackRuns, TreeRuns, PipesRun, Killed, RaceRuns, CopyRuns, ForkWaitRuns,
   PollClientStep, Poll, StdinRead, StdinEof, FdConnected, FdRead, FdWrite,
   StdoutWrite, ReadOut, Is, clientVars, NotDu, NotStack, NotTree, NotPipes,
   NotRace, NotCopy, NotFork

LEMMA PollPreserved == (program = "nbtc" => PollInv) /\ [Next]_vars
                         => (program = "nbtc" => PollInv)'
<1> SUFFICES ASSUME program = "nbtc" => PollInv, [Next]_vars, program' = "nbtc"
             PROVE  PollInv'
  OBVIOUS
<1>1. program' = program
  BY ProgramStays
<1>2. PollInv /\ program = "nbtc"
  BY <1>1
<1>3. \/ PollClientStep
      \/ ReadOut
      \/ OthersStep /\ UNCHANGED pollVars
      \/ UNCHANGED <<netVars, pollVars>>
  BY <1>2, NbtcSteps
<1>4. CASE PollClientStep
  BY <1>2, <1>4, PollKeeps, StdinReadKeeps, StdinEofKeeps, FdConnectedKeeps,
     FdReadKeeps, FdWriteKeeps, StdoutWriteKeeps DEF PollClientStep
<1>5. CASE ReadOut
  BY <1>2, <1>5, ReadOutKeeps
<1>6. CASE OthersStep /\ UNCHANGED pollVars
  BY <1>2, <1>6, OthersKeepPoll
<1>7. CASE UNCHANGED <<netVars, pollVars>>
  <2>1. outq' \in 0..OutSize /\ (at' = "stdin" => InputReady)
    BY <1>2, <1>7 DEF PollInv, PollTypeOK, PollEnds, netVars, pollVars
  <2> QED BY <1>2, <1>7, <2>1, PollStays DEF netVars, pollVars, toVars, frVars
<1> QED BY <1>3, <1>4, <1>5, <1>6, <1>7

-----------------------------------------------------------------------------
(* SelectClient                                                            *)

Cells == Nat \cup {PAD}

SelectTypeOK ==
    /\ typed \in Nat /\ taken \in 0..typed /\ inputEnded \in BOOLEAN
    /\ up \in Seq(Cells) /\ down \in Seq(Cells) /\ out \in Seq(Cells)
    /\ Len(up) <= UpSize
    /\ buffered \in Nat /\ sent \in Nat

InHand == IF at \in {"write", "sigpipe"} THEN 1 ELSE 0

(* Every line is in one place.                                             *)
SelectLines ==
    /\ taken = sent + buffered + InHand
    /\ Carries(out \o down, up, peer, Records(sent))

(* What the program knows of the end of the input.                         *)
SelectEnds ==
    /\ noInput => /\ inputEnded /\ taken = typed /\ buffered = 0
                  /\ at \notin {"stdin", "write", "sigpipe"}
    /\ at = "stdin" \/ (at = "fd" /\ "stdin" \in ready) => InputReady /\ ~noInput
    /\ at = "end" => noInput

SelectInv == SelectTypeOK /\ SelectLines /\ SelectEnds

USE SelectClientAssumption

LEMMA SelectMeans == SelectInv => LinesKept
<1> SUFFICES ASSUME SelectInv PROVE LinesKept
  OBVIOUS
<1>1. Carried(out \o down, Records(sent))
  BY DEF SelectInv, SelectLines, Carries, Carried, PrefixOf, Whole
<1>2. taken = sent + buffered + (IF at \in {"write", "sigpipe"} THEN 1 ELSE 0)
  BY DEF SelectInv, SelectLines, InHand
<1>3. at = "end" => sent = typed
  BY DEF SelectInv, SelectTypeOK, SelectLines, SelectEnds, InHand
<1> QED BY <1>1, <1>2, <1>3 DEF LinesKept

(* The next record is behind the others.                                   *)
LEMMA RecordsGrow ==
    ASSUME NEW n \in Nat
    PROVE  LET next == SubSeq(Records(n + 1), n * RecordSize + 1, (n + 1) * RecordSize)
           IN  /\ next \in Seq(Cells) /\ Len(next) = RecordSize
               /\ Records(n) \in Seq(Cells)
               /\ Records(n + 1) = Records(n) \o next
<1> DEFINE Cell(i) == IF i % RecordSize = 1 THEN i \div RecordSize + 1 ELSE PAD
           m == n * RecordSize
           k == (n + 1) * RecordSize
<1>1. RecordSize \in Nat \ {0} /\ m \in Nat /\ k \in Nat /\ k = m + RecordSize
  OBVIOUS
<1>2. \A i \in Nat : Cell(i) \in Cells
  BY DEF Cells
<1>3. Records(n) = [i \in 1..m |-> Cell(i)] /\ Records(n + 1) = [i \in 1..k |-> Cell(i)]
  BY DEF Records
<1> DEFINE a == Records(n)
           c == Records(n + 1)
           next == SubSeq(c, m + 1, k)
<1> HIDE DEF Cell, m, k
<1>4. /\ a \in Seq(Cells) /\ Len(a) = m /\ c \in Seq(Cells) /\ Len(c) = k
      /\ \A i \in 1..m : a[i] = c[i]
  BY <1>1, <1>2, <1>3
<1> HIDE DEF a, c
<1>5. PrefixOf(a, c)
  BY <1>1, <1>4, PrefixMeans
<1>6. /\ SubSeq(c, 1, m) \in Seq(Cells) /\ SubSeq(c, m + 1, Len(c)) \in Seq(Cells)
      /\ SubSeq(c, 1, m) \o SubSeq(c, m + 1, Len(c)) = c
  BY <1>1, <1>4, CutInTwo
<1>7. next \in Seq(Cells) /\ a \o next = c
  BY <1>4, <1>5, <1>6 DEF PrefixOf
<1>8. Len(next) = RecordSize
  <2>1. Len(a \o next) = Len(a) + Len(next) /\ Len(next) \in Nat
    BY <1>4, <1>7, ConcatProperties, LenProperties
  <2> QED BY <1>1, <1>4, <1>7, <2>1
<1> QED BY <1>4, <1>7, <1>8 DEF a, c, m, k

LEMMA SelectBegins ==
    ASSUME NEW line, NEW mode, SelectClientStart(line, mode), ClientsInit
    PROVE  program = "tcp-client" => SelectInv
<1> SUFFICES ASSUME program = "tcp-client" PROVE SelectInv
  OBVIOUS
<1>1. /\ typed = 0 /\ inputEnded = FALSE /\ taken = 0 /\ up = <<>> /\ down = <<>>
      /\ out = <<>> /\ at = "select" /\ buffered = 0 /\ sent = 0 /\ noInput = FALSE
  BY DEF ClientsInit, SelectClientStart, Is
<1>2. <<>> \in Seq(Cells) /\ Len(<<>>) = 0
  BY EmptySeq
<1>3. SelectTypeOK /\ SelectEnds
  <2>1. inputEnded \in BOOLEAN
    BY <1>1
  <2>2. SelectTypeOK
    BY <1>1, <1>2, <2>1 DEF SelectTypeOK
  <2>3. SelectEnds
    BY <1>1 DEF SelectEnds
  <2> QED BY <2>2, <2>3
<1>4. Records(0) = <<>>
  <2>1. Records(0) \in Seq(Cells)
    BY RecordsGrow
  <2>2. DOMAIN Records(0) = {}
    BY DEF Records
  <2> QED BY <2>1, <2>2, EmptySeq, LenProperties
<1>5. Carries(<<>>, <<>>, peer, <<>>)
  BY <1>2, ConcatEmptySeq, CarriesFromWhole
<1>6. <<>> \o <<>> = <<>>
  BY <1>2, ConcatEmptySeq
<1>7. SelectLines
  BY <1>1, <1>4, <1>5, <1>6 DEF SelectLines, InHand
<1> QED BY <1>3, <1>7 DEF SelectInv

LEMMA SelectKeeps == ASSUME SelectInv, Select PROVE SelectInv'
<1>1. /\ at' \in {"fd", "stdin"} /\ at = "select"
      /\ at' = "fd" \/ "stdin" \in ready'
      /\ "stdin" \in ready' => ~noInput /\ InputReady
      /\ UNCHANGED <<typed, inputEnded, taken, up, down, peer, out, buffered, sent,
                     noInput>>
  BY DEF Select, Selectable
<1>2. SelectTypeOK' /\ SelectLines'
  BY <1>1 DEF SelectInv, SelectTypeOK, SelectLines, InHand
<1>3. SelectEnds'
  BY <1>1 DEF SelectInv, SelectEnds, InputReady
<1> QED BY <1>2, <1>3 DEF SelectInv

LEMMA CellsJoin == \A a, b, c \in Seq(Cells) : (a \o b) \o c = a \o (b \o c)
<1> TAKE a, b, c \in Seq(Cells)
<1> QED BY ConcatAssociative, SMTT(30)

LEMMA FdReceiveKeeps == ASSUME SelectInv, FdReceive PROVE SelectInv'
<1>1. /\ at = "fd" /\ at' \in {"end", "done", "exit", "stdin", "select"}
      /\ at' = "end" => noInput
      /\ at' = "stdin" => "stdin" \in ready
      /\ UNCHANGED <<typed, inputEnded, taken, up, peer, buffered, sent, noInput, ready>>
  BY DEF FdReceive, selectVars
<1>2. SelectTypeOK /\ SelectLines /\ SelectEnds
  BY DEF SelectInv
<1>3. /\ out' \in Seq(Cells) /\ down' \in Seq(Cells)
      /\ out' \o down' = out \o down
  <2>1. out \in Seq(Cells) /\ down \in Seq(Cells)
    BY <1>2 DEF SelectTypeOK
  <2>2. CASE UNCHANGED <<out, down>>
    BY <2>1, <2>2
  <2>3. CASE down # <<>>
    <3> DEFINE n == SmallerOf(Len(down), RecordSize - 1)
               bytes == SubSeq(down, 1, n)
               rest == SubSeq(down, n + 1, Len(down))
    <3>1. out' = out \o bytes /\ down' = rest
      BY <2>3 DEF FdReceive
    <3>2. n \in 0..Len(down)
      BY <2>1, LenProperties DEF SmallerOf
    <3>3. bytes \in Seq(Cells) /\ rest \in Seq(Cells) /\ bytes \o rest = down
      <4> HIDE DEF n
      <4> QED BY <2>1, <3>2, CutInTwo
    <3> HIDE DEF bytes, rest
    <3>4. out \o bytes \in Seq(Cells)
      BY <2>1, <3>3, ConcatProperties
    <3>5. (out \o bytes) \o rest = out \o (bytes \o rest)
      <4>1. out \in Seq(Cells) /\ bytes \in Seq(Cells) /\ rest \in Seq(Cells)
        BY <2>1, <3>3
      <4> QED BY <4>1, CellsJoin
    <3> QED BY <3>1, <3>3, <3>4, <3>5
  <2> QED BY <2>2, <2>3 DEF FdReceive
<1>4. SelectTypeOK'
  BY <1>1, <1>2, <1>3 DEF SelectTypeOK
<1>5. SelectLines'
  BY <1>1, <1>2, <1>3 DEF SelectLines, InHand
<1>6. SelectEnds'
  BY <1>1, <1>2 DEF SelectEnds, InputReady
<1> QED BY <1>4, <1>5, <1>6 DEF SelectInv

LEMMA FgetsKeeps == ASSUME SelectInv, Fgets PROVE SelectInv'
<1>1. /\ at = "stdin"
      /\ UNCHANGED <<typed, inputEnded, up, down, peer, out, sent, ready>>
  BY DEF Fgets
<1>2. SelectTypeOK /\ SelectLines /\ SelectEnds
  BY DEF SelectInv
<1> DEFINE lines == IF buffered = 0 THEN typed - taken ELSE buffered
<1>3. lines \in Nat
  BY <1>2 DEF SelectTypeOK
<1>4. CASE lines = 0
  <2>1. noInput' = TRUE /\ at' = "select" /\ UNCHANGED <<buffered, taken>>
    BY <1>4 DEF Fgets
  <2>2. buffered = 0 /\ typed = taken /\ inputEnded
    <3>1. taken \in Nat /\ typed \in Nat /\ taken <= typed /\ buffered \in Nat
      BY <1>2 DEF SelectTypeOK
    <3>2. buffered = 0 /\ typed = taken
      BY <1>4, <3>1
    <3>3. InputReady
      BY <1>1, <1>2 DEF SelectEnds
    <3>4. ~(taken < typed)
      BY <3>1, <3>2
    <3> QED BY <3>2, <3>3, <3>4, Zenon DEF InputReady
  <2>3. SelectTypeOK'
    BY <1>1, <1>2, <2>1 DEF SelectTypeOK
  <2>4. SelectLines'
    BY <1>1, <1>2, <2>1 DEF SelectLines, InHand
  <2>5. SelectEnds'
    BY <1>1, <1>2, <2>1, <2>2 DEF SelectEnds
  <2> QED BY <2>3, <2>4, <2>5 DEF SelectInv
<1>5. CASE lines # 0
  <2>1. /\ buffered' = lines - 1 /\ taken' = IF buffered = 0 THEN typed ELSE taken
        /\ at' = "write" /\ UNCHANGED noInput
    BY <1>5 DEF Fgets
  <2>2. taken' = sent + buffered' + 1 /\ taken' \in 0..typed /\ buffered' \in Nat
    BY <1>1, <1>2, <1>3, <1>5, <2>1 DEF SelectTypeOK, SelectLines, InHand
  <2>3. SelectTypeOK'
    BY <1>1, <1>2, <2>2 DEF SelectTypeOK
  <2>4. SelectLines'
    BY <1>1, <1>2, <2>1, <2>2 DEF SelectLines, InHand
  <2>5. SelectEnds'
    BY <1>1, <1>2, <2>1 DEF SelectEnds
  <2> QED BY <2>3, <2>4, <2>5 DEF SelectInv
<1> QED BY <1>4, <1>5

LEMMA WriteRecordKeeps == ASSUME SelectInv, WriteRecord PROVE SelectInv'
<1> DEFINE next == SubSeq(Records(sent + 1), sent * RecordSize + 1,
                          (sent + 1) * RecordSize)
           back == out \o down
<1>1. /\ at = "write"
      /\ UNCHANGED <<typed, inputEnded, taken, down, out, buffered, noInput, ready>>
  BY DEF WriteRecord
<1>2. SelectTypeOK /\ SelectLines /\ SelectEnds
  BY DEF SelectInv
<1>3. /\ next \in Seq(Cells) /\ Len(next) = RecordSize /\ Records(sent) \in Seq(Cells)
      /\ Records(sent + 1) = Records(sent) \o next
  BY <1>2, RecordsGrow DEF SelectTypeOK
<1>4. /\ back \in Seq(Cells) /\ up \in Seq(Cells)
      /\ Carries(back, up, peer, Records(sent))
  BY <1>2, ConcatProperties DEF SelectTypeOK, SelectLines
<1>5. ASSUME up' \in Seq(Cells), Len(up') <= UpSize, sent' = sent + 1, at' = "select",
             Carries(back, up', peer', Records(sent + 1))
      PROVE  SelectInv'
  <2>1. SelectTypeOK'
    BY <1>1, <1>2, <1>5 DEF SelectTypeOK
  <2>2. taken' = sent' + buffered' + 0
    BY <1>1, <1>2, <1>5 DEF SelectTypeOK, SelectLines, InHand
  <2>3. SelectLines'
    BY <1>1, <1>5, <2>2 DEF SelectLines, InHand
  <2>4. SelectEnds'
    BY <1>1, <1>2, <1>5 DEF SelectEnds
  <2> QED BY <2>1, <2>3, <2>4 DEF SelectInv
<1> HIDE DEF back, next
<1>6. CASE peer = "open" /\ Len(up) + RecordSize <= UpSize /\ up' = up \o next
           /\ sent' = sent + 1 /\ at' = "select" /\ UNCHANGED peer
  <2>1. /\ up \o next \in Seq(Cells)
        /\ Carries(back, up \o next, peer, Records(sent) \o next)
    BY <1>3, <1>4, CarriesMore
  <2>2. Len(up \o next) = Len(up) + RecordSize
    BY <1>3, <1>4, ConcatProperties
  <2> QED BY <1>3, <1>5, <1>6, <2>1, <2>2
<1>7. CASE Gone /\ peer' = "reset" /\ sent' = sent + 1 /\ at' = "select" /\ UNCHANGED up
  <2>1. Carries(back, up, "reset", Records(sent) \o next)
    <3>1. "reset" \notin Whole
      BY DEF Whole
    <3> QED BY <1>3, <1>4, <3>1, CarriesLess
  <2>2. Len(up) <= UpSize
    BY <1>2 DEF SelectTypeOK
  <2> QED BY <1>3, <1>4, <1>5, <1>7, <2>1, <2>2
<1>8. CASE at' = "sigpipe" /\ UNCHANGED <<up, peer, sent>>
  <2>1. SelectTypeOK' /\ SelectLines'
    BY <1>1, <1>2, <1>8 DEF SelectTypeOK, SelectLines, InHand
  <2>2. SelectEnds'
    BY <1>1, <1>2, <1>8 DEF SelectEnds
  <2> QED BY <2>1, <2>2 DEF SelectInv
<1> QED BY <1>6, <1>7, <1>8 DEF WriteRecord, next

LEMMA OthersKeepSelect ==
    ASSUME SelectInv, OthersStep, UNCHANGED selectVars PROVE SelectInv'
<1>1. SelectTypeOK /\ SelectLines /\ SelectEnds
  BY DEF SelectInv
<1>2. UNCHANGED <<buffered, sent, noInput, ready>>
  BY DEF selectVars
<1>3. /\ out \in Seq(Cells) /\ Records(sent) \in Seq(Cells)
      /\ up \in Seq(Cells) /\ down \in Seq(Cells) /\ Len(up) <= UpSize
      /\ Carries(out \o down, up, peer, Records(sent))
  BY <1>1, RecordsGrow DEF SelectTypeOK, SelectLines
<1>4. /\ up' \in Seq(Cells) /\ down' \in Seq(Cells) /\ Len(up') <= UpSize
      /\ Carries(out \o down', up', peer', Records(sent))
      /\ UNCHANGED <<program, taken, at, out>>
  BY <1>3, OthersCarry
<1>5. /\ typed' \in {typed, typed + 1} /\ inputEnded' \in BOOLEAN
      /\ inputEnded => inputEnded' /\ typed' = typed
  BY <1>1 DEF OthersStep, Type, EndInput, ServerDue, Answer, Echo, EchoEnd, Quit,
              SelectTypeOK
<1>6. SelectTypeOK'
  <2>1. typed' \in Nat /\ taken' \in 0..typed'
    BY <1>1, <1>4, <1>5 DEF SelectTypeOK
  <2> QED BY <1>1, <1>2, <1>4, <1>5, <2>1 DEF SelectTypeOK
<1>7. SelectLines'
  <2>1. Records(sent)' = Records(sent)
    BY <1>2 DEF Records
  <2> QED BY <1>1, <1>2, <1>4, <2>1 DEF SelectLines, InHand
<1>8. SelectEnds'
  BY <1>1, <1>2, <1>4, <1>5 DEF SelectEnds, InputReady, SelectTypeOK
<1> QED BY <1>6, <1>7, <1>8 DEF SelectInv

LEMMA SelectPreserved == (program = "tcp-client" => SelectInv) /\ [Next]_vars
                           => (program = "tcp-client" => SelectInv)'
<1> SUFFICES ASSUME program = "tcp-client" => SelectInv, [Next]_vars,
                    program' = "tcp-client"
             PROVE  SelectInv'
  OBVIOUS
<1>1. SelectInv /\ program = "tcp-client"
  BY ProgramStays
<1>2. \/ SelectClientStep
      \/ OthersStep /\ UNCHANGED selectVars
      \/ UNCHANGED <<netVars, selectVars>>
  BY <1>1, TcpClientSteps
<1>3. CASE SelectClientStep
  BY <1>1, <1>3, SelectKeeps, FdReceiveKeeps, FgetsKeeps, WriteRecordKeeps
     DEF SelectClientStep
<1>4. CASE OthersStep /\ UNCHANGED selectVars
  BY <1>1, <1>4, OthersKeepSelect
<1>5. CASE UNCHANGED <<netVars, selectVars>>
  BY <1>1, <1>5 DEF netVars, selectVars, SelectInv, SelectTypeOK, SelectLines,
                    SelectEnds, InHand, InputReady, Records
<1> QED BY <1>2, <1>3, <1>4, <1>5

-----------------------------------------------------------------------------
(* What the clients wait for                                               *)

(* Where PollClient is while the connection is not established, and that an
   empty buffer starts again: after the end of the input the connection is
   shut as soon as `to` is empty.                                          *)
PollPlace ==
    /\ cn \in BOOLEAN
    /\ peer \in Whole \cup {"refused", "quit", "reset"}
    /\ cn => peer \notin {"connecting", "refused"}
    /\ ~cn => at \in {"poll", "fd", "exit"} /\ ~stdineof
    /\ at = "fd" /\ ~cn => peer # "connecting"
    /\ frS = frE => frE = 0
    /\ toS = toE => toE = 0
    /\ stdineof /\ toS = toE => peer # "open"

LEMMA PollPlaceBegins ==
    ASSUME NEW p \in {"open", "connecting"}, PollClientStart(p), ClientsInit
    PROVE  program = "nbtc" => PollPlace
BY DEF PollClientStart, ClientsInit, PollPlace, Is, Whole

LEMMA PollPlaceKept ==
    ASSUME PollTypeOK, PollPlace, PollClientStep
    PROVE  PollPlace'
<1>1. /\ toS \in Nat /\ toE \in Nat /\ toS <= toE /\ frS \in Nat /\ frE \in Nat
      /\ frS <= frE /\ stdineof \in BOOLEAN
  BY DEF PollTypeOK
<1>2. CASE Poll
  <2>1. UNCHANGED <<cn, peer, frS, frE, toS, toE, stdineof>>
    BY <1>2 DEF Poll, frVars, toVars
  <2>2. ~cn => at' = "fd" /\ peer # "connecting"
    <3> SUFFICES ASSUME ~cn PROVE at' = "fd" /\ peer # "connecting"
      OBVIOUS
    <3>1. Reportable = {"in", "out"} /\ peer # "connecting"
      BY <1>2 DEF Poll, Reportable
    <3>2. revents' = {"in", "out"}
      BY <1>2, <3>1 DEF Poll
    <3>3. "stdin" \notin revents' /\ revents' \cap {"in", "out"} # {}
      BY <3>2
    <3> QED BY <1>2, <3>1, <3>3 DEF Poll, AfterStdin
  <2> QED BY <2>1, <2>2 DEF PollPlace
<1>3. CASE StdinRead
  <2>1. /\ at = "stdin" /\ UNCHANGED <<cn, peer, frS, frE, toS, stdineof>>
        /\ \E n \in 1..SmallerOf(typed - taken, ToSize - toE) : toE' = toE + n
    BY <1>3 DEF StdinRead, frVars
  <2>2. SmallerOf(typed - taken, ToSize - toE) \in Int
    BY DEF SmallerOf, PollTypeOK
  <2>3. toS' # toE'
    BY <1>1, <2>1, <2>2
  <2>4. cn
    BY <2>1 DEF PollPlace
  <2> QED BY <2>1, <2>3, <2>4 DEF PollPlace
<1>4. CASE StdinEof
  <2>1. /\ at = "stdin" /\ UNCHANGED <<cn, frS, frE, toS, toE>>
        /\ peer' = IF toS = toE THEN Shut(peer) ELSE peer
    BY <1>4 DEF StdinEof, frVars, toVars
  <2>2. cn
    BY <2>1 DEF PollPlace
  <2> QED BY <2>1, <2>2 DEF PollPlace, Shut, Whole
<1>5. CASE FdConnected
  BY <1>5 DEF FdConnected, PollPlace, frVars, toVars
<1>6. CASE FdRead
  <2>1. /\ cn /\ UNCHANGED <<cn, peer, frS, toS, toE, stdineof>>
    BY <1>6 DEF FdRead, toVars
  <2>2. frS' = frE' => frE' = 0
    <3>1. CASE UNCHANGED frE
      BY <2>1, <3>1 DEF PollPlace
    <3>2. CASE frE' = frE + SmallerOf(Len(down), FrSize - frE)
      <4>1. SmallerOf(Len(down), FrSize - frE) \in Nat
        BY LenProperties DEF SmallerOf, PollTypeOK
      <4> DEFINE n == SmallerOf(Len(down), FrSize - frE)
      <4> HIDE DEF n
      <4>2. n \in Nat /\ frE' = frE + n
        BY <3>2, <4>1 DEF n
      <4>3. frS' = frE' => frS = frE /\ frE' = frE
        BY <1>1, <2>1, <4>2
      <4> QED BY <4>3 DEF PollPlace
    <3> QED BY <1>6, <3>1, <3>2 DEF FdRead
  <2> QED BY <2>1, <2>2 DEF PollPlace
<1>7. CASE FdWrite
  <2>1. cn /\ UNCHANGED <<cn, frS, frE, stdineof>>
    BY <1>7 DEF FdWrite, frVars
  <2>2. ASSUME NEW n, NEW p \in (Whole \cup {"quit", "reset"}) \ {"connecting"},
               Advanced(n, p)
        PROVE  /\ peer' \in (Whole \cup {"quit", "reset"}) \ {"connecting"}
               /\ toS' = toE' => toE' = 0
               /\ stdineof /\ toS' = toE' => peer' # "open"
    BY <2>2 DEF Advanced, Shut, Whole
  <2>3. peer \in (Whole \cup {"quit", "reset"}) \ {"connecting"}
    BY <2>1 DEF PollPlace, Whole
  <2>4. /\ peer' \in (Whole \cup {"quit", "reset"}) \ {"connecting"}
        /\ toS' = toE' => toE' = 0
        /\ stdineof /\ toS' = toE' => peer' # "open"
    <3>1. CASE peer = "reset"
      <4>1. UNCHANGED <<toS, toE, peer>>
        BY <1>7, <3>1 DEF FdWrite
      <4> QED BY <2>3, <3>1, <4>1 DEF PollPlace
    <3>2. CASE peer # "reset" /\ Gone
      <4>1. Advanced(toE - toS, "reset")
        BY <1>7, <3>2 DEF FdWrite
      <4> QED BY <2>2, <4>1
    <3>3. CASE peer # "reset" /\ ~Gone
      <4>1. Advanced(SmallerOf(toE - toS, UpSize - Len(up)), peer)
        BY <1>7, <3>3 DEF FdWrite
      <4> QED BY <2>2, <2>3, <4>1
    <3> QED BY <3>1, <3>2, <3>3
  <2> QED BY <2>1, <2>4 DEF PollPlace, Whole
<1>8. CASE StdoutWrite
  <2>1. /\ UNCHANGED <<cn, peer, toS, toE, stdineof>> /\ at = "stdout"
        /\ \/ frS' = 0 /\ frE' = 0
           \/ frS' # frE /\ frE' = frE
    BY <1>8 DEF StdoutWrite, toVars
  <2>2. cn
    BY <2>1 DEF PollPlace
  <2> QED BY <2>1, <2>2 DEF PollPlace
<1> QED BY <1>2, <1>3, <1>4, <1>5, <1>6, <1>7, <1>8 DEF PollClientStep

LEMMA OthersKeepPollPlace ==
    ASSUME PollPlace, OthersStep, UNCHANGED pollVars PROVE PollPlace'
<1>1. UNCHANGED <<at, cn, toS, toE, frS, frE, stdineof>>
  BY DEF OthersStep, pollVars, toVars, frVars
<1>2. \/ peer' = peer
      \/ peer = "connecting"
      \/ peer' \notin {"connecting", "refused", "open"}
  BY DEF OthersStep, Type, EndInput, ServerDue, Answer, Echo, EchoEnd, Quit
<1>3. peer' \in {"open", "refused", "closed", "quit", "reset"} \/ peer' = peer
  BY DEF OthersStep, Type, EndInput, ServerDue, Answer, Echo, EchoEnd, Quit
<1> QED BY <1>1, <1>2, <1>3 DEF PollPlace, Whole

LEMMA PollWaits == PollInv /\ PollPlace => PollNeverStuck
<1> SUFFICES ASSUME PollInv, PollPlace, at = "poll", Reportable = {}, ~(outq > 0),
                    ~ServerCanGoOn
             PROVE  ~inputEnded /\ out = [i \in 1..typed |-> i]
  BY DEF PollNeverStuck
<1>1. /\ typed \in Nat /\ taken \in 0..typed /\ stdineof \in BOOLEAN
      /\ up \in Seq(Nat) /\ down \in Seq(Nat) /\ out \in Seq(Nat)
      /\ toS \in 0..ToSize /\ toE \in toS..ToSize /\ frS \in 0..FrSize
      /\ frE \in frS..FrSize /\ outq = 0
  BY DEF PollInv, PollTypeOK
<1>2. peer # "connecting"
  BY DEF ServerCanGoOn
<1>3. cn
  BY <1>2 DEF Reportable
<1>4. /\ stdineof \/ ~(toE < ToSize) \/ ~InputReady
      /\ frE < FrSize => down = <<>> /\ ~Gone /\ peer # "reset"
      /\ toS = toE \/ ~(Len(up) < UpSize)
      /\ frS = frE
  <2>1. \A e \in {"stdin", "in", "out", "stdout"} :
          ~(\/ e = "stdin" /\ ~stdineof /\ toE < ToSize /\ InputReady
            \/ e = "in" /\ frE < FrSize /\ (down # <<>> \/ Gone \/ peer = "reset")
            \/ e = "out" /\ toS # toE /\ (Len(up) < UpSize \/ peer = "reset")
            \/ e = "stdout" /\ frS # frE /\ outq < OutSize)
    <3>1. Reportable = {e \in {"stdin", "in", "out", "stdout"} :
            \/ e = "stdin" /\ ~stdineof /\ toE < ToSize /\ InputReady
            \/ e = "in" /\ frE < FrSize /\ (down # <<>> \/ Gone \/ peer = "reset")
            \/ e = "out" /\ toS # toE /\ (Len(up) < UpSize \/ peer = "reset")
            \/ e = "stdout" /\ frS # frE /\ outq < OutSize}
      BY <1>3 DEF Reportable
    <3> QED BY <3>1, Zenon
  <2>2. outq < OutSize
    BY <1>1
  <2> QED BY <2>1, <2>2
<1>5. frE = 0 /\ down = <<>> /\ ~Gone /\ peer # "reset"
  <2>1. frE = 0
    BY <1>4 DEF PollPlace
  <2> QED BY <1>4, <2>1
<1>6. Len(down) < DownSize /\ Len(up) \in Nat
  BY <1>1, <1>5, EmptySeq, LenProperties
<1>7. up = <<>> /\ peer = "open"
  <2>1. peer \in {"open", "half"}
    BY <1>3, <1>5 DEF PollPlace, Whole, Gone
  <2> QED BY <1>6, <2>1 DEF ServerCanGoOn
<1>8. toS = toE /\ toE = 0
  <2>1. Len(up) < UpSize
    BY <1>7, EmptySeq
  <2> QED BY <1>4, <2>1 DEF PollPlace
<1>9. ~inputEnded /\ taken = typed
  <2>1. ~stdineof
    BY <1>7, <1>8 DEF PollPlace
  <2>2. ~InputReady
    BY <1>4, <1>8, <2>1
  <2> QED BY <1>1, <2>2 DEF InputReady
<1>10. out = Counted(0, typed)
  <2>1. Written = typed
    BY <1>1, <1>8, <1>9 DEF Written
  <2>2. Carries((out \o InFr) \o down, up, peer, Counted(0, Written))
    BY DEF PollInv, PollBytes
  <2>3. InFr = <<>>
    <3>1. InFr \in Seq(Nat) /\ Len(InFr) = frE - frS
      BY PollSlices DEF PollInv, SlicesOK
    <3>2. Len(InFr) = 0
      <4>1. frE = 0 /\ frS = 0 /\ frE - frS = 0
        BY <1>4, <1>5
      <4> QED BY <3>1, <4>1
    <3> QED BY <3>1, <3>2, EmptySeq
  <2>4. ((out \o <<>>) \o <<>>) \o <<>> = out
    BY <1>1, ConcatEmptySeq
  <2>5. "open" \in Whole
    BY DEF Whole
  <2>6. ((out \o InFr) \o down) \o up = Counted(0, Written)
    BY <1>7, <2>2, <2>5 DEF Carries
  <2> QED BY <1>5, <1>7, <2>1, <2>3, <2>4, <2>6
<1>11. Counted(0, typed) = [i \in 1..typed |-> i]
  BY <1>1 DEF Counted
<1> QED BY <1>9, <1>10, <1>11

(* tcp-client never shuts the connection.                                  *)
SelectPlace == peer \in {"open", "quit", "reset"} /\ Len(down) <= DownSize

LEMMA SelectPlaceBegins ==
    ASSUME NEW p, PollClientStart(p), ClientsInit, p = "open"
    PROVE  SelectPlace
BY EmptySeq DEF PollClientStart, ClientsInit, SelectPlace

LEMMA SelectPlaceKept ==
    ASSUME SelectTypeOK, SelectPlace, SelectClientStep
    PROVE  SelectPlace'
<1>1. CASE Select \/ Fgets
  BY <1>1 DEF Select, Fgets, SelectPlace
<1>2. CASE WriteRecord
  BY <1>2 DEF WriteRecord, SelectPlace
<1>3. CASE FdReceive
  <2>1. down \in Seq(Cells) /\ Len(down) \in Nat
    BY LenProperties DEF SelectTypeOK
  <2>2. CASE down # <<>>
    <3> DEFINE n == SmallerOf(Len(down), RecordSize - 1)
               rest == SubSeq(down, n + 1, Len(down))
    <3>1. down' = rest /\ peer' = peer
      BY <1>3, <2>2 DEF FdReceive
    <3>2. n \in 0..Len(down)
      BY <2>1 DEF SmallerOf
    <3>3. Len(rest) <= Len(down)
      <4> HIDE DEF n
      <4>1. /\ SubSeq(down, 1, n) \in Seq(Cells) /\ rest \in Seq(Cells)
            /\ Len(SubSeq(down, 1, n)) = n /\ SubSeq(down, 1, n) \o rest = down
        BY <2>1, <3>2, CutInTwo
      <4>2. Len(down) = n + Len(rest) /\ Len(rest) \in Nat
        BY <4>1, ConcatProperties, LenProperties
      <4> QED BY <2>1, <3>2, <4>2
    <3>4. Len(rest) \in Nat
      <4>1. rest \in Seq(Cells)
        <5> HIDE DEF n
        <5> QED BY <2>1, <3>2, CutInTwo
      <4> QED BY <4>1, LenProperties
    <3> HIDE DEF rest
    <3> QED BY <2>1, <3>1, <3>3, <3>4 DEF SelectPlace
  <2>3. CASE UNCHANGED down
    BY <1>3, <2>3 DEF FdReceive, SelectPlace
  <2> QED BY <1>3, <2>2, <2>3 DEF FdReceive
<1> QED BY <1>1, <1>2, <1>3 DEF SelectClientStep

LEMMA OthersKeepSelectPlace ==
    ASSUME SelectTypeOK, SelectPlace, OthersStep PROVE SelectPlace'
<1>1. CASE Type \/ EndInput \/ Answer \/ EchoEnd
  BY <1>1 DEF Type, EndInput, Answer, EchoEnd, SelectPlace
<1>2. CASE Echo
  <2>1. down \in Seq(Cells) /\ up \in Seq(Cells) /\ Len(down) \in Nat
    BY LenProperties DEF SelectTypeOK
  <2>2. up # <<>> /\ Len(down) < DownSize /\ down' = Append(down, Head(up)) /\ peer' = peer
    BY <1>2 DEF Echo
  <2>3. Head(up) \in Cells
    BY <2>1, <2>2, HeadTailProperties
  <2>4. Len(down') = Len(down) + 1
    BY <2>1, <2>2, <2>3, AppendProperties
  <2> QED BY <2>1, <2>2, <2>4 DEF SelectPlace
<1>3. CASE Quit
  BY <1>3, EmptySeq DEF Quit, SelectPlace
<1> QED BY <1>1, <1>2, <1>3 DEF OthersStep, ServerDue

LEMMA SelectWaits == SelectInv /\ SelectPlace => SelectNeverStuck
<1> SUFFICES ASSUME SelectInv, SelectPlace PROVE SelectNeverStuck
  OBVIOUS
<1>1. /\ up \in Seq(Cells) /\ down \in Seq(Cells) /\ out \in Seq(Cells)
      /\ Len(up) \in Nat /\ Len(down) \in Nat /\ sent \in Nat
      /\ typed \in Nat /\ taken \in 0..typed /\ inputEnded \in BOOLEAN
  BY LenProperties DEF SelectInv, SelectTypeOK
<1>2. ASSUME At("tcp-client", "write"), peer = "open", Len(up) + RecordSize > UpSize
      PROVE  ServerCanGoOn \/ BothWait
  <2>1. up # <<>>
    <3>1. Len(up) # 0
      BY <1>1, <1>2
    <3> QED BY <3>1, EmptySeq
  <2>2. Len(down) < DownSize \/ Len(down) = DownSize
    BY <1>1 DEF SelectPlace
  <2> QED BY <1>2, <2>1, <2>2 DEF ServerCanGoOn, BothWait
<1>3. ASSUME at = "select", Selectable = {}, ~ServerCanGoOn
      PROVE  out = Records(sent) /\ (sent = typed \/ ~inputEnded)
  <2>1. /\ down = <<>> /\ ~Gone /\ peer # "reset"
        /\ noInput \/ ~InputReady
    <3>1. \A e \in {"fd", "stdin"} :
            ~(\/ e = "fd" /\ (down # <<>> \/ Gone \/ peer = "reset")
              \/ e = "stdin" /\ ~noInput /\ InputReady)
      BY <1>3, Zenon DEF Selectable
    <3> QED BY <3>1
  <2>2. peer = "open"
    BY <2>1 DEF SelectPlace, Gone
  <2>3. Len(down) < DownSize
    BY <2>1, EmptySeq
  <2>4. up = <<>>
    BY <1>3, <2>2, <2>3 DEF ServerCanGoOn
  <2>5. out = Records(sent)
    <3>1. (out \o down) \o up = Records(sent)
      BY <2>2 DEF SelectInv, SelectLines, Carries, Whole
    <3>2. (out \o <<>>) \o <<>> = out
      BY <1>1, ConcatEmptySeq
    <3> QED BY <2>1, <2>4, <3>1, <3>2
  <2>6. noInput => sent = typed
    BY <1>1, <1>3 DEF SelectInv, SelectTypeOK, SelectLines, SelectEnds, InHand
  <2>7. ~noInput => ~inputEnded
    BY <2>1 DEF InputReady
  <2> QED BY <2>5, <2>6, <2>7
<1> QED BY <1>2, <1>3 DEF SelectNeverStuck

ClientInv == /\ program = "nbtc" => PollInv /\ PollPlace
             /\ program = "tcp-client" => SelectInv /\ SelectPlace

LEMMA ClientInvPreserved == ClientInv /\ [Next]_vars => ClientInv'
<1> SUFFICES ASSUME ClientInv, [Next]_vars PROVE ClientInv'
  OBVIOUS
<1>1. program' = program
  BY ProgramStays
<1>2. /\ program = "nbtc" => PollInv'
      /\ program = "tcp-client" => SelectInv'
  BY <1>1, PollPreserved, SelectPreserved DEF ClientInv
<1>3. ASSUME program = "nbtc" PROVE PollPlace'
  <2>1. PollTypeOK /\ PollPlace
    BY <1>3 DEF ClientInv, PollInv
  <2>2. \/ PollClientStep
        \/ OthersStep /\ UNCHANGED pollVars
        \/ UNCHANGED <<at, cn, peer, toS, toE, frS, frE, stdineof>>
    BY <1>3, NbtcSteps DEF ReadOut, netVars, pollVars, toVars, frVars
  <2>3. CASE UNCHANGED <<at, cn, peer, toS, toE, frS, frE, stdineof>>
    BY <2>1, <2>3 DEF PollPlace
  <2> QED BY <2>1, <2>2, <2>3, PollPlaceKept, OthersKeepPollPlace
<1>4. ASSUME program = "tcp-client" PROVE SelectPlace'
  <2>1. SelectTypeOK /\ SelectPlace
    BY <1>4 DEF ClientInv, SelectInv
  <2>2. SelectClientStep \/ OthersStep \/ UNCHANGED netVars
    BY <1>4, TcpClientSteps DEF netVars
  <2>3. CASE UNCHANGED netVars
    BY <2>1, <2>3 DEF SelectPlace, netVars
  <2> QED BY <2>1, <2>2, <2>3, SelectPlaceKept, OthersKeepSelectPlace
<1> QED BY <1>1, <1>2, <1>3, <1>4 DEF ClientInv

(* For every size of the buffers, the socket buffers, the records and the
   input: neither client loses, repeats or reorders what was typed, wherever
   it ends and whatever the server does, and whenever one waits there is
   somebody who can go on, or the user has seen all there is, or - for the
   client that writes whole records - client and server wait for each other
   to read.                                                                *)
THEOREM ClientsAlwaysSound == Spec => []ClientsSound
<1>1. Init => ClientInv
  <2> SUFFICES ASSUME Init PROVE ClientInv
    OBVIOUS
  <2>1. ClientsInit
    BY DEF Init
  <2>2. PICK p \in {"open", "connecting"} :
          PollClientStart(p) /\ (program # "nbtc" => p = "open")
    BY <2>1 DEF ClientsInit, Is
  <2>3. \E line, mode : SelectClientStart(line, mode)
    BY <2>1 DEF ClientsInit
  <2>4. program = "nbtc" => PollInv /\ PollPlace
    BY <2>1, <2>2, PollBegins, PollPlaceBegins
  <2>5. program = "tcp-client" => SelectInv
    BY <2>1, <2>3, SelectBegins
  <2>6. program # "nbtc" => SelectPlace
    BY <2>1, <2>2, SelectPlaceBegins
  <2> QED BY <2>4, <2>5, <2>6 DEF ClientInv
<1>2. ClientInv => ClientsSound
  <2> SUFFICES ASSUME ClientInv PROVE ClientsSound
    OBVIOUS
  <2>1. BytesKept /\ PollNeverStuck
    <3>1. CASE program = "nbtc"
      BY <3>1, PollMeans, PollWaits DEF ClientInv
    <3>2. CASE program # "nbtc"
      BY <3>2 DEF BytesKept, PollNeverStuck
    <3> QED BY <3>1, <3>2
  <2>2. LinesKept /\ SelectNeverStuck
    <3>1. CASE program = "tcp-client"
      BY <3>1, SelectMeans, SelectWaits DEF ClientInv
    <3>2. CASE program # "tcp-client"
      BY <3>2 DEF LinesKept, SelectNeverStuck
    <3> QED BY <3>1, <3>2
  <2> QED BY <2>1, <2>2 DEF ClientsSound, InputKept, ClientsNeverStuck
<1> QED BY <1>1, <1>2, ClientInvPreserved, PTL DEF Spec
=============================================================================
