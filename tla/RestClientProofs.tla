-------------------------- MODULE RestClientProofs --------------------------
(***************************************************************************)
(* The snapshot requests stay within the weight limit and wait for what    *)
(* the exchange has asked for, for every set of callers, every limit,      *)
(* interval, weight and window, whoever is cancelled or refused meanwhile. *)
(***************************************************************************)
EXTENDS RestClient, SequenceTheorems, WellFoundedInduction, TLAPS

-----------------------------------------------------------------------------
(* Logs: the oldest event comes first, so that what has expired is at the  *)
(* head.                                                                   *)

OldestFirst(log) == \A i, j \in 1..Len(log) : i <= j => log[i] >= log[j]

AllExpired(log, n) ==
  /\ \A i \in 1..n : log[i] >= Window
  /\ n < Len(log) => log[n + 1] < Window

LEMMA FunctionIsSeq ==
  ASSUME NEW T, NEW n \in Nat, NEW f \in [1..n -> T]
  PROVE  f \in Seq(T)
<1>1. Seq(T) = UNION {[1..m -> T] : m \in Nat}
  BY SeqDef
<1>2. [1..n -> T] \in {[1..m -> T] : m \in Nat}
  BY Zenon
<1> QED BY <1>1, <1>2, Zenon

LEMMA LeastIndex ==
  ASSUME NEW S, S \subseteq Nat, S # {}
  PROVE  \E n \in S : \A m \in S : n <= m
<1>1. PICK n \in S : \A m \in S : ~(<<m, n>> \in OpToRel(<, Nat))
  BY WFMin, NatLessThanWellFounded
<1>2. \A m \in S : m < n => <<m, n>> \in OpToRel(<, Nat)
  BY DEF OpToRel
<1>3. \A m \in S : n \in Nat /\ m \in Nat /\ ~(m < n)
  BY <1>1, <1>2
<1> QED BY <1>3

\* The loop that drops expired events stops somewhere.
LEMMA ExpiredExists ==
  ASSUME NEW log \in Seq(Nat)
  PROVE  Expired(log) \in 0..Len(log) /\ AllExpired(log, Expired(log))
<1>0. Len(log) \in Nat /\ Window \in Nat /\ \A i \in 1..Len(log) : log[i] \in Nat
  BY RestAssumption, ElementOfSeq
<1>1. \E n \in 0..Len(log) : AllExpired(log, n)
  <2> DEFINE S == {n \in 0..Len(log) : n < Len(log) => log[n + 1] < Window}
  <2>1. S \subseteq Nat /\ Len(log) \in S
    BY <1>0
  <2>2. PICK n \in S : \A m \in S : n <= m
    BY <2>1, LeastIndex
  <2>3. ASSUME NEW i \in 1..n PROVE log[i] >= Window
    <3>1. n \in 0..Len(log)
      BY <2>2
    <3>2. i - 1 \in 0..Len(log) /\ i \in 1..Len(log) /\ ~(n <= i - 1) /\ (i - 1) + 1 = i
      BY <1>0, <3>1
    <3>3. i - 1 \notin S
      BY <2>2, <3>2
    <3>4. ~(log[i] < Window)
      BY <3>2, <3>3
    <3> QED BY <1>0, <3>2, <3>4
  <2> QED BY <2>2, <2>3 DEF AllExpired
<1> QED BY <1>1 DEF Expired, AllExpired

LEMMA ExpiredUnique ==
  ASSUME NEW log \in Seq(Nat), NEW n \in 0..Len(log), AllExpired(log, n)
  PROVE  Expired(log) = n
<1> DEFINE k == Expired(log)
<1>0. Len(log) \in Nat /\ Window \in Nat /\ \A i \in 1..Len(log) : log[i] \in Nat
  BY RestAssumption, ElementOfSeq
<1>1. k \in 0..Len(log) /\ AllExpired(log, k)
  BY ExpiredExists
<1> HIDE DEF k
<1>2. ~(k < n)
  <2> SUFFICES ASSUME k < n PROVE FALSE
    OBVIOUS
  <2>1. k + 1 \in 1..n /\ k + 1 \in 1..Len(log) /\ k < Len(log)
    BY <1>0, <1>1
  <2>2. log[k + 1] >= Window /\ log[k + 1] < Window /\ log[k + 1] \in Nat
    BY <1>0, <1>1, <2>1 DEF AllExpired
  <2> QED BY <1>0, <2>2
<1>3. ~(n < k)
  <2> SUFFICES ASSUME n < k PROVE FALSE
    OBVIOUS
  <2>1. n + 1 \in 1..k /\ n + 1 \in 1..Len(log) /\ n < Len(log)
    BY <1>0, <1>1
  <2>2. log[n + 1] >= Window /\ log[n + 1] < Window /\ log[n + 1] \in Nat
    BY <1>0, <1>1, <2>1 DEF AllExpired
  <2> QED BY <1>0, <2>2
<1> QED BY <1>0, <1>1, <1>2, <1>3 DEF k

\* What is left of a log are its last events, in their order.
LEMMA UnexpiredProperties ==
  ASSUME NEW log \in Seq(0..Window)
  PROVE  /\ Unexpired(log) \in Seq(0..Window)
         /\ Len(Unexpired(log)) = Len(log) - Expired(log)
         /\ \A i \in 1..Len(Unexpired(log)) :
              Expired(log) + i \in 1..Len(log) /\ Unexpired(log)[i] = log[Expired(log) + i]
<1> DEFINE k == Expired(log)
<1>0. log \in Seq(Nat)
  BY SeqMonotonic, RestAssumption
<1>1. k \in 0..Len(log) /\ Len(log) \in Nat
  BY <1>0, ExpiredExists
<1> HIDE DEF k
<1>2. k + 1 \in Int /\ Len(log) \in Int /\ \A i \in (k + 1)..Len(log) : log[i] \in 0..Window
  <2>1. \A i \in (k + 1)..Len(log) : i \in 1..Len(log)
    BY <1>1
  <2>2. \A i \in 1..Len(log) : log[i] \in 0..Window
    BY ElementOfSeq
  <2> QED BY <1>1, <2>1, <2>2
<1>3. /\ SubSeq(log, k + 1, Len(log)) \in Seq(0..Window)
      /\ Len(SubSeq(log, k + 1, Len(log))) = IF k + 1 <= Len(log) THEN Len(log) - (k + 1) + 1 ELSE 0
      /\ \A i \in 1..(Len(log) - (k + 1) + 1) : SubSeq(log, k + 1, Len(log))[i] = log[k + 1 + i - 1]
  BY <1>2, SubSeqProperties
<1>4. Len(SubSeq(log, k + 1, Len(log))) = Len(log) - k
  BY <1>1, <1>3
<1>5. \A i \in 1..(Len(log) - k) :
        k + i \in 1..Len(log) /\ i \in 1..(Len(log) - (k + 1) + 1) /\ k + 1 + i - 1 = k + i
  BY <1>1
<1> QED BY <1>3, <1>4, <1>5 DEF Unexpired, k

LEMMA UnexpiredFresh ==
  ASSUME NEW log \in Seq(0..Window), OldestFirst(log)
  PROVE  /\ Unexpired(log) \in Seq(0..(Window - 1))
         /\ OldestFirst(Unexpired(log))
<1> DEFINE k == Expired(log)
           u == Unexpired(log)
<1>0. log \in Seq(Nat) /\ Window \in Nat \ {0}
  BY SeqMonotonic, RestAssumption
<1>1. k \in 0..Len(log) /\ Len(log) \in Nat /\ AllExpired(log, k)
  BY <1>0, ExpiredExists
<1>2. /\ u \in Seq(0..Window) /\ Len(u) = Len(log) - k
      /\ \A i \in 1..Len(u) : k + i \in 1..Len(log) /\ u[i] = log[k + i]
  BY UnexpiredProperties
<1>3. \A i \in 1..Len(log) : log[i] \in 0..Window
  BY ElementOfSeq
<1> HIDE DEF k, u
<1>4. ASSUME NEW i \in 1..Len(u) PROVE u[i] \in 0..(Window - 1)
  <2>1. k + 1 \in 1..Len(log) /\ k + i \in 1..Len(log) /\ k + 1 <= k + i /\ k < Len(log)
    BY <1>1, <1>2
  <2>2. log[k + 1] < Window /\ log[k + 1] >= log[k + i]
    BY <1>1, <2>1 DEF AllExpired, OldestFirst
  <2>3. log[k + 1] \in 0..Window /\ log[k + i] \in 0..Window
    BY <1>3, <2>1
  <2> QED BY <1>0, <1>2, <2>2, <2>3
<1>5. u \in Seq(0..(Window - 1))
  <2>1. u \in [1..Len(u) -> 0..Window] /\ Len(u) \in Nat
    BY <1>2, LenProperties
  <2>2. u \in [1..Len(u) -> 0..(Window - 1)]
    BY <1>4, <2>1
  <2> QED BY <2>1, <2>2, FunctionIsSeq
<1>6. OldestFirst(u)
  <2> SUFFICES ASSUME NEW i \in 1..Len(u), NEW j \in 1..Len(u), i <= j PROVE u[i] >= u[j]
    BY DEF OldestFirst
  <2>1. k + i \in 1..Len(log) /\ k + j \in 1..Len(log) /\ k + i <= k + j
    BY <1>1, <1>2
  <2> QED BY <1>2, <2>1 DEF OldestFirst
<1> QED BY <1>5, <1>6 DEF u

\* Where nothing has expired, nothing is dropped.
LEMMA UnexpiredAll ==
  ASSUME NEW log \in Seq(0..(Window - 1))
  PROVE  Unexpired(log) = log
<1>0. log \in Seq(Nat) /\ Len(log) \in Nat /\ Window \in Nat /\ \A i \in 1..Len(log) : log[i] \in 0..(Window - 1)
  <2>1. 0..(Window - 1) \subseteq Nat
    BY RestAssumption
  <2> QED BY <2>1, SeqMonotonic, ElementOfSeq, RestAssumption
<1>1. AllExpired(log, 0)
  <2>1. 0 < Len(log) => 1 \in 1..Len(log)
    BY <1>0
  <2> QED BY <1>0, <2>1 DEF AllExpired
<1>2. 0 \in 0..Len(log)
  BY <1>0
<1>3. Expired(log) = 0
  BY <1>0, <1>1, <1>2, ExpiredUnique
<1>4. SubSeq(log, 1, Len(log)) = log
  BY SubSeqFull
<1> QED BY <1>3, <1>4 DEF Unexpired

\* Time makes every event older, and keeps their order.
LEMMA AgedProperties ==
  ASSUME NEW log \in Seq(0..Window)
  PROVE  /\ Aged(log) \in Seq(0..Window) /\ Len(Aged(log)) = Len(log)
         /\ \A i \in 1..Len(log) : Aged(log)[i] = Least(log[i] + 1, Window)
         /\ OldestFirst(log) => OldestFirst(Aged(log))
<1> DEFINE a == Aged(log)
<1>1. Len(log) \in Nat /\ DOMAIN log = 1..Len(log) /\ Window \in Nat
      /\ \A i \in 1..Len(log) : log[i] \in 0..Window
  BY LenProperties, ElementOfSeq, RestAssumption
<1>2. \A i \in 1..Len(log) : Least(log[i] + 1, Window) \in 0..Window
  BY <1>1 DEF Least
<1>3. a = [i \in 1..Len(log) |-> Least(log[i] + 1, Window)]
  BY <1>1 DEF Aged
<1>4. a \in [1..Len(log) -> 0..Window] /\ DOMAIN a = 1..Len(log)
      /\ \A i \in 1..Len(log) : a[i] = Least(log[i] + 1, Window)
  <2> HIDE DEF a
  <2> QED BY <1>2, <1>3
<1> HIDE DEF a
<1>5. a \in Seq(0..Window)
  BY <1>1, <1>4, FunctionIsSeq
<1>6. Len(a) = Len(log)
  <2>1. Len(a) \in Nat /\ DOMAIN a = 1..Len(a)
    BY <1>5, LenProperties
  <2>2. 1..Len(a) = 1..Len(log)
    BY <1>4, <2>1
  <2>3. ~(Len(a) < Len(log))
    <3>1. Len(a) < Len(log) => Len(log) \in 1..Len(log) /\ Len(log) \notin 1..Len(a)
      BY <1>1, <2>1
    <3> QED BY <2>2, <3>1
  <2>4. ~(Len(log) < Len(a))
    <3>1. Len(log) < Len(a) => Len(a) \in 1..Len(a) /\ Len(a) \notin 1..Len(log)
      BY <1>1, <2>1
    <3> QED BY <2>2, <3>1
  <2>5. Len(a) \in Nat /\ Len(log) \in Nat
    BY <1>1, <2>1
  <2> QED BY <2>3, <2>4, <2>5
<1>7. ASSUME OldestFirst(log) PROVE OldestFirst(a)
  <2> SUFFICES ASSUME NEW i \in 1..Len(a), NEW j \in 1..Len(a), i <= j PROVE a[i] >= a[j]
    BY DEF OldestFirst
  <2>1. log[i] >= log[j] /\ log[i] \in 0..Window /\ log[j] \in 0..Window
    BY <1>1, <1>6, <1>7 DEF OldestFirst
  <2>2. Least(log[i] + 1, Window) >= Least(log[j] + 1, Window)
    BY <1>1, <2>1 DEF Least
  <2> QED BY <1>4, <1>6, <2>2
<1> QED BY <1>4, <1>5, <1>6, <1>7 DEF a

\* What time does to a log, and to what is left of it, comes to the same.
LEMMA AgedUnexpired ==
  ASSUME NEW log \in Seq(0..Window)
  PROVE  Unexpired(Aged(log)) = Unexpired(Aged(Unexpired(log)))
<1> DEFINE k == Expired(log)
           u == Unexpired(log)
           a == Aged(log)
           b == Aged(u)
           m == Expired(b)
<1>0. Window \in Nat /\ Seq(0..Window) \subseteq Seq(Nat)
  <2>1. Window \in Nat /\ 0..Window \subseteq Nat
    BY RestAssumption
  <2> QED BY <2>1, SeqMonotonic
<1>1. k \in 0..Len(log) /\ Len(log) \in Nat /\ AllExpired(log, k)
  BY <1>0, ExpiredExists
<1>2. /\ u \in Seq(0..Window) /\ Len(u) = Len(log) - k
      /\ \A i \in 1..Len(u) : k + i \in 1..Len(log) /\ u[i] = log[k + i]
  BY UnexpiredProperties
<1>3. /\ a \in Seq(0..Window) /\ Len(a) = Len(log)
      /\ \A i \in 1..Len(log) : a[i] = Least(log[i] + 1, Window)
  BY AgedProperties
<1> HIDE DEF k, u, a
<1>4. /\ b \in Seq(0..Window) /\ Len(b) = Len(u)
      /\ \A i \in 1..Len(u) : b[i] = Least(u[i] + 1, Window)
  BY <1>2, AgedProperties
<1> HIDE DEF b
<1>5. \A i \in 1..Len(b) : k + i \in 1..Len(a) /\ b[i] = a[k + i]
  BY <1>2, <1>3, <1>4
<1>6. m \in 0..Len(b) /\ AllExpired(b, m)
  BY <1>0, <1>4, ExpiredExists
<1> HIDE DEF m
<1>7. k + m \in 0..Len(a) /\ Len(b) = Len(a) - k
  BY <1>1, <1>2, <1>3, <1>4, <1>6
<1>8. ASSUME NEW i \in 1..(k + m) PROVE a[i] >= Window
  <2>1. CASE i <= k
    <3>1. i \in 1..k /\ i \in 1..Len(log)
      BY <1>1, <1>7, <2>1
    <3>2. log[i] >= Window /\ log[i] \in 0..Window
      BY <1>1, <3>1, ElementOfSeq DEF AllExpired
    <3> QED BY <1>0, <1>3, <3>1, <3>2 DEF Least
  <2>2. CASE ~(i <= k)
    <3>1. i - k \in 1..m /\ i - k \in 1..Len(b) /\ k + (i - k) = i
      BY <1>1, <1>6, <1>7, <2>2
    <3>2. b[i - k] >= Window
      BY <1>6, <3>1 DEF AllExpired
    <3> QED BY <1>5, <3>1, <3>2
  <2> QED BY <2>1, <2>2
<1>9. k + m < Len(a) => a[k + m + 1] < Window
  <2> SUFFICES ASSUME k + m < Len(a) PROVE a[k + m + 1] < Window
    OBVIOUS
  <2>1. m < Len(b) /\ m + 1 \in 1..Len(b) /\ k + (m + 1) = k + m + 1
    BY <1>1, <1>6, <1>7
  <2> QED BY <1>5, <1>6, <2>1 DEF AllExpired
<1>10. Expired(a) = k + m
  BY <1>0, <1>3, <1>7, <1>8, <1>9, ExpiredUnique DEF AllExpired
<1>11. /\ Unexpired(a) \in Seq(0..Window) /\ Len(Unexpired(a)) = Len(a) - (k + m)
       /\ \A i \in 1..Len(Unexpired(a)) : Unexpired(a)[i] = a[(k + m) + i]
  BY <1>3, <1>10, UnexpiredProperties
<1>12. /\ Unexpired(b) \in Seq(0..Window) /\ Len(Unexpired(b)) = Len(b) - m
       /\ \A i \in 1..Len(Unexpired(b)) : m + i \in 1..Len(b) /\ Unexpired(b)[i] = b[m + i]
  BY <1>4, UnexpiredProperties DEF m
<1>13. Len(Unexpired(a)) = Len(Unexpired(b))
  BY <1>1, <1>6, <1>7, <1>11, <1>12
<1>14. ASSUME NEW i \in 1..Len(Unexpired(a)) PROVE Unexpired(a)[i] = Unexpired(b)[i]
  <2>1. i \in Int /\ k + (m + i) = (k + m) + i
    BY <1>1, <1>6
  <2>2. m + i \in 1..Len(b) /\ Unexpired(b)[i] = b[m + i]
    BY <1>12, <1>13
  <2>3. b[m + i] = a[k + (m + i)]
    BY <1>5, <2>2
  <2> QED BY <1>11, <2>1, <2>2, <2>3
<1>15. Unexpired(a) = Unexpired(b)
  BY <1>11, <1>12, <1>13, <1>14, SeqEqual
<1> QED BY <1>15 DEF a, b, u

-----------------------------------------------------------------------------
(* The line in front of the lock. *)

Distinct(q) == \A i, j \in 1..Len(q) : i # j => q[i] # q[j]

LEMMA JoinLine ==
  ASSUME NEW q \in Seq(Callers), Distinct(q), NEW c \in Callers,
         ~\E i \in 1..Len(q) : q[i] = c
  PROVE  Append(q, c) \in Seq(Callers) /\ Distinct(Append(q, c)) /\ Append(q, c) # <<>>
<1>1. /\ Append(q, c) \in Seq(Callers) /\ Append(q, c) # <<>>
      /\ Len(Append(q, c)) = Len(q) + 1 /\ Len(q) \in Nat
      /\ \A i \in 1..Len(q) : Append(q, c)[i] = q[i]
      /\ Append(q, c)[Len(q) + 1] = c
  BY AppendProperties, LenProperties
<1>2. \A i \in 1..(Len(q) + 1) : i \in 1..Len(q) \/ i = Len(q) + 1
  BY <1>1
<1>3. Distinct(Append(q, c))
  <2> SUFFICES ASSUME NEW i \in 1..(Len(q) + 1), NEW j \in 1..(Len(q) + 1), i # j
               PROVE  Append(q, c)[i] # Append(q, c)[j]
    BY <1>1 DEF Distinct
  <2> QED BY <1>1, <1>2 DEF Distinct
<1> QED BY <1>1, <1>3

LEMMA LeaveLine ==
  ASSUME NEW q \in Seq(Callers), Distinct(q), q # <<>>
  PROVE  Tail(q) \in Seq(Callers) /\ Distinct(Tail(q))
<1>1. /\ Tail(q) \in Seq(Callers) /\ Len(Tail(q)) = Len(q) - 1 /\ Len(q) \in Nat
      /\ \A i \in 1..Len(Tail(q)) : Tail(q)[i] = q[i + 1]
  BY HeadTailProperties, LenProperties
<1>2. \A i \in 1..Len(Tail(q)) : i + 1 \in 1..Len(q)
  BY <1>1
<1>3. \A i, j \in 1..Len(Tail(q)) : i # j => i + 1 # j + 1
  BY <1>1
<1> QED BY <1>1, <1>2, <1>3 DEF Distinct

LEMMA CutLine ==
  ASSUME NEW q \in Seq(Callers), Distinct(q), NEW n \in 2..Len(q)
  PROVE  LET p == SubSeq(q, 1, n - 1) \o SubSeq(q, n + 1, Len(q))
         IN  p \in Seq(Callers) /\ Distinct(p) /\ p # <<>>
<1> DEFINE a == SubSeq(q, 1, n - 1)
           z == SubSeq(q, n + 1, Len(q))
           p == a \o z
<1>0. Len(q) \in Nat /\ n \in 2..Len(q) /\ \A i \in 1..Len(q) : q[i] \in Callers
  BY LenProperties, ElementOfSeq
<1>1. a \in Seq(Callers) /\ Len(a) = n - 1 /\ \A i \in 1..(n - 1) : a[i] = q[i]
  <2>1. 1 \in Int /\ n - 1 \in Int /\ 1 <= n - 1 /\ (n - 1) - 1 + 1 = n - 1
        /\ \A i \in 1..(n - 1) : i \in 1..Len(q) /\ 1 + i - 1 = i
    BY <1>0
  <2>2. /\ a \in Seq(Callers) /\ Len(a) = IF 1 <= n - 1 THEN (n - 1) - 1 + 1 ELSE 0
        /\ \A i \in 1..((n - 1) - 1 + 1) : a[i] = q[1 + i - 1]
    BY <1>0, <2>1, SubSeqProperties
  <2> HIDE DEF a
  <2> QED BY <2>1, <2>2
<1>2. z \in Seq(Callers) /\ Len(z) = Len(q) - n /\ \A i \in 1..(Len(q) - n) : z[i] = q[n + i]
  <2>1. n + 1 \in Int /\ Len(q) \in Int /\ \A i \in (n + 1)..Len(q) : i \in 1..Len(q)
    BY <1>0
  <2>2. /\ z \in Seq(Callers) /\ Len(z) = IF n + 1 <= Len(q) THEN Len(q) - (n + 1) + 1 ELSE 0
        /\ \A i \in 1..(Len(q) - (n + 1) + 1) : z[i] = q[n + 1 + i - 1]
    BY <1>0, <2>1, SubSeqProperties
  <2>3. Len(q) - (n + 1) + 1 = Len(q) - n /\ \A i \in 1..(Len(q) - n) : n + 1 + i - 1 = n + i
    BY <1>0
  <2> HIDE DEF z
  <2>4. Len(z) = Len(q) - n
    BY <1>0, <2>2
  <2> QED BY <2>2, <2>3, <2>4
<1> HIDE DEF a, z
<1>3. /\ p \in Seq(Callers) /\ Len(p) = Len(q) - 1
      /\ \A i \in 1..Len(p) : p[i] = IF i <= n - 1 THEN a[i] ELSE z[i - (n - 1)]
  <2>1. /\ p \in Seq(Callers) /\ Len(p) = Len(a) + Len(z)
        /\ \A i \in 1..(Len(a) + Len(z)) : p[i] = IF i <= Len(a) THEN a[i] ELSE z[i - Len(a)]
    BY <1>1, <1>2, ConcatProperties
  <2>2. Len(a) + Len(z) = Len(q) - 1
    BY <1>0, <1>1, <1>2
  <2> HIDE DEF p
  <2> QED BY <1>1, <2>1, <2>2
<1> HIDE DEF p
<1>4. ASSUME NEW i \in 1..Len(p)
      PROVE  p[i] = q[IF i <= n - 1 THEN i ELSE i + 1] /\ i \in 1..(Len(q) - 1)
  <2>1. CASE i <= n - 1
    BY <1>0, <1>1, <1>3, <2>1
  <2>2. CASE ~(i <= n - 1)
    <3>1. i - (n - 1) \in 1..(Len(q) - n) /\ n + (i - (n - 1)) = i + 1
      BY <1>0, <1>3, <2>2
    <3> QED BY <1>2, <1>3, <2>2, <3>1
  <2> QED BY <2>1, <2>2
<1>5. Distinct(p)
  <2> SUFFICES ASSUME NEW i \in 1..Len(p), NEW j \in 1..Len(p), i # j PROVE p[i] # p[j]
    BY DEF Distinct
  <2> DEFINE x(k) == IF k <= n - 1 THEN k ELSE k + 1
  <2>1. x(i) \in 1..Len(q) /\ x(j) \in 1..Len(q) /\ x(i) # x(j)
    BY <1>0, <1>4
  <2> QED BY <1>4, <2>1 DEF Distinct
<1>6. p # <<>>
  <2>1. Len(p) # 0
    BY <1>0, <1>3
  <2> QED BY <2>1
<1> QED BY <1>3, <1>5, <1>6 DEF p, a, z

-----------------------------------------------------------------------------
(* The invariant: what the limiter remembers, once the expired events are  *)
(* gone, are the requests sent in the last Window, and a caller that has   *)
(* slept has slept long enough.                                            *)

ValuesOK ==
  /\ limit \in Limits /\ sleep \in Nat /\ cooldown \in Nat
  /\ sinceAnswer \in 0..Interval

LineOK ==
  /\ queue \in Seq(Callers) /\ Distinct(queue)
  /\ stage \in Stages /\ (stage = "free" <=> queue = <<>>)

LogsOK ==
  /\ events \in Seq(0..Window) /\ OldestFirst(events)
  /\ sent = Unexpired(events)

SpacedOK ==
  /\ stage = "spacing" => sleep + sinceAnswer >= Interval
  /\ stage = "budget" => sinceAnswer = Interval

Inv == ValuesOK /\ LineOK /\ LogsOK /\ SpacedOK /\ WithinBudget

LEMMA SentType ==
  ASSUME LogsOK
  PROVE  sent \in Seq(0..(Window - 1)) /\ sent \in Seq(0..Window) /\ OldestFirst(sent)
         /\ Unexpired(sent) = sent
BY UnexpiredFresh, UnexpiredProperties, UnexpiredAll DEF LogsOK

LEMMA InvInit == Init => Inv
<1> SUFFICES ASSUME Init PROVE Inv
  OBVIOUS
<1>1. ValuesOK /\ LineOK /\ SpacedOK
  BY RestAssumption, EmptySeq DEF Init, ValuesOK, LineOK, SpacedOK, Stages, Distinct
<1>2. events \in Seq(0..(Window - 1)) /\ events \in Seq(0..Window) /\ Len(events) = 0
      /\ sent = events
  BY EmptySeq DEF Init
<1>3. LogsOK
  <2>1. Unexpired(events) = events
    BY <1>2, UnexpiredAll
  <2>2. OldestFirst(events)
    BY <1>2 DEF OldestFirst
  <2> QED BY <1>2, <2>1, <2>2 DEF LogsOK
<1>4. WithinBudget
  BY <1>2 DEF WithinBudget
<1> QED BY <1>1, <1>3, <1>4 DEF Inv

\* A round of the limiter lets a request out within the limit, or after all
\* others have left the window.
LEMMA AcquireStep ==
  ASSUME ValuesOK, LogsOK, WithinBudget, sinceAnswer = Interval, Acquire,
         UNCHANGED <<limit, cooldown, sinceAnswer>>
  PROVE  /\ ValuesOK' /\ LogsOK' /\ SpacedOK' /\ WithinBudget'
         /\ stage' \in {"budget", "request"}
         /\ stage' = "request" => cooldown = 0
<1> DEFINE wait == Most(cooldown, LimitSleep(sent))
<1>1. /\ sent \in Seq(0..(Window - 1)) /\ sent \in Seq(0..Window) /\ OldestFirst(sent)
      /\ Unexpired(sent) = sent /\ Unexpired(events) = sent
  BY SentType DEF LogsOK
<1>2. Len(sent) \in Nat /\ \A i \in 1..Len(sent) : sent[i] \in 0..(Window - 1)
  BY <1>1, LenProperties, ElementOfSeq
<1>3. Window \in Nat \ {0} /\ limit \in Nat /\ Weight \in Nat \ {0} /\ cooldown \in Nat
  BY RestAssumption DEF ValuesOK
<1>4. /\ LimitSleep(sent) \in Nat
      /\ LimitSleep(sent) = 0 => sent = <<>> \/ (Len(sent) + 1) * Weight <= limit
  <2>1. sent # <<>> => 1 \in 1..Len(sent)
    BY <1>1, <1>2, EmptySeq
  <2>2. sent # <<>> => Window - sent[1] \in Nat /\ Window - sent[1] > 0
    BY <1>2, <1>3, <2>1
  <2>3. CASE (Len(sent) + 1) * Weight > limit /\ sent # <<>>
    BY <2>2, <2>3 DEF LimitSleep
  <2>4. CASE ~((Len(sent) + 1) * Weight > limit) \/ sent = <<>>
    <3>1. (Len(sent) + 1) * Weight \in Nat
      BY <1>2, <1>3
    <3>2. LimitSleep(sent) = 0
      BY <2>4 DEF LimitSleep
    <3>3. ~((Len(sent) + 1) * Weight > limit) => (Len(sent) + 1) * Weight <= limit
      BY <1>3, <3>1
    <3> QED BY <2>4, <3>2, <3>3
  <2> QED BY <2>3, <2>4
<1>5. wait \in Nat /\ (~(wait > 0) => cooldown = 0 /\ LimitSleep(sent) = 0)
  <2>1. \A n \in Nat : Most(cooldown, n) \in Nat /\ (~(Most(cooldown, n) > 0) => cooldown = 0 /\ n = 0)
    BY <1>3 DEF Most
  <2> QED BY <1>4, <2>1
<1>6. /\ sleep' = wait
      /\ IF wait > 0
         THEN stage' = "budget" /\ events' = sent /\ UNCHANGED sent
         ELSE stage' = "request" /\ events' = Append(sent, 0) /\ sent' = Append(sent, 0)
  BY <1>1 DEF Acquire
<1> HIDE DEF wait
<1>7. ValuesOK'
  BY <1>5, <1>6 DEF ValuesOK
<1>8. CASE wait > 0
  <2>1. stage' = "budget" /\ events' = sent /\ sent' = sent
    BY <1>6, <1>8
  <2>2. LogsOK'
    BY <1>1, <2>1 DEF LogsOK, OldestFirst, Unexpired, Expired
  <2>3. WithinBudget' /\ SpacedOK'
    BY <2>1 DEF WithinBudget, SpacedOK
  <2> QED BY <1>7, <2>1, <2>2, <2>3
<1>9. CASE ~(wait > 0)
  <2> DEFINE log == Append(sent, 0)
  <2>1. stage' = "request" /\ events' = log /\ sent' = log
    BY <1>6, <1>9
  <2>2. 0 \in 0..(Window - 1) /\ 0 \in 0..Window
    BY <1>3
  <2>3. /\ log \in Seq(0..(Window - 1)) /\ Len(log) = Len(sent) + 1
        /\ \A i \in 1..Len(sent) : log[i] = sent[i]
        /\ log[Len(sent) + 1] = 0
    BY <1>1, <2>2, AppendProperties
  <2>4. log \in Seq(0..Window)
    BY <1>1, <2>2, AppendProperties
  <2> HIDE DEF log
  <2>5. OldestFirst(log)
    <3> SUFFICES ASSUME NEW i \in 1..Len(log), NEW j \in 1..Len(log), i <= j PROVE log[i] >= log[j]
      BY DEF OldestFirst
    <3>1. CASE j <= Len(sent)
      <4>1. i \in 1..Len(sent) /\ j \in 1..Len(sent)
        BY <1>2, <2>3, <3>1
      <4> QED BY <1>1, <2>3, <4>1 DEF OldestFirst
    <3>2. CASE ~(j <= Len(sent))
      <4>1. j = Len(sent) + 1
        BY <1>2, <2>3, <3>2
      <4>2. log[i] \in 0..(Window - 1)
        BY <2>3, ElementOfSeq
      <4> QED BY <1>3, <2>3, <4>1, <4>2
    <3> QED BY <3>1, <3>2
  <2>6. Unexpired(log) = log
    BY <2>3, UnexpiredAll
  <2>7. LogsOK'
    BY <2>1, <2>4, <2>5, <2>6 DEF LogsOK, OldestFirst, Unexpired, Expired
  <2>8. Len(log) <= 1 \/ Len(log) * Weight <= limit
    <3>1. CASE sent = <<>>
      <4>1. Len(sent) = 0
        BY <3>1
      <4> QED BY <2>3, <4>1
    <3>2. CASE (Len(sent) + 1) * Weight <= limit
      BY <2>3, <3>2
    <3> QED BY <1>4, <1>5, <1>9, <3>1, <3>2
  <2>9. WithinBudget' /\ SpacedOK'
    BY <2>1, <2>8 DEF WithinBudget, SpacedOK
  <2> QED BY <1>5, <1>7, <1>9, <2>1, <2>7, <2>9
<1> QED BY <1>8, <1>9

LEMMA ProceedStep ==
  ASSUME ValuesOK, LogsOK, WithinBudget, Proceed, UNCHANGED <<limit, cooldown, sinceAnswer>>
  PROVE  /\ ValuesOK' /\ LogsOK' /\ SpacedOK' /\ WithinBudget'
         /\ stage' \in {"spacing", "budget", "request"}
         /\ stage' = "request" => cooldown = 0 /\ sinceAnswer = Interval
<1>1. Interval \in Nat /\ sinceAnswer \in 0..Interval
  BY RestAssumption DEF ValuesOK
<1>2. CASE sinceAnswer < Interval
  <2>1. stage' = "spacing" /\ sleep' = Interval - sinceAnswer /\ UNCHANGED <<events, sent>>
    BY <1>2 DEF Proceed
  <2>2. ValuesOK' /\ SpacedOK'
    BY <1>1, <1>2, <2>1 DEF ValuesOK, SpacedOK
  <2>3. LogsOK' /\ WithinBudget'
    BY <2>1 DEF LogsOK, WithinBudget, OldestFirst, Unexpired, Expired
  <2> QED BY <2>1, <2>2, <2>3
<1>3. CASE ~(sinceAnswer < Interval)
  <2>1. sinceAnswer = Interval /\ Acquire
    BY <1>1, <1>3 DEF Proceed
  <2> QED BY <2>1, AcquireStep
<1> QED BY <1>2, <1>3

\* Whoever leaves the lock leaves it to the next in line.
LEMMA ReleaseStep ==
  ASSUME LineOK, queue # <<>>, Release
  PROVE  LineOK' /\ SpacedOK' /\ sleep' = 0 /\ stage' \in {"free", "entering"}
<1>1. Tail(queue) \in Seq(Callers) /\ Distinct(Tail(queue))
  BY LeaveLine DEF LineOK
<1> QED BY <1>1 DEF Release, LineOK, SpacedOK, Stages, Distinct

\* A step that leaves the logs and the limit alone.
LEMMA LogsUnchanged ==
  ASSUME LogsOK, WithinBudget, UNCHANGED <<limit, events, sent>>
  PROVE  LogsOK' /\ WithinBudget'
BY DEF LogsOK, WithinBudget, OldestFirst, Unexpired, Expired

\* What every action keeps, and what a request finds.
LEMMA CallStep ==
  ASSUME Inv, NEW c \in Callers, Call(c)
  PROVE  Inv' /\ (stage # "request" /\ stage' = "request" => cooldown = 0 /\ sinceAnswer = Interval)
<1>1. queue' \in Seq(Callers) /\ Distinct(queue)' /\ queue' # <<>>
  BY JoinLine DEF Inv, LineOK, Call, Waits, Distinct
<1>2. UNCHANGED <<limit, cooldown, sinceAnswer>>
  BY DEF Call
<1>3. CASE queue = <<>>
  <2>1. Proceed
    BY <1>3 DEF Call
  <2>2. /\ ValuesOK' /\ LogsOK' /\ SpacedOK' /\ WithinBudget'
        /\ stage' \in {"spacing", "budget", "request"}
        /\ stage' = "request" => cooldown = 0 /\ sinceAnswer = Interval
    BY <1>2, <2>1, ProceedStep DEF Inv
  <2>3. LineOK'
    BY <1>1, <2>2 DEF LineOK, Stages
  <2> QED BY <2>2, <2>3 DEF Inv
<1>4. CASE queue # <<>>
  <2>1. UNCHANGED <<stage, sleep, events, sent>>
    BY <1>4 DEF Call
  <2>2. LineOK'
    BY <1>1, <1>4, <2>1 DEF Inv, LineOK
  <2>3. ValuesOK' /\ SpacedOK'
    BY <1>2, <2>1 DEF Inv, ValuesOK, SpacedOK
  <2>4. LogsOK' /\ WithinBudget'
    BY <1>2, <2>1, LogsUnchanged DEF Inv
  <2> QED BY <2>1, <2>2, <2>3, <2>4 DEF Inv
<1> QED BY <1>3, <1>4

LEMMA OwnerStep ==
  ASSUME Inv, Entered \/ Woken
  PROVE  Inv' /\ (stage # "request" /\ stage' = "request" => cooldown = 0 /\ sinceAnswer = Interval)
<1>1. UNCHANGED <<limit, queue, cooldown, sinceAnswer>> /\ stage # "free"
  BY DEF Entered, Woken
<1>2. /\ ValuesOK' /\ LogsOK' /\ SpacedOK' /\ WithinBudget'
      /\ stage' \in {"spacing", "budget", "request"}
      /\ stage' = "request" => cooldown = 0 /\ sinceAnswer = Interval
  <2>1. CASE Entered
    BY <1>1, <2>1, ProceedStep DEF Inv, Entered
  <2>2. CASE Woken
    <3>1. sinceAnswer = Interval
      <4>1. Interval \in Nat /\ sinceAnswer \in 0..Interval /\ sleep = 0
        BY <2>2, RestAssumption DEF Inv, ValuesOK, Woken
      <4>2. stage = "spacing" => sleep + sinceAnswer >= Interval
        BY DEF Inv, SpacedOK
      <4>3. stage = "budget" => sinceAnswer = Interval
        BY DEF Inv, SpacedOK
      <4>4. stage \in {"spacing", "budget"}
        BY <2>2 DEF Woken
      <4> QED BY <4>1, <4>2, <4>3, <4>4
    <3>2. Acquire
      BY <2>2 DEF Woken
    <3> QED BY <1>1, <3>1, <3>2, AcquireStep DEF Inv
  <2> QED BY <2>1, <2>2
<1>3. LineOK'
  BY <1>1, <1>2 DEF Inv, LineOK, Stages, Distinct
<1> QED BY <1>2, <1>3 DEF Inv

LEMMA EndStep ==
  ASSUME Inv, Answered \/ Refused \/ Unanswered
  PROVE  Inv' /\ stage' # "request"
<1>1. stage = "request" /\ queue # <<>> /\ Release /\ UNCHANGED <<limit, events, sent>>
  BY DEF Inv, LineOK, Answered, Refused, Unanswered
<1>2. LineOK' /\ SpacedOK' /\ sleep' = 0 /\ stage' \in {"free", "entering"}
  BY <1>1, ReleaseStep DEF Inv
<1>3. LogsOK' /\ WithinBudget'
  BY <1>1, LogsUnchanged DEF Inv
<1>4. sinceAnswer' \in 0..Interval
  BY RestAssumption DEF Inv, ValuesOK, Answered, Refused, Unanswered
<1>5. cooldown' \in Nat
  <2>1. ASSUME NEW header \in RetryAfters PROVE Most(cooldown, RetryAfterSeconds(header)) \in Nat
    <3>1. /\ cooldown \in Nat /\ RetryCap \in Nat /\ RetryDefault \in Nat
          /\ header # None => header \in Nat
      BY RestAssumption DEF Inv, ValuesOK
    <3>2. RetryAfterSeconds(header) \in Nat
      BY <3>1 DEF RetryAfterSeconds, Least, Most
    <3> QED BY <3>1, <3>2 DEF Most
  <2> QED BY <2>1 DEF Inv, ValuesOK, Answered, Refused, Unanswered
<1>6. ValuesOK'
  BY <1>1, <1>2, <1>4, <1>5 DEF Inv, ValuesOK
<1> QED BY <1>2, <1>3, <1>6 DEF Inv

LEMMA CancelStep ==
  ASSUME Inv, NEW c \in Callers, Cancelled(c)
  PROVE  Inv' /\ (stage # "request" => stage' # "request")
<1>1. UNCHANGED <<limit, events, cooldown, sinceAnswer, sent>>
  BY DEF Cancelled
<1>2. queue # <<>>
  BY EmptySeq DEF Cancelled, Waits, Inv, LineOK
<1>3. LogsOK' /\ WithinBudget'
  BY <1>1, LogsUnchanged DEF Inv
<1>4. CASE Head(queue) = c
  <2>1. LineOK' /\ SpacedOK' /\ sleep' = 0 /\ stage' \in {"free", "entering"}
    BY <1>2, <1>4, ReleaseStep DEF Inv, Cancelled
  <2>2. ValuesOK'
    BY <1>1, <2>1 DEF Inv, ValuesOK
  <2> QED BY <1>3, <2>1, <2>2 DEF Inv
<1>5. CASE Head(queue) # c
  <2>1. PICK n \in 2..Len(queue) : queue' = SubSeq(queue, 1, n - 1) \o SubSeq(queue, n + 1, Len(queue))
    BY <1>5 DEF Cancelled
  <2>2. UNCHANGED <<stage, sleep>>
    BY <1>5 DEF Cancelled
  <2>3. queue' \in Seq(Callers) /\ Distinct(queue') /\ queue' # <<>>
    BY <2>1, CutLine DEF Inv, LineOK
  <2>4. LineOK'
    BY <1>2, <2>2, <2>3 DEF Inv, LineOK, Distinct
  <2>5. ValuesOK' /\ SpacedOK'
    BY <1>1, <2>2 DEF Inv, ValuesOK, SpacedOK
  <2> QED BY <1>3, <2>2, <2>4, <2>5 DEF Inv
<1> QED BY <1>4, <1>5

LEMMA TickStep ==
  ASSUME Inv, Tick
  PROVE  Inv' /\ stage' = stage
<1>1. UNCHANGED <<limit, queue, stage>>
  BY DEF Tick
<1>2. /\ sleep' = Most(sleep - 1, 0) /\ cooldown' = Most(cooldown - 1, 0)
      /\ sinceAnswer' = Least(sinceAnswer + 1, Interval)
      /\ sleep \in Nat /\ cooldown \in Nat /\ Interval \in Nat /\ sinceAnswer \in 0..Interval
  BY RestAssumption DEF Inv, ValuesOK, Tick
<1>3. ValuesOK'
  BY <1>1, <1>2 DEF Inv, ValuesOK, Most, Least
<1>4. SpacedOK'
  <2>1. stage = "spacing" => sleep' + sinceAnswer' >= Interval
    BY <1>2 DEF Inv, SpacedOK, Most, Least
  <2>2. stage = "budget" => sinceAnswer' = Interval
    BY <1>2 DEF Inv, SpacedOK, Least
  <2> QED BY <1>1, <2>1, <2>2 DEF SpacedOK
<1>5. LineOK'
  BY <1>1 DEF Inv, LineOK, Distinct
<1>6. /\ events \in Seq(0..Window) /\ OldestFirst(events) /\ sent = Unexpired(events)
      /\ sent \in Seq(0..Window)
  BY SentType DEF Inv, LogsOK
<1>7. events' = Aged(events) /\ sent' = Unexpired(Aged(sent))
  BY DEF Tick, Unexpired
<1>8. Aged(events) \in Seq(0..Window) /\ OldestFirst(Aged(events))
      /\ Aged(sent) \in Seq(0..Window) /\ Len(Aged(sent)) = Len(sent)
  BY <1>6, AgedProperties
<1>9. Unexpired(Aged(events)) = Unexpired(Aged(sent))
  BY <1>6, AgedUnexpired
<1>10. LogsOK'
  BY <1>7, <1>8, <1>9 DEF LogsOK, OldestFirst, Unexpired, Expired
<1>11. WithinBudget'
  <2> DEFINE u == Unexpired(Aged(sent))
  <2>1. Len(u) = Len(sent) - Expired(Aged(sent)) /\ Len(u) \in Nat
    <3>1. u \in Seq(0..Window) /\ Len(u) = Len(Aged(sent)) - Expired(Aged(sent))
      BY <1>8, UnexpiredProperties
    <3> QED BY <1>8, <3>1, LenProperties
  <2>2. Expired(Aged(sent)) \in Nat
    <3>1. Aged(sent) \in Seq(Nat)
      BY <1>8, SeqMonotonic, RestAssumption
    <3> QED BY <3>1, ExpiredExists
  <2>3. Len(sent) \in Nat /\ Weight \in Nat /\ limit \in Nat
    BY <1>6, LenProperties, RestAssumption DEF Inv, ValuesOK
  <2> HIDE DEF u
  <2>4. Len(u) <= Len(sent)
    BY <2>1, <2>2, <2>3
  <2>5. Len(u) * Weight <= Len(sent) * Weight
    BY <2>1, <2>3, <2>4
  <2>6. Len(sent) <= 1 \/ Len(sent) * Weight <= limit
    BY DEF Inv, WithinBudget
  <2>7. Len(u) * Weight \in Nat /\ Len(sent) * Weight \in Nat
    BY <2>1, <2>3
  <2>8. Len(u) <= 1 \/ Len(u) * Weight <= limit
    <3>1. CASE Len(sent) <= 1
      BY <2>1, <2>3, <2>4, <3>1
    <3>2. CASE Len(sent) * Weight <= limit
      BY <2>3, <2>5, <2>7, <3>2
    <3> QED BY <2>6, <3>1, <3>2
  <2> QED BY <1>1, <1>7, <2>8 DEF WithinBudget, u
<1> QED BY <1>1, <1>3, <1>4, <1>5, <1>10, <1>11 DEF Inv

-----------------------------------------------------------------------------
Waited == stage # "request" /\ stage' = "request" => cooldown = 0 /\ sinceAnswer = Interval

LEMMA InvNext == Inv /\ [Next]_vars => Inv' /\ (Waited \/ UNCHANGED vars)
<1> SUFFICES ASSUME Inv, [Next]_vars PROVE Inv' /\ (Waited \/ UNCHANGED vars)
  OBVIOUS
<1>1. ASSUME NEW c \in Callers, Call(c) PROVE Inv' /\ Waited
  BY <1>1, CallStep DEF Waited
<1>2. ASSUME NEW c \in Callers, Cancelled(c) PROVE Inv' /\ Waited
  BY <1>2, CancelStep DEF Waited
<1>3. CASE Entered \/ Woken
  BY <1>3, OwnerStep DEF Waited
<1>4. CASE Answered \/ Refused \/ Unanswered
  BY <1>4, EndStep DEF Waited
<1>5. CASE Tick
  BY <1>5, TickStep DEF Waited
<1>6. CASE UNCHANGED vars
  <2>1. LogsOK' /\ WithinBudget'
    BY <1>6, LogsUnchanged DEF Inv, vars
  <2>2. ValuesOK' /\ LineOK' /\ SpacedOK'
    BY <1>6 DEF Inv, ValuesOK, LineOK, SpacedOK, Distinct, vars
  <2> QED BY <1>6, <2>1, <2>2 DEF Inv
<1> QED BY <1>1, <1>2, <1>3, <1>4, <1>5, <1>6 DEF Next

-----------------------------------------------------------------------------
(* The theorems. *)

LEMMA Invariance == Spec => []Inv
BY InvInit, InvNext, PTL DEF Spec

\* Every variable holds values of its type, the line has no caller twice,
\* and the lock has an owner exactly while somebody is in the call.
THEOREM TypeCorrect == Spec => []TypeOK
<1>1. Inv => TypeOK
  <2> SUFFICES ASSUME Inv PROVE TypeOK
    OBVIOUS
  <2>1. sent \in Seq(0..(Window - 1))
    BY SentType DEF Inv
  <2> QED BY <2>1 DEF Inv, ValuesOK, LineOK, LogsOK, TypeOK, Distinct
<1> QED BY <1>1, Invariance, PTL

\* In no stretch of Window do the requests weigh more than the limit.
THEOREM BudgetKept == Spec => []WithinBudget
<1>1. Inv => WithinBudget
  BY DEF Inv
<1> QED BY <1>1, Invariance, PTL

\* No request goes out before the exchange is ready again and the last
\* answer is Interval ago.
THEOREM AlwaysPolite == Spec => Polite
<1>1. Inv /\ [Next]_vars =>
        [stage # "request" /\ stage' = "request" => cooldown = 0 /\ sinceAnswer = Interval]_vars
  BY InvNext DEF Waited
<1> QED BY <1>1, Invariance, PTL DEF Spec, Polite
=============================================================================
