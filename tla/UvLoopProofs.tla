------------------------------ MODULE UvLoopProofs -----------------------------
(***************************************************************************)
(* Lemmas about module UvLoop: how often a request is in the loop's lists, *)
(* and what each operation of the loop does to that number.  The proofs    *)
(* about the modules that own the requests count with them.                *)
(***************************************************************************)
EXTENDS UvLoop, FiniteSetTheorems, FunctionTheorems, SequenceTheorems, TLAPS

-------------------------------------------------------------------------------
(* Counting in a sequence. *)

\* The positions that hold r.
At(s, r) == {k \in DOMAIN s : s[k] = r}

LEMMA AtFinite ==
  ASSUME NEW S, NEW s \in Seq(S), NEW r
  PROVE  /\ At(s, r) \subseteq 1..Len(s)
         /\ IsFiniteSet(At(s, r))
         /\ Count(s, r) = Cardinality(At(s, r)) /\ Count(s, r) \in Nat
<1>1. DOMAIN s = 1..Len(s) /\ Len(s) \in Nat
  OBVIOUS
<1>2. At(s, r) \subseteq 1..Len(s)
  BY <1>1 DEF At
<1>3. IsFiniteSet(1..Len(s))
  BY <1>1, FS_Interval
<1>4. IsFiniteSet(At(s, r))
  BY <1>2, <1>3, FS_Subset
<1>5. Count(s, r) = Cardinality(At(s, r))
  BY DEF Count, At
<1> QED
  BY <1>2, <1>4, <1>5, FS_CardinalityType

\* Moving a set of numbers keeps its size.
LEMMA ShiftedCardinality ==
  ASSUME NEW T \in SUBSET Nat, NEW n \in Nat, IsFiniteSet(T)
  PROVE  LET U == {k + n : k \in T}
         IN  IsFiniteSet(U) /\ Cardinality(U) = Cardinality(T)
<1> DEFINE U == {k + n : k \in T}
           f == [k \in T |-> k + n]
<1>1. f \in Bijection(T, U)
  <2>1. f \in [T -> U]
    OBVIOUS
  <2>2. \A a, b \in T : f[a] = f[b] => a = b
    OBVIOUS
  <2>3. \A u \in U : \E a \in T : f[a] = u
    OBVIOUS
  <2> QED
    BY <2>1, <2>2, <2>3, Fun_IsInj, Fun_IsSurj DEF Bijection, Injection, Surjection, IsInjective
<1>2. ExistsBijection(T, U)
  BY <1>1, Zenon DEF ExistsBijection
<1> QED
  BY <1>2, FS_Bijection

LEMMA CountEmpty ==
  ASSUME NEW r
  PROVE  Count(<<>>, r) = 0
<1>1. {k \in DOMAIN <<>> : <<>>[k] = r} = {}
  OBVIOUS
<1> QED
  BY <1>1, FS_EmptySet DEF Count

LEMMA CountOne ==
  ASSUME NEW e, NEW r
  PROVE  Count(<<e>>, r) = Is(e, r)
<1> DEFINE K == {k \in DOMAIN <<e>> : <<e>>[k] = r}
<1>1. DOMAIN <<e>> = {1} /\ <<e>>[1] = e
  OBVIOUS
<1>2. CASE e = r
  <2>1. K = {1}
    BY <1>1, <1>2
  <2> QED
    BY <1>2, <2>1, FS_Singleton DEF Count, Is
<1>3. CASE e # r
  <2>1. K = {}
    BY <1>1, <1>3
  <2> QED
    BY <1>3, <2>1, FS_EmptySet DEF Count, Is
<1> QED
  BY <1>2, <1>3

LEMMA CountIf ==
  ASSUME NEW p \in BOOLEAN, NEW e, NEW r
  PROVE  Count(IF p THEN <<e>> ELSE <<>>, r) = IF p THEN Is(e, r) ELSE 0
<1>1. CASE p
  BY <1>1, CountOne
<1>2. CASE ~p
  BY <1>2, CountEmpty
<1> QED
  BY <1>1, <1>2

LEMMA CountConcat ==
  ASSUME NEW S, NEW s \in Seq(S), NEW t \in Seq(S), NEW r
  PROVE  Count(s \o t, r) = Count(s, r) + Count(t, r)
<1> DEFINE n == Len(s)
           U == {k + n : k \in At(t, r)}
<1>1. n \in Nat /\ Len(t) \in Nat /\ s \o t \in Seq(S)
  OBVIOUS
<1>2. DOMAIN (s \o t) = 1..(n + Len(t)) /\ DOMAIN s = 1..n
        /\ DOMAIN t = 1..Len(t)
  OBVIOUS
<1>3. \A k \in 1..(n + Len(t)) :
        (s \o t)[k] = IF k <= n THEN s[k] ELSE t[k - n]
  BY ConcatProperties
<1>4. At(s \o t, r) = At(s, r) \cup U
  <2>1. ASSUME NEW k \in At(s \o t, r) PROVE k \in At(s, r) \cup U
    <3>1. k \in 1..(n + Len(t)) /\ (s \o t)[k] = r
      BY <1>2 DEF At
    <3>2. CASE k <= n
      <4>1. s[k] = r /\ k \in 1..n
        BY <1>1, <1>3, <3>1, <3>2
      <4> QED
        BY <1>2, <4>1 DEF At
    <3>3. CASE ~(k <= n)
      <4>1. t[k - n] = r /\ k - n \in 1..Len(t) /\ k = (k - n) + n
        BY <1>1, <1>3, <3>1, <3>3
      <4>2. k - n \in At(t, r)
        BY <1>2, <4>1 DEF At
      <4> QED
        BY <4>1, <4>2
    <3> QED
      BY <3>2, <3>3
  <2>2. ASSUME NEW k \in At(s, r) PROVE k \in At(s \o t, r)
    <3>1. k \in 1..n /\ s[k] = r
      BY <1>2 DEF At
    <3>2. k \in 1..(n + Len(t)) /\ k <= n
      BY <1>1, <3>1
    <3>3. (s \o t)[k] = r
      BY <1>3, <3>1, <3>2
    <3> QED
      BY <1>2, <3>2, <3>3 DEF At
  <2>3. ASSUME NEW k \in At(t, r) PROVE k + n \in At(s \o t, r)
    <3>1. k \in 1..Len(t) /\ t[k] = r
      BY <1>2 DEF At
    <3>2. k + n \in 1..(n + Len(t)) /\ ~(k + n <= n) /\ (k + n) - n = k
      BY <1>1, <3>1
    <3>3. (s \o t)[k + n] = r
      BY <1>3, <3>1, <3>2
    <3> QED
      BY <1>2, <3>2, <3>3 DEF At
  <2> QED
    BY <2>1, <2>2, <2>3
<1>5. At(s, r) \cap U = {}
  BY <1>1, AtFinite
<1>6. /\ IsFiniteSet(At(s, r)) /\ IsFiniteSet(U)
      /\ Cardinality(U) = Cardinality(At(t, r))
      /\ Cardinality(At(s, r)) \in Nat /\ Cardinality(U) \in Nat
  <2>1. IsFiniteSet(At(t, r)) /\ At(t, r) \in SUBSET Nat
    BY AtFinite
  <2>2. IsFiniteSet(U) /\ Cardinality(U) = Cardinality(At(t, r))
    BY <1>1, <2>1, ShiftedCardinality
  <2> QED
    BY <2>2, AtFinite, FS_CardinalityType
<1>7. Cardinality(At(s \o t, r)) = Cardinality(At(s, r)) + Cardinality(U)
  <2> HIDE DEF U
  <2>1. Cardinality(At(s, r) \cup U)
          = Cardinality(At(s, r)) + Cardinality(U) - Cardinality(At(s, r) \cap U)
    BY <1>6, FS_Union
  <2>2. Cardinality(At(s, r) \cap U) = 0
    BY <1>5, FS_EmptySet
  <2> QED
    BY <1>4, <1>6, <2>1, <2>2
<1> QED
  BY <1>1, <1>6, <1>7, AtFinite

LEMMA CountAppend ==
  ASSUME NEW S, NEW s \in Seq(S), NEW e \in S, NEW r
  PROVE  Count(Append(s, e), r) = Count(s, r) + Is(e, r)
<1>1. Append(s, e) = s \o <<e>> /\ <<e>> \in Seq(S)
  OBVIOUS
<1>2. Count(s \o <<e>>, r) = Count(s, r) + Count(<<e>>, r)
  BY <1>1, CountConcat
<1>3. Count(<<e>>, r) = Is(e, r)
  BY CountOne
<1> QED
  BY <1>1, <1>2, <1>3, Zenon

LEMMA CountTail ==
  ASSUME NEW S, NEW s \in Seq(S), s # <<>>, NEW r
  PROVE  Count(s, r) = Is(Head(s), r) + Count(Tail(s), r)
<1>1. s = <<Head(s)>> \o Tail(s)
  OBVIOUS
<1>2. <<Head(s)>> \in Seq(S) /\ Tail(s) \in Seq(S)
  OBVIOUS
<1>3. Count(<<Head(s)>> \o Tail(s), r)
        = Count(<<Head(s)>>, r) + Count(Tail(s), r)
  BY <1>2, CountConcat
<1>4. Count(<<Head(s)>>, r) = Is(Head(s), r)
  BY CountOne
<1> QED
  BY <1>1, <1>3, <1>4, Zenon

\* What is in the list is counted.
LEMMA CountRange ==
  ASSUME NEW S, NEW s \in Seq(S), NEW r
  PROVE  Count(s, r) = 0 <=> r \notin Range(s)
<1>1. At(s, r) = {} <=> r \notin Range(s)
  BY DEF At, Range
<1> QED
  BY <1>1, AtFinite, FS_EmptySet

-------------------------------------------------------------------------------
(* What the loop's operations do to the number of copies. *)

\* The requests in the loop's lists are requests of S, and the loop walks a
\* list only between uv__process_reqs taking it and its last callback.
LoopType(S) ==
  /\ ring \in Seq(S) /\ batch \in Seq(S) /\ iocp \in Seq(S)
  /\ inserting = Nobody \/ inserting \in [req : S, seen : Seq(S)]
  /\ lost \subseteq S

WalkInv == batch # <<>> => lpc \in {"process", "process_more", "undefined"}

LEMMA CountsType ==
  ASSUME NEW S, LoopType(S), NEW r
  PROVE  /\ Count(ring, r) \in Nat /\ Count(batch, r) \in Nat
         /\ Count(iocp, r) \in Nat
         /\ Is(inserting.req, r) \in {0, 1} /\ Has(lost, r) \in {0, 1}
         /\ Copies(r) \in Nat
<1>1. /\ Count(ring, r) \in Nat /\ Count(batch, r) \in Nat
      /\ Count(iocp, r) \in Nat
  BY AtFinite DEF LoopType
<1>2. Is(inserting.req, r) \in {0, 1} /\ Has(lost, r) \in {0, 1}
  BY DEF Is, Has
<1> QED
  BY <1>1, <1>2 DEF Copies

LEMMA CopiesInit ==
  ASSUME LoopInit, NEW r, r # <<>>
  PROVE  Copies(r) = 0
<1>1. Count(ring, r) = 0 /\ Count(batch, r) = 0 /\ Count(iocp, r) = 0
  BY CountEmpty DEF LoopInit
<1>2. Is(inserting.req, r) = 0 /\ Has(lost, r) = 0
  BY DEF LoopInit, Is, Has, Nobody
<1> QED
  BY <1>1, <1>2 DEF Copies

LEMMA CopiesUnchanged ==
  ASSUME UNCHANGED <<ring, batch, iocp, inserting, lost>>, NEW r
  PROVE  Copies(r)' = Copies(r)
  BY DEF Copies

\* A completion that is posted to the port is one more copy.
LEMMA CopiesPost ==
  ASSUME NEW S, LoopType(S), NEW e \in S, Post(e),
         UNCHANGED <<ring, batch, inserting, lost>>, NEW r
  PROVE  LoopType(S)' /\ Copies(r)' = Copies(r) + Is(e, r)
<1>1. iocp' = Append(iocp, e) /\ iocp \in Seq(S)
  BY DEF Post, LoopType
<1>2. Count(iocp, r)' = Count(iocp, r) + Is(e, r)
  BY <1>1, CountAppend
<1>3. /\ Count(ring, r)' = Count(ring, r) /\ Count(batch, r)' = Count(batch, r)
      /\ Is(inserting.req, r)' = Is(inserting.req, r)
      /\ Has(lost, r)' = Has(lost, r)
  OBVIOUS
<1>4. LoopType(S)'
  BY <1>1 DEF LoopType
<1>5. Is(e, r) \in Nat
  BY DEF Is, Has
<1> QED
  BY <1>2, <1>3, <1>4, <1>5, CountsType DEF Copies

\* So is one that the loop thread puts into the ring.
LEMMA CopiesInsert ==
  ASSUME NEW S, LoopType(S), NEW e \in S, Insert(e),
         UNCHANGED <<batch, iocp, inserting, lost>>, NEW r
  PROVE  LoopType(S)' /\ Copies(r)' = Copies(r) + Is(e, r)
<1>1. ring' = Append(ring, e) /\ ring \in Seq(S)
  BY DEF Insert, LoopType
<1>2. Count(ring, r)' = Count(ring, r) + Is(e, r)
  BY <1>1, CountAppend
<1>3. /\ Count(iocp, r)' = Count(iocp, r) /\ Count(batch, r)' = Count(batch, r)
      /\ Is(inserting.req, r)' = Is(inserting.req, r)
      /\ Has(lost, r)' = Has(lost, r)
  OBVIOUS
<1>4. LoopType(S)'
  BY <1>1 DEF LoopType
<1>5. Is(e, r) \in Nat
  BY DEF Is, Has
<1> QED
  BY <1>2, <1>3, <1>4, <1>5, CountsType DEF Copies

LEMMA CopiesSum ==
  ASSUME NEW S, LoopType(S), LoopType(S)', NEW r,
         NEW m \in Nat, NEW n \in Nat, NEW h \in Nat,
         Count(ring, r)' = Count(ring, r) + m,
         Count(iocp, r)' = Count(iocp, r) + n,
         Count(batch, r) = h + Count(batch, r)',
         UNCHANGED <<inserting, lost>>
  PROVE  Copies(r)' + h = Copies(r) + m + n
<1>1. Count(batch, r)' \in Nat
  BY AtFinite DEF LoopType
<1>2. Copies(r) = Count(ring, r) + Count(batch, r) + Count(iocp, r)
                    + Is(inserting.req, r) + Has(lost, r)
  BY DEF Copies
<1>3. Copies(r)' = Count(ring, r)' + Count(batch, r)' + Count(iocp, r)'
                     + Is(inserting.req, r) + Has(lost, r)
  BY DEF Copies
<1> QED
  BY <1>1, <1>2, <1>3, CountsType

\* A callback uses up the copy it was run for; what it inserts into the ring
\* and what completes through the port are new ones.
LEMMA CopiesCallback ==
  ASSUME NEW S, LoopType(S), NEW a \in Seq(S), NEW b \in Seq(S),
         batch # <<>>, batch' = Tail(batch),
         ring' = ring \o a, iocp' = iocp \o b,
         UNCHANGED <<inserting, lost>>
  PROVE  /\ LoopType(S)'
         /\ \A r : Copies(r)' + Is(Head(batch), r)
                    = Copies(r) + Count(a, r) + Count(b, r)
<1>1. ring \in Seq(S) /\ batch \in Seq(S) /\ iocp \in Seq(S)
  BY DEF LoopType
<1>2. LoopType(S)'
  BY <1>1 DEF LoopType
<1>3. ASSUME NEW r
      PROVE  Copies(r)' + Is(Head(batch), r)
               = Copies(r) + Count(a, r) + Count(b, r)
  <2>1. Count(ring, r)' = Count(ring, r) + Count(a, r)
    BY <1>1, CountConcat
  <2>2. Count(iocp, r)' = Count(iocp, r) + Count(b, r)
    BY <1>1, CountConcat
  <2>3. Count(batch, r) = Is(Head(batch), r) + Count(batch, r)'
    BY <1>1, CountTail
  <2>4. Is(Head(batch), r) \in Nat
    BY DEF Is, Has
  <2>5. Count(a, r) \in Nat /\ Count(b, r) \in Nat
    BY AtFinite, Zenon
  <2> QED
    BY <1>2, <2>1, <2>2, <2>3, <2>4, <2>5, CopiesSum, Zenon
<1> QED
  BY <1>2, <1>3

\* A callback that inserts nothing uses up its own request.
LEMMA CopiesProcessed ==
  ASSUME NEW S, LoopType(S), NEW e, Processing(e),
         UNCHANGED <<ring, iocp, inserting, lost>>
  PROVE  /\ LoopType(S)'
         /\ Copies(e) >= 1 /\ Copies(e)' = Copies(e) - 1
         /\ \A r : r # e => Copies(r)' = Copies(r)
         /\ \A r : Copies(r) \in Nat
<1>1. batch # <<>> /\ batch' = Tail(batch) /\ Head(batch) = e
  BY DEF Processing
<1>2. <<>> \in Seq(S) /\ ring' = ring \o <<>> /\ iocp' = iocp \o <<>>
  BY DEF LoopType
<1>3. /\ LoopType(S)'
      /\ \A r : Copies(r)' + Is(Head(batch), r)
                  = Copies(r) + Count(<<>>, r) + Count(<<>>, r)
  <2>1. UNCHANGED <<inserting, lost>>
    OBVIOUS
  <2> QED
    BY <1>1, <1>2, <2>1, CopiesCallback, Zenon
<1>4. ASSUME NEW r PROVE Copies(r) \in Nat
  BY CountsType
<1>5. ASSUME NEW r PROVE Copies(r)' \in Nat
  <2>1. /\ Count(ring, r)' \in Nat /\ Count(batch, r)' \in Nat
        /\ Count(iocp, r)' \in Nat
    BY <1>3, AtFinite DEF LoopType
  <2>2. Is(inserting.req, r)' \in Nat /\ Has(lost, r)' \in Nat
    BY DEF Is, Has
  <2> QED
    BY <2>1, <2>2 DEF Copies
<1>6. \A r : Copies(r)' + Is(e, r) = Copies(r)
  BY <1>1, <1>3, <1>4, CountEmpty
<1>7. Copies(e)' + 1 = Copies(e)
  BY <1>6 DEF Is
<1>8. ASSUME NEW r, r # e PROVE Copies(r)' = Copies(r)
  <2>1. Is(e, r) = 0
    BY <1>8 DEF Is
  <2>2. Copies(r)' + 0 = Copies(r)
    BY <1>6, <2>1
  <2> QED
    BY <1>5, <2>2
<1>9. Copies(e) >= 1 /\ Copies(e)' = Copies(e) - 1
  BY <1>4, <1>5, <1>7
<1> QED
  BY <1>3, <1>4, <1>8, <1>9

\* The thread that is about to insert a request holds a copy of it.
LEMMA CopiesLook ==
  ASSUME NEW S, LoopType(S), NEW e \in S, InsertLook(e),
         UNCHANGED <<ring, batch, iocp, lost>>, NEW r, r # <<>>
  PROVE  LoopType(S)' /\ Copies(r)' = Copies(r) + Is(e, r)
<1>1. inserting = Nobody /\ inserting' = [req |-> e, seen |-> ring]
  BY DEF InsertLook
<1>2. Is(inserting.req, r) = 0
  BY <1>1 DEF Is, Has, Nobody
<1>3. Is(inserting.req, r)' = Is(e, r)
  BY <1>1
<1>4. /\ Count(ring, r)' = Count(ring, r) /\ Count(batch, r)' = Count(batch, r)
      /\ Count(iocp, r)' = Count(iocp, r) /\ Has(lost, r)' = Has(lost, r)
  OBVIOUS
<1>5. LoopType(S)'
  BY <1>1 DEF LoopType
<1>6. Is(e, r) \in Nat
  BY DEF Is, Has
<1> QED
  BY <1>2, <1>3, <1>4, <1>5, <1>6, CountsType DEF Copies

\* Linking it keeps the loop's types.
LEMMA LinkType ==
  ASSUME NEW S, LoopType(S), InsertLink, UNCHANGED <<batch, iocp>>
  PROVE  LoopType(S)'
<1>1. /\ inserting \in [req : S, seen : Seq(S)]
      /\ ring \in Seq(S) /\ inserting' = Nobody
  BY DEF InsertLink, LoopType
<1>2. Range(ring) \subseteq S /\ inserting.req \in S
  BY <1>1 DEF Range
<1>3. Append(ring, inserting.req) \in Seq(S) /\ <<inserting.req>> \in Seq(S)
  BY <1>1, <1>2
<1>4. /\ \/ ring' = ring \/ ring' = <<inserting.req>>
         \/ ring' = Append(ring, inserting.req)
      /\ \/ lost' = lost \/ lost' = lost \cup {inserting.req}
         \/ lost' = lost \cup Range(ring)
  BY DEF InsertLink
<1>5. ring' \in Seq(S)
  BY <1>1, <1>3, <1>4
<1>6. lost' \subseteq S
  BY <1>2, <1>4 DEF LoopType
<1> QED
  BY <1>1, <1>5, <1>6 DEF LoopType

\* Linking it keeps the number of copies, also when the racing writes lose a
\* request, as long as the request was not on its way to the loop's walk twice.
LEMMA CopiesLink ==
  ASSUME NEW S, LoopType(S), InsertLink, UNCHANGED <<batch, iocp>>,
         NEW r, r # <<>>, Copies(r) <= 1 + Count(batch, r), lpc' # "undefined"
  PROVE  Copies(r)' = Copies(r)
<1> DEFINE e == inserting.req
<1>1. /\ inserting \in [req : S, seen : Seq(S)]
      /\ ring \in Seq(S) /\ e \in S /\ inserting' = Nobody
  BY DEF InsertLink, LoopType
<1>2. Is(inserting.req, r)' = 0
  BY <1>1 DEF Is, Has, Nobody
<1>3. Count(batch, r)' = Count(batch, r) /\ Count(iocp, r)' = Count(iocp, r)
  OBVIOUS
<1>4. Is(e, r) \in {0, 1} /\ Has(lost, r) \in {0, 1}
        /\ Has(lost, r)' \in {0, 1}
  BY DEF Is, Has
<1>5. Count(ring, r)' + Has(lost, r)'
        = Count(ring, r) + Is(e, r) + Has(lost, r)
  <2>1. CASE ring' = Append(ring, inserting.req) /\ lost' = lost
    <3>1. Count(ring, r)' = Count(ring, r) + Is(e, r)
      BY <1>1, <2>1, CountAppend
    <3> QED
      BY <2>1, <3>1, <1>4, CountsType
  <2>2. CASE ring' = <<inserting.req>> /\ lost' = lost \cup Range(ring)
    <3>1. Count(ring, r)' = Is(e, r)
      BY <2>2, CountOne
    <3>2. Has(lost, r)' = Count(ring, r) + Has(lost, r)
      <4>1. Count(ring, r) = 0 <=> r \notin Range(ring)
        BY <1>1, CountRange
      <4>2. CASE Count(ring, r) = 0
        BY <2>2, <4>1, <4>2, <1>4 DEF Is, Has
      <4>3. CASE Count(ring, r) # 0
        <5>1. Count(ring, r) = 1 /\ Has(lost, r) = 0
          BY <4>3, CountsType DEF Copies
        <5>2. r \in lost'
          BY <2>2, <4>1, <4>3
        <5> QED
          BY <5>1, <5>2 DEF Is, Has
      <4> QED
        BY <4>2, <4>3
    <3> QED
      BY <3>1, <3>2, <1>4, CountsType
  <2>3. CASE ring' = ring /\ lost' = lost \cup {inserting.req}
    <3>1. CASE e = r
      <4>1. Is(e, r) = 1 /\ Has(lost, r) = 0 /\ Has(lost, r)' = 1
        <5>1. Is(inserting.req, r) = 1
          BY <3>1 DEF Is, Has
        <5>2. Has(lost, r) = 0
          BY <5>1, CountsType DEF Copies
        <5> QED
          BY <2>3, <3>1, <5>1, <5>2 DEF Is, Has
      <4> QED
        BY <2>3, <4>1, CountsType
    <3>2. CASE e # r
      <4>1. Is(e, r) = 0 /\ Has(lost, r)' = Has(lost, r)
        BY <2>3, <3>2 DEF Is, Has
      <4> QED
        BY <2>3, <4>1, CountsType
    <3> QED
      BY <3>1, <3>2
  <2> QED
    BY <2>1, <2>2, <2>3 DEF InsertLink
<1>6. Copies(r) = Count(ring, r) + Count(batch, r) + Count(iocp, r)
                    + Is(e, r) + Has(lost, r)
  BY DEF Copies
<1>7. Copies(r)' = Count(ring, r)' + Count(batch, r)' + Count(iocp, r)'
                     + Is(inserting.req, r)' + Has(lost, r)'
  BY DEF Copies
<1>8. Count(ring, r)' \in Nat
  <2>1. ring' \in Seq(S)
    BY LinkType DEF LoopType
  <2> QED
    BY <2>1, AtFinite
<1> QED
  BY <1>2, <1>3, <1>4, <1>5, <1>6, <1>7, <1>8, CountsType

\* The loop moves requests from the port to the ring and from the ring to the
\* list it walks, and neither forgets nor doubles one on the way.
LEMMA CopiesLoopStep ==
  ASSUME NEW S, LoopType(S), WalkInv, LoopStep, NEW r
  PROVE  LoopType(S)' /\ WalkInv' /\ Copies(r)' = Copies(r)
<1> USE DEF WalkInv
<1>0. ring \in Seq(S) /\ batch \in Seq(S) /\ iocp \in Seq(S)
  BY DEF LoopType
<1>1. CASE LoopCheck \/ BackendTimeout \/ MoreDone
  <2>1. UNCHANGED <<ring, batch, iocp, inserting, lost>>
    BY <1>1 DEF LoopCheck, BackendTimeout, MoreDone
  <2>2. WalkInv'
    BY <1>1, <2>1 DEF LoopCheck, BackendTimeout, MoreDone
  <2> QED
    BY <2>1, <2>2, CopiesUnchanged DEF LoopType
<1>2. CASE TakeRing
  <2>1. /\ batch = <<>> /\ batch' = ring /\ ring' = <<>>
        /\ UNCHANGED <<iocp, inserting, lost>>
        /\ lpc' \in {"process", "process_more"}
    BY <1>2 DEF TakeRing
  <2>2. /\ Count(batch, r)' = Count(ring, r) /\ Count(ring, r)' = 0
        /\ Count(batch, r) = 0
    BY <2>1, CountEmpty
  <2>3. LoopType(S)'
    BY <1>0, <2>1 DEF LoopType
  <2>4. WalkInv'
    BY <2>1
  <2> QED
    BY <2>1, <2>2, <2>3, <2>4, CountsType DEF Copies
<1>3. CASE Poll
  <2>1. /\ ring' = ring \o iocp /\ iocp' = <<>>
        /\ UNCHANGED <<batch, inserting, lost>> /\ batch = <<>>
    BY <1>3 DEF Poll
  <2>2. Count(ring, r)' = Count(ring, r) + Count(iocp, r)
    BY <1>0, <2>1, CountConcat
  <2>3. Count(iocp, r)' = 0
    BY <2>1, CountEmpty
  <2>4. LoopType(S)'
    BY <1>0, <2>1 DEF LoopType
  <2>5. WalkInv'
    BY <2>1
  <2> QED
    BY <2>1, <2>2, <2>3, <2>4, <2>5, CountsType DEF Copies
<1> QED
  BY <1>1, <1>2, <1>3 DEF LoopStep

LEMMA CopiesEndgames ==
  ASSUME NEW S, LoopType(S), WalkInv, Endgames, NEW r
  PROVE  LoopType(S)' /\ WalkInv' /\ Copies(r)' = Copies(r)
<1>1. UNCHANGED <<ring, batch, iocp, inserting, lost>> /\ batch = <<>>
  BY DEF Endgames, WalkInv
<1> QED
  BY <1>1, CopiesUnchanged DEF LoopType, WalkInv

===============================================================================
