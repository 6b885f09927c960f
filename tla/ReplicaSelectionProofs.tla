----------------------- MODULE ReplicaSelectionProofs -----------------------
(* FewOverlooked for any number of threads and of replicas.  The draws that  *)
(* are made from a shared cycle while a thread searches are consecutive: as  *)
(* long as they are fewer than the names, the names they covered are the     *)
(* last ones before the cycle's position, and each of them was refused to    *)
(* the thread or drawn by another.                                           *)
EXTENDS ReplicaSelection, FiniteSetTheorems, TLAPS

N(p) == Len(Names(p))

\* How many draws ago name k of a prefix came last, if no more than N(p).
Behind(p, k) == IF k <= drawn[p] THEN drawn[p] - k + 1 ELSE drawn[p] - k + 1 + N(p)

\* The names that the window of t covers, but for those refused to it, were
\* drawn by others.
CoveredBy(t, W) ==
    /\ W \subseteq Replicas(search[t])
    /\ Cardinality(W) <= others[t]
    /\ \A k \in 1 .. N(search[t]) :
          Behind(search[t], k) <= turns[t] + others[t]
             => Names(search[t])[k] \in refused[t] \cup W

\* random.choice leaves out what has refused.
SearchInv(t) ==
    search[t] \in Prefix =>
       IF Sequential THEN \E W : CoveredBy(t, W)
       ELSE Cardinality(Left(t)) + turns[t] <= N(search[t])

SelectionInv == ReadTypeOK /\ \A t \in Reader : SearchInv(t)

-----------------------------------------------------------------------------
LEMMA NamesAreStrings ==
  ASSUME NEW p \in Prefix
  PROVE  Names(p) \in Seq(STRING) /\ N(p) \in Nat /\ DOMAIN Names(p) = 1 .. N(p)
BY ReplicasAssumption DEF Names, N

LEMMA FewReplicas ==
  ASSUME NEW p \in Prefix
  PROVE  IsFiniteSet(Replicas(p)) /\ Cardinality(Replicas(p)) <= N(p)
<1> DEFINE f == [k \in 1 .. N(p) |-> Names(p)[k]]
<1>1. N(p) \in Nat /\ DOMAIN Names(p) = 1 .. N(p)
  BY NamesAreStrings
<1>2. f \in [1 .. N(p) -> Replicas(p)]
  BY <1>1 DEF Replicas
<1>3. \A r \in Replicas(p) : \E k \in 1 .. N(p) : f[k] = r
  BY <1>1 DEF Replicas
<1>4. ExistsSurjection(1 .. N(p), Replicas(p))
  BY <1>2, <1>3 DEF ExistsSurjection, Surjection
<1> QED
  BY <1>1, <1>4, FS_NatSurjection, FS_SurjCardinalityBound

\* The cycle's position after a draw.
LEMMA AfterIsNext ==
  ASSUME ReadTypeOK, NEW p \in Prefix, N(p) > 0
  PROVE  /\ drawn[p] \in 0 .. N(p) - 1
         /\ After(p) = IF drawn[p] + 1 = N(p) THEN 0 ELSE drawn[p] + 1
<1>1. N(p) \in Nat /\ drawn[p] \in Nat /\ (drawn[p] < N(p) \/ drawn[p] = 0)
  BY NamesAreStrings DEF ReadTypeOK, N
<1>2. \A n \in Nat \ {0} : \A c \in 0 .. n - 1 :
         (c + 1) % n = IF c + 1 = n THEN 0 ELSE c + 1
  OBVIOUS
<1> QED
  BY <1>1, <1>2 DEF After, N

-----------------------------------------------------------------------------
(* What a step may do to the search of a thread u.                           *)

\* Nothing.
LEMMA SearchStays ==
  ASSUME NEW u \in Reader, SearchInv(u), strategy' = strategy,
         search'[u] = search[u], turns'[u] = turns[u], refused'[u] = refused[u],
         others'[u] = others[u],
         search[u] \in Prefix => drawn'[search[u]] = drawn[search[u]]
  PROVE  SearchInv(u)'
<1> SUFFICES ASSUME search[u] \in Prefix PROVE SearchInv(u)'
  BY DEF SearchInv
<1>1. CASE Sequential
  <2>1. PICK W : CoveredBy(u, W)
    BY <1>1 DEF SearchInv
  <2>2. CoveredBy(u, W)'
    BY <2>1 DEF CoveredBy, Behind, Replicas, N, Names
  <2> QED
    BY <1>1, <2>2 DEF SearchInv, Sequential
<1>2. CASE ~Sequential
  BY <1>2 DEF SearchInv, Sequential, Left, Replicas, N, Names
<1> QED
  BY <1>1, <1>2

\* It begins: the window is empty, and nothing has refused.
LEMMA SearchBegins ==
  ASSUME ReadTypeOK', NEW u \in Reader, search'[u] \in Prefix,
         turns'[u] = 0, refused'[u] = {}, others'[u] = 0
  PROVE  SearchInv(u)'
<1> DEFINE p == search'[u]
<1>1. N(p) \in Nat /\ IsFiniteSet(Replicas(p)) /\ Cardinality(Replicas(p)) <= N(p)
  BY NamesAreStrings, FewReplicas
<1>2. drawn'[p] \in Nat
  BY DEF ReadTypeOK
<1>3. CoveredBy(u, {})'
  BY <1>1, <1>2, FS_EmptySet DEF CoveredBy, Behind, N, Names, Replicas
<1>4. (Cardinality(Left(u)) + turns[u] <= N(search[u]))'
  <2>1. Left(u)' = Replicas(p)
    BY DEF Left, Replicas, Names
  <2>2. Cardinality(Replicas(p)) \in Nat
    BY <1>1, FS_CardinalityType
  <2> QED
    BY <1>1, <2>1, <2>2 DEF N, Names
<1> QED
  BY <1>3, <1>4 DEF SearchInv

\* It is over.
LEMMA SearchEnds ==
  ASSUME NEW u \in Reader, search'[u] \notin Prefix
  PROVE  SearchInv(u)'
BY DEF SearchInv

\* A draw from the cycle puts the name drawn last in the window of whoever
\* walks the same prefix.
LEMMA WindowGrows ==
  ASSUME ReadTypeOK, ReadTypeOK', NEW p \in Prefix, N(p) > 0, drawn'[p] = After(p),
         NEW k \in 1 .. N(p), NEW w \in Nat, Behind(p, k)' <= w + 1
  PROVE  k = drawn[p] + 1 \/ Behind(p, k) <= w
<1>1. /\ N(p) \in Nat /\ drawn[p] \in 0 .. N(p) - 1
      /\ drawn'[p] = IF drawn[p] + 1 = N(p) THEN 0 ELSE drawn[p] + 1
  BY NamesAreStrings, AfterIsNext
<1>2. Behind(p, k)' = IF k <= drawn'[p] THEN drawn'[p] - k + 1
                      ELSE drawn'[p] - k + 1 + N(p)
  BY DEF Behind, N, Names
<1> QED
  BY <1>1, <1>2 DEF Behind

\* The window never holds more than all names.
LEMMA WindowIsAll ==
  ASSUME ReadTypeOK, NEW p \in Prefix, NEW k \in 1 .. N(p)
  PROVE  Behind(p, k) \in 1 .. N(p)
<1>1. N(p) \in Nat /\ drawn[p] \in Nat /\ (drawn[p] < N(p) \/ drawn[p] = 0)
  BY NamesAreStrings DEF ReadTypeOK, N
<1> QED
  BY <1>1 DEF Behind

-----------------------------------------------------------------------------
(* Types.                                                                    *)

LEMMA TypesKept ==
  ASSUME ReadTypeOK, [ReadNext]_readVars
  PROVE  ReadTypeOK'
<1>1. ASSUME NEW t \in Reader, Search(t) PROVE ReadTypeOK'
  BY <1>1 DEF ReadTypeOK, Search, EnterSearch, Prefix
<1>2. ASSUME NEW t \in Reader, Draw(t) PROVE ReadTypeOK'
  <2> DEFINE p == search[t]
  <2>1. p \in Prefix /\ N(p) \in Nat /\ DOMAIN Names(p) = 1 .. N(p) /\ N(p) > 0
    BY <1>2, NamesAreStrings DEF Draw, Drawing, ReadTypeOK, N
  <2>2. /\ drawn[p] \in 0 .. N(p) - 1 /\ After(p) \in Nat /\ After(p) < N(p)
    BY <2>1, AfterIsNext
  <2>3. Drawable(t) \subseteq Every
    <3>1. Names(p)[drawn[p] + 1] \in Replicas(p)
      BY <2>1, <2>2 DEF Replicas
    <3>2. Replicas(p) \subseteq Every
      BY <2>1 DEF Every, Prefix
    <3> QED
      BY <3>1, <3>2 DEF Drawable, Left
  <2>4. PICK r \in Drawable(t) :
           IF r \in connected[t] \cup reachable
           THEN /\ chosen' = [chosen EXCEPT ![t] = r]
                /\ connected' = [connected EXCEPT ![t] = @ \cup {r}]
                /\ search' = [search EXCEPT ![t] = "over"]
                /\ UNCHANGED <<turns, refused>>
           ELSE /\ turns' = [turns EXCEPT ![t] = @ + 1]
                /\ refused' = [refused EXCEPT ![t] = @ \cup {r}]
                /\ UNCHANGED <<search, connected, chosen>>
    BY <1>2 DEF Draw
  <2>5. /\ search' \in [Reader -> Prefix \cup {"idle", "over"}]
        /\ turns' \in [Reader -> Nat]
        /\ refused' \in [Reader -> SUBSET Every] /\ connected' \in [Reader -> SUBSET Every]
        /\ chosen' \in [Reader -> Every \cup {Primary}]
    <3>1. r \in Every
      BY <2>3
    <3>2. /\ search \in [Reader -> Prefix \cup {"idle", "over"}]
          /\ turns \in [Reader -> Nat]
          /\ refused \in [Reader -> SUBSET Every] /\ connected \in [Reader -> SUBSET Every]
          /\ chosen \in [Reader -> Every \cup {Primary}]
      BY DEF ReadTypeOK
    <3>3. /\ connected[t] \cup {r} \subseteq Every /\ refused[t] \cup {r} \subseteq Every
          /\ turns[t] + 1 \in Nat
      BY <3>1, <3>2
    <3>4. CASE r \in connected[t] \cup reachable
      BY <2>4, <3>1, <3>2, <3>3, <3>4
    <3>5. CASE r \notin connected[t] \cup reachable
      BY <2>4, <3>2, <3>3, <3>5
    <3> QED
      BY <3>4, <3>5
  <2>6. drawn' \in [Prefix -> Nat] /\ others' \in [Reader -> Nat]
    <3>1. drawn \in [Prefix -> Nat] /\ others \in [Reader -> Nat]
      BY DEF ReadTypeOK
    <3>2. CASE Sequential
      <4>1. /\ drawn' = [drawn EXCEPT ![p] = After(p)]
            /\ others' = [u \in Reader |->
                 IF u # t /\ search[u] = search[t] /\ others[u] < Len(Names(search[u]))
                 THEN others[u] + 1 ELSE others[u]]
        BY <1>2, <3>2 DEF Draw
      <4>2. drawn' \in [Prefix -> Nat]
        BY <2>2, <3>1, <4>1
      <4>3. \A u \in Reader : others[u] \in Nat /\ others[u] + 1 \in Nat
        BY <3>1
      <4>4. others' \in [Reader -> Nat]
        BY <4>1, <4>3
      <4> QED
        BY <4>2, <4>4
    <3>3. CASE ~Sequential
      BY <1>2, <3>1, <3>3 DEF Draw
    <3> QED
      BY <3>2, <3>3
  <2>7. \A q \in Prefix : drawn'[q] < Len(Names(q)) \/ drawn'[q] = 0
    BY <1>2, <2>1, <2>2 DEF Draw, ReadTypeOK, N
  <2> QED
    BY <1>2, <2>5, <2>6, <2>7 DEF Draw, ReadTypeOK, Names, Every, Replicas
<1>3. ASSUME NEW t \in Reader, FallBack(t) PROVE ReadTypeOK'
  <2>1. CASE EnterSearch(t, "cross_region_replica_") /\ UNCHANGED chosen
    BY <1>3, <2>1 DEF ReadTypeOK, FallBack, EnterSearch, Prefix
  <2>2. CASE /\ search' = [search EXCEPT ![t] = "over"]
             /\ UNCHANGED <<turns, refused, others, chosen>>
    BY <1>3, <2>2 DEF ReadTypeOK, FallBack
  <2> QED
    BY <1>3, <2>1, <2>2 DEF FallBack
<1>4. ASSUME NEW t \in Reader, CloseConnection(t) PROVE ReadTypeOK'
  BY <1>4 DEF ReadTypeOK, CloseConnection
<1>5. ASSUME Change PROVE ReadTypeOK'
  BY <1>5 DEF ReadTypeOK, Change, readers
<1>6. CASE UNCHANGED readVars
  BY <1>6 DEF ReadTypeOK, readVars, readers
<1> QED
  BY <1>1, <1>2, <1>3, <1>4, <1>5, <1>6 DEF ReadNext

-----------------------------------------------------------------------------
(* Steps.                                                                    *)

\* next(sequence): t's refused names or the others' draws gain the name drawn.
LEMMA SharedDraw ==
  ASSUME SelectionInv, ReadTypeOK', Sequential, NEW t \in Reader, Draw(t), NEW u \in Reader
  PROVE  SearchInv(u)'
<1>a. PICK p : p = search[t]
  OBVIOUS
<1>b. PICK x : x = Names(p)[drawn[p] + 1]
  OBVIOUS
<1>1. p \in Prefix /\ N(p) \in Nat /\ DOMAIN Names(p) = 1 .. N(p) /\ N(p) > 0
  BY <1>a, NamesAreStrings DEF Draw, Drawing, SelectionInv, ReadTypeOK, N
<1>2. drawn[p] \in 0 .. N(p) - 1 /\ x \in Replicas(p)
  BY <1>b, <1>1, AfterIsNext DEF SelectionInv, Replicas
<1>3. /\ strategy' = strategy /\ Sequential'
      /\ drawn' = [drawn EXCEPT ![p] = After(p)]
      /\ others' = [v \in Reader |->
            IF v # t /\ search[v] = p /\ others[v] < N(p) THEN others[v] + 1 ELSE others[v]]
  BY <1>a DEF Draw, Sequential, N
<1>4. drawn'[p] = After(p) /\ \A q \in Prefix : q # p => drawn'[q] = drawn[q]
  BY <1>1, <1>3 DEF SelectionInv, ReadTypeOK
<1>5. \/ search' = [search EXCEPT ![t] = "over"] /\ UNCHANGED <<turns, refused>>
      \/ /\ turns' = [turns EXCEPT ![t] = @ + 1]
         /\ refused' = [refused EXCEPT ![t] = @ \cup {x}]
         /\ UNCHANGED search
  <2>1. Drawable(t) = {x}
    BY <1>a, <1>b DEF Drawable
  <2> QED
    BY <2>1 DEF Draw
<1>6. /\ turns \in [Reader -> Nat] /\ others \in [Reader -> Nat]
      /\ refused \in [Reader -> SUBSET Every]
      /\ search \in [Reader -> Prefix \cup {"idle", "over"}]
      /\ "over" \notin Prefix
  BY DEF SelectionInv, ReadTypeOK, Prefix
<1>7. CASE search'[u] \notin Prefix
  BY <1>7, SearchEnds
<1>8. CASE search'[u] \in Prefix /\ search[u] = p
  <2>1. search'[u] = p
    BY <1>5, <1>6, <1>8
  <2>2. PICK W : CoveredBy(u, W)
    BY <1>1, <1>8 DEF SelectionInv, SearchInv
  <2>3. /\ W \subseteq Replicas(p) /\ Cardinality(W) <= others[u] /\ IsFiniteSet(W)
        /\ Cardinality(W) \in Nat /\ IsFiniteSet(Replicas(p))
        /\ Cardinality(Replicas(p)) <= N(p)
    BY <1>1, <1>8, <2>2, FewReplicas, FS_Subset, FS_CardinalityType DEF CoveredBy
  <2>4. \A k \in 1 .. N(p) :
           Behind(p, k) <= turns[u] + others[u] => Names(p)[k] \in refused[u] \cup W
    BY <1>8, <2>2 DEF CoveredBy
  <2>5. \A k \in 1 .. N(p) : Behind(p, k)' <= turns[u] + others[u] + 1
           => k = drawn[p] + 1 \/ Behind(p, k) <= turns[u] + others[u]
    BY <1>1, <1>4, <1>6, WindowGrows DEF SelectionInv
  <2>6. CASE u = t
    <3>1. turns'[u] = turns[u] + 1 /\ refused'[u] = refused[u] \cup {x} /\ others'[u] = others[u]
      BY <1>3, <1>5, <1>6, <1>8, <2>6
    <3>2. turns'[u] + others'[u] = turns[u] + others[u] + 1
      BY <1>6, <3>1
    <3>3. \A k \in 1 .. N(p) : Behind(p, k)' <= turns'[u] + others'[u]
             => Names(p)[k] \in refused'[u] \cup W
      BY <1>b, <2>4, <2>5, <3>1, <3>2
    <3>4. CoveredBy(u, W)'
      BY <2>1, <2>3, <3>1, <3>3 DEF CoveredBy, Behind, Replicas, N, Names
    <3> QED
      BY <1>3, <3>4 DEF SearchInv
  <2>7. CASE u # t /\ others[u] < N(p)
    <3>1. turns'[u] = turns[u] /\ refused'[u] = refused[u] /\ others'[u] = others[u] + 1
      BY <1>3, <1>5, <1>6, <1>8, <2>7
    <3>2. turns'[u] + others'[u] = turns[u] + others[u] + 1
      BY <1>6, <3>1
    <3> DEFINE V == W \cup {x}
    <3>3. Cardinality(V) <= others'[u]
      <4>1. Cardinality(V) <= Cardinality(W) + 1 /\ Cardinality(V) \in Nat
        <5>1. IsFiniteSet(V) /\ Cardinality(V)
                = IF x \in W THEN Cardinality(W) ELSE Cardinality(W) + 1
          BY <2>3, FS_AddElement
        <5> QED
          BY <2>3, <5>1
      <4>2. others[u] \in Nat
        BY <1>6
      <4> HIDE DEF V
      <4> QED
        BY <2>3, <3>1, <4>1, <4>2
    <3>4. \A k \in 1 .. N(p) : Behind(p, k)' <= turns'[u] + others'[u]
             => Names(p)[k] \in refused'[u] \cup V
      BY <1>b, <2>4, <2>5, <3>1, <3>2
    <3>5. CoveredBy(u, V)'
      BY <1>2, <2>1, <2>3, <3>3, <3>4 DEF CoveredBy, Behind, Replicas, N, Names
    <3> QED
      BY <1>3, <3>5 DEF SearchInv
  <2>8. CASE u # t /\ ~(others[u] < N(p))
    <3>1. others'[u] = others[u]
      BY <1>3, <1>6, <2>8
    <3>2. Cardinality(Replicas(p)) <= others'[u]
      BY <1>1, <1>6, <2>3, <2>8, <3>1, FS_CardinalityType
    <3>3. \A k \in 1 .. N(p) : Names(p)[k] \in Replicas(p)
      BY <1>1 DEF Replicas
    <3>4. CoveredBy(u, Replicas(p))'
      BY <2>1, <3>2, <3>3 DEF CoveredBy, Replicas, N, Names
    <3> QED
      BY <1>3, <3>4 DEF SearchInv
  <2> QED
    BY <2>6, <2>7, <2>8
<1>9. CASE search'[u] \in Prefix /\ search[u] # p
  <2>1. u # t /\ search'[u] = search[u] /\ turns'[u] = turns[u] /\ refused'[u] = refused[u]
    <3>1. u # t
      BY <1>a, <1>9
    <3> QED
      BY <1>5, <1>6, <3>1
  <2>2. others'[u] = others[u] /\ (search[u] \in Prefix => drawn'[search[u]] = drawn[search[u]])
    BY <1>3, <1>4, <1>9
  <2> QED
    BY <1>3, <2>1, <2>2, SearchStays DEF SelectionInv
<1> QED
  BY <1>7, <1>8, <1>9

\* random.choice: one name fewer is left.
LEMMA RandomDraw ==
  ASSUME SelectionInv, ~Sequential, NEW t \in Reader, Draw(t), NEW u \in Reader
  PROVE  SearchInv(u)'
<1>1. PICK r \in Left(t) :
         \/ search' = [search EXCEPT ![t] = "over"] /\ UNCHANGED <<turns, refused>>
         \/ /\ turns' = [turns EXCEPT ![t] = @ + 1]
            /\ refused' = [refused EXCEPT ![t] = @ \cup {r}]
            /\ UNCHANGED search
  BY DEF Draw, Drawable
<1>2. UNCHANGED <<strategy, drawn, others>> /\ ~Sequential' /\ search[t] \in Prefix
  BY DEF Draw, Drawing, Sequential
<1>3. /\ turns \in [Reader -> Nat] /\ refused \in [Reader -> SUBSET Every]
      /\ search \in [Reader -> Prefix \cup {"idle", "over"}]
      /\ "over" \notin Prefix
  BY DEF SelectionInv, ReadTypeOK, Prefix
<1>4. CASE u # t
  BY <1>1, <1>2, <1>3, <1>4, SearchStays DEF SelectionInv
<1>5. CASE u = t /\ search'[t] \notin Prefix
  BY <1>5, SearchEnds
<1>6. CASE u = t /\ search'[t] \in Prefix
  <2>1. /\ search'[t] = search[t] /\ turns'[t] = turns[t] + 1
        /\ refused'[t] = refused[t] \cup {r}
    BY <1>1, <1>3, <1>6
  <2>2. Left(t)' = Left(t) \ {r}
    BY <2>1 DEF Left, Replicas, Names
  <2>3. IsFiniteSet(Left(t)) /\ Cardinality(Left(t)) \in Nat
    BY <1>2, FewReplicas, FS_Subset, FS_CardinalityType DEF Left
  <2>4. Cardinality(Left(t)') = Cardinality(Left(t)) - 1
    BY <1>1, <2>2, <2>3, FS_RemoveElement
  <2>5. Cardinality(Left(t)) + turns[t] <= N(search[t]) /\ N(search[t]) \in Nat
    BY <1>2, NamesAreStrings DEF SelectionInv, SearchInv
  <2>6. Cardinality(Left(t)') + turns'[t] <= N(search[t])
    BY <1>3, <2>1, <2>3, <2>4, <2>5
  <2> QED
    BY <1>2, <1>6, <2>1, <2>6 DEF SearchInv, N, Names
<1> QED
  BY <1>4, <1>5, <1>6

LEMMA SelectionKept ==
  ASSUME SelectionInv, [ReadNext]_readVars
  PROVE  SelectionInv'
<1>1. ReadTypeOK /\ ReadTypeOK'
  BY TypesKept DEF SelectionInv
<1> SUFFICES ASSUME NEW u \in Reader PROVE SearchInv(u)'
  BY <1>1 DEF SelectionInv
<1>2. SearchInv(u)
  BY DEF SelectionInv
<1>3. ASSUME NEW t \in Reader, Draw(t) PROVE SearchInv(u)'
  BY <1>1, <1>3, SharedDraw, RandomDraw
<1>4. ASSUME NEW t \in Reader, Search(t) \/ FallBack(t) PROVE SearchInv(u)'
  <2>1. UNCHANGED <<strategy, drawn>>
    BY <1>4 DEF Search, FallBack
  <2>2. CASE u = t /\ search'[u] \in Prefix
    <3>1. turns'[u] = 0 /\ refused'[u] = {} /\ others'[u] = 0
      BY <1>1, <1>4, <2>2 DEF ReadTypeOK, Search, FallBack, EnterSearch, Prefix
    <3> QED
      BY <1>1, <2>2, <3>1, SearchBegins
  <2>3. CASE search'[u] \notin Prefix
    BY <2>3, SearchEnds
  <2>4. CASE u # t
    <3>1. /\ search'[u] = search[u] /\ turns'[u] = turns[u]
          /\ refused'[u] = refused[u] /\ others'[u] = others[u]
      <4>1. CASE Search(t)
        BY <1>1, <2>4, <4>1 DEF ReadTypeOK, Search, EnterSearch
      <4>2. CASE FallBack(t)
        BY <1>1, <2>4, <4>2 DEF ReadTypeOK, FallBack, EnterSearch
      <4> QED
        BY <1>4, <4>1, <4>2
    <3> QED
      BY <1>2, <2>1, <3>1, SearchStays
  <2> QED
    BY <2>2, <2>3, <2>4
<1>5. ASSUME NEW t \in Reader, CloseConnection(t) PROVE SearchInv(u)'
  <2>1. /\ UNCHANGED <<strategy, drawn, turns, refused, others>>
        /\ search' = [search EXCEPT ![t] = "idle"]
    BY <1>5 DEF CloseConnection
  <2>2. CASE u = t
    BY <1>1, <2>1, <2>2, SearchEnds DEF ReadTypeOK, Prefix
  <2>3. CASE u # t
    BY <1>1, <1>2, <2>1, <2>3, SearchStays DEF ReadTypeOK
  <2> QED
    BY <2>2, <2>3
<1>6. CASE Change \/ UNCHANGED readVars
  BY <1>2, <1>6, SearchStays DEF Change, readVars, readers
<1> QED
  BY <1>3, <1>4, <1>5, <1>6 DEF ReadNext

-----------------------------------------------------------------------------
LEMMA SelectionInvariant == ReadSpec => []SelectionInv
<1>1. ReadInit => SelectionInv
  <2> SUFFICES ASSUME ReadInit PROVE SelectionInv
    OBVIOUS
  <2>1. ReadTypeOK
    BY DEF ReadInit, ReadTypeOK, Prefix
  <2>2. \A u \in Reader : SearchInv(u)
    BY DEF ReadInit, SearchInv, Prefix
  <2> QED
    BY <2>1, <2>2 DEF SelectionInv
<1> QED
  BY <1>1, SelectionKept, PTL DEF ReadSpec

\* A thread whose loop ends without a replica has overlooked at most one for
\* each draw of another, for any number of threads and replicas.
THEOREM OverlooksFew == ReadSpec => []FewOverlooked
<1>1. SelectionInv => FewOverlooked
  <2> SUFFICES ASSUME SelectionInv, NEW t \in Reader, search[t] \in Prefix, ~Drawing(t)
               PROVE  Cardinality(Left(t)) <= others[t]
    BY DEF FewOverlooked
  <2> DEFINE p == search[t]
  <2>1. /\ N(p) \in Nat /\ DOMAIN Names(p) = 1 .. N(p)
        /\ turns[t] \in Nat /\ others[t] \in Nat /\ N(p) <= turns[t]
    BY NamesAreStrings DEF SelectionInv, ReadTypeOK, Drawing, N
  <2>2. IsFiniteSet(Replicas(p)) /\ IsFiniteSet(Left(t)) /\ Cardinality(Left(t)) \in Nat
    BY FewReplicas, FS_Subset, FS_CardinalityType DEF Left
  <2>3. CASE Sequential
    <3>1. PICK W : CoveredBy(t, W)
      BY <2>3 DEF SelectionInv, SearchInv
    <3>2. \A k \in 1 .. N(p) : Names(p)[k] \in refused[t] \cup W
      BY <2>1, <3>1, WindowIsAll DEF CoveredBy, SelectionInv
    <3>3. Left(t) \subseteq W
      BY <2>1, <3>2 DEF Left, Replicas
    <3>4. IsFiniteSet(W) /\ Cardinality(W) \in Nat /\ Cardinality(W) <= others[t]
      BY <2>2, <3>1, FS_Subset, FS_CardinalityType DEF CoveredBy
    <3>5. Cardinality(Left(t)) <= Cardinality(W)
      BY <3>3, <3>4, FS_Subset
    <3> QED
      BY <2>1, <2>2, <3>4, <3>5
  <2>4. CASE ~Sequential
    <3>1. Cardinality(Left(t)) + turns[t] <= N(p)
      BY <2>4 DEF SelectionInv, SearchInv
    <3> QED
      BY <2>1, <2>2, <3>1
  <2> QED
    BY <2>3, <2>4
<1> QED
  BY <1>1, SelectionInvariant, PTL
=============================================================================
