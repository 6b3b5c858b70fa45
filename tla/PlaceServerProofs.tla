------------------------- MODULE PlaceServerProofs -------------------------
(***************************************************************************)
(* Proofs about PlaceServer for any number of clients, entities, tracks    *)
(* and requests.                                                           *)
(***************************************************************************)
EXTENDS PlaceServer, FiniteSetTheorems, WellFoundedInduction, TLAPS

-----------------------------------------------------------------------------
(* Recursive functions.  Induction is used on sets of natural numbers.     *)

LEMMA LeastElement ==
  ASSUME NEW T \in SUBSET Nat, T # {}
  PROVE  \E x \in T : \A y \in T : x <= y
<1>1. IsWellFoundedOn(OpToRel(<, Nat), Nat)
  BY NatLessThanWellFounded
<1>2. PICK x \in T : \A y \in T : <<y, x>> \notin OpToRel(<, Nat)
  BY <1>1, WFMin
<1>3. \A y \in T : ~(y < x)
  BY <1>2 DEF OpToRel
<1> QED BY <1>3

LEMMA Induction ==
  ASSUME NEW S \in SUBSET Nat, 0 \in S, \A n \in S : n + 1 \in S
  PROVE  \A n \in Nat : n \in S
<1> SUFFICES ASSUME Nat \ S # {}
             PROVE  FALSE
  OBVIOUS
<1>1. PICK x \in Nat \ S : \A y \in Nat \ S : x <= y
  BY LeastElement
<1>2. x - 1 \in Nat /\ x - 1 \in S
  BY <1>1
<1> QED BY <1>1, <1>2

\* The values that steps lead to from a base, up to the N-th.
Iterates(T, base, step, N) ==
  {f \in [0 .. N -> T] : /\ f[0] = base
                         /\ \A n \in 1 .. N : f[n] = step[n][f[n - 1]]}

LEMMA IteratesExist ==
  ASSUME NEW T, NEW base \in T, NEW step \in [Nat -> [T -> T]], NEW N \in Nat
  PROVE  Iterates(T, base, step, N) # {}
<1> DEFINE S == {n \in Nat : Iterates(T, base, step, n) # {}}
<1>1. 0 \in S
  <2>1. [n \in 0 .. 0 |-> base] \in Iterates(T, base, step, 0)
    BY DEF Iterates
  <2> QED BY <2>1
<1>2. ASSUME NEW n \in S
      PROVE  n + 1 \in S
  <2>1. PICK f : f \in Iterates(T, base, step, n)
    OBVIOUS
  <2> DEFINE g == [m \in 0 .. n + 1 |-> IF m = n + 1 THEN step[n + 1][f[n]] ELSE f[m]]
  <2>2. f \in [0 .. n -> T] /\ f[0] = base /\ \A m \in 1 .. n : f[m] = step[m][f[m - 1]]
    BY <2>1 DEF Iterates
  <2>3. g \in [0 .. n + 1 -> T]
    BY <2>2
  <2>4. g[0] = base
    BY <2>2
  <2>5. ASSUME NEW m \in 1 .. n + 1
        PROVE  g[m] = step[m][g[m - 1]]
    <3>1. CASE m = n + 1
      BY <3>1
    <3>2. CASE m # n + 1
      <4>1. m \in 1 .. n /\ m - 1 \in 0 .. n + 1 /\ m - 1 # n + 1
        BY <3>2
      <4> QED BY <4>1, <2>2
    <3> QED BY <3>1, <3>2
  <2>6. g \in Iterates(T, base, step, n + 1)
    BY <2>3, <2>4, <2>5 DEF Iterates
  <2> QED BY <2>6
<1> HIDE DEF S
<1>3. \A n \in Nat : n \in S
  BY <1>1, <1>2, Induction DEF S
<1> QED BY <1>3 DEF S

-----------------------------------------------------------------------------
(* What goes with an entity.                                               *)

\* Entities that can be removed: finitely many, with numbers for ids.
Tree(es) ==
  /\ es = [e \in DOMAIN es |-> es[e]]
  /\ DOMAIN es \subseteq Nat
  /\ IsFiniteSet(DOMAIN es)

\* Together with an entity the set has everything below it.
Closed(es, S) == \A x \in DOMAIN es : es[x].parent \in S => x \in S

Deeper(es, S) == S \cup {x \in DOMAIN es : es[x].parent \in S}

\* The sets that the recursion of Cascade goes through
Below(es, e) ==
  {f \in [0 .. Cardinality(DOMAIN es) -> SUBSET DOMAIN es] :
     /\ f[0] = {e}
     /\ \A n \in 1 .. Cardinality(DOMAIN es) : f[n] = Deeper(es, f[n - 1])}

LEMMA CascadeIterates ==
  ASSUME NEW es, Tree(es), NEW e \in DOMAIN es
  PROVE  \E below \in Below(es, e) : Cascade(es, e) = below[Cardinality(DOMAIN es)]
<1> DEFINE N == Cardinality(DOMAIN es)
           D == SUBSET DOMAIN es
           step == [n \in Nat |-> [S \in D |-> Deeper(es, S)]]
           Recursive(f) ==
             f = [n \in 0 .. N |->
                    IF n = 0 THEN {e}
                    ELSE f[n - 1] \cup {x \in DOMAIN es : es[x].parent \in f[n - 1]}]
           below == CHOOSE f : Recursive(f)
<1>1. N \in Nat
  BY FS_CardinalityType DEF Tree
<1>2. step \in [Nat -> [D -> D]]
  BY DEF Deeper
<1>3. {e} \in D
  OBVIOUS
<1>4. PICK f : f \in Iterates(D, {e}, step, N)
  <2> HIDE DEF D, N, step
  <2>1. Iterates(D, {e}, step, N) # {}
    BY <1>1, <1>2, <1>3, IteratesExist
  <2> QED BY <2>1
<1>5. \E g : Recursive(g)
  <2>1. f \in [0 .. N -> D] /\ f[0] = {e} /\ \A n \in 1 .. N : f[n] = step[n][f[n - 1]]
    BY <1>4 DEF Iterates
  <2>2. \A n \in 1 .. N : n \in Nat /\ f[n - 1] \in D
    BY <2>1, <1>1
  <2>3. \A n \in 1 .. N : f[n] = Deeper(es, f[n - 1])
    BY <2>1, <2>2
  <2>4. \A n \in 0 .. N : n = 0 \/ n \in 1 .. N
    BY <1>1
  <2>5. Recursive(f)
    <3> HIDE DEF N, D
    <3> QED BY <2>1, <2>3, <2>4 DEF Deeper
  <2> QED BY <2>5
<1>6. Recursive(below)
  BY <1>5
<1>7. Cascade(es, e) = below[N]
  BY DEF Cascade, N, below
<1>8. /\ below[0] = {e}
      /\ \A n \in 1 .. N : below[n] = Deeper(es, below[n - 1])
      /\ below = [n \in 0 .. N |-> below[n]]
  <2>1. below = [n \in 0 .. N |->
                  IF n = 0 THEN {e}
                  ELSE below[n - 1] \cup {x \in DOMAIN es : es[x].parent \in below[n - 1]}]
    BY <1>6
  <2> HIDE DEF N, D, below
  <2> QED BY <2>1, <1>1 DEF Deeper
<1> HIDE DEF N, D, below
<1>9. \A n \in Nat : n \in {m \in Nat : m <= N => below[m] \in D}
  <2> DEFINE S == {m \in Nat : m <= N => below[m] \in D}
  <2>1. 0 \in S
    BY <1>3, <1>8
  <2>2. ASSUME NEW n \in S
        PROVE  n + 1 \in S
    <3>1. n + 1 <= N => n + 1 \in 1 .. N /\ below[n] \in D /\ (n + 1) - 1 = n
      BY <1>1
    <3>2. n + 1 <= N => below[n + 1] = Deeper(es, below[n])
      BY <3>1, <1>8
    <3>3. \A X \in D : Deeper(es, X) \in D
      BY DEF Deeper, D
    <3> QED BY <3>1, <3>2, <3>3
  <2> HIDE DEF S
  <2> QED BY <2>1, <2>2, Induction DEF S
<1>10. below \in [0 .. N -> D]
  <2>1. \A n \in 0 .. N : below[n] \in D
    BY <1>1, <1>9
  <2> QED BY <2>1, <1>8
<1>11. below \in Below(es, e)
  BY <1>8, <1>10 DEF Below, N, D
<1> QED BY <1>7, <1>11 DEF N

\* The smallest set with e that is closed: it is reached after as many rounds
\* as there are entities, as each round before adds one.
LEMMA CascadeClosed ==
  ASSUME NEW es, Tree(es), NEW e \in DOMAIN es
  PROVE  /\ e \in Cascade(es, e)
         /\ Cascade(es, e) \subseteq DOMAIN es
         /\ Closed(es, Cascade(es, e))
<1> DEFINE N == Cardinality(DOMAIN es)
<1>1. N \in Nat
  BY FS_CardinalityType DEF Tree
<1>2. PICK below \in Below(es, e) : Cascade(es, e) = below[N]
  BY CascadeIterates
<1>3. /\ \A n \in 0 .. N : below[n] \subseteq DOMAIN es
      /\ below[0] = {e}
      /\ \A n \in 1 .. N : below[n] = Deeper(es, below[n - 1])
  BY <1>2 DEF Below
<1> HIDE DEF N
<1> DEFINE S == {n \in Nat : n <= N =>
                   /\ e \in below[n]
                   /\ Closed(es, below[n]) \/ Cardinality(below[n]) > n}
<1>4. 0 \in S
  <2>1. Cardinality({e}) = 1
    BY FS_Singleton
  <2> QED BY <2>1, <1>3
<1>5. ASSUME NEW n \in S
      PROVE  n + 1 \in S
  <2> SUFFICES ASSUME n + 1 <= N
               PROVE  /\ e \in below[n + 1]
                      /\ Closed(es, below[n + 1]) \/ Cardinality(below[n + 1]) > n + 1
    OBVIOUS
  <2>1. n \in 0 .. N /\ n + 1 \in 1 .. N /\ n + 1 \in 0 .. N /\ (n + 1) - 1 = n
    BY <1>1
  <2>2. below[n + 1] = Deeper(es, below[n]) /\ below[n] \subseteq DOMAIN es
        /\ below[n + 1] \subseteq DOMAIN es
    BY <2>1, <1>3
  <2>3. e \in below[n + 1]
    BY <2>1, <2>2 DEF Deeper
  <2>4. CASE Closed(es, below[n])
    <3>1. below[n + 1] = below[n]
      BY <2>4, <2>2 DEF Closed, Deeper
    <3> QED BY <3>1, <2>3, <2>4
  <2>5. CASE ~Closed(es, below[n])
    <3>1. PICK x \in DOMAIN es : es[x].parent \in below[n] /\ x \notin below[n]
      BY <2>5 DEF Closed
    <3>2. below[n] \cup {x} \subseteq below[n + 1]
      BY <3>1, <2>2 DEF Deeper
    <3>3. IsFiniteSet(below[n]) /\ IsFiniteSet(below[n + 1])
      BY <2>2, FS_Subset DEF Tree
    <3>4. Cardinality(below[n] \cup {x}) = Cardinality(below[n]) + 1
      BY <3>1, <3>3, FS_AddElement
    <3>5. Cardinality(below[n] \cup {x}) <= Cardinality(below[n + 1])
      BY <3>2, <3>3, FS_Subset
    <3>6. Cardinality(below[n]) > n
      BY <2>1, <2>5
    <3>7. Cardinality(below[n]) \in Nat /\ Cardinality(below[n + 1]) \in Nat
      BY <3>3, FS_CardinalityType
    <3> QED BY <2>3, <3>4, <3>5, <3>6, <3>7
  <2> QED BY <2>4, <2>5
<1> HIDE DEF S
<1>6. N \in S
  BY <1>1, <1>4, <1>5, Induction DEF S
<1>7. N \in 0 .. N
  BY <1>1
<1>8. /\ e \in below[N] /\ below[N] \subseteq DOMAIN es
      /\ Closed(es, below[N]) \/ Cardinality(below[N]) > N
  BY <1>1, <1>3, <1>6, <1>7 DEF S
<1>9. Cardinality(below[N]) <= N /\ Cardinality(below[N]) \in Nat
  <2>1. IsFiniteSet(below[N]) /\ Cardinality(below[N]) <= Cardinality(DOMAIN es)
    BY <1>8, FS_Subset DEF Tree
  <2> QED BY <2>1, FS_CardinalityType DEF N
<1> QED BY <1>1, <1>2, <1>8, <1>9

\* Nothing but e goes without its parent.
LEMMA CascadeParents ==
  ASSUME NEW es, Tree(es), NEW e \in DOMAIN es
  PROVE  \A x \in Cascade(es, e) : x = e \/ es[x].parent \in Cascade(es, e)
<1> DEFINE N == Cardinality(DOMAIN es)
<1>1. N \in Nat
  BY FS_CardinalityType DEF Tree
<1>2. PICK below \in Below(es, e) : Cascade(es, e) = below[N]
  BY CascadeIterates
<1>3. /\ below[0] = {e}
      /\ \A n \in 1 .. N : below[n] = Deeper(es, below[n - 1])
  BY <1>2 DEF Below
<1> HIDE DEF N
<1> DEFINE S == {n \in Nat : n <= N => \A x \in below[n] : x = e \/ es[x].parent \in below[n]}
<1>4. 0 \in S
  BY <1>3
<1>5. ASSUME NEW n \in S
      PROVE  n + 1 \in S
  <2> SUFFICES ASSUME n + 1 <= N, NEW x \in below[n + 1]
               PROVE  x = e \/ es[x].parent \in below[n + 1]
    OBVIOUS
  <2>1. n + 1 \in 1 .. N /\ (n + 1) - 1 = n /\ n <= N
    BY <1>1
  <2>2. below[n + 1] = Deeper(es, below[n])
    BY <2>1, <1>3
  <2>3. \A y \in below[n] : y = e \/ es[y].parent \in below[n]
    BY <2>1
  <2> QED BY <2>2, <2>3 DEF Deeper
<1> HIDE DEF S
<1>6. N \in S
  BY <1>1, <1>4, <1>5, Induction DEF S
<1> QED BY <1>1, <1>2, <1>6 DEF S

\* Where every entity is newer than its parent, all that goes with e is newer.
LEMMA CascadeNewer ==
  ASSUME NEW es, Tree(es), NEW e \in DOMAIN es,
         \A x \in DOMAIN es : es[x].parent # None => es[x].parent < x
  PROVE  \A x \in Cascade(es, e) : e <= x
<1> DEFINE N == Cardinality(DOMAIN es)
<1>1. N \in Nat
  BY FS_CardinalityType DEF Tree
<1>2. PICK below \in Below(es, e) : Cascade(es, e) = below[N]
  BY CascadeIterates
<1>3. /\ \A n \in 0 .. N : below[n] \subseteq DOMAIN es
      /\ below[0] = {e}
      /\ \A n \in 1 .. N : below[n] = Deeper(es, below[n - 1])
  BY <1>2 DEF Below
<1> HIDE DEF N
<1> DEFINE S == {n \in Nat : n <= N => \A x \in below[n] : e <= x}
<1>4. 0 \in S
  BY <1>3 DEF Tree
<1>5. ASSUME NEW n \in S
      PROVE  n + 1 \in S
  <2> SUFFICES ASSUME n + 1 <= N, NEW x \in below[n + 1]
               PROVE  e <= x
    OBVIOUS
  <2>1. n \in 0 .. N /\ n + 1 \in 1 .. N /\ (n + 1) - 1 = n /\ n <= N
    BY <1>1
  <2>2. below[n + 1] = Deeper(es, below[n]) /\ below[n] \subseteq DOMAIN es
    BY <2>1, <1>3
  <2>3. \A y \in below[n] : e <= y /\ y \in Nat /\ y # None
    BY <2>1, <2>2, PlaceAssumption DEF Tree
  <2>4. CASE x \in below[n]
    BY <2>3, <2>4
  <2>5. CASE x \in DOMAIN es /\ es[x].parent \in below[n]
    <3>1. es[x].parent < x /\ e <= es[x].parent /\ es[x].parent \in Nat /\ x \in Nat /\ e \in Nat
      BY <2>3, <2>5 DEF Tree
    <3> QED BY <3>1
  <2> QED BY <2>2, <2>4, <2>5 DEF Deeper
<1> HIDE DEF S
<1>6. N \in S
  BY <1>1, <1>4, <1>5, Induction DEF S
<1> QED BY <1>1, <1>2, <1>6 DEF S

-----------------------------------------------------------------------------
(* What is left of an owner.                                               *)

Restrictions(es) == {Restrict(es, D) : D \in SUBSET DOMAIN es}

Cleaned(es) == [left : Restrictions(es), safe : BOOLEAN]

\* One round of Cleanup: entity n of the list
Round(before, n, owner) ==
  IF n \in DOMAIN before.left /\ before.left[n].owner = owner
    THEN [left |-> WithoutCascade(before.left, n),
          safe |-> /\ before.safe
                   /\ Successor(before.left, n) \cap Cascade(before.left, n) = {}]
    ELSE before

\* The results that the recursion of Cleanup goes through
Rounds(es, owner) ==
  {f \in [0 .. MaxEntities + 1 -> Cleaned(es)] :
     /\ f[0] = [left |-> es, safe |-> TRUE]
     /\ \A k \in 1 .. MaxEntities + 1 : f[k] = Round(f[k - 1], (MaxEntities + 1) - k, owner)}

LEMMA RestrictionTypes ==
  ASSUME NEW es, Tree(es), NEW left \in Restrictions(es)
  PROVE  /\ Tree(left)
         /\ DOMAIN left \subseteq DOMAIN es
         /\ \A x \in DOMAIN left : left[x] = es[x]
         /\ \A D \in SUBSET DOMAIN left : Restrict(left, D) \in Restrictions(es)
<1>1. PICK D \in SUBSET DOMAIN es : left = [x \in D |-> es[x]]
  BY DEF Restrictions, Restrict
<1>2. DOMAIN left = D /\ \A x \in D : left[x] = es[x]
  BY <1>1
<1>3. IsFiniteSet(D)
  BY FS_Subset DEF Tree
<1>4. \A E \in SUBSET D : Restrict(left, E) = Restrict(es, E)
  BY <1>2 DEF Restrict
<1>5. \A E \in SUBSET D : Restrict(left, E) \in Restrictions(es)
  BY <1>4 DEF Restrictions
<1>6. Tree(left)
  BY <1>1, <1>2, <1>3 DEF Tree
<1> QED BY <1>2, <1>5, <1>6

LEMMA WithoutCascadeIs ==
  ASSUME NEW es, Tree(es), NEW e \in DOMAIN es
  PROVE  /\ WithoutCascade(es, e) \in Restrictions(es)
         /\ DOMAIN WithoutCascade(es, e) = DOMAIN es \ Cascade(es, e)
         /\ e \notin DOMAIN WithoutCascade(es, e)
<1>1. WithoutCascade(es, e) = [x \in DOMAIN es \ Cascade(es, e) |-> es[x]]
  BY DEF WithoutCascade, Restrict
<1> QED BY <1>1, CascadeClosed DEF Restrictions, Restrict

LEMMA RoundTypes ==
  ASSUME NEW es, Tree(es), NEW before \in Cleaned(es), NEW n, NEW owner
  PROVE  Round(before, n, owner) \in Cleaned(es)
<1>1. before.left \in Restrictions(es) /\ before.safe \in BOOLEAN
  BY DEF Cleaned
<1>2. CASE n \in DOMAIN before.left /\ before.left[n].owner = owner
  <2>1. WithoutCascade(before.left, n) \in Restrictions(before.left)
    BY <1>1, <1>2, RestrictionTypes, WithoutCascadeIs
  <2>2. PICK D \in SUBSET DOMAIN before.left : WithoutCascade(before.left, n) = Restrict(before.left, D)
    BY <2>1 DEF Restrictions
  <2>3. WithoutCascade(before.left, n) \in Restrictions(es)
    BY <1>1, <2>2, RestrictionTypes
  <2> QED BY <1>2, <2>3 DEF Round, Cleaned
<1>3. CASE ~(n \in DOMAIN before.left /\ before.left[n].owner = owner)
  BY <1>3 DEF Round
<1> QED BY <1>2, <1>3

LEMMA CleanupRounds ==
  ASSUME NEW es, Tree(es), NEW owner
  PROVE  \E f \in Rounds(es, owner) : Cleanup(es, owner) = f[MaxEntities + 1]
<1> DEFINE N == MaxEntities + 1
           T == Cleaned(es)
           base == [left |-> es, safe |-> TRUE]
           step == [k \in Nat |-> [v \in T |-> Round(v, N - k, owner)]]
           Recursive(g) ==
             g = [n \in 0 .. N |->
                    IF n = N THEN base
                    ELSE LET before == g[n + 1]
                             now    == before.left
                         IN IF n \in DOMAIN now /\ now[n].owner = owner
                              THEN [left |-> WithoutCascade(now, n),
                                    safe |-> /\ before.safe
                                             /\ Successor(now, n) \cap Cascade(now, n) = {}]
                              ELSE before]
           after == CHOOSE g : Recursive(g)
<1>1. N \in Nat
  BY PlaceAssumption
<1>2. step \in [Nat -> [T -> T]]
  <2>1. ASSUME NEW v \in T, NEW k \in Nat
        PROVE  Round(v, N - k, owner) \in T
    BY RoundTypes
  <2> HIDE DEF T, N
  <2> QED BY <2>1
<1>3. base \in T
  <2>1. es \in Restrictions(es)
    BY DEF Restrictions, Restrict, Tree
  <2> QED BY <2>1 DEF Cleaned
<1>4. PICK f : f \in Iterates(T, base, step, N)
  <2> HIDE DEF T, base, step, N
  <2>1. Iterates(T, base, step, N) # {}
    BY <1>1, <1>2, <1>3, IteratesExist
  <2> QED BY <2>1
<1>5. \E g : Recursive(g)
  <2> DEFINE g == [n \in 0 .. N |-> f[N - n]]
  <2>1. /\ f \in [0 .. N -> T] /\ f[0] = base
        /\ \A k \in 1 .. N : f[k] = step[k][f[k - 1]]
    BY <1>4 DEF Iterates
  <2>2. g[N] = base
    <3>1. N \in 0 .. N /\ N - N = 0
      BY <1>1
    <3> HIDE DEF N, T, base
    <3> QED BY <3>1, <2>1
  <2>3. ASSUME NEW n \in 0 .. N, n # N
        PROVE  g[n] = Round(g[n + 1], n, owner)
    <3>1. /\ N - n \in 1 .. N /\ n + 1 \in 0 .. N /\ N - (n + 1) = (N - n) - 1
          /\ N - (N - n) = n /\ (N - n) - 1 \in 0 .. N /\ N - n \in Nat
      BY <1>1, <2>3
    <3> HIDE DEF N, T
    <3>2. f[N - n] = step[N - n][f[(N - n) - 1]] /\ f[(N - n) - 1] \in T
      BY <3>1, <2>1
    <3>3. f[N - n] = Round(f[(N - n) - 1], N - (N - n), owner)
      BY <3>1, <3>2
    <3> QED BY <3>1, <3>3
  <2>4. Recursive(g)
    <3> HIDE DEF N, base
    <3>1. g = [n \in 0 .. N |-> IF n = N THEN base ELSE Round(g[n + 1], n, owner)]
      BY <2>2, <2>3
    <3> QED BY <3>1 DEF Round
  <2> QED BY <2>4
<1>6. Recursive(after)
  BY <1>5
<1>7. Cleanup(es, owner) = after[0]
  BY DEF Cleanup
<1>8. \A n \in 0 .. N : after[n] = IF n = N THEN base ELSE Round(after[n + 1], n, owner)
  <2>1. after = [n \in 0 .. N |->
                   IF n = N THEN base
                   ELSE LET before == after[n + 1]
                            now    == before.left
                        IN IF n \in DOMAIN now /\ now[n].owner = owner
                             THEN [left |-> WithoutCascade(now, n),
                                   safe |-> /\ before.safe
                                            /\ Successor(now, n) \cap Cascade(now, n) = {}]
                             ELSE before]
    BY <1>6
  <2> HIDE DEF N, base, after
  <2> QED BY <2>1 DEF Round
<1> HIDE DEF N, after, T, base
<1> DEFINE f2 == [k \in 0 .. N |-> after[N - k]]
           S == {k \in Nat : k <= N => after[N - k] \in T}
<1>9. 0 \in S
  BY <1>1, <1>3, <1>8
<1>10. ASSUME NEW k \in S
       PROVE  k + 1 \in S
  <2>1. k + 1 <= N => /\ N - (k + 1) \in 0 .. N /\ N - (k + 1) # N
                      /\ (N - (k + 1)) + 1 = N - k /\ after[N - k] \in T
    BY <1>1
  <2> QED BY <2>1, <1>8, RoundTypes DEF T
<1> HIDE DEF S
<1>11. \A k \in 0 .. N : after[N - k] \in T
  <2>1. \A k \in Nat : k \in S
    BY <1>9, <1>10, Induction DEF S
  <2> QED BY <2>1, <1>1 DEF S
<1>12. ASSUME NEW k \in 1 .. N
       PROVE  f2[k] = Round(f2[k - 1], N - k, owner)
  <2>1. /\ N - k \in 0 .. N /\ N - k # N /\ (N - k) + 1 = N - (k - 1)
        /\ k \in 0 .. N /\ k - 1 \in 0 .. N
    BY <1>1
  <2> QED BY <2>1, <1>8
<1>13. f2 \in [0 .. N -> T] /\ f2[0] = base
  BY <1>1, <1>8, <1>11
<1>14. f2[N] = after[0]
  BY <1>1
<1>15. f2 \in Rounds(es, owner)
  <2> HIDE DEF f2
  <2>1. \A k \in 1 .. N : f2[k] = Round(f2[k - 1], N - k, owner)
    BY <1>12
  <2>2. \A k \in 1 .. MaxEntities + 1 :
          f2[k] = Round(f2[k - 1], (MaxEntities + 1) - k, owner)
    BY <2>1 DEF N
  <2>3. f2 \in [0 .. MaxEntities + 1 -> Cleaned(es)]
    BY <1>13 DEF N, T
  <2>4. f2[0] = [left |-> es, safe |-> TRUE]
    BY <1>13 DEF base
  <2> QED BY <2>2, <2>3, <2>4 DEF Rounds
<1> QED BY <1>7, <1>14, <1>15 DEF N

\* What is left has no parent among what went, and what went was the owner's or
\* below something that went.
WholeTrees(es, left, owner) ==
  /\ \A x \in DOMAIN left : es[x].parent \notin DOMAIN es \ DOMAIN left
  /\ \A x \in DOMAIN es \ DOMAIN left :
       es[x].owner = owner \/ es[x].parent \in DOMAIN es \ DOMAIN left

\* No entity of the owner has a number from n on.
ClearedFrom(es, n, owner) == \A x \in DOMAIN es : es[x].owner = owner => x < n

\* Another of the owner's entities goes with what is below it.
LEMMA WholeTreesGoOn ==
  ASSUME NEW es, Tree(es), NEW now \in Restrictions(es), NEW owner,
         WholeTrees(es, now, owner), NEW n \in DOMAIN now, now[n].owner = owner
  PROVE  WholeTrees(es, WithoutCascade(now, n), owner)
<1> DEFINE left == WithoutCascade(now, n)
           with == Cascade(now, n)
<1>1. /\ Tree(now) /\ DOMAIN now \subseteq DOMAIN es
      /\ \A x \in DOMAIN now : now[x] = es[x]
  BY RestrictionTypes
<1>2. /\ DOMAIN left = DOMAIN now \ with
      /\ with \subseteq DOMAIN now
      /\ \A x \in DOMAIN now : now[x].parent \in with => x \in with
      /\ \A x \in with : x = n \/ now[x].parent \in with
  BY <1>1, WithoutCascadeIs, CascadeClosed, CascadeParents DEF Closed
<1> HIDE DEF left, with
<1>3. ASSUME NEW x \in DOMAIN left
      PROVE  es[x].parent \notin DOMAIN es \ DOMAIN left
  <2>1. x \in DOMAIN now /\ x \notin with /\ es[x].parent \notin with
    BY <1>1, <1>2
  <2>2. es[x].parent \notin DOMAIN es \ DOMAIN now
    BY <2>1 DEF WholeTrees
  <2> QED BY <1>2, <2>1, <2>2
<1>4. ASSUME NEW x \in DOMAIN es \ DOMAIN left
      PROVE  es[x].owner = owner \/ es[x].parent \in DOMAIN es \ DOMAIN left
  <2>1. CASE x \in with
    BY <1>1, <1>2, <2>1
  <2>2. CASE x \notin with
    <3>1. es[x].owner = owner \/ es[x].parent \in DOMAIN es \ DOMAIN now
      BY <1>2, <2>2 DEF WholeTrees
    <3> QED BY <1>2, <3>1
  <2> QED BY <2>1, <2>2
<1> QED BY <1>3, <1>4 DEF WholeTrees, left

\* The loop of clients_changed leaves nothing of the owner, and takes whole trees.
LEMMA CleanupClears ==
  ASSUME NEW es, Tree(es), DOMAIN es \subseteq 0 .. MaxEntities, NEW owner
  PROVE  /\ Cleanup(es, owner).left \in Restrictions(es)
         /\ WholeTrees(es, Cleanup(es, owner).left, owner)
         /\ \A x \in DOMAIN Cleanup(es, owner).left : Cleanup(es, owner).left[x].owner # owner
<1> DEFINE N == MaxEntities + 1
<1>1. PICK f \in Rounds(es, owner) : Cleanup(es, owner) = f[N]
  BY CleanupRounds
<1>2. N \in Nat
  BY PlaceAssumption
<1>3. /\ \A k \in 0 .. N : f[k] \in Cleaned(es)
      /\ f[0] = [left |-> es, safe |-> TRUE]
      /\ \A k \in 1 .. N : f[k] = Round(f[k - 1], N - k, owner)
  BY <1>1 DEF Rounds
<1>4. \A k \in 0 .. N : f[k].left \in Restrictions(es)
  BY <1>3 DEF Cleaned
<1> DEFINE S == {k \in Nat : k <= N => /\ WholeTrees(es, f[k].left, owner)
                                       /\ ClearedFrom(f[k].left, N - k, owner)}
<1>5. 0 \in S
  <2>1. ClearedFrom(es, N - 0, owner)
    BY PlaceAssumption DEF ClearedFrom
  <2>2. WholeTrees(es, es, owner)
    BY DEF WholeTrees
  <2> QED BY <1>3, <2>1, <2>2
<1>6. ASSUME NEW k \in S
      PROVE  k + 1 \in S
  <2> DEFINE es0 == f[k].left
             n   == N - (k + 1)
  <2> SUFFICES ASSUME k + 1 <= N
               PROVE  WholeTrees(es, f[k + 1].left, owner) /\ ClearedFrom(f[k + 1].left, n, owner)
    OBVIOUS
  <2>1. /\ k + 1 \in 1 .. N /\ k \in 0 .. N /\ (k + 1) - 1 = k /\ k <= N
        /\ n \in Nat /\ n + 1 = N - k
    BY <1>2
  <2>2. /\ f[k + 1] = Round(f[k], n, owner)
        /\ es0 \in Restrictions(es) /\ WholeTrees(es, es0, owner) /\ ClearedFrom(es0, n + 1, owner)
    <3> HIDE DEF N
    <3> QED BY <1>3, <1>4, <2>1
  <2>3. Tree(es0)
    BY <2>2, RestrictionTypes
  <2> HIDE DEF es0, n
  <2>4. CASE n \in DOMAIN es0 /\ es0[n].owner = owner
    <3>1. f[k + 1].left = WithoutCascade(es0, n)
      BY <2>2, <2>4 DEF Round, es0
    <3>2. WholeTrees(es, f[k + 1].left, owner)
      BY <2>2, <2>4, <3>1, WholeTreesGoOn
    <3>3. \A x \in DOMAIN f[k + 1].left :
            x \in DOMAIN es0 /\ f[k + 1].left[x] = es0[x] /\ x # n
      <4>1. WithoutCascade(es0, n) \in Restrictions(es0) /\ n \notin DOMAIN WithoutCascade(es0, n)
        BY <2>3, <2>4, WithoutCascadeIs
      <4>2. /\ DOMAIN WithoutCascade(es0, n) \subseteq DOMAIN es0
            /\ \A x \in DOMAIN WithoutCascade(es0, n) : WithoutCascade(es0, n)[x] = es0[x]
        BY <2>3, <4>1, RestrictionTypes
      <4> QED BY <3>1, <4>1, <4>2
    <3>4. ClearedFrom(f[k + 1].left, n, owner)
      BY <2>1, <2>2, <2>3, <3>3 DEF ClearedFrom, Tree
    <3> QED BY <3>2, <3>4
  <2>5. CASE ~(n \in DOMAIN es0 /\ es0[n].owner = owner)
    <3>1. f[k + 1].left = es0
      BY <2>2, <2>5 DEF Round, es0
    <3>2. ClearedFrom(es0, n, owner)
      BY <2>1, <2>2, <2>3, <2>5 DEF ClearedFrom, Tree
    <3> QED BY <2>2, <3>1, <3>2
  <2> QED BY <2>4, <2>5
<1>7. N \in S
  <2> HIDE DEF S
  <2>1. S \in SUBSET Nat
    BY DEF S
  <2> QED BY <1>2, <1>5, <1>6, <2>1, Induction
<1>8. N \in 0 .. N /\ N - N = 0 /\ N <= N
  BY <1>2
<1>9. /\ Cleanup(es, owner).left \in Restrictions(es)
      /\ WholeTrees(es, Cleanup(es, owner).left, owner)
      /\ ClearedFrom(Cleanup(es, owner).left, 0, owner)
  <2> HIDE DEF N
  <2> QED BY <1>1, <1>4, <1>7, <1>8
<1>10. \A x \in DOMAIN Cleanup(es, owner).left : x \in Nat
  BY <1>9, RestrictionTypes DEF Tree
<1> QED BY <1>9, <1>10 DEF ClearedFrom

\* Every entity is newer than its parent.
NewerThanParents(es) == \A x \in DOMAIN es : es[x].parent # None => es[x].parent < x

\* Then the entity behind one that is removed is older, and stays.
LEMMA CleanupSafe ==
  ASSUME NEW es, Tree(es), NewerThanParents(es), NEW owner
  PROVE  Cleanup(es, owner).safe
<1> DEFINE N == MaxEntities + 1
<1>1. PICK f \in Rounds(es, owner) : Cleanup(es, owner) = f[N]
  BY CleanupRounds
<1>2. N \in Nat
  BY PlaceAssumption
<1>3. /\ \A k \in 0 .. N : f[k] \in Cleaned(es)
      /\ f[0] = [left |-> es, safe |-> TRUE]
      /\ \A k \in 1 .. N : f[k] = Round(f[k - 1], N - k, owner)
  BY <1>1 DEF Rounds
<1>4. \A k \in 0 .. N : f[k].left \in Restrictions(es)
  BY <1>3 DEF Cleaned
<1> DEFINE S == {k \in Nat : k <= N => f[k].safe}
<1>5. 0 \in S
  BY <1>3
<1>6. ASSUME NEW k \in S
      PROVE  k + 1 \in S
  <2> DEFINE es0 == f[k].left
             n   == N - (k + 1)
  <2> SUFFICES ASSUME k + 1 <= N
               PROVE  f[k + 1].safe
    OBVIOUS
  <2>1. k + 1 \in 1 .. N /\ k \in 0 .. N /\ (k + 1) - 1 = k /\ k <= N /\ n \in Nat
    BY <1>2
  <2>2. f[k + 1] = Round(f[k], n, owner) /\ es0 \in Restrictions(es) /\ f[k].safe
    <3> HIDE DEF N
    <3> QED BY <1>3, <1>4, <2>1
  <2>3. Tree(es0) /\ NewerThanParents(es0)
    BY <2>2, RestrictionTypes DEF NewerThanParents
  <2> HIDE DEF es0, n
  <2>4. CASE n \in DOMAIN es0 /\ es0[n].owner = owner
    <3>1. \A x \in Cascade(es0, n) : n <= x
      BY <2>3, <2>4, CascadeNewer DEF NewerThanParents
    <3>2. \A x \in Successor(es0, n) : x < n /\ x \in Nat
      BY <2>3 DEF Successor, Tree
    <3>3. Successor(es0, n) \cap Cascade(es0, n) = {}
      BY <2>1, <3>1, <3>2
    <3> QED BY <2>2, <2>4, <3>3 DEF Round, es0
  <2>5. CASE ~(n \in DOMAIN es0 /\ es0[n].owner = owner)
    BY <2>2, <2>5 DEF Round, es0
  <2> QED BY <2>4, <2>5
<1>7. N \in S
  <2> HIDE DEF S
  <2>1. S \in SUBSET Nat
    BY DEF S
  <2> QED BY <1>2, <1>5, <1>6, <2>1, Induction
<1> QED BY <1>1, <1>2, <1>7

-----------------------------------------------------------------------------
(* The inductive invariant.                                                *)

\* The ids given so far are within the bounds, and those not given yet were
\* never subscribed to.
CountsOK ==
  /\ entities = [e \in DOMAIN entities |-> entities[e]]
  /\ counts.entities <= MaxEntities
  /\ counts.tracks <= MaxTracks
  /\ \A c \in Client, t \in 1 .. MaxTracks : t > counts.tracks => subscribed[c][t] = 0

\* Agent ids are not used twice.
AgentsOK ==
  /\ \A c \in Connected : agent[c] <= counts.agents
  /\ \A c, d \in Connected : agent[c] = agent[d] => c = d

\* With clients that subscribe once a client is a recipient once.
RecipientOnce ==
  \A t \in DOMAIN tracks, c \in Client : tracks[t].recipients[c] <= 1

IInv ==
  /\ TypeOK /\ CountsOK /\ AgentsOK /\ OwnersConnected /\ OriginsConnected
  /\ ~SubscribesTwice => RecipientsSubscribed /\ RecipientOnce

-----------------------------------------------------------------------------
(* The actions.                                                            *)

LEMMA EntitiesTree == TypeOK /\ CountsOK => Tree(entities) /\ DOMAIN entities \subseteq 0 .. MaxEntities
<1> SUFFICES ASSUME TypeOK, CountsOK
             PROVE  Tree(entities) /\ DOMAIN entities \subseteq 0 .. MaxEntities
  OBVIOUS
<1>1. counts.entities \in Nat /\ DOMAIN entities \subseteq 0 .. counts.entities
  BY DEF TypeOK
<1>2. IsFiniteSet(0 .. counts.entities)
  BY <1>1, FS_Interval
<1>3. IsFiniteSet(DOMAIN entities)
  BY <1>1, <1>2, FS_Subset
<1>4. DOMAIN entities \subseteq 0 .. MaxEntities
  BY <1>1, PlaceAssumption DEF CountsOK
<1> QED BY <1>1, <1>3, <1>4 DEF Tree, CountsOK

\* A part of the world
Part(left) ==
  /\ left = [x \in DOMAIN left |-> left[x]]
  /\ DOMAIN left \subseteq DOMAIN entities
  /\ \A x \in DOMAIN left : left[x] = entities[x]

LEMMA RestrictionIsPart ==
  ASSUME Tree(entities), NEW left \in Restrictions(entities)
  PROVE  Part(left)
BY RestrictionTypes DEF Part, Tree

\* What stays when a client goes
LEMMA LeftOf ==
  ASSUME TypeOK, CountsOK, NEW owner
  PROVE  /\ Part(Cleanup(entities, owner).left)
         /\ WholeTrees(entities, Cleanup(entities, owner).left, owner)
         /\ \A x \in DOMAIN Cleanup(entities, owner).left :
              Cleanup(entities, owner).left[x].owner # owner
<1>1. Tree(entities) /\ DOMAIN entities \subseteq 0 .. MaxEntities
  BY EntitiesTree
<1> QED BY <1>1, CleanupClears, RestrictionIsPart

\* What stays when an entity goes with all that is below it
LEMMA LeftWithout ==
  ASSUME TypeOK, CountsOK, NEW e \in DOMAIN entities
  PROVE  Part(WithoutCascade(entities, e))
<1>1. Tree(entities)
  BY EntitiesTree
<1> QED BY <1>1, WithoutCascadeIs, RestrictionIsPart

\* RemoveEntity, whatever becomes of the children
LEMMA Removed ==
  ASSUME TypeOK, CountsOK, NEW c \in Client, NEW e \in DOMAIN entities,
         NEW mode \in {"reparent", "cascade"}, RemoveEntity(c, e, mode)
  PROVE  /\ entities' = [x \in DOMAIN entities' |-> entities'[x]]
         /\ DOMAIN entities' \subseteq DOMAIN entities
         /\ \A x \in DOMAIN entities' : /\ entities'[x].owner = entities[x].owner
                                        /\ entities'[x] \in EntityType
<1>1. CASE mode = "reparent"
  <2>1. entities' = [x \in DOMAIN entities \ {e} |->
           IF entities[x].parent = e THEN [entities[x] EXCEPT !.parent = None] ELSE entities[x]]
    BY <1>1 DEF RemoveEntity, WithoutReparent
  <2>2. \A x \in DOMAIN entities : entities[x] \in EntityType
    BY DEF TypeOK
  <2>3. \A w \in EntityType : /\ [w EXCEPT !.parent = None] \in EntityType
                              /\ [w EXCEPT !.parent = None].owner = w.owner
    BY DEF EntityType
  <2>4. DOMAIN entities' = DOMAIN entities \ {e}
    BY <2>1
  <2>5. \A x \in DOMAIN entities' :
          entities'[x] = IF entities[x].parent = e THEN [entities[x] EXCEPT !.parent = None]
                                                   ELSE entities[x]
    BY <2>1
  <2>6. entities' = [x \in DOMAIN entities' |-> entities'[x]]
    BY <2>1, <2>4, <2>5
  <2>7. ASSUME NEW x \in DOMAIN entities'
        PROVE  /\ entities'[x].owner = entities[x].owner
               /\ entities'[x] \in EntityType
    <3>1. x \in DOMAIN entities /\ entities[x] \in EntityType
      BY <2>2, <2>4
    <3>2. CASE entities[x].parent = e
      BY <3>1, <3>2, <2>3, <2>5
    <3>3. CASE entities[x].parent # e
      BY <3>1, <3>3, <2>4, <2>5
    <3> QED BY <3>2, <3>3
  <2> QED BY <2>4, <2>6, <2>7
<1>2. CASE mode = "cascade"
  <2>1. entities' = WithoutCascade(entities, e)
    BY <1>2 DEF RemoveEntity
  <2>2. Part(entities')
    BY <2>1, LeftWithout
  <2> QED BY <2>2 DEF Part, TypeOK
<1> QED BY <1>1, <1>2

\* Spawn and Announce
LEMMA Spawned ==
  ASSUME TypeOK, CountsOK, NEW owner \in Agent \cup {NoAgent},
         NEW components \in Components, NEW children \in 0 .. 1,
         entities' = WithSpawned(entities, owner, components, children)
  PROVE  /\ entities' = [e \in DOMAIN entities' |-> entities'[e]]
         /\ DOMAIN entities' =
              DOMAIN entities \cup (counts.entities + 1) .. (counts.entities + 1 + children)
         /\ \A e \in DOMAIN entities : entities'[e] = entities[e]
         /\ \A e \in (counts.entities + 1) .. (counts.entities + 1 + children) :
              /\ e \notin DOMAIN entities
              /\ entities'[e].owner = owner
              /\ entities'[e] \in EntityType
<1> DEFINE first == counts.entities + 1
           new(e) == [owner  |-> owner,
                      parent |-> IF e = first THEN components.parent ELSE first,
                      track  |-> IF e = first THEN components.track ELSE None]
<1>1. /\ counts.entities \in Nat /\ DOMAIN entities \subseteq 0 .. counts.entities
      /\ first \in Nat /\ first > counts.entities
      /\ components.parent \in Nat \cup {None} /\ components.track \in Nat \cup {None}
  BY PlaceAssumption DEF TypeOK, Components, Named
<1>2. \A e \in first .. first + children : e \notin DOMAIN entities
  BY <1>1
<1>3. entities' = [e \in DOMAIN entities \cup first .. first + children |->
                     IF e \in DOMAIN entities THEN entities[e] ELSE new(e)]
  BY DEF WithSpawned
<1>4. \A e : new(e) \in EntityType /\ new(e).owner = owner
  BY <1>1 DEF EntityType
<1> HIDE DEF first, new
<1>5. /\ entities' = [e \in DOMAIN entities' |-> entities'[e]]
      /\ DOMAIN entities' = DOMAIN entities \cup first .. first + children
      /\ \A e \in DOMAIN entities : entities'[e] = entities[e]
  BY <1>3
<1>6. ASSUME NEW e \in first .. first + children
      PROVE  entities'[e].owner = owner /\ entities'[e] \in EntityType
  <2>1. entities'[e] = new(e)
    BY <1>2, <1>3
  <2> QED BY <1>4, <2>1
<1> QED BY <1>2, <1>5, <1>6 DEF first

\* An announcement spawns an avatar without relationships.
LEMMA NoComponentsIn == NoComponents \in Components
BY DEF NoComponents, Components

\* ChangeComponents
LEMMA Changed ==
  ASSUME TypeOK, NEW c \in Client, NEW e \in DOMAIN entities,
         NEW components \in Components, ChangeComponents(c, e, components)
  PROVE  /\ entities' = [x \in DOMAIN entities' |-> entities'[x]]
         /\ DOMAIN entities' = DOMAIN entities
         /\ \A x \in DOMAIN entities : /\ entities'[x] \in EntityType
                                       /\ entities'[x].owner = entities[x].owner
<1> DEFINE new == [owner |-> entities[e].owner, parent |-> components.parent,
                   track |-> components.track]
<1>1. entities' = [entities EXCEPT ![e].parent = components.parent, ![e].track = components.track]
  BY DEF ChangeComponents
<1>2. /\ DOMAIN entities' = DOMAIN entities
      /\ entities' = [x \in DOMAIN entities' |-> entities'[x]]
      /\ \A x \in DOMAIN entities : x # e => entities'[x] = entities[x]
  BY <1>1
<1>3. \A x \in DOMAIN entities : entities[x] \in EntityType
  BY DEF TypeOK
<1>4. entities'[e] = new
  <2>1. entities[e] = [owner |-> entities[e].owner, parent |-> entities[e].parent,
                       track |-> entities[e].track]
    BY <1>3 DEF EntityType
  <2> QED BY <1>1, <2>1
<1>5. /\ components.parent \in Nat \cup {None} /\ components.track \in Nat \cup {None}
      /\ entities[e].owner \in Agent \cup {NoAgent}
  BY <1>3, PlaceAssumption DEF TypeOK, EntityType, Components, Named
<1>6. entities'[e] \in EntityType /\ entities'[e].owner = entities[e].owner
  BY <1>4, <1>5 DEF EntityType
<1> QED BY <1>2, <1>3, <1>6

\* AllocateTrack
LEMMA Allocated ==
  ASSUME TypeOK, NEW c \in Client, NEW e \in DOMAIN entities, AllocateTrack(c, e)
  PROVE  LET t == counts.tracks + 1
         IN /\ t \in Nat /\ t \notin DOMAIN tracks
            /\ DOMAIN tracks' = DOMAIN tracks \cup {t}
            /\ \A x \in DOMAIN tracks : tracks'[x] = tracks[x]
            /\ tracks'[t] = [origin |-> c, by |-> agent[c], recipients |-> [d \in Client |-> 0]]
            /\ entities' = [x \in DOMAIN entities' |-> entities'[x]]
            /\ DOMAIN entities' = DOMAIN entities
            /\ entities'[e] = [entities[e] EXCEPT !.track = t]
            /\ \A x \in DOMAIN entities : x # e => entities'[x] = entities[x]
<1> DEFINE t == counts.tracks + 1
           new == [origin |-> c, by |-> agent[c], recipients |-> [d \in Client |-> 0]]
<1>1. tracks' = [x \in DOMAIN tracks \cup {t} |-> IF x = t THEN new ELSE tracks[x]]
  BY DEF AllocateTrack
<1>2. entities' = [entities EXCEPT ![e].track = t]
  BY DEF AllocateTrack
<1>3. t \in Nat /\ t \notin DOMAIN tracks
  BY DEF TypeOK
<1> HIDE DEF t, new
<1>4. /\ DOMAIN tracks' = DOMAIN tracks \cup {t}
      /\ \A x \in DOMAIN tracks : tracks'[x] = tracks[x]
      /\ tracks'[t] = new
  BY <1>1, <1>3
<1>5. /\ entities' = [x \in DOMAIN entities' |-> entities'[x]]
      /\ DOMAIN entities' = DOMAIN entities
      /\ entities'[e] = [entities[e] EXCEPT !.track = t]
      /\ \A x \in DOMAIN entities : x # e => entities'[x] = entities[x]
  BY <1>2
<1> QED BY <1>3, <1>4, <1>5 DEF t, new

\* Subscribe and Unsubscribe
LEMMA Counted ==
  ASSUME TypeOK, NEW c \in Client, NEW t \in DOMAIN tracks, t \in 1 .. MaxTracks, NEW n \in Nat, NEW m \in Nat,
         tracks' = [tracks EXCEPT ![t].recipients[c] = n],
         subscribed' = [subscribed EXCEPT ![c][t] = m]
  PROVE  /\ DOMAIN tracks' = DOMAIN tracks
         /\ \A x \in DOMAIN tracks :
              /\ tracks'[x] \in TrackType
              /\ tracks'[x].origin = tracks[x].origin /\ tracks'[x].by = tracks[x].by
              /\ \A d \in Client : tracks'[x].recipients[d] =
                   IF x = t /\ d = c THEN n ELSE tracks[x].recipients[d]
         /\ subscribed' \in [Client -> [1 .. MaxTracks -> Nat]]
         /\ \A d \in Client, x \in 1 .. MaxTracks : subscribed'[d][x] =
              IF x = t /\ d = c THEN m ELSE subscribed[d][x]
<1>1. /\ \A x \in DOMAIN tracks : tracks[x] \in TrackType
      /\ subscribed \in [Client -> [1 .. MaxTracks -> Nat]]
  BY DEF TypeOK
<1>2. /\ DOMAIN tracks' = DOMAIN tracks
      /\ \A x \in DOMAIN tracks : x # t => tracks'[x] = tracks[x]
      /\ tracks'[t] = [tracks[t] EXCEPT !.recipients = [tracks[t].recipients EXCEPT ![c] = n]]
  OBVIOUS
<1>3. tracks'[t] \in TrackType /\ tracks'[t].origin = tracks[t].origin /\ tracks'[t].by = tracks[t].by
      /\ tracks'[t].recipients = [tracks[t].recipients EXCEPT ![c] = n]
  BY <1>1, <1>2 DEF TrackType
<1>4. \A d \in Client : tracks'[t].recipients[d] = IF d = c THEN n ELSE tracks[t].recipients[d]
  BY <1>1, <1>3 DEF TrackType
<1>5. /\ subscribed' \in [Client -> [1 .. MaxTracks -> Nat]]
      /\ \A d \in Client, x \in 1 .. MaxTracks : subscribed'[d][x] =
           IF x = t /\ d = c THEN m ELSE subscribed[d][x]
  <2>1. [subscribed[c] EXCEPT ![t] = m] \in [1 .. MaxTracks -> Nat]
    BY <1>1
  <2>2. subscribed' = [subscribed EXCEPT ![c] = [subscribed[c] EXCEPT ![t] = m]]
    OBVIOUS
  <2> QED BY <1>1, <2>1, <2>2
<1> QED BY <1>1, <1>2, <1>3, <1>4, <1>5

LEMMA SubscribeIs ==
  ASSUME TypeOK, NEW c \in Client, NEW t \in 1 .. MaxTracks, Subscribe(c, t)
  PROVE  /\ DOMAIN tracks' = DOMAIN tracks
         /\ \A x \in DOMAIN tracks :
              /\ tracks'[x] \in TrackType
              /\ tracks'[x].origin = tracks[x].origin /\ tracks'[x].by = tracks[x].by
              /\ \A d \in Client : tracks'[x].recipients[d] =
                   IF x = t /\ d = c THEN tracks[t].recipients[c] + 1 ELSE tracks[x].recipients[d]
         /\ subscribed' \in [Client -> [1 .. MaxTracks -> Nat]]
         /\ \A d \in Client, x \in 1 .. MaxTracks : subscribed'[d][x] =
              IF x = t /\ d = c THEN subscribed[c][t] + 1 ELSE subscribed[d][x]
<1>1. t \in DOMAIN tracks /\ tracks[t].recipients[c] + 1 \in Nat /\ subscribed[c][t] + 1 \in Nat
  <2>1. t \in DOMAIN tracks /\ tracks[t] \in TrackType /\ subscribed \in [Client -> [1 .. MaxTracks -> Nat]]
    BY DEF TypeOK, Subscribe
  <2>2. tracks[t].recipients[c] \in Nat /\ subscribed[c][t] \in Nat
    BY <2>1 DEF TrackType
  <2> QED BY <2>1, <2>2
<1>2. /\ tracks' = [tracks EXCEPT ![t].recipients[c] = tracks[t].recipients[c] + 1]
      /\ subscribed' = [subscribed EXCEPT ![c][t] = subscribed[c][t] + 1]
  BY DEF Subscribe
<1> QED BY <1>1, <1>2, Counted

LEMMA UnsubscribeIs ==
  ASSUME TypeOK, NEW c \in Client, NEW t \in 1 .. MaxTracks, Unsubscribe(c, t)
  PROVE  /\ DOMAIN tracks' = DOMAIN tracks
         /\ \A x \in DOMAIN tracks :
              /\ tracks'[x] \in TrackType
              /\ tracks'[x].origin = tracks[x].origin /\ tracks'[x].by = tracks[x].by
              /\ \A d \in Client : tracks'[x].recipients[d] =
                   IF x = t /\ d = c THEN Less(tracks[t].recipients[c]) ELSE tracks[x].recipients[d]
         /\ subscribed' \in [Client -> [1 .. MaxTracks -> Nat]]
         /\ \A d \in Client, x \in 1 .. MaxTracks : subscribed'[d][x] =
              IF x = t /\ d = c THEN Less(subscribed[c][t]) ELSE subscribed[d][x]
<1>1. t \in DOMAIN tracks /\ Less(tracks[t].recipients[c]) \in Nat /\ Less(subscribed[c][t]) \in Nat
  <2>1. t \in DOMAIN tracks /\ tracks[t] \in TrackType /\ subscribed \in [Client -> [1 .. MaxTracks -> Nat]]
    BY DEF TypeOK, Unsubscribe
  <2>2. tracks[t].recipients[c] \in Nat /\ subscribed[c][t] \in Nat
    BY <2>1 DEF TrackType
  <2> QED BY <2>1, <2>2 DEF Less
<1>2. /\ tracks' = [tracks EXCEPT ![t].recipients[c] = Less(tracks[t].recipients[c])]
      /\ subscribed' = [subscribed EXCEPT ![c][t] = Less(subscribed[c][t])]
  <2>1. tracks' = [tracks EXCEPT ![t] = [tracks[t] EXCEPT !.recipients[c] = Less(tracks[t].recipients[c])]]
    BY DEF Unsubscribe, WithoutRecipient
  <2> QED BY <2>1 DEF Unsubscribe
<1> QED BY <1>1, <1>2, Counted

-----------------------------------------------------------------------------
(* The start, and the end of a server that crashed.                        *)

NothingThere ==
  /\ agent      = [c \in Client |-> NoAgent]
  /\ avatar     = [c \in Client |-> None]
  /\ entities   = OnlyPlace
  /\ tracks     = <<>>
  /\ launches   = {}
  /\ counts     = NothingMade
  /\ running   \in BOOLEAN
  /\ subscribed = [c \in Client |-> NoSubscriptions]

LEMMA NothingThereOK == NothingThere => IInv
<1> SUFFICES ASSUME NothingThere
             PROVE  IInv
  OBVIOUS
<1>1. /\ DOMAIN entities = {0} /\ entities[0] = [owner |-> NoAgent, parent |-> None, track |-> None]
      /\ entities = [e \in DOMAIN entities |-> entities[e]]
  BY DEF NothingThere, OnlyPlace, Place
<1>2. DOMAIN tracks = {} /\ launches = {}
  BY DEF NothingThere
<1>3. counts = [agents |-> 0, entities |-> 0, tracks |-> 0, edits |-> 0, launches |-> 0]
  BY DEF NothingThere, NothingMade
<1>4. /\ agent \in [Client -> Agent \cup {NoAgent}] /\ avatar \in [Client -> Nat \cup {None}]
      /\ subscribed \in [Client -> [1 .. MaxTracks -> Nat]]
      /\ \A c \in Client, t \in 1 .. MaxTracks : subscribed[c][t] = 0
  BY DEF NothingThere, NoSubscriptions
<1>5. TypeOK
  <2>1. entities[0] \in EntityType
    BY <1>1 DEF EntityType
  <2>2. counts \in [agents : Nat, entities : Nat, tracks : Nat, edits : Nat, launches : Nat]
    BY <1>3
  <2>3. DOMAIN entities \subseteq 0 .. counts.entities /\ \A e \in DOMAIN entities : entities[e] \in EntityType
    BY <1>1, <1>3, <2>1
  <2>4. running \in BOOLEAN
    BY DEF NothingThere
  <2> QED BY <1>2, <1>4, <2>2, <2>3, <2>4 DEF TypeOK
<1>6. CountsOK
  BY <1>1, <1>3, <1>4, PlaceAssumption DEF CountsOK
<1>7. OwnersConnected /\ AgentsOK
  BY <1>1 DEF OwnersConnected, AgentsOK, Connected, NothingThere
<1>8. OriginsConnected /\ RecipientsSubscribed /\ RecipientOnce
  BY <1>1, <1>2 DEF OriginsConnected, RecipientsSubscribed, RecipientOnce
<1> QED BY <1>5, <1>6, <1>7, <1>8 DEF IInv

LEMMA InitOK == Init => IInv
<1>1. Init => NothingThere
  BY DEF Init, NothingThere
<1> QED BY <1>1, NothingThereOK

LEMMA CrashOK == Crash => IInv'
<1>1. Crash => NothingThere'
  BY DEF Crash, NothingThere
<1> QED BY <1>1, NothingThereOK, PTL

-----------------------------------------------------------------------------
(* Types.                                                                  *)

LEMMA TypeStep == IInv /\ [Next]_vars => TypeOK'
<1> SUFFICES ASSUME IInv, [Next]_vars
             PROVE  TypeOK'
  OBVIOUS
<1> USE DEF Serves
<1>0. /\ TypeOK /\ CountsOK
      /\ counts \in [agents : Nat, entities : Nat, tracks : Nat, edits : Nat, launches : Nat]
      /\ \A c \in Connected : agent[c] \in Agent
      /\ NoAgent \notin Nat /\ None \notin Nat
  BY PlaceAssumption DEF IInv, TypeOK, Connected
<1>1. ASSUME NEW c \in Client, Connect(c)
      PROVE  TypeOK'
  <2>1. counts.agents + 1 \in Agent
    BY <1>0, <1>1, PlaceAssumption DEF Connect, Agent
  <2> QED BY <1>0, <1>1, <2>1 DEF Connect, TypeOK
<1>2. ASSUME NEW c \in Client, Disconnect(c)
      PROVE  TypeOK'
  <2>1. CASE Crash
    BY <2>1, CrashOK DEF IInv
  <2>2. CASE ~Crash
    <3> DEFINE left == Cleanup(entities, agent[c]).left
    <3>1. /\ entities' = left /\ tracks' = WithoutClient(tracks, c)
          /\ agent' = [agent EXCEPT ![c] = NoAgent] /\ avatar' = [avatar EXCEPT ![c] = None]
          /\ subscribed' = [subscribed EXCEPT ![c] = NoSubscriptions]
          /\ UNCHANGED <<launches, counts, running>>
      BY <1>2, <2>2 DEF Disconnect
    <3>2. \A e \in DOMAIN left : e \in DOMAIN entities /\ left[e] = entities[e]
      <4>1. Part(left)
        BY <1>0, LeftOf
      <4> HIDE DEF left
      <4> QED BY <4>1 DEF Part
    <3> HIDE DEF left
    <3>3. NoSubscriptions \in [1 .. MaxTracks -> Nat]
      BY DEF NoSubscriptions
    <3>4. \A t \in DOMAIN tracks' : t \in DOMAIN tracks /\ tracks'[t] \in TrackType
      <4>1. \A n \in Nat : Less(n) \in Nat
        BY DEF Less
      <4>2. ASSUME NEW w \in TrackType
            PROVE  WithoutRecipient(w, c) \in TrackType
        BY <4>1 DEF WithoutRecipient, TrackType
      <4> QED BY <1>0, <3>1, <4>2 DEF WithoutClient, TypeOK
    <3> QED BY <1>0, <3>1, <3>2, <3>3, <3>4 DEF TypeOK
  <2> QED BY <2>1, <2>2
<1>3. ASSUME NEW c \in Client, ListAgents(c)
      PROVE  TypeOK'
  BY <1>3, CrashOK DEF ListAgents, IInv
<1>4. ASSUME NEW c \in Client, NEW components \in Components, NEW children \in 0 .. 1,
             Spawn(c, components, children)
      PROVE  TypeOK'
  <2>1. counts.entities + 1 + children <= MaxEntities /\ agent[c] \in Agent
    BY <1>0, <1>4 DEF Spawn
  <2>2. /\ counts' = [counts EXCEPT !.entities = counts.entities + 1 + children]
        /\ UNCHANGED <<agent, avatar, tracks, launches, running, subscribed>>
        /\ entities' = WithSpawned(entities, agent[c], components, children)
    BY <1>4 DEF Spawn
  <2>3. /\ DOMAIN entities' \subseteq 0 .. counts.entities + 1 + children
        /\ \A e \in DOMAIN entities' : entities'[e] \in EntityType
    <3> DEFINE added == (counts.entities + 1) .. (counts.entities + 1 + children)
    <3>1. /\ DOMAIN entities' = DOMAIN entities \cup added
          /\ \A e \in DOMAIN entities : entities'[e] = entities[e]
          /\ \A e \in added : entities'[e] \in EntityType
      BY <1>0, <2>1, <2>2, Spawned
    <3>2. added \subseteq 0 .. counts.entities + 1 + children
          /\ 0 .. counts.entities \subseteq 0 .. counts.entities + 1 + children
      BY <1>0
    <3> HIDE DEF added
    <3> QED BY <1>0, <3>1, <3>2 DEF TypeOK
  <2>4. counts' \in [agents : Nat, entities : Nat, tracks : Nat, edits : Nat, launches : Nat]
        /\ counts'.entities = counts.entities + 1 + children
        /\ counts'.tracks = counts.tracks /\ counts'.launches = counts.launches
    BY <1>0, <2>2
  <2> QED BY <1>0, <2>2, <2>3, <2>4 DEF TypeOK
<1>5. ASSUME NEW c \in Client, NEW token \in 1 .. MaxLaunches \cup {None}, Announce(c, token)
      PROVE  TypeOK'
  <2>1. counts.entities + 1 + 0 <= MaxEntities /\ agent[c] \in Agent
    BY <1>0, <1>5, PlaceAssumption DEF Announce
  <2>2. /\ counts' = [counts EXCEPT !.entities = counts.entities + 1]
        /\ avatar' = [avatar EXCEPT ![c] = counts.entities + 1]
        /\ UNCHANGED <<agent, tracks, running, subscribed>>
        /\ entities' = WithSpawned(entities, agent[c], NoComponents, 0)
    BY <1>5 DEF Announce
  <2>3. /\ DOMAIN entities' \subseteq 0 .. counts.entities + 1
        /\ \A e \in DOMAIN entities' : entities'[e] \in EntityType
    BY <1>0, <2>1, <2>2, Spawned, NoComponentsIn DEF TypeOK
  <2>4. launches' \subseteq launches
    BY <1>5 DEF Announce, AppLaunched
  <2>5. counts' \in [agents : Nat, entities : Nat, tracks : Nat, edits : Nat, launches : Nat]
        /\ counts'.entities = counts.entities + 1
        /\ counts'.tracks = counts.tracks /\ counts'.launches = counts.launches
    BY <1>0, <2>2
  <2> QED BY <1>0, <2>2, <2>3, <2>4, <2>5 DEF TypeOK
<1>6. ASSUME NEW c \in Client, NEW e \in DOMAIN entities, NEW mode \in {"reparent", "cascade"},
             RemoveEntity(c, e, mode)
      PROVE  TypeOK'
  <2>1. \A x \in DOMAIN entities' : x \in DOMAIN entities /\ entities'[x] \in EntityType
    BY <1>0, <1>6, Removed
  <2> QED BY <1>0, <1>6, <2>1 DEF RemoveEntity, TypeOK
<1>7. ASSUME NEW c \in Client, NEW e \in DOMAIN entities,
             NEW components \in Components, ChangeComponents(c, e, components)
      PROVE  TypeOK'
  <2>1. /\ counts' = [counts EXCEPT !.edits = counts.edits + 1]
        /\ UNCHANGED <<agent, avatar, tracks, launches, running, subscribed>>
    BY <1>7 DEF ChangeComponents
  <2>2. \A x \in DOMAIN entities' : x \in DOMAIN entities /\ entities'[x] \in EntityType
    BY <1>0, <1>7, Changed
  <2> QED BY <1>0, <2>1, <2>2 DEF TypeOK
<1>8. ASSUME NEW c \in Client, NEW e \in Named, Launch(c, e)
      PROVE  TypeOK'
  <2>1. CASE Crash
    BY <2>1, CrashOK DEF IInv
  <2>2. CASE ~Crash
    <3>1. /\ launches' = launches \cup {counts.launches + 1}
          /\ counts' = [counts EXCEPT !.launches = counts.launches + 1]
          /\ UNCHANGED <<agent, avatar, entities, tracks, running, subscribed>>
      BY <1>8, <2>2 DEF Launch
    <3> QED BY <1>0, <3>1 DEF TypeOK
  <2> QED BY <2>1, <2>2
<1>9. ASSUME NEW c \in Client, NEW e \in DOMAIN entities, AllocateTrack(c, e)
      PROVE  TypeOK'
  <2> DEFINE t == counts.tracks + 1
  <2>1. /\ counts' = [counts EXCEPT !.tracks = t] /\ t \in Nat
        /\ DOMAIN tracks' = DOMAIN tracks \cup {t}
        /\ \A x \in DOMAIN tracks' :
             tracks'[x] = IF x = t THEN [origin |-> c, by |-> agent[c], recipients |-> [d \in Client |-> 0]]
                                   ELSE tracks[x]
        /\ entities' = [entities EXCEPT ![e].track = t]
        /\ UNCHANGED <<agent, avatar, launches, running, subscribed>>
        /\ agent[c] \in Agent
    BY <1>0, <1>9 DEF AllocateTrack
  <2>2. \A x \in DOMAIN entities' : x \in DOMAIN entities /\ entities'[x] \in EntityType
    BY <1>0, <2>1 DEF TypeOK, EntityType
  <2>3. [origin |-> c, by |-> agent[c], recipients |-> [d \in Client |-> 0]] \in TrackType
    BY <2>1 DEF TrackType
  <2>4. \A x \in DOMAIN tracks' : tracks'[x] \in TrackType
    BY <1>0, <2>1, <2>3 DEF TypeOK
  <2>5. counts' \in [agents : Nat, entities : Nat, tracks : Nat, edits : Nat, launches : Nat]
        /\ counts'.entities = counts.entities
        /\ counts'.tracks = t /\ counts'.launches = counts.launches
    BY <1>0, <2>1
  <2>6. DOMAIN tracks' \subseteq 1 .. t
    BY <1>0, <2>1 DEF TypeOK
  <2> HIDE DEF t
  <2> QED BY <1>0, <2>1, <2>2, <2>4, <2>5, <2>6 DEF TypeOK
<1>10. ASSUME NEW c \in Client, NEW t \in 1 .. MaxTracks, Subscribe(c, t)
       PROVE  TypeOK'
  BY <1>0, <1>10, SubscribeIs DEF Subscribe, TypeOK
<1>11. ASSUME NEW c \in Client, NEW t \in 1 .. MaxTracks, Unsubscribe(c, t)
       PROVE  TypeOK'
  BY <1>0, <1>11, UnsubscribeIs DEF Unsubscribe, TypeOK
<1>12. CASE UNCHANGED vars
  BY <1>0, <1>12 DEF vars, TypeOK
<1> QED
  BY <1>1, <1>2, <1>3, <1>4, <1>5, <1>6, <1>7, <1>8, <1>9, <1>10, <1>11, <1>12
  DEF Next, Requests

-----------------------------------------------------------------------------
(* The steps.                                                              *)

\* The invariant without the types, which are the matter of TypeStep
WorldOK ==
  /\ CountsOK /\ AgentsOK /\ OwnersConnected /\ OriginsConnected
  /\ ~SubscribesTwice => RecipientsSubscribed /\ RecipientOnce

LEMMA ConnectStep ==
  ASSUME IInv, NEW c \in Client, Connect(c)
  PROVE  WorldOK'
<1>1. /\ agent' = [agent EXCEPT ![c] = counts.agents + 1] /\ agent[c] = NoAgent
      /\ counts'.entities = counts.entities /\ counts'.tracks = counts.tracks
      /\ UNCHANGED <<entities, tracks, subscribed>>
  BY DEF IInv, TypeOK, Connect, Connected
<1>2. TypeOK /\ agent \in [Client -> Agent \cup {NoAgent}] /\ NoAgent \notin Nat /\ counts.agents + 1 \in Nat
  BY PlaceAssumption DEF IInv, TypeOK
<1>3. \A d \in Client : agent[d] # NoAgent => d # c /\ agent'[d] = agent[d]
  BY <1>1, <1>2
<1>4. CountsOK'
  BY <1>1 DEF IInv, CountsOK
<1>5. OwnersConnected'
  <2>1. \A d \in Connected : d \in Connected' /\ agent'[d] = agent[d]
    BY <1>2, <1>3 DEF Connected
  <2> QED BY <1>1, <2>1 DEF IInv, OwnersConnected
<1>6. AgentsOK'
  <2>1. /\ counts.agents \in Nat /\ counts'.agents = counts.agents + 1
        /\ agent'[c] = counts.agents + 1
    BY <1>2 DEF IInv, TypeOK, Connect
  <2>2. \A d \in Client : agent[d] # NoAgent => agent[d] \in Nat /\ agent[d] <= counts.agents
    BY <1>2 DEF IInv, AgentsOK, Connected, Agent
  <2>3. \A d \in Client : d # c => agent'[d] = agent[d]
    BY <1>1
  <2>4. \A d, f \in Client : agent[d] # NoAgent /\ agent[d] = agent[f] => d = f
    BY DEF IInv, AgentsOK, Connected
  <2> QED BY <1>1, <1>2, <2>1, <2>2, <2>3, <2>4 DEF AgentsOK, Connected
<1>7. OriginsConnected'
  <2> SUFFICES ASSUME NEW t \in DOMAIN tracks
               PROVE  agent'[tracks[t].origin] = tracks[t].by
    BY <1>1 DEF OriginsConnected
  <2>1. tracks[t].origin \in Client /\ tracks[t].by \in Agent /\ agent[tracks[t].origin] = tracks[t].by
    BY DEF IInv, OriginsConnected, TypeOK, TrackType
  <2>2. tracks[t].by # NoAgent
    BY <1>2, <2>1 DEF Agent
  <2> QED BY <1>3, <2>1, <2>2
<1>8. ~SubscribesTwice => (RecipientsSubscribed /\ RecipientOnce)'
  BY <1>1 DEF IInv, RecipientsSubscribed, RecipientOnce
<1> QED BY <1>4, <1>5, <1>6, <1>7, <1>8 DEF WorldOK

LEMMA CrashStep == Crash => WorldOK'
BY CrashOK DEF IInv, WorldOK

LEMMA DisconnectStep ==
  ASSUME IInv, NEW c \in Client, Disconnect(c)
  PROVE  WorldOK'
<1>1. CASE Crash
  BY <1>1, CrashStep
<1>2. CASE ~Crash
  <2> DEFINE left == Cleanup(entities, agent[c]).left
  <2>1. /\ entities' = left /\ tracks' = WithoutClient(tracks, c)
        /\ agent' = [agent EXCEPT ![c] = NoAgent]
        /\ subscribed' = [subscribed EXCEPT ![c] = NoSubscriptions]
        /\ UNCHANGED counts
    BY <1>2 DEF Disconnect
  <2>2. TypeOK /\ CountsOK /\ c \in Connected /\ agent[c] # NoAgent
    BY DEF IInv, Disconnect, Serves, Connected
  <2>3. Part(left) /\ \A x \in DOMAIN left : left[x].owner # agent[c]
    BY <2>2, LeftOf
  <2> HIDE DEF left
  <2>4. /\ entities' = [x \in DOMAIN entities' |-> entities'[x]]
        /\ DOMAIN entities' \subseteq DOMAIN entities
        /\ \A x \in DOMAIN entities' : /\ entities'[x] = entities[x]
                                       /\ entities[x].owner # agent[c]
    BY <2>1, <2>3 DEF Part
  <2>5. \A d \in Client : d # c => agent'[d] = agent[d] /\ subscribed'[d] = subscribed[d]
    BY <2>1, <2>2 DEF TypeOK
  <2>6. \A t \in 1 .. MaxTracks : subscribed'[c][t] = 0
    BY <2>1, <2>2 DEF TypeOK, NoSubscriptions
  <2>7. /\ DOMAIN tracks' = {t \in DOMAIN tracks : tracks[t].origin # c}
        /\ \A t \in DOMAIN tracks' : tracks'[t] = WithoutRecipient(tracks[t], c)
    BY <2>1 DEF WithoutClient
  <2>8. ASSUME NEW t \in DOMAIN tracks'
        PROVE  /\ t \in DOMAIN tracks /\ t \in 1 .. MaxTracks /\ tracks[t] \in TrackType
               /\ tracks[t].origin # c
               /\ tracks'[t].origin = tracks[t].origin /\ tracks'[t].by = tracks[t].by
               /\ \A d \in Client : tracks'[t].recipients[d] =
                    IF d = c THEN Less(tracks[t].recipients[c]) ELSE tracks[t].recipients[d]
    <3>1. t \in DOMAIN tracks /\ tracks[t] \in TrackType /\ tracks[t].origin # c
      BY <2>2, <2>7 DEF TypeOK
    <3>2. t \in 1 .. MaxTracks
      BY <2>2, <3>1, PlaceAssumption DEF TypeOK, CountsOK
    <3>3. tracks'[t] = [tracks[t] EXCEPT !.recipients[c] = Less(tracks[t].recipients[c])]
      BY <2>7 DEF WithoutRecipient
    <3> QED BY <3>1, <3>2, <3>3 DEF TrackType
  <2>9. CountsOK'
    <3>1. \A d \in Client, t \in 1 .. MaxTracks : subscribed'[d][t] \in {0, subscribed[d][t]}
      BY <2>5, <2>6
    <3> QED BY <2>1, <2>2, <2>4, <3>1 DEF CountsOK
  <2>10. OwnersConnected'
    <3> SUFFICES ASSUME NEW x \in DOMAIN entities'
                 PROVE  entities'[x].owner \in {NoAgent} \cup {agent'[d] : d \in Connected'}
      BY DEF OwnersConnected
    <3>1. /\ entities'[x].owner \in {NoAgent} \cup {agent[d] : d \in Connected}
          /\ entities'[x].owner # agent[c]
      BY <2>4 DEF IInv, OwnersConnected
    <3>2. \A d \in Connected : d # c => d \in Connected' /\ agent'[d] = agent[d]
      BY <2>5 DEF Connected
    <3> QED BY <3>1, <3>2
  <2>11. AgentsOK'
    <3>1. agent'[c] = NoAgent /\ counts' = counts
      BY <2>1, <2>2 DEF TypeOK
    <3>2. \A d \in Connected' : d \in Connected /\ agent'[d] = agent[d]
      BY <2>5, <3>1 DEF Connected
    <3> QED BY <3>1, <3>2 DEF IInv, AgentsOK
  <2>12. OriginsConnected'
    <3> SUFFICES ASSUME NEW t \in DOMAIN tracks'
                 PROVE  agent'[tracks'[t].origin] = tracks'[t].by
      BY DEF OriginsConnected
    <3>1. agent[tracks[t].origin] = tracks[t].by /\ tracks[t].origin \in Client
      BY <2>8 DEF IInv, OriginsConnected, TrackType
    <3> QED BY <2>5, <2>8, <3>1
  <2>13. ASSUME ~SubscribesTwice
         PROVE  (RecipientsSubscribed /\ RecipientOnce)'
    <3> SUFFICES ASSUME NEW t \in DOMAIN tracks', NEW d \in Client
                 PROVE  /\ tracks'[t].recipients[d] = subscribed'[d][t]
                        /\ tracks'[t].recipients[d] <= 1
      BY DEF RecipientsSubscribed, RecipientOnce
    <3>1. /\ tracks[t].recipients[d] = subscribed[d][t] /\ tracks[t].recipients[d] <= 1
          /\ tracks[t].recipients[d] \in Nat
      BY <2>8, <2>13 DEF IInv, RecipientsSubscribed, RecipientOnce, TrackType
    <3>2. CASE d = c
      BY <2>6, <2>8, <3>1, <3>2 DEF Less
    <3>3. CASE d # c
      BY <2>5, <2>8, <3>1, <3>3
    <3> QED BY <3>2, <3>3
  <2> QED BY <2>9, <2>10, <2>11, <2>12, <2>13 DEF WorldOK
<1> QED BY <1>1, <1>2

\* Spawn and Announce: what is new is of a connected client.
LEMMA SpawnStep ==
  ASSUME IInv, NEW c \in Connected,
         NEW components \in Components, NEW children \in 0 .. 1,
         counts.entities + 1 + children <= MaxEntities,
         entities' = WithSpawned(entities, agent[c], components, children),
         counts' = [counts EXCEPT !.entities = counts.entities + 1 + children],
         UNCHANGED <<agent, tracks, subscribed>>
  PROVE  WorldOK'
<1> DEFINE first == counts.entities + 1
           added == first .. first + children
<1>1. TypeOK /\ CountsOK /\ c \in Client /\ agent[c] \in Agent \cup {NoAgent}
  BY DEF IInv, Connected, TypeOK
<1>2. /\ entities' = [x \in DOMAIN entities' |-> entities'[x]]
      /\ DOMAIN entities' = DOMAIN entities \cup added
      /\ \A x \in DOMAIN entities : entities'[x] = entities[x]
      /\ \A x \in added : x \notin DOMAIN entities /\ entities'[x].owner = agent[c]
  BY <1>1, Spawned
<1>3. counts'.entities = counts.entities + 1 + children /\ counts'.tracks = counts.tracks
      /\ counts'.agents = counts.agents
  BY <1>1 DEF TypeOK
<1> HIDE DEF first, added
<1>4. CountsOK'
  BY <1>1, <1>2, <1>3 DEF CountsOK
<1>5. OwnersConnected'
  BY <1>2 DEF IInv, OwnersConnected, Connected
<1>6. AgentsOK'
  BY <1>3 DEF IInv, AgentsOK, Connected
<1>7. OriginsConnected'
  BY DEF IInv, OriginsConnected
<1>8. ~SubscribesTwice => (RecipientsSubscribed /\ RecipientOnce)'
  BY DEF IInv, RecipientsSubscribed, RecipientOnce
<1> QED BY <1>4, <1>5, <1>6, <1>7, <1>8 DEF WorldOK

\* RemoveEntity and ChangeComponents: owners stay.
LEMMA EditStep ==
  ASSUME IInv, UNCHANGED <<agent, tracks, subscribed>>,
         counts' = [counts EXCEPT !.edits = counts.edits + 1],
         entities' = [x \in DOMAIN entities' |-> entities'[x]],
         DOMAIN entities' \subseteq DOMAIN entities,
         \A x \in DOMAIN entities' : entities'[x].owner = entities[x].owner
  PROVE  WorldOK'
<1>1. /\ counts'.entities = counts.entities /\ counts'.tracks = counts.tracks
      /\ counts'.agents = counts.agents
  BY DEF IInv, TypeOK
<1>2. CountsOK'
  BY <1>1 DEF IInv, CountsOK
<1>3. OwnersConnected'
  BY DEF IInv, OwnersConnected, Connected
<1>4. AgentsOK'
  BY <1>1 DEF IInv, AgentsOK, Connected
<1>5. OriginsConnected'
  BY DEF IInv, OriginsConnected
<1>6. ~SubscribesTwice => (RecipientsSubscribed /\ RecipientOnce)'
  BY DEF IInv, RecipientsSubscribed, RecipientOnce
<1> QED BY <1>2, <1>3, <1>4, <1>5, <1>6 DEF WorldOK

\* Launch: nothing of the world changes, but the server may crash.
LEMMA LaunchStep ==
  ASSUME IInv, NEW c \in Client, NEW e \in Named, Launch(c, e)
  PROVE  WorldOK'
<1>1. CASE Crash
  BY <1>1, CrashStep
<1>2. CASE ~Crash
  <2>1. /\ counts'.entities = counts.entities /\ counts'.tracks = counts.tracks
        /\ counts'.agents = counts.agents
        /\ UNCHANGED <<agent, entities, tracks, subscribed>>
    BY <1>2 DEF Launch, IInv, TypeOK
  <2> QED BY <2>1 DEF IInv, WorldOK, CountsOK, AgentsOK, OwnersConnected, Connected,
             OriginsConnected, RecipientsSubscribed, RecipientOnce
<1> QED BY <1>1, <1>2

\* AllocateTrack: the new track has no recipient, and nobody subscribed to it.
LEMMA AllocateStep ==
  ASSUME IInv, NEW c \in Client, NEW e \in DOMAIN entities, AllocateTrack(c, e)
  PROVE  WorldOK'
<1> DEFINE t == counts.tracks + 1
<1>1. /\ TypeOK /\ counts.tracks < MaxTracks
      /\ counts' = [counts EXCEPT !.tracks = t]
      /\ UNCHANGED <<agent, avatar, launches, running, subscribed>>
  BY DEF IInv, AllocateTrack
<1>2. /\ t \in Nat /\ t \notin DOMAIN tracks
      /\ DOMAIN tracks' = DOMAIN tracks \cup {t}
      /\ \A x \in DOMAIN tracks : tracks'[x] = tracks[x]
      /\ tracks'[t] = [origin |-> c, by |-> agent[c], recipients |-> [d \in Client |-> 0]]
      /\ entities' = [x \in DOMAIN entities' |-> entities'[x]]
      /\ DOMAIN entities' = DOMAIN entities
      /\ entities'[e] = [entities[e] EXCEPT !.track = t]
      /\ \A x \in DOMAIN entities : x # e => entities'[x] = entities[x]
  BY <1>1, Allocated
<1>3. /\ counts'.entities = counts.entities /\ counts'.tracks = t
      /\ counts'.agents = counts.agents
      /\ t <= MaxTracks /\ t \in 1 .. MaxTracks /\ t > counts.tracks
  BY <1>1, PlaceAssumption DEF TypeOK
<1>4. entities'[e].owner = entities[e].owner
  BY <1>1, <1>2 DEF TypeOK, EntityType
<1>5. \A x \in DOMAIN entities : entities'[x].owner = entities[x].owner
  BY <1>2, <1>4
<1>6. \A u \in Nat : u > t => u > counts.tracks
  BY <1>1, <1>3 DEF TypeOK
<1> HIDE DEF t
<1>7. CountsOK'
  BY <1>1, <1>2, <1>3, <1>6 DEF IInv, CountsOK
<1>8. OwnersConnected'
  BY <1>1, <1>2, <1>5 DEF IInv, OwnersConnected, Connected
<1>9. AgentsOK'
  BY <1>1, <1>3 DEF IInv, AgentsOK, Connected
<1>10. OriginsConnected'
  BY <1>1, <1>2 DEF IInv, OriginsConnected
<1>11. ASSUME ~SubscribesTwice
       PROVE  (RecipientsSubscribed /\ RecipientOnce)'
  <2>1. \A d \in Client : tracks'[t].recipients[d] = 0 /\ subscribed[d][t] = 0
    BY <1>2, <1>3 DEF IInv, CountsOK
  <2> QED BY <1>1, <1>2, <1>11, <2>1 DEF IInv, RecipientsSubscribed, RecipientOnce
<1> QED BY <1>7, <1>8, <1>9, <1>10, <1>11 DEF WorldOK

\* Subscribe and Unsubscribe count the same up and down on both sides.
LEMMA SubscribeStep ==
  ASSUME IInv, NEW c \in Client, NEW t \in 1 .. MaxTracks, Subscribe(c, t)
  PROVE  WorldOK'
<1>1. /\ t \in DOMAIN tracks /\ UNCHANGED <<agent, avatar, entities, launches, counts, running>>
      /\ SubscribesTwice \/ tracks[t].recipients[c] = 0
  BY DEF Subscribe
<1>2. /\ DOMAIN tracks' = DOMAIN tracks
      /\ \A x \in DOMAIN tracks :
           /\ tracks'[x].origin = tracks[x].origin /\ tracks'[x].by = tracks[x].by
           /\ \A d \in Client : tracks'[x].recipients[d] =
                IF x = t /\ d = c THEN tracks[t].recipients[c] + 1 ELSE tracks[x].recipients[d]
      /\ \A d \in Client, x \in 1 .. MaxTracks : subscribed'[d][x] =
           IF x = t /\ d = c THEN subscribed[c][t] + 1 ELSE subscribed[d][x]
  BY SubscribeIs DEF IInv
<1>3. t <= counts.tracks /\ counts.tracks \in Nat
      /\ \A x \in DOMAIN tracks : x \in 1 .. MaxTracks
  BY <1>1, PlaceAssumption DEF IInv, TypeOK, CountsOK
<1>4. CountsOK'
  BY <1>1, <1>2, <1>3 DEF IInv, CountsOK
<1>5. (OwnersConnected /\ AgentsOK)'
  BY <1>1 DEF IInv, OwnersConnected, Connected, AgentsOK
<1>6. OriginsConnected'
  BY <1>1, <1>2 DEF IInv, OriginsConnected
<1>7. ASSUME ~SubscribesTwice
      PROVE  (RecipientsSubscribed /\ RecipientOnce)'
  <2> SUFFICES ASSUME NEW x \in DOMAIN tracks, NEW d \in Client
               PROVE  /\ tracks'[x].recipients[d] = subscribed'[d][x]
                      /\ tracks'[x].recipients[d] <= 1
    BY <1>2 DEF RecipientsSubscribed, RecipientOnce
  <2>1. tracks[x].recipients[d] = subscribed[d][x] /\ tracks[x].recipients[d] <= 1
    BY <1>7 DEF IInv, RecipientsSubscribed, RecipientOnce
  <2> QED BY <1>1, <1>2, <1>3, <1>7, <2>1
<1> QED BY <1>4, <1>5, <1>6, <1>7 DEF WorldOK

LEMMA UnsubscribeStep ==
  ASSUME IInv, NEW c \in Client, NEW t \in 1 .. MaxTracks, Unsubscribe(c, t)
  PROVE  WorldOK'
<1>1. t \in DOMAIN tracks /\ UNCHANGED <<agent, avatar, entities, launches, counts, running>>
  BY DEF Unsubscribe
<1>2. /\ DOMAIN tracks' = DOMAIN tracks
      /\ \A x \in DOMAIN tracks :
           /\ tracks'[x].origin = tracks[x].origin /\ tracks'[x].by = tracks[x].by
           /\ \A d \in Client : tracks'[x].recipients[d] =
                IF x = t /\ d = c THEN Less(tracks[t].recipients[c]) ELSE tracks[x].recipients[d]
      /\ \A d \in Client, x \in 1 .. MaxTracks : subscribed'[d][x] =
           IF x = t /\ d = c THEN Less(subscribed[c][t]) ELSE subscribed[d][x]
  BY UnsubscribeIs DEF IInv
<1>3. t <= counts.tracks /\ counts.tracks \in Nat
      /\ \A x \in DOMAIN tracks : x \in 1 .. MaxTracks /\ tracks[x] \in TrackType
  BY <1>1, PlaceAssumption DEF IInv, TypeOK, CountsOK
<1>4. CountsOK'
  BY <1>1, <1>2, <1>3 DEF IInv, CountsOK
<1>5. (OwnersConnected /\ AgentsOK)'
  BY <1>1 DEF IInv, OwnersConnected, Connected, AgentsOK
<1>6. OriginsConnected'
  BY <1>1, <1>2 DEF IInv, OriginsConnected
<1>7. ASSUME ~SubscribesTwice
      PROVE  (RecipientsSubscribed /\ RecipientOnce)'
  <2> SUFFICES ASSUME NEW x \in DOMAIN tracks, NEW d \in Client
               PROVE  /\ tracks'[x].recipients[d] = subscribed'[d][x]
                      /\ tracks'[x].recipients[d] <= 1
    BY <1>2 DEF RecipientsSubscribed, RecipientOnce
  <2>1. /\ tracks[x].recipients[d] = subscribed[d][x] /\ tracks[x].recipients[d] <= 1
        /\ tracks[x].recipients[d] \in Nat
    BY <1>3, <1>7 DEF IInv, RecipientsSubscribed, RecipientOnce, TrackType
  <2>2. Less(tracks[x].recipients[d]) <= 1
    BY <2>1 DEF Less
  <2> QED BY <1>2, <1>3, <2>1, <2>2
<1> QED BY <1>4, <1>5, <1>6, <1>7 DEF WorldOK

LEMMA StepOK == IInv /\ [Next]_vars => IInv'
<1> SUFFICES ASSUME IInv, [Next]_vars
             PROVE  WorldOK'
  BY TypeStep DEF IInv, WorldOK
<1>0. TypeOK /\ CountsOK /\ counts.entities \in Nat
  BY DEF IInv, TypeOK
<1>1. ASSUME NEW c \in Client, Connect(c)
      PROVE  WorldOK'
  BY <1>1, ConnectStep
<1>2. ASSUME NEW c \in Client, Disconnect(c)
      PROVE  WorldOK'
  BY <1>2, DisconnectStep
<1>3. ASSUME NEW c \in Client, ListAgents(c)
      PROVE  WorldOK'
  BY <1>3, CrashStep DEF ListAgents
<1>4. ASSUME NEW c \in Client, NEW components \in Components, NEW children \in 0 .. 1,
             Spawn(c, components, children)
      PROVE  WorldOK'
  BY <1>4, SpawnStep DEF Spawn, Serves
<1>5. ASSUME NEW c \in Client, NEW token \in 1 .. MaxLaunches \cup {None}, Announce(c, token)
      PROVE  WorldOK'
  <2>1. /\ c \in Connected /\ counts.entities + 1 + 0 <= MaxEntities
        /\ entities' = WithSpawned(entities, agent[c], NoComponents, 0)
        /\ counts' = [counts EXCEPT !.entities = counts.entities + 1 + 0]
        /\ UNCHANGED <<agent, tracks, subscribed>>
    BY <1>0, <1>5, PlaceAssumption DEF Announce, Serves
  <2> QED BY <2>1, SpawnStep, NoComponentsIn
<1>6. ASSUME NEW c \in Client, NEW e \in DOMAIN entities, NEW mode \in {"reparent", "cascade"},
             RemoveEntity(c, e, mode)
      PROVE  WorldOK'
  <2>1. /\ entities' = [x \in DOMAIN entities' |-> entities'[x]]
        /\ DOMAIN entities' \subseteq DOMAIN entities
        /\ \A x \in DOMAIN entities' : entities'[x].owner = entities[x].owner
    BY <1>0, <1>6, Removed
  <2> QED BY <1>6, <2>1, EditStep DEF RemoveEntity
<1>7. ASSUME NEW c \in Client, NEW e \in DOMAIN entities,
             NEW components \in Components, ChangeComponents(c, e, components)
      PROVE  WorldOK'
  <2>1. /\ entities' = [x \in DOMAIN entities' |-> entities'[x]]
        /\ DOMAIN entities' = DOMAIN entities
        /\ \A x \in DOMAIN entities : entities'[x].owner = entities[x].owner
    BY <1>0, <1>7, Changed
  <2> QED BY <1>7, <2>1, EditStep DEF ChangeComponents
<1>8. ASSUME NEW c \in Client, NEW e \in Named, Launch(c, e)
      PROVE  WorldOK'
  BY <1>8, LaunchStep
<1>9. ASSUME NEW c \in Client, NEW e \in DOMAIN entities, AllocateTrack(c, e)
      PROVE  WorldOK'
  BY <1>9, AllocateStep
<1>10. ASSUME NEW c \in Client, NEW t \in 1 .. MaxTracks, Subscribe(c, t)
       PROVE  WorldOK'
  BY <1>10, SubscribeStep
<1>11. ASSUME NEW c \in Client, NEW t \in 1 .. MaxTracks, Unsubscribe(c, t)
       PROVE  WorldOK'
  BY <1>11, UnsubscribeStep
<1>12. CASE UNCHANGED vars
  BY <1>12 DEF vars, IInv, WorldOK, CountsOK, AgentsOK, OwnersConnected, Connected,
     OriginsConnected, RecipientsSubscribed, RecipientOnce
<1> QED
  BY <1>1, <1>2, <1>3, <1>4, <1>5, <1>6, <1>7, <1>8, <1>9, <1>10, <1>11, <1>12
  DEF Next, Requests

-----------------------------------------------------------------------------
(* Whole trees.                                                            *)

\* What TreesGoWhole says of a step in which the entities of gone go
WholeStep(gone) ==
  LET roots     == {e \in gone : entities[e].parent \notin gone}
      staying   == {NoAgent} \cup {agent'[c] : c \in Client}
      onRequest == counts'.edits # counts.edits
  IN /\ \A e \in DOMAIN entities' \cap DOMAIN entities :
          entities[e].parent \in gone => entities'[e].parent = None
     /\ running' /\ onRequest => \A e, f \in roots : e = f
     /\ running' /\ ~onRequest => \A e \in roots : entities[e].owner \notin staying

TreesStep == WholeStep(DOMAIN entities \ DOMAIN entities')

LEMMA NothingGoes ==
  ASSUME DOMAIN entities \subseteq DOMAIN entities'
  PROVE  TreesStep
<1>1. DOMAIN entities \ DOMAIN entities' = {}
  OBVIOUS
<1>2. WholeStep({})
  BY DEF WholeStep
<1> QED BY <1>1, <1>2 DEF TreesStep

LEMMA CrashTrees == Crash => TreesStep
<1> SUFFICES ASSUME Crash
             PROVE  TreesStep
  OBVIOUS
<1>1. ~running' /\ \A e \in DOMAIN entities' : entities'[e].parent = None
  BY DEF Crash, OnlyPlace
<1> QED BY <1>1 DEF TreesStep, WholeStep

\* What goes with a client are trees below what it owned.
LEMMA DisconnectTrees ==
  ASSUME IInv, NEW c \in Client, Disconnect(c)
  PROVE  TreesStep
<1>1. CASE Crash
  BY <1>1, CrashTrees
<1>2. CASE ~Crash
  <2> DEFINE left == Cleanup(entities, agent[c]).left
             gone == DOMAIN entities \ DOMAIN entities'
  <2>1. /\ entities' = left /\ agent' = [agent EXCEPT ![c] = NoAgent] /\ counts' = counts
        /\ agent[c] # NoAgent /\ agent \in [Client -> Agent \cup {NoAgent}]
    BY <1>2 DEF Disconnect, Serves, Connected, IInv, TypeOK
  <2>2. WholeTrees(entities, left, agent[c])
    BY LeftOf DEF IInv
  <2> HIDE DEF left
  <2>3. /\ \A x \in DOMAIN entities' : entities[x].parent \notin gone
        /\ \A x \in gone : entities[x].owner = agent[c] \/ entities[x].parent \in gone
    BY <2>1, <2>2 DEF WholeTrees
  <2>4. agent[c] \notin {NoAgent} \cup {agent'[d] : d \in Client}
    <3>1. \A d \in Client : d # c => agent'[d] = agent[d]
      BY <2>1
    <3>2. \A d \in Client : d # c => agent[d] # agent[c]
      BY <2>1 DEF IInv, AgentsOK, Connected
    <3>3. agent'[c] = NoAgent
      BY <2>1
    <3> QED BY <2>1, <3>1, <3>2, <3>3
  <2> HIDE DEF gone
  <2>5. WholeStep(gone)
    BY <2>1, <2>3, <2>4 DEF WholeStep
  <2> QED BY <2>5 DEF TreesStep, gone
<1> QED BY <1>1, <1>2

\* What goes on request is one tree, or one entity that its children lose.
LEMMA RemoveTrees ==
  ASSUME IInv, NEW c \in Client, NEW e \in DOMAIN entities,
         NEW mode \in {"reparent", "cascade"}, RemoveEntity(c, e, mode)
  PROVE  TreesStep
<1> DEFINE gone == DOMAIN entities \ DOMAIN entities'
<1>1. counts'.edits # counts.edits
  BY DEF RemoveEntity, IInv, TypeOK
<1>2. CASE mode = "reparent"
  <2>1. entities' = WithoutReparent(entities, e)
    BY <1>2 DEF RemoveEntity
  <2>2. DOMAIN entities' = DOMAIN entities \ {e}
    BY <2>1 DEF WithoutReparent
  <2>3. \A x \in DOMAIN entities' : entities[x].parent = e => entities'[x].parent = None
    <3> SUFFICES ASSUME NEW x \in DOMAIN entities', entities[x].parent = e
                 PROVE  entities'[x].parent = None
      OBVIOUS
    <3>1. entities'[x] = [entities[x] EXCEPT !.parent = None] /\ entities[x] \in EntityType
      BY <2>1, <2>2 DEF WithoutReparent, IInv, TypeOK
    <3> QED BY <3>1 DEF EntityType
  <2>4. gone = {e}
    BY <2>2
  <2>5. WholeStep({e})
    BY <1>1, <2>3 DEF WholeStep
  <2> QED BY <2>4, <2>5 DEF TreesStep
<1>3. CASE mode = "cascade"
  <2>1. entities' = WithoutCascade(entities, e)
    BY <1>3 DEF RemoveEntity
  <2>2. Tree(entities)
    BY EntitiesTree DEF IInv
  <2> DEFINE with == Cascade(entities, e)
  <2>3. /\ with \subseteq DOMAIN entities
        /\ \A x \in DOMAIN entities : entities[x].parent \in with => x \in with
        /\ \A x \in with : x = e \/ entities[x].parent \in with
    BY <2>2, CascadeClosed, CascadeParents DEF Closed
  <2>4. DOMAIN entities' = DOMAIN entities \ with
    BY <2>1, <2>2, WithoutCascadeIs
  <2> HIDE DEF with
  <2>5. gone = with
    BY <2>3, <2>4
  <2>6. WholeStep(with)
    BY <1>1, <2>3, <2>4 DEF WholeStep
  <2> QED BY <2>5, <2>6 DEF TreesStep
<1> QED BY <1>2, <1>3

LEMMA TreesOK == IInv /\ [Next]_vars => [TreesStep]_vars
<1> SUFFICES ASSUME IInv, Next
             PROVE  TreesStep
  OBVIOUS
<1>0. TypeOK /\ CountsOK
  BY DEF IInv
<1>1. ASSUME NEW c \in Client, Connect(c)
      PROVE  TreesStep
  BY <1>1, NothingGoes DEF Connect
<1>2. ASSUME NEW c \in Client, Disconnect(c)
      PROVE  TreesStep
  BY <1>2, DisconnectTrees
<1>3. ASSUME NEW c \in Client, ListAgents(c)
      PROVE  TreesStep
  BY <1>3, CrashTrees DEF ListAgents
<1>4. ASSUME NEW c \in Client, NEW components \in Components, NEW children \in 0 .. 1,
             Spawn(c, components, children)
      PROVE  TreesStep
  <2>1. DOMAIN entities \subseteq DOMAIN entities'
    BY <1>4 DEF Spawn, WithSpawned
  <2> QED BY <2>1, NothingGoes
<1>5. ASSUME NEW c \in Client, NEW token \in 1 .. MaxLaunches \cup {None}, Announce(c, token)
      PROVE  TreesStep
  <2>1. DOMAIN entities \subseteq DOMAIN entities'
    BY <1>5 DEF Announce, WithSpawned
  <2> QED BY <2>1, NothingGoes
<1>6. ASSUME NEW c \in Client, NEW e \in DOMAIN entities, NEW mode \in {"reparent", "cascade"},
             RemoveEntity(c, e, mode)
      PROVE  TreesStep
  BY <1>6, RemoveTrees
<1>7. ASSUME NEW c \in Client, NEW e \in DOMAIN entities,
             NEW components \in Components, ChangeComponents(c, e, components)
      PROVE  TreesStep
  <2>1. DOMAIN entities \subseteq DOMAIN entities'
    BY <1>7 DEF ChangeComponents
  <2> QED BY <2>1, NothingGoes
<1>8. ASSUME NEW c \in Client, NEW e \in Named, Launch(c, e)
      PROVE  TreesStep
  <2>1. CASE Crash
    BY <2>1, CrashTrees
  <2>2. CASE ~Crash
    BY <1>8, <2>2, NothingGoes DEF Launch
  <2> QED BY <2>1, <2>2
<1>9. ASSUME NEW c \in Client, NEW e \in DOMAIN entities, AllocateTrack(c, e)
      PROVE  TreesStep
  <2>1. DOMAIN entities \subseteq DOMAIN entities'
    BY <1>9 DEF AllocateTrack
  <2> QED BY <2>1, NothingGoes
<1>10. ASSUME NEW c \in Client, NEW t \in 1 .. MaxTracks, Subscribe(c, t)
       PROVE  TreesStep
  BY <1>10, NothingGoes DEF Subscribe
<1>11. ASSUME NEW c \in Client, NEW t \in 1 .. MaxTracks, Unsubscribe(c, t)
       PROVE  TreesStep
  BY <1>11, NothingGoes DEF Unsubscribe
<1> QED
  BY <1>1, <1>2, <1>3, <1>4, <1>5, <1>6, <1>7, <1>8, <1>9, <1>10, <1>11
  DEF Next, Requests

-----------------------------------------------------------------------------
(* The theorems.                                                           *)

\* The invariant of the place holds for any number of clients and requests.
THEOREM PlaceInvariance == Spec => []IInv
BY InitOK, StepOK, PTL DEF Spec

\* Every variable keeps its type.
THEOREM PlaceTypes == Spec => []TypeOK
BY PlaceInvariance, PTL DEF IInv

\* clients_changed removes all entities of an agent that left, whoever owns what
\* they are part of.
THEOREM OwnersTheorem == Spec => []OwnersConnected
BY PlaceInvariance, PTL DEF IInv

\* allo_state_remove_entity takes whole trees, cycles included, and nothing goes
\* that nobody asked to remove or that no client that left is behind.
THEOREM TreesTheorem == Spec => TreesGoWhole
<1>1. IInv /\ [Next]_vars => [TreesStep]_vars
  BY TreesOK
<1>2. [][TreesStep]_vars => TreesGoWhole
  BY DEF TreesGoWhole, TreesStep, WholeStep
<1> HIDE DEF TreesStep
<1> QED BY <1>1, <1>2, PlaceInvariance, PTL DEF Spec

\* A track is that of the agent that allocated it, and goes with it.
THEOREM OriginsTheorem == Spec => []OriginsConnected
BY PlaceInvariance, PTL DEF IInv

\* Media goes to who is subscribed, with clients that subscribe once.
THEOREM RecipientsTheorem ==
  ASSUME ~SubscribesTwice
  PROVE  Spec => []RecipientsSubscribed
<1>1. IInv => RecipientsSubscribed
  BY DEF IInv
<1> QED BY <1>1, PlaceInvariance, PTL

\* The loop of clients_changed does not use an entity it has freed, as long as
\* entities are newer than their parents.
THEOREM SafeCleanupTheorem == Spec => []SafeCleanup
<1>1. IInv => SafeCleanup
  <2> SUFFICES ASSUME IInv, NewerThanParents(entities), NEW c \in Connected
               PROVE  Cleanup(entities, agent[c]).safe
    BY DEF SafeCleanup, NewerThanParents
  <2>1. Tree(entities)
    BY EntitiesTree DEF IInv
  <2> QED BY <2>1, CleanupSafe
<1> QED BY <1>1, PlaceInvariance, PTL
=============================================================================
