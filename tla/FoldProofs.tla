----------------------------- MODULE FoldProofs -----------------------------
(***************************************************************************)
(* Lemmas about the folds of the community modules, which the modules use  *)
(* for sums over orders and for carts computed from events.                *)
(*                                                                         *)
(* The induction is on sets, by a smallest counterexample: the family of   *)
(* the subsets of a finite set on which a claim fails has a smallest       *)
(* member, as strict inclusion is well founded.                            *)
(***************************************************************************)
EXTENDS Integers, FiniteSets, Functions, FiniteSetTheorems, WellFoundedInduction, TLAPS

LEMMA SmallestSet ==
  ASSUME NEW S, IsFiniteSet(S), NEW F \in SUBSET SUBSET S, F # {}
  PROVE  \E T \in F : \A U \in SUBSET T : U # T => U \notin F
<1> DEFINE Smaller == StrictSubsetOrdering(S)
<1>1. IsWellFoundedOn(Smaller, SUBSET S)
  BY FS_StrictSubsetOrderingWellFounded, FS_FiniteSubsetsOfFinite
<1> HIDE DEF Smaller
<1>2. PICK T \in F : \A U \in F : ~(<<U, T>> \in Smaller)
  BY <1>1, WFMin, Zenon
<1>3. ASSUME NEW U \in SUBSET T, U # T, U \in F PROVE FALSE
  <2>1. <<U, T>> \in Smaller
    BY <1>3 DEF Smaller, StrictSubsetOrdering
  <2> QED
    BY <1>2, <1>3, <2>1
<1> QED
  BY <1>3

\* A finite set of numbers has a largest one.
LEMMA LargestNumber ==
  ASSUME NEW S, IsFiniteSet(S), S \subseteq Nat, S # {}
  PROVE  \E x \in S : \A y \in S : y <= x
<1> DEFINE F == {T \in SUBSET S : T # {} /\ ~ \E x \in T : \A y \in T : y <= x}
<1> SUFFICES ASSUME F # {} PROVE FALSE
  OBVIOUS
<1>1. PICK T \in F : \A U \in SUBSET T : U # T => U \notin F
  <2>1. F \in SUBSET SUBSET S
    OBVIOUS
  <2> HIDE DEF F
  <2> QED
    BY <2>1, SmallestSet
<1>2. PICK x \in T : TRUE
  OBVIOUS
<1>3. PICK z \in T \ {x} : TRUE
  OBVIOUS
<1>4. PICK y \in T \ {x} : \A u \in T \ {x} : u <= y
  <2>1. T \ {x} \in SUBSET T /\ T \ {x} # T /\ T \ {x} # {} /\ T \ {x} \in SUBSET S
    BY <1>3
  <2> QED
    BY <1>1, <2>1
<1>5. x \in Nat /\ y \in Nat /\ T \subseteq Nat
  OBVIOUS
<1>6. \E w \in {x, y} : \A u \in T : u <= w
  BY <1>4, <1>5
<1> QED
  BY <1>6

-----------------------------------------------------------------------------
(* Recursion over the subsets of a finite set: "first" names the element   *)
(* that is taken out of a set, "add" what it adds to the rest.             *)

Picks(first, S) == \A T \in SUBSET S : T # {} => first[T] \in T

IsFold(f, S, base, first, add) ==
  f = [T \in SUBSET S |-> IF T = {} THEN base ELSE add[<<first[T], f[T \ {first[T]}]>>]]

LEMMA FoldValues ==
  ASSUME NEW S, NEW base, NEW first, NEW add, NEW f, IsFold(f, S, base, first, add)
  PROVE  /\ f[{}] = base
         /\ \A T \in SUBSET S : T # {} => f[T] = add[<<first[T], f[T \ {first[T]}]>>]
BY DEF IsFold

LEMMA FoldUnique ==
  ASSUME NEW S, IsFiniteSet(S), NEW base, NEW first, NEW add, Picks(first, S),
         NEW A \in SUBSET S, NEW B \in SUBSET S, NEW f, NEW h,
         IsFold(f, A, base, first, add), IsFold(h, B, base, first, add)
  PROVE  \A T \in SUBSET A : T \in SUBSET B => f[T] = h[T]
<1> DEFINE F == {T \in SUBSET S : T \in SUBSET A /\ T \in SUBSET B /\ f[T] # h[T]}
<1>1. SUFFICES ASSUME F # {} PROVE FALSE
  OBVIOUS
<1>2. PICK T \in F : \A U \in SUBSET T : U # T => U \notin F
  <2>1. F \in SUBSET SUBSET S
    OBVIOUS
  <2> HIDE DEF F
  <2> QED
    BY <1>1, <2>1, SmallestSet
<1>3. T # {}
  <2>1. f[{}] = base /\ h[{}] = base
    BY FoldValues
  <2> QED
    BY <2>1
<1>4. first[T] \in T
  BY <1>3 DEF Picks
<1>5. f[T \ {first[T]}] = h[T \ {first[T]}]
  <2>1. T \ {first[T]} \in SUBSET T /\ T \ {first[T]} # T
    BY <1>4
  <2> QED
    BY <1>2, <2>1
<1>6. f[T] = add[<<first[T], f[T \ {first[T]}]>>] /\ h[T] = add[<<first[T], h[T \ {first[T]}]>>]
  BY <1>3, FoldValues
<1> QED
  BY <1>5, <1>6

LEMMA FoldExists ==
  ASSUME NEW S, IsFiniteSet(S), NEW base, NEW first, NEW add, Picks(first, S)
  PROVE  \E f : IsFold(f, S, base, first, add)
<1> DEFINE Fold(T) == CHOOSE f : IsFold(f, T, base, first, add)
           F == {T \in SUBSET S : ~ \E f : IsFold(f, T, base, first, add)}
<1>1. SUFFICES ASSUME F # {} PROVE FALSE
  OBVIOUS
<1>2. PICK T \in F : \A U \in SUBSET T : U # T => U \notin F
  <2>1. F \in SUBSET SUBSET S
    OBVIOUS
  <2> HIDE DEF F
  <2> QED
    BY <1>1, <2>1, SmallestSet
<1>3. \A U \in SUBSET T : U # T => IsFold(Fold(U), U, base, first, add)
  BY <1>2
<1> HIDE DEF Fold
<1> DEFINE Rest(U) == U \ {first[U]}
           value(U) == IF U = {} THEN base ELSE add[<<first[U], Fold(Rest(U))[Rest(U)]>>]
<1>4. \A U \in SUBSET T : U # {} => Rest(U) \in SUBSET T /\ Rest(U) # T /\ Rest(U) \in SUBSET U /\ Rest(U) # U
  BY DEF Picks
<1>5. ASSUME NEW U \in SUBSET T, U # T PROVE Fold(U)[U] = value(U)
  <2>1. CASE U = {}
    BY <1>3, <1>5, <2>1, FoldValues
  <2>2. CASE U # {}
    <3>1. Fold(U)[U] = add[<<first[U], Fold(U)[Rest(U)]>>]
      BY <1>3, <1>5, <2>2, FoldValues
    <3>2. U \in SUBSET S /\ Rest(U) \in SUBSET S /\ Rest(U) \in SUBSET Rest(U) /\ Rest(U) \in SUBSET U
      OBVIOUS
    <3>3. /\ IsFold(Fold(U), U, base, first, add)
          /\ IsFold(Fold(Rest(U)), Rest(U), base, first, add)
      BY <1>3, <1>4, <1>5, <2>2
    <3>4. Fold(U)[Rest(U)] = Fold(Rest(U))[Rest(U)]
      <4> HIDE DEF Rest
      <4> QED
        BY <3>2, <3>3, FoldUnique
    <3> QED
      BY <2>2, <3>1, <3>4
  <2> QED
    BY <2>1, <2>2
<1> DEFINE h == [U \in SUBSET T |-> value(U)]
<1>6. \A U \in SUBSET T : h[U] = IF U = {} THEN base ELSE add[<<first[U], h[Rest(U)]>>]
  <2> SUFFICES ASSUME NEW U \in SUBSET T, U # {} PROVE value(U) = add[<<first[U], h[Rest(U)]>>]
    OBVIOUS
  <2>1. h[Rest(U)] = Fold(Rest(U))[Rest(U)]
    <3>1. h[Rest(U)] = value(Rest(U))
      BY <1>4
    <3> HIDE DEF h, value, Rest
    <3> QED
      BY <1>4, <1>5, <3>1
  <2> QED
    BY <2>1
<1>7. IsFold(h, T, base, first, add)
  BY <1>6 DEF IsFold
<1> QED
  BY <1>2, <1>7
-----------------------------------------------------------------------------
(* Sums.                                                                   *)

Some(T) == CHOOSE x \in T : TRUE

IsSum(f, fun, S) ==
  f = [T \in SUBSET S |-> IF T = {} THEN 0 ELSE fun[Some(T)] + f[T \ {Some(T)}]]

LEMMA SumValues ==
  ASSUME NEW S, NEW fun, NEW f, IsSum(f, fun, S)
  PROVE  /\ f[{}] = 0
         /\ \A T \in SUBSET S : T # {} =>
              /\ Some(T) \in T /\ T \ {Some(T)} \in SUBSET T /\ T \ {Some(T)} # T
              /\ f[T] = fun[Some(T)] + f[T \ {Some(T)}]
<1>1. \A T : T # {} => Some(T) \in T
  BY DEF Some
<1> QED
  BY <1>1 DEF IsSum

LEMMA SumType ==
  ASSUME NEW S, IsFiniteSet(S), NEW fun, \A x \in S : fun[x] \in Nat, NEW f, IsSum(f, fun, S)
  PROVE  f \in [SUBSET S -> Nat]
<1> DEFINE F == {T \in SUBSET S : f[T] \notin Nat}
<1> SUFFICES ASSUME F # {} PROVE FALSE
  BY DEF IsSum
<1>1. PICK T \in F : \A U \in SUBSET T : U # T => U \notin F
  <2>1. F \in SUBSET SUBSET S
    OBVIOUS
  <2> HIDE DEF F
  <2> QED
    BY <2>1, SmallestSet
<1>2. /\ f[{}] = 0
      /\ T # {} => /\ Some(T) \in T /\ T \ {Some(T)} \in SUBSET T /\ T \ {Some(T)} # T
                   /\ f[T] = fun[Some(T)] + f[T \ {Some(T)}]
  <2> HIDE DEF F
  <2>1. T \in SUBSET S
    BY <1>1 DEF F
  <2> QED
    BY <2>1, SumValues
<1>3. f[T] \notin Nat /\ T # {}
  <2>1. f[T] \notin Nat /\ 0 \in Nat
    BY <1>1
  <2> QED
    BY <1>2, <2>1, Zenon
<1>4. f[T \ {Some(T)}] \in Nat /\ fun[Some(T)] \in Nat
  BY <1>1, <1>2, <1>3
<1> HIDE DEF F
<1> QED
  BY <1>2, <1>3, <1>4

LEMMA SumUnique ==
  ASSUME NEW S, IsFiniteSet(S), NEW A \in SUBSET S, NEW fun, NEW f, NEW h,
         IsSum(f, fun, S), IsSum(h, fun, A)
  PROVE  f[A] = h[A]
<1> DEFINE F == {T \in SUBSET A : f[T] # h[T]}
<1> SUFFICES ASSUME F # {} PROVE FALSE
  OBVIOUS
<1>1. PICK T \in F : \A U \in SUBSET T : U # T => U \notin F
  <2>1. F \in SUBSET SUBSET S
    OBVIOUS
  <2> HIDE DEF F
  <2> QED
    BY <2>1, SmallestSet
<1>2. /\ f[{}] = 0 /\ h[{}] = 0
      /\ T # {} => /\ Some(T) \in T /\ T \ {Some(T)} \in SUBSET T /\ T \ {Some(T)} # T
                   /\ f[T] = fun[Some(T)] + f[T \ {Some(T)}]
                   /\ h[T] = fun[Some(T)] + h[T \ {Some(T)}]
  BY SumValues
<1> QED
  BY <1>1, <1>2

LEMMA SumExists ==
  ASSUME NEW S, IsFiniteSet(S), NEW fun, \A x \in S : fun[x] \in Nat
  PROVE  \E f : IsSum(f, fun, S)
<1> DEFINE first == [T \in SUBSET S |-> Some(T)]
           add == [xn \in S \X Nat |-> fun[xn[1]] + xn[2]]
<1>1. \A T \in SUBSET S : T # {} => first[T] = Some(T) /\ Some(T) \in T
  BY DEF Some
<1>2. PICK f : IsFold(f, S, 0, first, add)
  <2>1. Picks(first, S)
    BY <1>1 DEF Picks
  <2> HIDE DEF first, add
  <2> QED
    BY <2>1, FoldExists
<1>3. /\ f[{}] = 0
      /\ \A T \in SUBSET S : T # {} => f[T] = add[<<Some(T), f[T \ {Some(T)}]>>]
  <2> HIDE DEF first, add
  <2> QED
    BY <1>1, <1>2, FoldValues
<1>4. \A T \in SUBSET S : f[T] \in Nat
  <2> DEFINE F == {T \in SUBSET S : f[T] \notin Nat}
  <2> SUFFICES ASSUME F # {} PROVE FALSE
    OBVIOUS
  <2>1. PICK T \in F : \A U \in SUBSET T : U # T => U \notin F
    <3>1. F \in SUBSET SUBSET S
      OBVIOUS
    <3> HIDE DEF F
    <3> QED
      BY <3>1, SmallestSet
  <2>2. T # {} => Some(T) \in S /\ f[T \ {Some(T)}] \in Nat /\ f[T] = add[<<Some(T), f[T \ {Some(T)}]>>]
    <3>1. T # {} => Some(T) \in T /\ T \ {Some(T)} \in SUBSET T /\ T \ {Some(T)} # T
      BY <1>1
    <3> HIDE DEF add
    <3> QED
      BY <1>3, <2>1, <3>1
  <2>3. f[T] \notin Nat /\ T # {}
    <3>1. f[T] \notin Nat /\ 0 \in Nat
      BY <2>1
    <3> QED
      BY <1>3, <3>1, Zenon
  <2>4. add[<<Some(T), f[T \ {Some(T)}]>>] \in Nat
    <3>1. Some(T) \in S /\ f[T \ {Some(T)}] \in Nat
      BY <2>2, <2>3
    <3>2. \A x \in S, n \in Nat : add[<<x, n>>] \in Nat
      OBVIOUS
    <3> HIDE DEF add, F
    <3> QED
      BY <3>1, <3>2
  <2> HIDE DEF F, add
  <2> QED
    BY <2>2, <2>3, <2>4
<1>5. ASSUME NEW T \in SUBSET S, T # {} PROVE f[T] = fun[Some(T)] + f[T \ {Some(T)}]
  <2>1. Some(T) \in S /\ T \ {Some(T)} \in SUBSET S /\ f[T] = add[<<Some(T), f[T \ {Some(T)}]>>]
    <3> HIDE DEF add
    <3> QED
      BY <1>1, <1>3, <1>5
  <2> QED
    BY <1>4, <2>1
<1>6. f = [T \in SUBSET S |-> f[T]]
  BY <1>2 DEF IsFold
<1> HIDE DEF first, add
<1> QED
  BY <1>3, <1>5, <1>6 DEF IsSum

\* SumFunctionOnSet is what it is meant to be.
LEMMA SumDefined ==
  ASSUME NEW S, IsFiniteSet(S), NEW fun, \A x \in S : fun[x] \in Nat
  PROVE  \E f \in [SUBSET S -> Nat] : IsSum(f, fun, S) /\ SumFunctionOnSet(fun, S) = f[S]
<1> DEFINE f == CHOOSE h : IsSum(h, fun, S)
<1>1. SumFunctionOnSet(fun, S) = f[S]
  BY DEF SumFunctionOnSet, FoldFunctionOnSet, MapThenFoldSet, IsSum, Some
<1>2. IsSum(f, fun, S)
  BY SumExists
<1> HIDE DEF f
<1> QED
  BY <1>1, <1>2, SumType

LEMMA SumTaken ==
  ASSUME NEW S, IsFiniteSet(S), NEW fun, \A x \in S : fun[x] \in Nat
  PROVE  /\ SumFunctionOnSet(fun, S) \in Nat
         /\ S = {} => SumFunctionOnSet(fun, S) = 0
         /\ S # {} => /\ Some(S) \in S
                      /\ SumFunctionOnSet(fun, S) = fun[Some(S)] + SumFunctionOnSet(fun, S \ {Some(S)})
<1>1. PICK f \in [SUBSET S -> Nat] : IsSum(f, fun, S) /\ SumFunctionOnSet(fun, S) = f[S]
  BY SumDefined
<1>2. ASSUME S # {} PROVE f[S] = fun[Some(S)] + SumFunctionOnSet(fun, S \ {Some(S)}) /\ Some(S) \in S
  <2> DEFINE rest == S \ {Some(S)}
  <2>1. IsFiniteSet(rest) /\ rest \in SUBSET S
    BY FS_Subset
  <2>2. Some(S) \in S /\ f[S] = fun[Some(S)] + f[rest]
    BY <1>1, <1>2, SumValues
  <2> HIDE DEF rest
  <2>3. PICK h \in [SUBSET rest -> Nat] : IsSum(h, fun, rest) /\ SumFunctionOnSet(fun, rest) = h[rest]
    BY <2>1, SumDefined
  <2>4. f[rest] = h[rest]
    BY <1>1, <2>1, <2>3, SumUnique
  <2> QED
    BY <2>2, <2>3, <2>4 DEF rest
<1>3. S = {} => f[S] = 0
  BY <1>1, SumValues
<1> QED
  BY <1>1, <1>2, <1>3

\* Any element can be taken out first.
LEMMA SumSplit ==
  ASSUME NEW S, IsFiniteSet(S), NEW fun, \A x \in S : fun[x] \in Nat, NEW y \in S
  PROVE  SumFunctionOnSet(fun, S) = fun[y] + SumFunctionOnSet(fun, S \ {y})
<1> DEFINE Sum(T) == SumFunctionOnSet(fun, T)
           F == {T \in SUBSET S : \E z \in T : Sum(T) # fun[z] + Sum(T \ {z})}
<1>0. /\ \A T \in SUBSET S : IsFiniteSet(T)
      /\ \A T \in SUBSET S : Sum(T) \in Nat /\ (T # {} => Some(T) \in T /\ Sum(T) = fun[Some(T)] + Sum(T \ {Some(T)}))
  BY FS_Subset, SumTaken
<1> HIDE DEF Sum
<1> SUFFICES ASSUME F # {} PROVE FALSE
  BY DEF Sum
<1>1. PICK T \in F : \A U \in SUBSET T : U # T => U \notin F
  <2>1. F \in SUBSET SUBSET S
    OBVIOUS
  <2> HIDE DEF F
  <2> QED
    BY <2>1, SmallestSet
<1>2. PICK z \in T : Sum(T) # fun[z] + Sum(T \ {z})
  BY <1>1
<1>3. PICK x \in T : Sum(T) = fun[x] + Sum(T \ {x})
  BY <1>0, <1>2
<1>4. x # z /\ x \in S /\ z \in S /\ T \in SUBSET S
  BY <1>2, <1>3
<1>5. Sum(T \ {x}) = fun[z] + Sum((T \ {x}) \ {z}) /\ Sum(T \ {z}) = fun[x] + Sum((T \ {z}) \ {x})
  <2>1. T \ {x} \in SUBSET T /\ T \ {x} # T /\ T \ {z} \in SUBSET T /\ T \ {z} # T
    OBVIOUS
  <2>2. z \in T \ {x} /\ x \in T \ {z}
    BY <1>4
  <2> QED
    BY <1>1, <2>1, <2>2
<1>6. (T \ {x}) \ {z} = (T \ {z}) \ {x} /\ (T \ {x}) \ {z} \in SUBSET S
  OBVIOUS
<1>7. Sum((T \ {x}) \ {z}) \in Nat /\ fun[x] \in Nat /\ fun[z] \in Nat
  BY <1>0, <1>4, <1>6
<1> QED
  BY <1>2, <1>3, <1>5, <1>6, <1>7

\* A sum depends on the values it adds up, and on nothing else.
LEMMA SumSame ==
  ASSUME NEW S, IsFiniteSet(S), NEW fun, NEW gun, \A x \in S : fun[x] \in Nat /\ gun[x] = fun[x]
  PROVE  SumFunctionOnSet(gun, S) = SumFunctionOnSet(fun, S)
<1> DEFINE F == {T \in SUBSET S : SumFunctionOnSet(gun, T) # SumFunctionOnSet(fun, T)}
<1> SUFFICES ASSUME F # {} PROVE FALSE
  OBVIOUS
<1>1. PICK T \in F : \A U \in SUBSET T : U # T => U \notin F
  <2>1. F \in SUBSET SUBSET S
    OBVIOUS
  <2> HIDE DEF F
  <2> QED
    BY <2>1, SmallestSet
<1>2. IsFiniteSet(T) /\ \A x \in T : fun[x] \in Nat /\ gun[x] \in Nat
  BY FS_Subset
<1>3. /\ T = {} => SumFunctionOnSet(fun, T) = 0 /\ SumFunctionOnSet(gun, T) = 0
      /\ T # {} => /\ Some(T) \in T
                   /\ SumFunctionOnSet(fun, T) = fun[Some(T)] + SumFunctionOnSet(fun, T \ {Some(T)})
                   /\ SumFunctionOnSet(gun, T) = gun[Some(T)] + SumFunctionOnSet(gun, T \ {Some(T)})
  BY <1>2, SumTaken
<1>4. T # {} => T \ {Some(T)} \in SUBSET T /\ T \ {Some(T)} # T
  BY <1>3
<1> QED
  BY <1>1, <1>3, <1>4
=============================================================================
