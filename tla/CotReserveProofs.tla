-------------------------- MODULE CotReserveProofs --------------------------
(***************************************************************************)
(* Proofs about CotReserve for every set of batches and transactions and   *)
(* every MaxUint.  The invariant that carries them is that the slack of    *)
(* the registry, totalVerifiedKg - totalTokenizedKg, is the sum of the     *)
(* slacks of its active batches: from it a mint that fits its batch fits   *)
(* the totals too.                                                         *)
(***************************************************************************)
EXTENDS CotReserve, FiniteSetTheorems, SequenceTheorems, WellFoundedInduction, TLAPS

-----------------------------------------------------------------------------
(* Sums.  The sum of a function with natural values is stated without      *)
(* recursion: "t is the sum of f over S" says that there is a table of the *)
(* sums over all subsets of S, built up one element at a time, whose entry *)
(* for S is t.  The lemmas say what a change of f at one point does to the *)
(* sum, that no single value exceeds it, and that over a finite set it is  *)
(* what MapThenSumSet computes.                                            *)

\* ps is a table of the partial sums of f over the subsets of S.
PartialSums(ps, f, S, t) ==
  /\ ps[{}] = 0
  /\ \A T \in SUBSET S : \A b \in S \ T : ps[T \cup {b}] = ps[T] + f[b]
  /\ \A T \in SUBSET S : ps[T] + ps[S \ T] = t

\* t is the sum of f over S.
SumIs(f, S, t) ==
  \E ps \in [SUBSET S -> 0 .. t] : PartialSums(ps, f, S, t)

\* The function that is zero everywhere has sum zero.
LEMMA SumOfZeros ==
  ASSUME NEW S, NEW f, \A b \in S : f[b] = 0
  PROVE  SumIs(f, S, 0)
<1> DEFINE ps == [T \in SUBSET S |-> 0]
<1>1. ps \in [SUBSET S -> 0 .. 0]
  OBVIOUS
<1>2. PartialSums(ps, f, S, 0)
  <2>1. \A T \in SUBSET S : ps[T] = 0
    OBVIOUS
  <2>2. \A T \in SUBSET S : \A b \in S \ T :
          T \cup {b} \in SUBSET S /\ S \ T \in SUBSET S /\ b \in S
    OBVIOUS
  <2>3. \A T \in SUBSET S : \A b \in S \ T : ps[T \cup {b}] = ps[T] + f[b]
    <3> SUFFICES ASSUME NEW T \in SUBSET S, NEW b \in S \ T
                 PROVE  ps[T \cup {b}] = ps[T] + f[b]
      OBVIOUS
    <3>1. ps[T \cup {b}] = 0 /\ ps[T] = 0 /\ f[b] = 0
      BY <2>1, <2>2
    <3> HIDE DEF ps
    <3>2. QED BY <3>1, SMT
  <2>4. \A T \in SUBSET S : ps[T] + ps[S \ T] = 0
    <3> SUFFICES ASSUME NEW T \in SUBSET S PROVE ps[T] + ps[S \ T] = 0
      OBVIOUS
    <3>1. ps[T] = 0 /\ ps[S \ T] = 0
      BY <2>1
    <3> HIDE DEF ps
    <3>2. QED BY <3>1, SMT
  <2>5. ps[{}] = 0
    BY <2>1
  <2>6. QED BY <2>3, <2>4, <2>5 DEF PartialSums
<1>3. QED BY <1>1, <1>2 DEF SumIs

\* A single value is at most the sum.
LEMMA SumBoundsValue ==
  ASSUME NEW S, NEW f, NEW t \in Nat, SumIs(f, S, t),
         NEW b \in S, f[b] \in Nat
  PROVE  f[b] <= t
<1>1. PICK ps \in [SUBSET S -> 0 .. t] : PartialSums(ps, f, S, t)
  BY DEF SumIs
<1>2. ps[{} \cup {b}] = ps[{}] + f[b] /\ ps[{}] = 0
  BY <1>1 DEF PartialSums
<1>3. ps[{} \cup {b}] \in 0 .. t
  BY <1>1
<1>4. QED BY <1>2, <1>3, SMT

\* Changing f at b changes the sum by the difference.
LEMMA SumUpdate ==
  ASSUME NEW S, NEW f, NEW t \in Nat, SumIs(f, S, t),
         NEW b \in S, \A c \in S : f[c] \in Nat,
         NEW g, g[b] \in Nat, \A c \in S \ {b} : g[c] = f[c]
  PROVE  SumIs(g, S, t - f[b] + g[b]) /\ t - f[b] + g[b] \in Nat
<1> DEFINE u == t - f[b] + g[b]
<1>1. PICK ps \in [SUBSET S -> 0 .. t] : PartialSums(ps, f, S, t)
  BY DEF SumIs
<1> DEFINE qs == [T \in SUBSET S |->
                    IF b \in T THEN ps[T] - f[b] + g[b] ELSE ps[T]]
<1>2. u \in Nat
  BY SumBoundsValue, SMT
<1>3. \A T \in SUBSET S : ps[T] \in 0 .. t /\ ps[T] \in Int
  <2>1. \A T \in SUBSET S : ps[T] \in 0 .. t
    BY <1>1
  <2>2. QED BY <2>1, SMT
<1>4. \A T \in SUBSET S : b \in T => f[b] <= ps[T]
  <2> SUFFICES ASSUME NEW T \in SUBSET S, b \in T PROVE f[b] <= ps[T]
    OBVIOUS
  <2>1. (T \ {b}) \cup {b} = T /\ T \ {b} \in SUBSET S /\ b \in S \ (T \ {b})
    OBVIOUS
  <2>2. ps[(T \ {b}) \cup {b}] = ps[T \ {b}] + f[b]
    BY <1>1, <2>1 DEF PartialSums
  <2>3. ps[T] = ps[T \ {b}] + f[b]
    BY <2>1, <2>2
  <2>4. ps[T \ {b}] \in 0 .. t
    BY <1>3, <2>1
  <2>5. QED BY <2>3, <2>4, <1>3, SMT
<1>5. \A T \in SUBSET S : ps[T] + ps[S \ T] = t
  BY <1>1 DEF PartialSums
<1>6. \A T \in SUBSET S : qs[T] + qs[S \ T] = u
  <2> SUFFICES ASSUME NEW T \in SUBSET S PROVE qs[T] + qs[S \ T] = u
    OBVIOUS
  <2>1. S \ T \in SUBSET S /\ ps[T] + ps[S \ T] = t
    BY <1>5
  <2>2. ps[T] \in Int /\ ps[S \ T] \in Int
    BY <1>3, <2>1
  <2>3. CASE b \in T
    <3>1. qs[T] = ps[T] - f[b] + g[b] /\ qs[S \ T] = ps[S \ T]
      BY <2>1, <2>3
    <3>2. QED BY <3>1, <2>1, <2>2, SMT
  <2>4. CASE b \notin T
    <3>1. qs[T] = ps[T] /\ qs[S \ T] = ps[S \ T] - f[b] + g[b]
      BY <2>1, <2>4
    <3>2. QED BY <3>1, <2>1, <2>2, SMT
  <2>5. QED BY <2>3, <2>4
<1>7. \A T \in SUBSET S : qs[T] \in Nat
  <2> SUFFICES ASSUME NEW T \in SUBSET S PROVE qs[T] \in Nat
    OBVIOUS
  <2>1. ps[T] \in 0 .. t /\ (b \in T => f[b] <= ps[T])
    BY <1>3, <1>4
  <2>2. qs[T] = IF b \in T THEN ps[T] - f[b] + g[b] ELSE ps[T]
    OBVIOUS
  <2> HIDE DEF qs
  <2>3. QED BY <2>1, <2>2, SMT
<1>8. qs \in [SUBSET S -> 0 .. u]
  <2>1. \A T \in SUBSET S : qs[T] \in 0 .. u
    <3> SUFFICES ASSUME NEW T \in SUBSET S PROVE qs[T] \in 0 .. u
      OBVIOUS
    <3>1. qs[T] \in Nat /\ qs[S \ T] \in Nat /\ qs[T] + qs[S \ T] = u
      BY <1>6, <1>7
    <3> HIDE DEF qs, u
    <3>2. QED BY <3>1, <1>2, SMT
  <2>2. QED BY <2>1
<1>9. \A T \in SUBSET S : \A c \in S \ T : qs[T \cup {c}] = qs[T] + g[c]
  <2> SUFFICES ASSUME NEW T \in SUBSET S, NEW c \in S \ T
               PROVE  qs[T \cup {c}] = qs[T] + g[c]
    OBVIOUS
  <2>1. T \cup {c} \in SUBSET S /\ ps[T \cup {c}] = ps[T] + f[c]
    BY <1>1 DEF PartialSums
  <2>2. ps[T] \in Int
    BY <1>3
  <2>3. ps[T \cup {c}] \in Int
    BY <1>3, <2>1
  <2>4. CASE c = b
    <3>1. qs[T \cup {c}] = ps[T \cup {c}] - f[b] + g[b] /\ qs[T] = ps[T]
      BY <2>1, <2>4
    <3> HIDE DEF qs
    <3>2. QED BY <3>1, <2>1, <2>2, <2>4, SMT
  <2>5. CASE c # b /\ b \in T
    <3>1. /\ qs[T \cup {c}] = ps[T \cup {c}] - f[b] + g[b]
          /\ qs[T] = ps[T] - f[b] + g[b]
          /\ g[c] = f[c]
      BY <2>1, <2>5
    <3>2. f[c] \in Nat
      OBVIOUS
    <3> HIDE DEF qs
    <3>3. QED BY <3>1, <3>2, <2>1, <2>2, <2>3, SMT
  <2>6. CASE b \notin T /\ c # b
    <3>1. qs[T \cup {c}] = ps[T \cup {c}] /\ qs[T] = ps[T] /\ g[c] = f[c]
      BY <2>1, <2>6
    <3> HIDE DEF qs
    <3>2. QED BY <3>1, <2>1
  <2>7. QED BY <2>4, <2>5, <2>6
<1>10. qs[{}] = 0
  BY <1>1 DEF PartialSums
<1>11. PartialSums(qs, g, S, u)
  BY <1>6, <1>9, <1>10 DEF PartialSums
<1>12. QED BY <1>2, <1>8, <1>11 DEF SumIs

-----------------------------------------------------------------------------
(* The recursive function that MapThenSumSet is defined by                 *)

\* The element a recursive sum takes out of a set.
Taken(T) == CHOOSE b \in T : TRUE

\* g satisfies the recursive definition of the sum of f over subsets of S.
FoldTable(g, f, S) ==
  g = [T \in SUBSET S |-> IF T = {} THEN 0 ELSE f[Taken(T)] + g[T \ {Taken(T)}]]

\* A table of partial sums does, so there is such a function.
LEMMA PartialSumsFold ==
  ASSUME NEW S, NEW f, NEW t \in Nat, \A b \in S : f[b] \in Nat,
         NEW ps \in [SUBSET S -> 0 .. t], PartialSums(ps, f, S, t)
  PROVE  FoldTable(ps, f, S)
<1>1. ASSUME NEW T \in SUBSET S, T # {}
      PROVE  ps[T] = f[Taken(T)] + ps[T \ {Taken(T)}]
  <2>1. Taken(T) \in T
    BY <1>1 DEF Taken
  <2>2. PICK b \in T : b = Taken(T)
    BY <2>1
  <2>3. /\ T \ {b} \in SUBSET S /\ b \in S \ (T \ {b}) /\ (T \ {b}) \cup {b} = T
        /\ f[b] \in Nat
    OBVIOUS
  <2>4. ps[T] = ps[T \ {b}] + f[b]
    BY <2>3 DEF PartialSums
  <2>5. ps[T \ {b}] \in 0 .. t
    BY <2>3
  <2>6. ps[T] = f[b] + ps[T \ {b}]
    BY <2>3, <2>4, <2>5, SMT
  <2>7. QED BY <2>2, <2>6
<1>2. ps = [T \in SUBSET S |-> ps[T]]
  OBVIOUS
<1>3. ps[{}] = 0
  BY DEF PartialSums
<1>4. QED BY <1>1, <1>2, <1>3 DEF FoldTable

\* Over a finite set there is only one: two of them cannot differ at a smallest
\* subset of it.
LEMMA FoldTableUnique ==
  ASSUME NEW S, IsFiniteSet(S), NEW f, NEW g, NEW h,
         FoldTable(g, f, S), FoldTable(h, f, S)
  PROVE  g[S] = h[S]
<1> DEFINE Differ == {T \in SUBSET S : g[T] # h[T]}
<1>1. IsWellFoundedOn(StrictSubsetOrdering(S), SUBSET S)
  BY FS_StrictSubsetOrderingWellFounded, FS_FiniteSubsetsOfFinite
<1>2. SUFFICES ASSUME Differ # {} PROVE FALSE
  OBVIOUS
<1>3. PICK T \in Differ : \A U \in Differ : <<U, T>> \notin StrictSubsetOrdering(S)
  <2>1. Differ \subseteq SUBSET S
    OBVIOUS
  <2> HIDE DEF Differ
  <2>2. QED BY <1>1, <1>2, <2>1, WFMin
<1>4. T # {}
  BY <1>3 DEF FoldTable
<1>5. PICK b \in T : b = Taken(T)
  BY <1>4 DEF Taken
<1>6. T \ {b} \in SUBSET S /\ <<T \ {b}, T>> \in StrictSubsetOrdering(S)
  BY <1>5 DEF StrictSubsetOrdering
<1>7. g[T \ {b}] = h[T \ {b}]
  BY <1>3, <1>6
<1>8. g[T] = f[b] + g[T \ {b}] /\ h[T] = f[b] + h[T \ {b}]
  BY <1>4, <1>5 DEF FoldTable
<1>9. QED BY <1>3, <1>7, <1>8

LEMMA FoldTableIsSum ==
  ASSUME NEW S, IsFiniteSet(S), NEW f, \A b \in S : f[b] \in Nat,
         NEW t \in Nat, SumIs(f, S, t)
  PROVE  (CHOOSE g : FoldTable(g, f, S))[S] = t
<1>1. PICK ps \in [SUBSET S -> 0 .. t] : PartialSums(ps, f, S, t)
  BY DEF SumIs
<1>2. FoldTable(ps, f, S)
  BY <1>1, PartialSumsFold
<1>3. PICK g : g = (CHOOSE h : FoldTable(h, f, S))
  OBVIOUS
<1>4. FoldTable(g, f, S)
  BY <1>2, <1>3
<1>5. g[S] = ps[S]
  BY <1>2, <1>4, FoldTableUnique
<1>6. ps[S] = t
  <2>1. ps[{}] + ps[S \ {}] = t /\ ps[{}] = 0 /\ S \ {} = S
    BY <1>1 DEF PartialSums
  <2>2. ps[S] \in 0 .. t
    OBVIOUS
  <2>3. QED BY <2>1, <2>2, SMT
<1>7. QED BY <1>3, <1>5, <1>6

\* MapThenSumSet computes the sum.
LEMMA MapThenSumSetIsSum ==
  ASSUME NEW S, IsFiniteSet(S), NEW f, \A b \in S : f[b] \in Nat,
         NEW t \in Nat, SumIs(f, S, t)
  PROVE  MapThenSumSet(LAMBDA b : f[b], S) = t
<1>1. MapThenSumSet(LAMBDA b : f[b], S) = (CHOOSE g : FoldTable(g, f, S))[S]
  BY DEF MapThenSumSet, MapThenFoldSet, FoldTable, Taken
<1>2. QED BY <1>1, FoldTableIsSum
-----------------------------------------------------------------------------
(* The invariant                                                           *)

\* What is left to issue of each batch.
BatchSlack ==
  [b \in Batches |->
     IF reserves[b].active THEN reserves[b].verifiedKg - reserves[b].tokenizedKg
                           ELSE 0]

TotalSlack == totalVerifiedKg - totalTokenizedKg

\* The inductive invariant behind GlobalBacking and BatchBacking: the slack
\* that is left of each batch of the registry adds up to what totalVerifiedKg
\* and totalTokenizedKg leave, and tokens never outnumber claims.
BackingInv ==
  /\ BatchBacking
  /\ TotalSlack \in Nat
  /\ SumIs(BatchSlack, Batches, TotalSlack)
  /\ totalSupply <= totalTokenizedKg

-----------------------------------------------------------------------------
(* Type correctness                                                        *)

LEMMA InitTypeOK == ReserveInit => ReserveTypeOK
<1> SUFFICES ASSUME ReserveInit PROVE ReserveTypeOK
  OBVIOUS
<1>1. 0 \in Uint
  BY ReserveAssumption DEF Uint
<1>2. reserves \in [Batches -> Reserve]
  BY <1>1 DEF ReserveInit, Reserve
<1>3. batchData \in [Batches -> BatchData]
  BY <1>1 DEF ReserveInit, BatchData
<1>4. allBatchIds \in Seq(Batches)
  BY DEF ReserveInit
<1>5. QED BY <1>1, <1>2, <1>3, <1>4 DEF ReserveInit, ReserveTypeOK

\* What the registry's part of a mint does to its own state.
LEMMA ConsumeType ==
  ASSUME ReserveTypeOK, NEW b \in Batches, NEW amount \in Uint, Consume(b, amount)
  PROVE  /\ reserves' \in [Batches -> Reserve]
         /\ totalVerifiedKg' \in Uint
         /\ totalTokenizedKg' \in Uint
<1> USE ReserveAssumption DEF Uint
<1>1. reserves[b] \in Reserve /\ reserves[b].tokenizedKg + amount \in Uint
  BY DEF ReserveTypeOK, Reserve, Consume, WithinVerified
<1>2. [reserves[b] EXCEPT !.tokenizedKg = @ + amount] \in Reserve
  BY <1>1 DEF Reserve
<1>3. QED BY <1>2 DEF ReserveTypeOK, Consume, Checked

LEMMA NextTypeOK == ReserveTypeOK /\ [ReserveNext]_vars => ReserveTypeOK'
<1> SUFFICES ASSUME ReserveTypeOK, [ReserveNext]_vars PROVE ReserveTypeOK'
  OBVIOUS
<1> USE ReserveAssumption
<1>1. ASSUME NEW b \in Batches, NEW kg \in Uint, NEW prov \in Provenances,
             AttestReserve(b, kg, prov)
      PROVE  ReserveTypeOK'
  <2>1. [reserves[b] EXCEPT !.verifiedKg = kg, !.updated = TRUE,
           !.active = TRUE, !.provenance = prov] \in Reserve
    BY DEF ReserveTypeOK, Reserve
  <2>2. reserves' \in [Batches -> Reserve]
    BY <1>1, <2>1 DEF ReserveTypeOK, AttestReserve
  <2>3. totalVerifiedKg' \in Uint
    BY <1>1 DEF AttestReserve, Checked
  <2>4. QED BY <1>1, <2>2, <2>3 DEF ReserveTypeOK, AttestReserve, tokenVars
<1>2. ASSUME NEW b \in Batches, DeactivateReserve(b)
      PROVE  ReserveTypeOK'
  <2>1. [reserves[b] EXCEPT !.active = FALSE] \in Reserve
    BY DEF ReserveTypeOK, Reserve
  <2>2. reserves' \in [Batches -> Reserve]
    BY <1>2, <2>1 DEF ReserveTypeOK, DeactivateReserve
  <2>3. QED BY <1>2, <2>2 DEF ReserveTypeOK, DeactivateReserve, Checked, tokenVars
<1>3. ASSUME NEW b \in Batches, NEW amount \in Uint, NEW w \in Warehouses,
             MintBatch(b, amount, w)
      PROVE  ReserveTypeOK'
  <2>1. /\ reserves' \in [Batches -> Reserve]
        /\ totalVerifiedKg' \in Uint
        /\ totalTokenizedKg' \in Uint
    BY <1>3, ConsumeType DEF MintBatch
  <2>2. batchData' \in [Batches -> BatchData]
    BY <1>3 DEF ReserveTypeOK, MintBatch, BatchData
  <2>3. allBatchIds' \in Seq(Batches)
    BY <1>3, AppendProperties DEF ReserveTypeOK, MintBatch
  <2>4. QED
    BY <1>3, <2>1, <2>2, <2>3
    DEF ReserveTypeOK, MintBatch, MintSupply, Checked, replayVars
<1>4. ASSUME NEW tx \in FabricTxs, NEW b \in Batches, NEW amount \in Uint,
             NEW w \in Warehouses, MintVerifiedBatch(tx, b, amount, w)
      PROVE  ReserveTypeOK'
  <2>1. /\ reserves' \in [Batches -> Reserve]
        /\ totalVerifiedKg' \in Uint
        /\ totalTokenizedKg' \in Uint
    BY <1>4, ConsumeType DEF MintVerifiedBatch
  <2>2. EventIdFor(tx, b, amount) \in EventIds
    BY DEF EventIdFor, EventIds
  <2>3. /\ processedEvents' \subseteq EventIds
        /\ processedFabricTransactions' \in [FabricTxs -> EventIds \cup {Zero}]
    BY <1>4, <2>2 DEF ReserveTypeOK, MintVerifiedBatch
  <2>4. allBatchIds' \in Seq(Batches)
    BY <1>4, AppendProperties DEF ReserveTypeOK, MintVerifiedBatch, ListBatch
  <2>5. batchData' \in [Batches -> BatchData]
    BY <1>4 DEF ReserveTypeOK, MintVerifiedBatch, BookMint, BatchData, Checked
  <2>6. QED
    BY <1>4, <2>1, <2>3, <2>4, <2>5
    DEF ReserveTypeOK, MintVerifiedBatch, MintSupply, Checked
<1>5. ASSUME NEW amount \in Uint, Burn(amount)
      PROVE  ReserveTypeOK'
  <2>1. totalSupply' \in Uint
    BY <1>5 DEF ReserveTypeOK, Burn, Uint
  <2>2. QED BY <1>5, <2>1 DEF ReserveTypeOK, Burn, registryVars, replayVars
<1>6. CASE UNCHANGED vars
  BY <1>6 DEF ReserveTypeOK, vars, registryVars, tokenVars
<1>7. QED BY <1>1, <1>2, <1>3, <1>4, <1>5, <1>6 DEF ReserveNext

\* ReserveTypeOK holds in every reachable state, for every MaxUint.
THEOREM TypeCorrect == ReserveSpec => []ReserveTypeOK
<1>1. QED BY InitTypeOK, NextTypeOK, PTL DEF ReserveSpec

-----------------------------------------------------------------------------
(* Backing                                                                 *)

\* BatchSlack is a natural number for every batch.
LEMMA SlackType ==
  ASSUME ReserveTypeOK, BatchBacking
  PROVE  \A b \in Batches : BatchSlack[b] \in Nat
<1> SUFFICES ASSUME NEW b \in Batches PROVE BatchSlack[b] \in Nat
  OBVIOUS
<1>1. reserves[b] \in Reserve /\ reserves[b].tokenizedKg <= reserves[b].verifiedKg
  BY DEF ReserveTypeOK, BatchBacking
<1>2. /\ reserves[b].tokenizedKg \in Nat
      /\ reserves[b].verifiedKg \in Nat
  BY <1>1, ReserveAssumption, SMT DEF Reserve, Uint
<1>3. BatchSlack[b] = IF reserves[b].active
                        THEN reserves[b].verifiedKg - reserves[b].tokenizedKg
                        ELSE 0
  BY DEF BatchSlack
<1>4. QED BY <1>1, <1>2, <1>3, SMT

LEMMA InitBacking == ReserveInit => BackingInv
<1> SUFFICES ASSUME ReserveInit PROVE BackingInv
  OBVIOUS
<1>1. \A b \in Batches : BatchSlack[b] = 0
  BY DEF ReserveInit, BatchSlack
<1>2. SumIs(BatchSlack, Batches, 0)
  BY <1>1, SumOfZeros
<1>3. TotalSlack = 0
  BY DEF ReserveInit, TotalSlack
<1>4. BatchBacking /\ totalSupply <= totalTokenizedKg
  BY DEF ReserveInit, BatchBacking
<1>5. QED BY <1>2, <1>3, <1>4 DEF BackingInv

\* A call that changes the slack of one batch, and the total slack by as much,
\* keeps the total slack the sum of the slacks.
LEMMA SlackMoves ==
  ASSUME ReserveTypeOK, BackingInv, NEW b \in Batches,
         BatchSlack'[b] \in Nat,
         \A c \in Batches \ {b} : BatchSlack'[c] = BatchSlack[c],
         TotalSlack' = TotalSlack - BatchSlack[b] + BatchSlack'[b]
  PROVE  SumIs(BatchSlack', Batches, TotalSlack') /\ TotalSlack' \in Nat
<1>1. \A c \in Batches : BatchSlack[c] \in Nat
  BY SlackType DEF BackingInv
<1>2. QED BY <1>1, SumUpdate DEF BackingInv

\* Consuming amount of a batch takes amount off its slack and off the total.
LEMMA ConsumeBacking ==
  ASSUME ReserveTypeOK, BackingInv, NEW b \in Batches, NEW amount \in Uint,
         Consume(b, amount), ReserveTypeOK', totalSupply' = totalSupply + amount
  PROVE  BackingInv' /\ totalSupply' <= totalVerifiedKg'
<1> USE ReserveAssumption
<1>0. /\ reserves[b] \in Reserve /\ reserves[b].active
      /\ reserves[b].tokenizedKg + amount <= reserves[b].verifiedKg
      /\ reserves'[b] = [reserves[b] EXCEPT !.tokenizedKg = @ + amount]
      /\ \A c \in Batches \ {b} : reserves'[c] = reserves[c]
      /\ amount \in Nat /\ amount > 0
  BY DEF ReserveTypeOK, Consume, WithinVerified, Uint
<1>1. /\ reserves'[b].active
      /\ reserves'[b].verifiedKg = reserves[b].verifiedKg
      /\ reserves'[b].tokenizedKg = reserves[b].tokenizedKg + amount
      /\ reserves[b].verifiedKg \in Nat /\ reserves[b].tokenizedKg \in Nat
  BY <1>0 DEF Reserve, Uint
<1>2. BatchBacking'
  BY <1>0, <1>1 DEF BackingInv, BatchBacking
<1>3. /\ BatchSlack[b] = reserves[b].verifiedKg - reserves[b].tokenizedKg
      /\ BatchSlack'[b] = reserves[b].verifiedKg - (reserves[b].tokenizedKg + amount)
      /\ \A c \in Batches \ {b} : BatchSlack'[c] = BatchSlack[c]
  BY <1>0, <1>1 DEF BatchSlack
<1>4. BatchSlack'[b] = BatchSlack[b] - amount /\ BatchSlack'[b] \in Nat
  BY <1>0, <1>1, <1>3, SMT
<1>5. /\ totalVerifiedKg \in Nat /\ totalTokenizedKg \in Nat /\ totalSupply \in Nat
      /\ totalVerifiedKg' = totalVerifiedKg
      /\ totalTokenizedKg' = totalTokenizedKg + amount
  BY DEF ReserveTypeOK, Uint, Consume
<1>6. TotalSlack' = TotalSlack - BatchSlack[b] + BatchSlack'[b]
  <2>1. BatchSlack[b] \in Nat
    BY SlackType DEF BackingInv
  <2>2. QED BY <1>0, <1>4, <1>5, <2>1, SMT DEF TotalSlack
<1>7. SumIs(BatchSlack', Batches, TotalSlack') /\ TotalSlack' \in Nat
  BY <1>3, <1>4, <1>6, SlackMoves
<1>8. totalSupply' <= totalTokenizedKg'
  BY <1>0, <1>5, SMT DEF BackingInv
<1>9. totalSupply' <= totalVerifiedKg'
  BY <1>0, <1>5, <1>7, <1>8, SMT DEF TotalSlack
<1>10. QED BY <1>2, <1>7, <1>8, <1>9 DEF BackingInv

LEMMA AttestBacking ==
  ASSUME ReserveTypeOK, BackingInv, NEW b \in Batches, NEW kg \in Uint,
         NEW prov \in Provenances, AttestReserve(b, kg, prov)
  PROVE  BackingInv'
<1> USE ReserveAssumption
<1>1. /\ reserves[b] \in Reserve /\ kg \in Nat
      /\ reserves'[b] = [reserves[b] EXCEPT !.verifiedKg = kg, !.updated = TRUE,
                           !.active = TRUE, !.provenance = prov]
      /\ \A c \in Batches \ {b} : reserves'[c] = reserves[c]
      /\ kg >= reserves[b].tokenizedKg
  BY DEF ReserveTypeOK, AttestReserve, CoversIssuance, Uint
<1>2. /\ reserves'[b].active
      /\ reserves'[b].verifiedKg = kg
      /\ reserves'[b].tokenizedKg = reserves[b].tokenizedKg
      /\ reserves[b].verifiedKg \in Nat /\ reserves[b].tokenizedKg \in Nat
      /\ reserves[b].active \in BOOLEAN
  BY <1>1 DEF Reserve, Uint
<1>3. BatchBacking'
  BY <1>1, <1>2 DEF BackingInv, BatchBacking
<1>4. /\ BatchSlack[b] = IF reserves[b].active
                           THEN reserves[b].verifiedKg - reserves[b].tokenizedKg
                           ELSE 0
      /\ BatchSlack'[b] = kg - reserves[b].tokenizedKg
      /\ \A c \in Batches \ {b} : BatchSlack'[c] = BatchSlack[c]
  BY <1>1, <1>2 DEF BatchSlack
<1>5. BatchSlack'[b] \in Nat
  BY <1>1, <1>2, <1>4, SMT
<1>6. ~reserves[b].active => reserves[b].tokenizedKg = 0
  BY <1>2 DEF BackingInv, BatchBacking
<1>7. /\ totalVerifiedKg \in Nat /\ totalTokenizedKg \in Nat
      /\ totalTokenizedKg' = totalTokenizedKg /\ totalSupply' = totalSupply
      /\ totalVerifiedKg' = totalVerifiedKg
           - (IF reserves[b].active THEN reserves[b].verifiedKg ELSE 0) + kg
  BY DEF ReserveTypeOK, Uint, AttestReserve, AmendedTotal, Counted, tokenVars
<1>8. TotalSlack' = TotalSlack - BatchSlack[b] + BatchSlack'[b]
  <2>1. CASE reserves[b].active
    BY <2>1, <1>1, <1>2, <1>4, <1>7, SMT DEF TotalSlack
  <2>2. CASE ~reserves[b].active
    BY <2>2, <1>1, <1>2, <1>4, <1>6, <1>7, SMT DEF TotalSlack
  <2>3. QED BY <2>1, <2>2
<1>9. SumIs(BatchSlack', Batches, TotalSlack') /\ TotalSlack' \in Nat
  BY <1>4, <1>5, <1>8, SlackMoves
<1>10. QED BY <1>3, <1>7, <1>9 DEF BackingInv

LEMMA DeactivateBacking ==
  ASSUME ReserveTypeOK, BackingInv, NEW b \in Batches, DeactivateReserve(b)
  PROVE  BackingInv'
<1> USE ReserveAssumption
<1>1. /\ reserves[b] \in Reserve /\ reserves[b].active
      /\ reserves[b].tokenizedKg = 0
      /\ reserves'[b] = [reserves[b] EXCEPT !.active = FALSE]
      /\ \A c \in Batches \ {b} : reserves'[c] = reserves[c]
  BY DEF ReserveTypeOK, DeactivateReserve, NoClaims
<1>2. /\ reserves'[b].active = FALSE
      /\ reserves'[b].tokenizedKg = 0
      /\ reserves'[b].verifiedKg = reserves[b].verifiedKg
      /\ reserves[b].verifiedKg \in Nat
  BY <1>1 DEF Reserve, Uint
<1>3. BatchBacking'
  <2>1. /\ reserves'[b].tokenizedKg <= reserves'[b].verifiedKg
        /\ ~(reserves'[b].tokenizedKg > 0)
    BY <1>2, SMT
  <2>2. QED BY <1>1, <2>1 DEF BackingInv, BatchBacking
<1>4. /\ BatchSlack[b] = reserves[b].verifiedKg
      /\ BatchSlack'[b] = 0
      /\ \A c \in Batches \ {b} : BatchSlack'[c] = BatchSlack[c]
  <2>1. BatchSlack[b] = reserves[b].verifiedKg - 0 /\ BatchSlack'[b] = 0
    BY <1>1, <1>2 DEF BatchSlack
  <2>2. \A c \in Batches \ {b} : BatchSlack'[c] = BatchSlack[c]
    BY <1>1 DEF BatchSlack
  <2>3. QED BY <1>2, <2>1, <2>2, SMT
<1>5. /\ totalVerifiedKg \in Nat /\ totalTokenizedKg \in Nat
      /\ totalTokenizedKg' = totalTokenizedKg /\ totalSupply' = totalSupply
      /\ totalVerifiedKg' = totalVerifiedKg - reserves[b].verifiedKg
  BY DEF ReserveTypeOK, Uint, DeactivateReserve, tokenVars
<1>6. TotalSlack' = TotalSlack - BatchSlack[b] + BatchSlack'[b]
  BY <1>2, <1>4, <1>5, SMT DEF TotalSlack
<1>7. SumIs(BatchSlack', Batches, TotalSlack') /\ TotalSlack' \in Nat
  BY <1>4, <1>6, SlackMoves
<1>8. QED BY <1>3, <1>5, <1>7 DEF BackingInv

LEMMA NextBacking == ReserveTypeOK /\ BackingInv /\ [ReserveNext]_vars => BackingInv'
<1> SUFFICES ASSUME ReserveTypeOK, BackingInv, [ReserveNext]_vars PROVE BackingInv'
  OBVIOUS
<1>1. ReserveTypeOK'
  BY NextTypeOK
<1>2. ASSUME NEW b \in Batches, NEW kg \in Uint, NEW prov \in Provenances,
             AttestReserve(b, kg, prov)
      PROVE  BackingInv'
  BY <1>2, AttestBacking
<1>3. ASSUME NEW b \in Batches, DeactivateReserve(b) PROVE BackingInv'
  BY <1>3, DeactivateBacking
<1>4. ASSUME NEW b \in Batches, NEW amount \in Uint, NEW w \in Warehouses,
             MintBatch(b, amount, w)
      PROVE  BackingInv'
  BY <1>1, <1>4, ConsumeBacking DEF MintBatch, MintSupply
<1>5. ASSUME NEW tx \in FabricTxs, NEW b \in Batches, NEW amount \in Uint,
             NEW w \in Warehouses, MintVerifiedBatch(tx, b, amount, w)
      PROVE  BackingInv'
  BY <1>1, <1>5, ConsumeBacking DEF MintVerifiedBatch, MintSupply
<1>6. ASSUME NEW amount \in Uint, Burn(amount) PROVE BackingInv'
  <2>1. totalSupply' <= totalTokenizedKg
    BY <1>6, ReserveAssumption, SMT DEF Burn, ReserveTypeOK, BackingInv, Uint
  <2>2. UNCHANGED <<reserves, totalVerifiedKg, totalTokenizedKg>>
    BY <1>6 DEF Burn, registryVars
  <2>3. BatchSlack' = BatchSlack /\ TotalSlack' = TotalSlack
    BY <2>2 DEF BatchSlack, TotalSlack
  <2>4. QED BY <2>1, <2>2, <2>3 DEF BackingInv, BatchBacking
<1>7. CASE UNCHANGED vars
  BY <1>7 DEF BackingInv, BatchBacking, BatchSlack, TotalSlack, vars,
              registryVars, tokenVars
<1>8. QED BY <1>2, <1>3, <1>4, <1>5, <1>6, <1>7 DEF ReserveNext

LEMMA BackingInvariant == ReserveSpec => [](ReserveTypeOK /\ BackingInv)
<1>1. ReserveInit => ReserveTypeOK /\ BackingInv
  BY InitTypeOK, InitBacking
<1>2. ReserveTypeOK /\ BackingInv /\ [ReserveNext]_vars => (ReserveTypeOK /\ BackingInv)'
  BY NextTypeOK, NextBacking
<1>3. QED BY <1>1, <1>2, PTL DEF ReserveSpec

\* A processed event stays processed.
LEMMA StepKeepsEvents == [ReserveNext]_vars => processedEvents \subseteq processedEvents'
BY DEF ReserveNext, vars, tokenVars, replayVars, AttestReserve, DeactivateReserve,
       MintBatch,
       MintVerifiedBatch, Burn

\* The supply of COT never exceeds the kg attested on Ethereum, through any
\* sequence of attestations, amendments, deactivations, mints and burns.
THEOREM Backing == ReserveSpec => []GlobalBacking
<1>1. ReserveTypeOK /\ BackingInv => GlobalBacking
  BY ReserveAssumption, SMT
  DEF ReserveTypeOK, BackingInv, GlobalBacking, TotalSlack, Uint
<1>2. QED BY <1>1, BackingInvariant, PTL

\* No batch is over-issued, and no batch with claims is inactive.
THEOREM BatchesBacked == ReserveSpec => []BatchBacking
<1>1. BackingInv => BatchBacking
  BY DEF BackingInv
<1>2. QED BY <1>1, BackingInvariant, PTL

\* The contract's own check GLOBAL_BACKING_INVARIANT never rejects a mint that
\* the registry has accepted: it follows from the invariant.
THEOREM GlobalCheckNeverRejects ==
  ASSUME ReserveTypeOK, BackingInv, NEW b \in Batches, NEW amount \in Uint,
         Consume(b, amount), MintSupply(amount)
  PROVE  totalSupply' <= totalVerifiedKg'
<1> USE ReserveAssumption
<1>1. amount \in Nat /\ totalSupply \in Nat /\ totalTokenizedKg \in Nat
  BY DEF ReserveTypeOK, Uint
<1>2. /\ reserves[b] \in Reserve /\ reserves[b].active
      /\ reserves[b].tokenizedKg + amount <= reserves[b].verifiedKg
  BY DEF ReserveTypeOK, Consume, WithinVerified
<1>3. BatchSlack[b] = reserves[b].verifiedKg - reserves[b].tokenizedKg
  BY <1>2 DEF BatchSlack
<1>4. amount <= BatchSlack[b]
  BY <1>1, <1>2, <1>3, SMT DEF Reserve, Uint
<1>5. BatchSlack[b] \in Nat /\ BatchSlack[b] <= TotalSlack
  BY SlackType, SumBoundsValue DEF BackingInv
<1>6. totalSupply + amount <= totalVerifiedKg
  BY <1>1, <1>4, <1>5, SMT DEF BackingInv, TotalSlack, ReserveTypeOK, Uint
<1>7. QED BY <1>6 DEF MintSupply, Consume

-----------------------------------------------------------------------------
(* The running totals                                                      *)

CountedKg == [b \in Batches |-> Counted(b)]
TokenizedKg == [b \in Batches |-> reserves[b].tokenizedKg]

\* The inductive form of TotalsExact: the registry's totals are the sums over
\* its batches.
TotalsInv ==
  /\ SumIs(CountedKg, Batches, totalVerifiedKg)
  /\ SumIs(TokenizedKg, Batches, totalTokenizedKg)

LEMMA KgType ==
  ASSUME ReserveTypeOK
  PROVE  /\ \A b \in Batches : CountedKg[b] \in Nat /\ TokenizedKg[b] \in Nat
         /\ totalVerifiedKg \in Nat /\ totalTokenizedKg \in Nat
BY ReserveAssumption DEF ReserveTypeOK, Reserve, Uint, CountedKg, TokenizedKg, Counted

\* What an action on batch b that changes only its reserve leaves alone.
LEMMA OtherKg ==
  ASSUME ReserveTypeOK, NEW b \in Batches,
         \A c \in Batches \ {b} : reserves'[c] = reserves[c]
  PROVE  \A c \in Batches \ {b} : CountedKg'[c] = CountedKg[c] /\ TokenizedKg'[c] = TokenizedKg[c]
BY DEF CountedKg, TokenizedKg, Counted

LEMMA InitTotals == ReserveInit => TotalsInv
<1> SUFFICES ASSUME ReserveInit PROVE TotalsInv
  OBVIOUS
<1>1. \A b \in Batches : CountedKg[b] = 0 /\ TokenizedKg[b] = 0
  BY DEF ReserveInit, CountedKg, TokenizedKg, Counted
<1>2. SumIs(CountedKg, Batches, 0) /\ SumIs(TokenizedKg, Batches, 0)
  BY <1>1, SumOfZeros
<1>3. QED BY <1>2 DEF ReserveInit, TotalsInv

LEMMA AttestTotals ==
  ASSUME ReserveTypeOK, TotalsInv, NEW b \in Batches, NEW kg \in Uint,
         NEW prov \in Provenances, AttestReserve(b, kg, prov)
  PROVE  TotalsInv'
<1> USE ReserveAssumption
<1>1. /\ reserves'[b] = [reserves[b] EXCEPT !.verifiedKg = kg, !.updated = TRUE,
                                            !.active = TRUE, !.provenance = prov]
      /\ \A c \in Batches \ {b} : reserves'[c] = reserves[c]
      /\ totalVerifiedKg' = totalVerifiedKg - Counted(b) + kg
      /\ totalTokenizedKg' = totalTokenizedKg
  BY DEF AttestReserve, AmendedTotal, ReserveTypeOK
<1>2. /\ CountedKg'[b] = kg /\ kg \in Nat /\ CountedKg[b] = Counted(b)
      /\ TokenizedKg'[b] = TokenizedKg[b]
  <2>1. reserves[b] \in Reserve /\ kg \in Nat
    BY DEF ReserveTypeOK, Uint
  <2>2. /\ reserves'[b].active /\ reserves'[b].verifiedKg = kg
        /\ reserves'[b].tokenizedKg = reserves[b].tokenizedKg
    BY <1>1, <2>1 DEF Reserve
  <2>3. QED BY <2>1, <2>2 DEF CountedKg, TokenizedKg, Counted
<1>3. PICK g : g = CountedKg'
  OBVIOUS
<1>4. SumIs(g, Batches, totalVerifiedKg - CountedKg[b] + g[b])
  BY <1>1, <1>2, <1>3, KgType, OtherKg, SumUpdate DEF TotalsInv
<1>5. TokenizedKg' = TokenizedKg
  BY <1>1, <1>2, OtherKg DEF TokenizedKg
<1>6. QED BY <1>1, <1>2, <1>3, <1>4, <1>5 DEF TotalsInv

LEMMA DeactivateTotals ==
  ASSUME ReserveTypeOK, TotalsInv, NEW b \in Batches, DeactivateReserve(b)
  PROVE  TotalsInv'
<1> USE ReserveAssumption
<1>1. /\ reserves'[b] = [reserves[b] EXCEPT !.active = FALSE]
      /\ \A c \in Batches \ {b} : reserves'[c] = reserves[c]
      /\ reserves[b].active
      /\ totalVerifiedKg' = totalVerifiedKg - reserves[b].verifiedKg
      /\ totalTokenizedKg' = totalTokenizedKg
  BY DEF DeactivateReserve, ReserveTypeOK
<1>2. /\ CountedKg'[b] = 0 /\ CountedKg[b] = reserves[b].verifiedKg
      /\ TokenizedKg'[b] = TokenizedKg[b]
  BY <1>1 DEF ReserveTypeOK, Reserve, Uint, CountedKg, TokenizedKg, Counted
<1>3. PICK g : g = CountedKg'
  OBVIOUS
<1>4. SumIs(g, Batches, totalVerifiedKg - CountedKg[b] + g[b])
  BY <1>2, <1>3, KgType, OtherKg, <1>1, SumUpdate DEF TotalsInv
<1>5. totalVerifiedKg - CountedKg[b] + g[b] = totalVerifiedKg'
  <2>1. CountedKg[b] \in Nat /\ totalVerifiedKg \in Nat
    BY KgType
  <2>2. QED BY <1>1, <1>2, <1>3, <2>1, SMT
<1>6. TokenizedKg' = TokenizedKg
  BY <1>1, <1>2, OtherKg DEF TokenizedKg
<1>7. QED BY <1>1, <1>3, <1>4, <1>5, <1>6 DEF TotalsInv

LEMMA ConsumeTotals ==
  ASSUME ReserveTypeOK, TotalsInv, NEW b \in Batches, NEW amount \in Uint,
         Consume(b, amount)
  PROVE  TotalsInv'
<1> USE ReserveAssumption
<1>1. /\ reserves'[b] = [reserves[b] EXCEPT !.tokenizedKg = @ + amount]
      /\ \A c \in Batches \ {b} : reserves'[c] = reserves[c]
      /\ totalVerifiedKg' = totalVerifiedKg
      /\ totalTokenizedKg' = totalTokenizedKg + amount
  BY DEF Consume, ReserveTypeOK
<1>2. /\ CountedKg'[b] = CountedKg[b]
      /\ TokenizedKg'[b] = TokenizedKg[b] + amount /\ amount \in Nat
  <2>1. reserves[b] \in Reserve /\ amount \in Nat
    BY DEF ReserveTypeOK, Uint
  <2>2. /\ reserves'[b].active = reserves[b].active
        /\ reserves'[b].verifiedKg = reserves[b].verifiedKg
        /\ reserves'[b].tokenizedKg = reserves[b].tokenizedKg + amount
    BY <1>1, <2>1 DEF Reserve
  <2>3. QED BY <2>1, <2>2 DEF CountedKg, TokenizedKg, Counted
<1>3. PICK g : g = TokenizedKg'
  OBVIOUS
<1>4. g[b] \in Nat /\ TokenizedKg[b] \in Nat /\ totalTokenizedKg \in Nat
  BY <1>2, <1>3, KgType
<1>5. SumIs(g, Batches, totalTokenizedKg - TokenizedKg[b] + g[b])
  BY <1>3, <1>4, KgType, OtherKg, <1>1, SumUpdate DEF TotalsInv
<1>6. totalTokenizedKg - TokenizedKg[b] + g[b] = totalTokenizedKg'
  BY <1>1, <1>2, <1>3, <1>4, SMT
<1>7. CountedKg' = CountedKg
  BY <1>1, <1>2, OtherKg DEF CountedKg
<1>8. QED BY <1>1, <1>3, <1>5, <1>6, <1>7 DEF TotalsInv

\* The totals the registry adjusts in place stay the sums over its batches,
\* through amendments, deactivations, re-attestations and both mint routes.
THEOREM TotalsStayExact == ReserveSpec => []TotalsExact
<1>1. ReserveTypeOK /\ TotalsInv /\ [ReserveNext]_vars => TotalsInv'
  <2> SUFFICES ASSUME ReserveTypeOK, TotalsInv, [ReserveNext]_vars PROVE TotalsInv'
    OBVIOUS
  <2>1. CASE UNCHANGED registryVars
    BY <2>1 DEF registryVars, TotalsInv, CountedKg, TokenizedKg, Counted
  <2>2. QED
    BY <2>1, AttestTotals, DeactivateTotals, ConsumeTotals
    DEF ReserveNext, MintBatch, MintVerifiedBatch, Burn, vars
<1>2. ReserveTypeOK /\ TotalsInv => TotalsExact
  <2> SUFFICES ASSUME ReserveTypeOK, TotalsInv PROVE TotalsExact
    OBVIOUS
  <2>1. MapThenSumSet(Counted, Batches) =
          (CHOOSE g : FoldTable(g, CountedKg, Batches))[Batches]
    BY DEF MapThenSumSet, MapThenFoldSet, FoldTable, Taken, CountedKg
  <2>2. MapThenSumSet(LAMBDA b : reserves[b].tokenizedKg, Batches) =
          (CHOOSE g : FoldTable(g, TokenizedKg, Batches))[Batches]
    BY DEF MapThenSumSet, MapThenFoldSet, FoldTable, Taken, TokenizedKg
  <2>3. QED
    BY <2>1, <2>2, KgType, FoldTableIsSum, ReserveAssumption DEF TotalsInv, TotalsExact
<1>3. QED BY <1>1, <1>2, InitTotals, TypeCorrect, PTL DEF ReserveSpec

-----------------------------------------------------------------------------
(* Replay protection and books                                             *)

\* No two events share a Fabric transaction: the replay guards of
\* mintVerifiedBatch keep processedEvents and processedFabricTransactions two
\* views of one table.
THEOREM ReplaySafe == ReserveSpec => []ReplayProtection
<1>1. ReserveInit => ReplayProtection
  BY DEF ReserveInit, ReplayProtection
<1>2. ReserveTypeOK /\ ReplayProtection /\ [ReserveNext]_vars => ReplayProtection'
  <2> SUFFICES ASSUME ReserveTypeOK, ReplayProtection, [ReserveNext]_vars
               PROVE  ReplayProtection'
    OBVIOUS
  <2>1. CASE UNCHANGED replayVars
    BY <2>1 DEF replayVars, ReplayProtection
  <2>2. ASSUME NEW tx \in FabricTxs, NEW b \in Batches, NEW amount \in Uint,
               NEW w \in Warehouses, MintVerifiedBatch(tx, b, amount, w)
        PROVE  ReplayProtection'
    <3> DEFINE e == EventIdFor(tx, b, amount)
    <3>1. e \in EventIds /\ e[1] = tx /\ e # Zero
      BY ReserveAssumption DEF EventIdFor, EventIds
    <3>2. /\ processedFabricTransactions[tx] = Zero
          /\ processedEvents' = processedEvents \cup {e}
          /\ processedFabricTransactions' =
               [processedFabricTransactions EXCEPT ![tx] = e]
      BY <2>2 DEF MintVerifiedBatch, NotReplayed
    <3>3. \A d \in processedEvents : d[1] # tx
      <4> SUFFICES ASSUME NEW d \in processedEvents, d[1] = tx PROVE FALSE
        OBVIOUS
      <4>1. d = Zero
        BY <3>2 DEF ReplayProtection
      <4>2. d \in EventIds
        BY DEF ReserveTypeOK
      <4>3. QED BY <4>1, <4>2, ReserveAssumption
    <3> HIDE DEF e
    <3>4. processedFabricTransactions'[tx] = e
      BY <3>2 DEF ReserveTypeOK
    <3>5. \A t \in FabricTxs \ {tx} :
            processedFabricTransactions'[t] = processedFabricTransactions[t]
      BY <3>2 DEF ReserveTypeOK
    <3>6. \A d \in processedEvents : d[1] \in FabricTxs
      BY DEF ReserveTypeOK, EventIds
    <3>7. \A d \in processedEvents' : processedFabricTransactions'[d[1]] = d
      BY <3>1, <3>2, <3>3, <3>4, <3>5, <3>6 DEF ReplayProtection
    <3>8. \A t \in FabricTxs :
            processedFabricTransactions'[t] # Zero =>
              /\ processedFabricTransactions'[t] \in processedEvents'
              /\ processedFabricTransactions'[t][1] = t
      BY <3>1, <3>2, <3>4, <3>5 DEF ReplayProtection
    <3>9. QED BY <3>7, <3>8 DEF ReplayProtection
  <2>3. QED
    BY <2>1, <2>2
    DEF ReserveNext, AttestReserve, DeactivateReserve, MintBatch, Burn, vars,
        tokenVars, replayVars
<1>3. QED BY <1>1, <1>2, TypeCorrect, PTL DEF ReserveSpec

\* The token's book of a batch and the registry's stay equal for both mint
\* routes.  That an untouched batch has no claims is what mintBatch's plain
\* assignment of the amount rests on.
UnlistedIsUntouched ==
  \A b \in Batches : batchData[b].warehouseId = Zero => batchData[b].amount = 0

THEOREM BooksStayEqual == ReserveSpec => []BooksAgree
<1> DEFINE Books == BooksAgree /\ UnlistedIsUntouched
<1>1. ReserveInit => Books
  BY DEF ReserveInit, BooksAgree, UnlistedIsUntouched
<1>2. ReserveTypeOK /\ Books /\ [ReserveNext]_vars => Books'
  <2> SUFFICES ASSUME ReserveTypeOK, Books, [ReserveNext]_vars PROVE Books'
    OBVIOUS
  <2> USE ReserveAssumption
  <2>0. \A c \in Batches :
          /\ reserves[c].tokenizedKg \in Nat
          /\ batchData[c].amount \in Nat
    BY DEF ReserveTypeOK, Reserve, BatchData, Uint
  <2>1. ASSUME NEW b \in Batches, NEW kg \in Uint, NEW prov \in Provenances,
               AttestReserve(b, kg, prov)
        PROVE  Books'
    <3>1. \A c \in Batches : reserves'[c].tokenizedKg = reserves[c].tokenizedKg
      BY <2>1 DEF AttestReserve, ReserveTypeOK, Reserve
    <3>2. batchData' = batchData
      BY <2>1 DEF AttestReserve, tokenVars
    <3>3. QED BY <3>1, <3>2 DEF BooksAgree, UnlistedIsUntouched
  <2>2. ASSUME NEW b \in Batches, DeactivateReserve(b) PROVE Books'
    <3>1. \A c \in Batches : reserves'[c].tokenizedKg = reserves[c].tokenizedKg
      BY <2>2 DEF DeactivateReserve, ReserveTypeOK, Reserve
    <3>2. batchData' = batchData
      BY <2>2 DEF DeactivateReserve, tokenVars
    <3>3. QED BY <3>1, <3>2 DEF BooksAgree, UnlistedIsUntouched
  <2>3. ASSUME NEW b \in Batches, NEW amount \in Uint, NEW w \in Warehouses,
               MintBatch(b, amount, w)
        PROVE  Books'
    <3>1. /\ reserves'[b].tokenizedKg = reserves[b].tokenizedKg + amount
          /\ \A c \in Batches \ {b} : reserves'[c] = reserves[c]
      BY <2>3 DEF MintBatch, Consume, ReserveTypeOK, Reserve
    <3>2. /\ batchData'[b].amount = amount /\ batchData'[b].warehouseId = w
          /\ \A c \in Batches \ {b} : batchData'[c] = batchData[c]
      BY <2>3 DEF MintBatch, ReserveTypeOK, BatchData
    <3>3. reserves[b].tokenizedKg = 0 /\ amount \in Nat
      BY <2>3 DEF MintBatch, BooksAgree, UnlistedIsUntouched, Uint
    <3>4. w # Zero
      OBVIOUS
    <3>5. reserves'[b].tokenizedKg = amount
      BY <3>1, <3>3, SMT
    <3>6. BooksAgree'
      BY <3>1, <3>2, <3>5 DEF BooksAgree
    <3>7. UnlistedIsUntouched'
      BY <3>2, <3>4 DEF UnlistedIsUntouched
    <3>8. QED BY <3>6, <3>7
  <2>4. ASSUME NEW tx \in FabricTxs, NEW b \in Batches, NEW amount \in Uint,
               NEW w \in Warehouses, MintVerifiedBatch(tx, b, amount, w)
        PROVE  Books'
    <3>1. /\ reserves'[b].tokenizedKg = reserves[b].tokenizedKg + amount
          /\ \A c \in Batches \ {b} : reserves'[c] = reserves[c]
      BY <2>4 DEF MintVerifiedBatch, Consume, ReserveTypeOK, Reserve
    <3>2. /\ batchData'[b].amount = batchData[b].amount + amount
          /\ batchData'[b].warehouseId = w
          /\ \A c \in Batches \ {b} : batchData'[c] = batchData[c]
      BY <2>4 DEF MintVerifiedBatch, BookMint, ReserveTypeOK, BatchData
    <3>3. w # Zero
      OBVIOUS
    <3>4. BooksAgree'
      BY <3>1, <3>2 DEF BooksAgree
    <3>5. UnlistedIsUntouched'
      BY <3>2, <3>3 DEF UnlistedIsUntouched
    <3>6. QED BY <3>4, <3>5
  <2>5. ASSUME NEW amount \in Uint, Burn(amount) PROVE Books'
    BY <2>5 DEF Burn, registryVars, BooksAgree, UnlistedIsUntouched
  <2>6. CASE UNCHANGED vars
    BY <2>6 DEF vars, registryVars, tokenVars, BooksAgree, UnlistedIsUntouched
  <2>7. QED BY <2>1, <2>2, <2>3, <2>4, <2>5, <2>6 DEF ReserveNext
<1>3. QED BY <1>1, <1>2, TypeCorrect, PTL DEF ReserveSpec

-----------------------------------------------------------------------------
(* Steps                                                                   *)

\* No step of either contract replaces the provenance of an attested batch.
THEOREM ProvenanceNeverReplaced == ReserveSpec => ProvenanceFixed
<1> DEFINE Kept == \A b \in Batches :
             reserves[b].updated => reserves'[b].provenance = reserves[b].provenance
<1>1. ReserveTypeOK /\ [ReserveNext]_vars => [Kept]_vars
  <2> SUFFICES ASSUME ReserveTypeOK, [ReserveNext]_vars PROVE [Kept]_vars
    OBVIOUS
  <2>1. ASSUME NEW b \in Batches, NEW kg \in Uint, NEW prov \in Provenances,
               AttestReserve(b, kg, prov)
        PROVE  Kept
    <3>1. /\ reserves'[b].provenance = prov
          /\ \A c \in Batches \ {b} : reserves'[c] = reserves[c]
      BY <2>1 DEF AttestReserve, ReserveTypeOK, Reserve
    <3>2. reserves[b].updated => reserves[b].provenance = prov
      BY <2>1 DEF AttestReserve, SameProvenance
    <3>3. QED BY <3>1, <3>2
  <2>2. ASSUME NEW b \in Batches, DeactivateReserve(b) PROVE Kept
    BY <2>2 DEF DeactivateReserve, ReserveTypeOK, Reserve
  <2>3. ASSUME NEW b \in Batches, NEW amount \in Uint, Consume(b, amount)
        PROVE  Kept
    BY <2>3 DEF Consume, ReserveTypeOK, Reserve
  <2>4. ASSUME NEW amount \in Uint, Burn(amount) PROVE Kept
    BY <2>4 DEF Burn, registryVars
  <2>5. CASE UNCHANGED vars
    BY <2>5
  <2>6. QED
    BY <2>1, <2>2, <2>3, <2>4, <2>5 DEF ReserveNext, MintBatch, MintVerifiedBatch
<1>2. QED BY <1>1, TypeCorrect, PTL DEF ReserveSpec, ProvenanceFixed

\* What every step of the contracts is to the abstract promise: the attestor
\* moves the capacity, a mint of either route is an issue, a burn is a burn.
LEMMA StepMapsToStep ==
  ReserveTypeOK /\ BackingInv /\ [ReserveNext]_vars => [Backed!Next]_(Backed!vars)
<1> SUFFICES ASSUME ReserveTypeOK, BackingInv, [ReserveNext]_vars
             PROVE  [Backed!Next]_(Backed!vars)
  OBVIOUS
<1> USE ReserveAssumption
<1>1. ReserveTypeOK' /\ BackingInv'
  BY NextTypeOK, NextBacking
<1>2. /\ totalVerifiedKg \in Nat /\ totalTokenizedKg \in Nat /\ totalSupply \in Nat
      /\ totalVerifiedKg' \in Nat /\ totalTokenizedKg' \in Nat /\ totalSupply' \in Nat
      /\ totalTokenizedKg' <= totalVerifiedKg'
  <2>1. totalVerifiedKg \in Nat /\ totalTokenizedKg \in Nat /\ totalSupply \in Nat
    BY DEF ReserveTypeOK, Uint
  <2>2. totalVerifiedKg' \in Nat /\ totalTokenizedKg' \in Nat /\ totalSupply' \in Nat
    BY <1>1 DEF ReserveTypeOK, Uint
  <2>3. totalVerifiedKg' - totalTokenizedKg' \in Nat
    BY <1>1 DEF BackingInv, TotalSlack
  <2>4. totalTokenizedKg' <= totalVerifiedKg'
    <3>1. \A v, c \in Nat : v - c \in Nat => c <= v
      BY SMT
    <3>2. QED BY <2>2, <2>3, <3>1
  <2>5. QED BY <2>1, <2>2, <2>4
<1>3. ASSUME totalTokenizedKg' = totalTokenizedKg, totalSupply' = totalSupply
      PROVE  Backed!SetCapacity
  BY <1>2, <1>3 DEF Backed!SetCapacity
<1>4. ASSUME NEW b \in Batches, NEW amount \in Uint, Consume(b, amount),
             MintSupply(amount)
      PROVE  Backed!Issue
  <2>1. /\ amount \in Nat /\ amount > 0
        /\ totalVerifiedKg' = totalVerifiedKg
        /\ totalTokenizedKg' = totalTokenizedKg + amount
        /\ totalSupply' = totalSupply + amount
    BY <1>4 DEF Consume, MintSupply, Uint
  <2>2. /\ totalTokenizedKg < totalTokenizedKg'
        /\ totalTokenizedKg' <= totalVerifiedKg
        /\ totalSupply' - totalSupply = totalTokenizedKg' - totalTokenizedKg
    BY <1>2, <2>1, SMT
  <2>3. QED BY <2>1, <2>2 DEF Backed!Issue
<1>5. ASSUME NEW amount \in Uint, Burn(amount)
      PROVE  Backed!Burn
  <2>1. totalSupply' < totalSupply
    BY <1>2, <1>5, SMT DEF Burn, Uint
  <2>2. QED BY <1>2, <1>5, <2>1 DEF Backed!Burn, Burn, registryVars
<1>6. CASE UNCHANGED vars
  BY <1>6 DEF vars, registryVars, tokenVars, Backed!vars
<1>7. QED
  BY <1>3, <1>4, <1>5, <1>6
  DEF ReserveNext, AttestReserve, DeactivateReserve, MintBatch, MintVerifiedBatch,
      tokenVars, Backed!Next

\* The registry and the token together implement BackedClaims.
THEOREM Refinement == ReserveSpec => ImplementsBackedClaims
<1>1. ReserveInit => Backed!Init
  BY DEF ReserveInit, Backed!Init
<1>2. QED
  BY <1>1, StepMapsToStep, BackingInvariant, PTL
  DEF ReserveSpec, ImplementsBackedClaims, Backed!Spec

\* COT appears only together with as many newly consumed kg: the only abstract
\* step that raises the supply is an issue.
THEOREM IssuanceIsBacked == ReserveSpec => NoUnbackedIssuance
<1> DEFINE Grown == totalSupply' > totalSupply =>
             totalSupply' - totalSupply = totalTokenizedKg' - totalTokenizedKg
<1>1. ReserveTypeOK /\ BackingInv /\ [ReserveNext]_vars => [Grown]_vars
  <2> SUFFICES ASSUME ReserveTypeOK, BackingInv, [ReserveNext]_vars PROVE Grown
    OBVIOUS
  <2>1. totalSupply \in Nat /\ totalSupply' \in Nat
    BY NextTypeOK, ReserveAssumption, SMT DEF ReserveTypeOK, Uint
  <2>2. CASE Backed!Issue
    BY <2>2 DEF Backed!Issue
  <2>3. CASE Backed!SetCapacity
    BY <2>1, <2>3, SMT DEF Backed!SetCapacity
  <2>4. CASE Backed!Burn
    BY <2>1, <2>4, SMT DEF Backed!Burn
  <2>5. CASE UNCHANGED Backed!vars
    BY <2>1, <2>5, SMT DEF Backed!vars
  <2>6. QED BY <2>2, <2>3, <2>4, <2>5, StepMapsToStep DEF Backed!Next
<1>2. QED BY <1>1, BackingInvariant, PTL DEF ReserveSpec, NoUnbackedIssuance
=============================================================================
