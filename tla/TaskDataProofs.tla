--------------------------- MODULE TaskDataProofs ---------------------------
(***************************************************************************)
(* What TaskBoard is built from, proved for every row and every set of     *)
(* edges.                                                                  *)
(*                                                                         *)
(* Rows: each operation of the task service builds a row again, it builds  *)
(* a consistent row out of a consistent one when its guard holds, and none *)
(* but those that report usage touches the token counter.                  *)
(*                                                                         *)
(* Edges: why the check of AddDependency is the right one.  If the edges   *)
(* have no cycle and the recursive query does not find the task among the  *)
(* dependencies of its new dependency, the edges have no cycle with the    *)
(* new edge either.                                                        *)
(*                                                                         *)
(* Ranking: the two loops sort every list of tasks, and what is cut off    *)
(* behind the first n of a sorted list, or by LIMIT n, comes behind n      *)
(* tasks that are not cut off.  The loops are recursive functions; that    *)
(* there are such functions is shown by running them round by round.       *)
(***************************************************************************)
EXTENDS TaskRow, DependencyGraph, Ranking, SequencesExt, FiniteSetTheorems,
        SequenceTheorems, TLAPS

(* Every operation returns a row. *)
LEMMA OperationsReturnRows ==
  ASSUME NEW row \in Row, NEW usage \in Nat, NEW c \in Columns
  PROVE  /\ NewRow(c) \in Row
         /\ TransferredRow(row) \in Row
         /\ Updated(row, usage) \in Row
         /\ Moved(row, c) \in Row
         /\ Completed(row, usage) \in Row
         /\ Blocked(row) \in Row
         /\ WontDoRequested(row) \in Row
         /\ WontDoApproved(row) \in Row
         /\ WontDoRejected(row) \in Row
         /\ Seen(row) \in Row
         /\ \A new \in Row : WrittenOver(row, new) \in Row
         /\ \A s \in BOOLEAN : [row EXCEPT !.session = s] \in Row
<1>1. NewRow(c) \in Row
  BY DEF NewRow, Row
<1>2. NewRow("todo") \in Row
  BY DEF NewRow, Row, Columns
<1>3. TransferredRow(row) \in Row
  BY <1>2 DEF TransferredRow, Row
<1>4. Updated(row, usage) \in Row /\ Completed(row, usage) \in Row
  <2>1. row.tokens \in Nat /\ row.tokens + usage \in Nat
    BY DEF Row
  <2>2. Updated(row, usage) \in Row
    BY <2>1 DEF Updated, Row
  <2>3. Completed(row, usage) \in Row
    BY <2>1 DEF Completed, Row, Columns
  <2>4. QED
    BY <2>2, <2>3
<1>5. Unblocked(row) \in Row
  BY DEF Unblocked, Row
<1>6. Moved(row, c) \in Row
  BY <1>5 DEF Moved, Row
<1>7. Blocked(row) \in Row /\ WontDoRequested(row) \in Row
  BY DEF Blocked, WontDoRequested, Row, Columns
<1>8. WontDoApproved(row) \in Row /\ WontDoRejected(row) \in Row
  BY DEF WontDoApproved, WontDoRejected, Row, Columns
<1>9. Seen(row) \in Row
  BY DEF Seen, Row
<1>10. \A new \in Row : WrittenOver(row, new) \in Row
  BY DEF WrittenOver, Row
<1>11. \A s \in BOOLEAN : [row EXCEPT !.session = s] \in Row
  BY DEF Row
<1>12. QED
  BY <1>1, <1>3, <1>4, <1>6, <1>7, <1>8, <1>9, <1>10, <1>11

(* Every operation that its guard admits keeps a row consistent.  MoveTask  *)
(* is the one that needs the consistency of the row it starts from: a       *)
(* reason left over on a row outside the blocked column would let it in.    *)
LEMMA OperationsKeepConsistency ==
  ASSUME NEW row \in Row, RowConsistent(row), NEW usage \in Nat, NEW c \in Columns
  PROVE  /\ c \in {"todo", "backlog"} => RowConsistent(NewRow(c))
         /\ RowConsistent(TransferredRow(row))
         /\ RowConsistent(Updated(row, usage))
         /\ CanMove(row, c) => RowConsistent(Moved(row, c))
         /\ \A known : CanComplete(row, known) => RowConsistent(Completed(row, usage))
         /\ CanBlock(row) => RowConsistent(Blocked(row))
         /\ RowConsistent(WontDoRequested(row))
         /\ RowConsistent(WontDoApproved(row))
         /\ RowConsistent(WontDoRejected(row))
         /\ RowConsistent(Seen(row))
         /\ \A new \in Row : RowConsistent(new) => RowConsistent(WrittenOver(row, new))
         /\ \A s \in BOOLEAN : RowConsistent([row EXCEPT !.session = s])
<1> USE DEF RowConsistent, BlockedFlagIsColumn, BlockedHasCause,
            InProgressIsStarted, CompletionIsWhole
<1>1. c \in {"todo", "backlog"} => RowConsistent(NewRow(c))
  BY DEF NewRow
<1>2. RowConsistent(TransferredRow(row))
  BY DEF TransferredRow, NewRow
<1>3. RowConsistent(Updated(row, usage))
  BY DEF Updated, Row
<1>4. CanMove(row, c) => RowConsistent(Moved(row, c))
  <2>1. CASE row.col = "blocked"
    BY <2>1 DEF CanMove, Moved, Unblocked, Row
  <2>2. CASE row.col # "blocked"
    BY <2>2 DEF CanMove, Moved, Unblocked, Row
  <2>3. QED
    BY <2>1, <2>2
<1>5. \A known : CanComplete(row, known) => RowConsistent(Completed(row, usage))
  BY DEF CanComplete, Completed, Row
<1>6. CanBlock(row) => RowConsistent(Blocked(row))
  BY DEF CanBlock, Blocked, Row
<1>7. RowConsistent(WontDoRequested(row))
  BY DEF WontDoRequested, Row
<1>8. RowConsistent(WontDoApproved(row)) /\ RowConsistent(WontDoRejected(row))
  BY DEF WontDoApproved, WontDoRejected, Row
<1>9. RowConsistent(Seen(row))
  BY DEF Seen, Row
<1>10. \A new \in Row : RowConsistent(new) => RowConsistent(WrittenOver(row, new))
  BY DEF WrittenOver, Row
<1>11. \A s \in BOOLEAN : RowConsistent([row EXCEPT !.session = s])
  BY DEF Row
<1>12. QED
  BY <1>1, <1>2, <1>3, <1>4, <1>5, <1>6, <1>7, <1>8, <1>9, <1>10, <1>11

(* What every operation makes of the token counter. *)
LEMMA OperationsCountTokens ==
  ASSUME NEW row \in Row, NEW usage \in Nat, NEW c \in Columns
  PROVE  /\ NewRow(c).tokens = 0
         /\ TransferredRow(row).tokens = row.tokens
         /\ Updated(row, usage).tokens = row.tokens + usage
         /\ Moved(row, c).tokens = row.tokens
         /\ Completed(row, usage).tokens = row.tokens + usage
         /\ Blocked(row).tokens = row.tokens
         /\ WontDoRequested(row).tokens = row.tokens
         /\ WontDoApproved(row).tokens = row.tokens
         /\ WontDoRejected(row).tokens = row.tokens
         /\ Seen(row).tokens = row.tokens
         /\ \A new \in Row : WrittenOver(row, new).tokens = new.tokens
         /\ \A s \in BOOLEAN : [row EXCEPT !.session = s].tokens = row.tokens
<1>1. NewRow(c).tokens = 0 /\ TransferredRow(row).tokens = row.tokens
  BY DEF NewRow, TransferredRow
<1>2. Updated(row, usage).tokens = row.tokens + usage
  BY DEF Updated, Row
<1>3. Unblocked(row) \in Row /\ Unblocked(row).tokens = row.tokens
  BY DEF Unblocked, Row
<1>4. Moved(row, c).tokens = row.tokens
  BY <1>3 DEF Moved, Row
<1>5. Completed(row, usage).tokens = row.tokens + usage
  BY DEF Completed, Row
<1>6. Blocked(row).tokens = row.tokens /\ WontDoRequested(row).tokens = row.tokens
  BY DEF Blocked, WontDoRequested, Row
<1>7. WontDoApproved(row).tokens = row.tokens /\ WontDoRejected(row).tokens = row.tokens
  BY DEF WontDoApproved, WontDoRejected, Row
<1>8. Seen(row).tokens = row.tokens
  BY DEF Seen, Row
<1>9. \A new \in Row : WrittenOver(row, new).tokens = new.tokens
  BY DEF WrittenOver, Row
<1>10. \A s \in BOOLEAN : [row EXCEPT !.session = s].tokens = row.tokens
  BY DEF Row
<1>11. QED
  BY <1>1, <1>2, <1>4, <1>5, <1>6, <1>7, <1>8, <1>9, <1>10

---------------------------------------------------------------------------
(* The tasks reached from a hold its direct dependencies, are closed under  *)
(* the edges, and are within every set that is and does.                    *)
LEMMA ReachableIsLeastClosed ==
  ASSUME NEW T, NEW edges \in SUBSET (T \X T), NEW a
  PROVE  /\ DirectDependencies(a, edges) \subseteq Reachable(T, edges, a)
         /\ ClosedUnder(Reachable(T, edges, a), edges)
         /\ \A S \in SUBSET T :
              DirectDependencies(a, edges) \subseteq S /\ ClosedUnder(S, edges)
                => Reachable(T, edges, a) \subseteq S
<1>1. DirectDependencies(a, edges) \subseteq Reachable(T, edges, a)
  BY DEF DirectDependencies, Reachable
<1>2. ASSUME NEW e \in edges, e[1] \in Reachable(T, edges, a)
      PROVE  e[2] \in Reachable(T, edges, a)
  <2>1. ASSUME NEW S \in SUBSET T,
               DirectDependencies(a, edges) \subseteq S, ClosedUnder(S, edges)
        PROVE  e[2] \in S
    BY <1>2, <2>1 DEF Reachable, ClosedUnder
  <2>2. e[2] \in T
    OBVIOUS
  <2>3. QED
    BY <2>1, <2>2 DEF Reachable
<1>3. \A S \in SUBSET T :
        DirectDependencies(a, edges) \subseteq S /\ ClosedUnder(S, edges)
          => Reachable(T, edges, a) \subseteq S
  BY DEF Reachable
<1>4. QED
  BY <1>1, <1>2, <1>3 DEF ClosedUnder

(* A set that holds the dependencies of x, is closed and misses x shows     *)
(* that x does not depend on itself.                                        *)
LEMMA NotReachableBySet ==
  ASSUME NEW T, NEW edges, NEW x, NEW S \in SUBSET T,
         DirectDependencies(x, edges) \subseteq S, ClosedUnder(S, edges), x \notin S
  PROVE  x \notin Reachable(T, edges, x)
BY DEF Reachable

(* The check of AddDependency: an edge it lets through closes no cycle.     *)
THEOREM SafeEdgeKeepsAcyclic ==
  ASSUME NEW T, NEW edges \in SUBSET (T \X T), Acyclic(T, edges),
         NEW t \in T, NEW d \in T, ~WouldCreateCycle(T, edges, t, d)
  PROVE  Acyclic(T, edges \cup {<<t, d>>})
<1> DEFINE R(x)  == Reachable(T, edges, x)
           more  == edges \cup {<<t, d>>}
           S(x)  == R(x) \cup {d} \cup R(d)
<1>1. \A x : R(x) \in SUBSET T
  BY DEF Reachable
<1>2. \A x : DirectDependencies(x, edges) \subseteq R(x) /\ ClosedUnder(R(x), edges)
  BY ReachableIsLeastClosed
<1>3. \A x, y : x \in R(y) => R(x) \subseteq R(y)
  <2>1. SUFFICES ASSUME NEW x, NEW y, x \in R(y) PROVE R(x) \subseteq R(y)
    OBVIOUS
  <2>2. DirectDependencies(x, edges) \subseteq R(y)
    BY <1>2, <2>1 DEF DirectDependencies, ClosedUnder
  <2>3. QED
    BY <1>1, <1>2, <2>2, ReachableIsLeastClosed
<1>4. t # d /\ t \notin R(d)
  BY DEF WouldCreateCycle
<1>5. \A x \in T : x \notin R(x)
  BY DEF Acyclic
<1>6. \A x : ClosedUnder(S(x), more)
  <2>1. SUFFICES ASSUME NEW x, NEW e \in more, e[1] \in S(x) PROVE e[2] \in S(x)
    BY DEF ClosedUnder
  <2>2. CASE e = <<t, d>>
    BY <2>2
  <2>3. CASE e \in edges
    BY <1>2, <2>1, <2>3 DEF ClosedUnder, DirectDependencies
  <2>4. QED
    BY <2>2, <2>3
<1>7. ASSUME NEW x \in T PROVE x \notin Reachable(T, more, x)
  <2>1. CASE x # t /\ t \notin R(x)
    <3>1. DirectDependencies(x, more) \subseteq R(x)
      BY <1>2, <2>1 DEF DirectDependencies
    <3>2. ClosedUnder(R(x), more)
      BY <1>2, <2>1 DEF ClosedUnder
    <3>3. QED
      BY <1>1, <1>5, <3>1, <3>2, NotReachableBySet
  <2>2. CASE x = t \/ t \in R(x)
    <3>1. DirectDependencies(x, more) \subseteq S(x)
      BY <1>2 DEF DirectDependencies
    <3>2. x # d /\ x \notin R(d)
      BY <1>3, <1>4, <2>2
    <3>3. x \notin S(x)
      BY <1>5, <3>2
    <3>4. S(x) \in SUBSET T
      BY <1>1
    <3>5. QED
      BY <1>6, <3>1, <3>3, <3>4, NotReachableBySet
  <2>3. QED
    BY <2>1, <2>2
<1>8. QED
  BY <1>7 DEF Acyclic

(* Removing edges closes no cycle: RemoveDependency and ON DELETE CASCADE.  *)
THEOREM FewerEdgesKeepAcyclic ==
  ASSUME NEW T, NEW edges \in SUBSET (T \X T), Acyclic(T, edges),
         NEW fewer \in SUBSET edges
  PROVE  Acyclic(T, fewer)
<1>1. ASSUME NEW x \in T PROVE x \notin Reachable(T, fewer, x)
  <2> DEFINE R == Reachable(T, edges, x)
  <2>1. DirectDependencies(x, edges) \subseteq R /\ ClosedUnder(R, edges)
    BY ReachableIsLeastClosed
  <2>2. DirectDependencies(x, fewer) \subseteq R
    BY <2>1 DEF DirectDependencies
  <2>3. ClosedUnder(R, fewer)
    BY <2>1 DEF ClosedUnder
  <2>4. R \in SUBSET T /\ x \notin R
    BY DEF Reachable, Acyclic
  <2>5. QED
    BY <2>2, <2>3, <2>4, NotReachableBySet
<1>2. QED
  BY <1>1 DEF Acyclic

(* A task that nothing depends on can be given any dependency but itself,   *)
(* which is why BulkCreateTasks need not ask about the tasks it has made.   *)
THEOREM SourceCreatesNoCycle ==
  ASSUME NEW T, NEW edges, NEW t \in T, NEW d \in T, t # d,
         \A e \in edges : e[2] # t,
         edges \in SUBSET (T \X T)
  PROVE  ~WouldCreateCycle(T, edges, t, d)
<1>1. DirectDependencies(d, edges) \subseteq T \ {t}
  BY DEF DirectDependencies
<1>2. ClosedUnder(T \ {t}, edges)
  BY DEF ClosedUnder
<1>3. t \notin Reachable(T, edges, d)
  BY <1>1, <1>2 DEF Reachable
<1>4. QED
  BY <1>3 DEF WouldCreateCycle

---------------------------------------------------------------------------

(* A set of numbers has a least one.                                        *)
LEMMA LeastNumber ==
  ASSUME NEW B \in SUBSET Nat, B # {}
  PROVE  \E m \in B : \A n \in B : m <= n
<1> DEFINE T == {0 .. b : b \in B}
<1>1. IsWellFoundedOn(StrictSubsetOrdering(Nat), FiniteSubsetsOf(Nat))
  BY FS_StrictSubsetOrderingWellFounded
<1>2. T \subseteq FiniteSubsetsOf(Nat) /\ T # {}
  <2>1. ASSUME NEW b \in B PROVE IsFiniteSet(0 .. b) /\ 0 .. b \in SUBSET Nat
    <3>1. 0 \in Int /\ b \in Int
      OBVIOUS
    <3>2. QED
      BY <3>1, FS_Interval
  <2>2. QED
    BY <2>1 DEF FiniteSubsetsOf
<1>3. PICK x \in T : \A y \in T : <<y, x>> \notin StrictSubsetOrdering(Nat)
  <2> HIDE DEF T
  <2>1. QED
    BY <1>1, <1>2, WFMin
<1>4. PICK m \in B : x = 0 .. m
  OBVIOUS
<1>5. ASSUME NEW n \in B, n < m PROVE FALSE
  <2>1. 0 .. n \subseteq 0 .. m /\ 0 .. n # 0 .. m /\ 0 .. n \in SUBSET Nat /\ 0 .. m \in SUBSET Nat
    <3>1. m \in 0 .. m /\ m \notin 0 .. n
      BY <1>5
    <3>2. QED
      BY <1>5, <3>1
  <2>2. <<0 .. n, 0 .. m>> \in StrictSubsetOrdering(Nat)
    BY <2>1 DEF StrictSubsetOrdering
  <2>3. QED
    BY <1>3, <1>4, <2>2
<1>6. QED
  BY <1>5

(* What holds at the start of a loop and is kept by each round holds until  *)
(* its end.                                                                 *)
LEMMA RoundByRound ==
  ASSUME NEW N \in Nat, NEW S, 0 \in S, \A k \in 1 .. N : k - 1 \in S => k \in S
  PROVE  \A k \in 0 .. N : k \in S
<1> SUFFICES ASSUME (0 .. N) \ S # {} PROVE FALSE
  OBVIOUS
<1>1. PICK m \in (0 .. N) \ S : \A n \in (0 .. N) \ S : m <= n
  <2>1. (0 .. N) \ S \in SUBSET Nat
    OBVIOUS
  <2>2. QED
    BY <2>1, LeastNumber
<1>2. m \in 1 .. N /\ m - 1 \in 0 .. N
  BY <1>1
<1>3. m - 1 \in S
  BY <1>1, <1>2
<1>4. QED
  BY <1>1, <1>2, <1>3

(* The rounds of a loop, round k making d[k][x] out of x, which stay in a   *)
(* set, and what the loop has after each of them.                           *)
Rounds(N, S, d) == d \in [1 .. N -> [S -> S]]

Unrolled(N, S, a, d, f) ==
  f \in [0 .. N -> S] /\ f[0] = a /\ \A k \in 1 .. N : f[k] = d[k][f[k - 1]]

(* A loop whose rounds stay in a set runs to its end.                       *)
LEMMA LoopRuns ==
  ASSUME NEW N \in Nat, NEW S, NEW a \in S, NEW d, Rounds(N, S, d)
  PROVE  \E f : Unrolled(N, S, a, d, f)
<1> USE DEF Rounds
<1> DEFINE Runs(f, n) == f[0] = a /\ \A k \in 1 .. n : f[k] = d[k][f[k - 1]]
           Reached == {n \in 0 .. N : \E f \in [0 .. n -> S] : Runs(f, n)}
<1>1. 0 \in Reached
  <2>1. [x \in 0 .. 0 |-> a] \in [0 .. 0 -> S] /\ Runs([x \in 0 .. 0 |-> a], 0)
    OBVIOUS
  <2>2. \E f \in [0 .. 0 -> S] : Runs(f, 0)
    BY <2>1
  <2>3. QED
    BY <2>2
<1>2. ASSUME NEW n \in 1 .. N, n - 1 \in Reached PROVE n \in Reached
  <2>1. PICK f \in [0 .. n - 1 -> S] : Runs(f, n - 1)
    BY <1>2
  <2>2. PICK g : g = [x \in 0 .. n |-> IF x = n THEN d[n][f[n - 1]] ELSE f[x]]
    OBVIOUS
  <2>3. f[n - 1] \in S /\ d[n] \in [S -> S] /\ d[n][f[n - 1]] \in S
    BY <2>1
  <2>4. g \in [0 .. n -> S]
    BY <2>2, <2>3
  <2>5. /\ g[n] = d[n][f[n - 1]] /\ \A x \in 0 .. n - 1 : g[x] = f[x]
    BY <2>2
  <2>6. ASSUME NEW k \in 1 .. n PROVE g[k] = d[k][g[k - 1]]
    <3>1. CASE k = n
      BY <2>5, <3>1
    <3>2. CASE k # n
      <4>1. k \in 1 .. n - 1 /\ k \in 0 .. n - 1 /\ k - 1 \in 0 .. n - 1
        BY <3>2
      <4>2. QED
        BY <2>1, <2>5, <4>1
    <3>3. QED
      BY <3>1, <3>2
  <2>7. g[0] = a
    BY <2>1, <2>5
  <2>8. Runs(g, n)
    BY <2>6, <2>7
  <2>9. QED
    BY <2>4, <2>8
<1>3. \A n \in 0 .. N : n \in Reached
  <2> HIDE DEF Reached
  <2>1. QED
    BY <1>1, <1>2, RoundByRound
<1>4. QED
  BY <1>3 DEF Unrolled

(* The ranking is a strict total order.                                     *)
LEMMA PrecedesOrders ==
  ASSUME NEW s \in DOMAIN CreatedAt, NEW t \in DOMAIN CreatedAt
  PROVE  /\ ~Precedes(s, s)
         /\ Precedes(s, t) \/ Precedes(t, s) \/ s = t
         /\ ~(Precedes(s, t) /\ Precedes(t, s))
         /\ \A u \in DOMAIN CreatedAt : Precedes(s, t) /\ Precedes(t, u) => Precedes(s, u)
BY RankingAssumption DEF Precedes

(* The ways to list n elements of S, none twice; and those of them whose    *)
(* first i elements are where they belong.                                  *)
Listings(S, n) ==
  {l \in [1 .. n -> S] : \A a, b \in 1 .. n : a # b => l[a] # l[b]}

InPlace(l, n, i) == \A a \in 1 .. i, b \in 1 .. n : a < b => Precedes(l[a], l[b])

(* A listing of n elements is a sequence of length n.                       *)
LEMMA ListingLength ==
  ASSUME NEW S, NEW n \in Nat, NEW l \in Listings(S, n)
  PROVE  Len(l) = n
<1>1. l \in [1 .. n -> S]
  BY DEF Listings
<1>2. l \in Seq(S) /\ DOMAIN l = 1 .. n
  BY <1>1, SeqDef
<1>3. QED
  BY <1>2, LenProperties

(* The body of the loops: two positions are put in order, and no others     *)
(* are touched.                                                             *)
LEMMA ComparedOrders ==
  ASSUME NEW S \in SUBSET DOMAIN CreatedAt, NEW n \in Nat, NEW l \in Listings(S, n),
         NEW i \in 1 .. n, NEW j \in 1 .. n, i < j
  PROVE  /\ Compared(l, i, j) \in Listings(S, n)
         /\ Precedes(Compared(l, i, j)[i], Compared(l, i, j)[j])
         /\ \A a \in (1 .. n) \ {i, j} : Compared(l, i, j)[a] = l[a]
         /\ \/ Compared(l, i, j)[i] = l[i] /\ Compared(l, i, j)[j] = l[j]
            \/ /\ Compared(l, i, j)[i] = l[j] /\ Compared(l, i, j)[j] = l[i]
               /\ Precedes(l[j], l[i])
<1>1. l \in [1 .. n -> S] /\ \A a, b \in 1 .. n : a # b => l[a] # l[b]
  BY DEF Listings
<1>2. l[i] \in DOMAIN CreatedAt /\ l[j] \in DOMAIN CreatedAt /\ l[i] # l[j]
  BY <1>1
<1>3. CASE Precedes(l[j], l[i])
  <2>1. PICK m : m = [l EXCEPT ![i] = l[j], ![j] = l[i]]
    OBVIOUS
  <2>2. Compared(l, i, j) = m
    BY <1>3, <2>1 DEF Compared
  <2>3. /\ m \in [1 .. n -> S] /\ m[i] = l[j] /\ m[j] = l[i]
        /\ \A a \in (1 .. n) \ {i, j} : m[a] = l[a]
    BY <1>1, <2>1
  <2>4. ASSUME NEW a \in 1 .. n, NEW b \in 1 .. n, a # b PROVE m[a] # m[b]
    BY <1>1, <2>3, <2>4
  <2>5. m \in Listings(S, n)
    BY <2>3, <2>4 DEF Listings
  <2>6. QED
    BY <1>3, <2>2, <2>3, <2>5
<1>4. CASE ~Precedes(l[j], l[i])
  BY <1>2, <1>4, PrecedesOrders DEF Compared
<1>5. QED
  BY <1>3, <1>4

(* The inner loop puts one more element in its place.                       *)
LEMMA PassPlaces ==
  ASSUME NEW S \in SUBSET DOMAIN CreatedAt, NEW n \in Nat, NEW l \in Listings(S, n),
         NEW i \in 1 .. n, InPlace(l, n, i - 1)
  PROVE  Pass(l, i) \in Listings(S, n) /\ InPlace(Pass(l, i), n, i)
<1> DEFINE N == n - i
           L == Listings(S, n)
           Round(g) == [k \in 0 .. N |-> IF k = 0 THEN l ELSE Compared(g[k - 1], i, i + k)]
           after == CHOOSE g : g = Round(g)
           Done(m, k) == /\ m \in L /\ InPlace(m, n, i - 1)
                         /\ \A b \in i + 1 .. i + k : Precedes(m[i], m[b])
<1>0. Len(l) = n /\ N \in Nat /\ l \in L
  BY ListingLength
<1>1. Pass(l, i) = after[N]
  BY <1>0 DEF Pass
<1>2. after = Round(after)
  <2>1. PICK d : d = [k \in 1 .. N |-> [m \in L |-> Compared(m, i, i + k)]]
    OBVIOUS
  <2>2. ASSUME NEW k \in 1 .. N, NEW m \in L PROVE Compared(m, i, i + k) \in L
    <3>1. i + k \in 1 .. n /\ i < i + k
      OBVIOUS
    <3>2. QED
      BY <3>1, ComparedOrders
  <2>3. d \in [1 .. N -> [L -> L]]
    <3> HIDE DEF L
    <3>1. \A k \in 1 .. N : [m \in L |-> Compared(m, i, i + k)] \in [L -> L]
      BY <2>2
    <3>2. QED
      BY <2>1, <3>1
  <2>4. PICK f \in [0 .. N -> L] : f[0] = l /\ \A k \in 1 .. N : f[k] = d[k][f[k - 1]]
    <3>1. Rounds(N, L, d)
      BY <2>3 DEF Rounds
    <3>2. \E f : Unrolled(N, L, l, d, f)
      <4> HIDE DEF L, N
      <4>1. QED
        BY <1>0, <3>1, LoopRuns
    <3>3. QED
      BY <3>2 DEF Unrolled
  <2>5. \A k \in 1 .. N : f[k] = Compared(f[k - 1], i, i + k)
    <3> HIDE DEF L
    <3>1. \A k \in 1 .. N : k - 1 \in 0 .. N /\ f[k - 1] \in L
      BY <2>4
    <3>2. QED
      BY <2>1, <2>4, <3>1
  <2>6. f = Round(f)
    <3> HIDE DEF L
    <3>1. \A k \in 0 .. N : f[k] = IF k = 0 THEN l ELSE Compared(f[k - 1], i, i + k)
      BY <2>4, <2>5
    <3>2. QED
      BY <2>4, <3>1
  <2>7. QED
    <3> HIDE DEF Round
    <3>1. QED
      BY <2>6
<1>3. after[0] = l /\ \A k \in 1 .. N : after[k] = Compared(after[k - 1], i, i + k)
  <2>1. PICK g : g = after
    OBVIOUS
  <2>2. g = Round(g)
    BY <1>2, <2>1
  <2> HIDE DEF after
  <2>3. g[0] = l /\ \A k \in 1 .. N : g[k] = Compared(g[k - 1], i, i + k)
    BY <1>0, <2>2
  <2>4. QED
    BY <2>1, <2>3
<1> HIDE DEF after
<1>4. Done(after[0], 0)
  BY <1>3
<1>5. ASSUME NEW k \in 1 .. N, Done(after[k - 1], k - 1) PROVE Done(after[k], k)
  <2>1. PICK m : m = after[k - 1]
    OBVIOUS
  <2>2. PICK j : j = i + k
    OBVIOUS
  <2>3. PICK r : r = Compared(m, i, j)
    OBVIOUS
  <2>4. j \in 1 .. n /\ i < j /\ m \in L /\ after[k] = r
    BY <1>3, <1>5, <2>1, <2>2, <2>3
  <2>5. /\ r \in L /\ Precedes(r[i], r[j])
        /\ \A a \in (1 .. n) \ {i, j} : r[a] = m[a]
        /\ \/ r[i] = m[i] /\ r[j] = m[j]
           \/ r[i] = m[j] /\ r[j] = m[i] /\ Precedes(m[j], m[i])
    <3>1. m \in Listings(S, n) /\ j \in 1 .. n /\ i < j
      BY <2>4
    <3>2. /\ Compared(m, i, j) \in Listings(S, n)
          /\ Precedes(Compared(m, i, j)[i], Compared(m, i, j)[j])
          /\ \A a \in (1 .. n) \ {i, j} : Compared(m, i, j)[a] = m[a]
          /\ \/ Compared(m, i, j)[i] = m[i] /\ Compared(m, i, j)[j] = m[j]
             \/ /\ Compared(m, i, j)[i] = m[j] /\ Compared(m, i, j)[j] = m[i]
                /\ Precedes(m[j], m[i])
      BY <3>1, ComparedOrders
    <3>3. QED
      BY <2>3, <3>2
  <2>6. InPlace(r, n, i - 1)
    <3>1. SUFFICES ASSUME NEW a \in 1 .. i - 1, NEW b \in 1 .. n, a < b PROVE Precedes(r[a], r[b])
      BY DEF InPlace
    <3>2. r[a] = m[a] /\ \A c \in 1 .. n : a < c => Precedes(m[a], m[c])
      BY <1>5, <2>1, <2>4, <2>5 DEF InPlace
    <3>3. CASE b \in {i, j}
      BY <2>4, <2>5, <3>2, <3>3
    <3>4. CASE b \notin {i, j}
      BY <2>5, <3>1, <3>2, <3>4
    <3>5. QED
      BY <3>3, <3>4
  <2>7. ASSUME NEW b \in i + 1 .. i + k PROVE Precedes(r[i], r[b])
    <3>1. CASE b = j
      BY <2>5, <3>1
    <3>2. CASE b # j
      <4>1. b \in i + 1 .. i + (k - 1) /\ b \in (1 .. n) \ {i, j}
        BY <2>2, <3>2
      <4>2. Precedes(m[i], m[b]) /\ r[b] = m[b]
        BY <1>5, <2>1, <2>5, <4>1
      <4>3. m[i] \in DOMAIN CreatedAt /\ m[j] \in DOMAIN CreatedAt /\ m[b] \in DOMAIN CreatedAt
        BY <2>4, <4>1 DEF Listings
      <4>4. QED
        BY <2>5, <4>2, <4>3, PrecedesOrders
    <3>3. QED
      BY <3>1, <3>2
  <2>8. QED
    BY <2>4, <2>5, <2>6, <2>7
<1>6. Done(after[N], N)
  <2> HIDE DEF N, Done
  <2>1. PICK G : G = {k \in 0 .. N : Done(after[k], k)}
    OBVIOUS
  <2>2. 0 \in G /\ \A k \in 1 .. N : k - 1 \in G => k \in G
    BY <1>0, <1>4, <1>5, <2>1
  <2>3. \A k \in 0 .. N : k \in G
    BY <1>0, <2>2, RoundByRound
  <2>4. QED
    BY <1>0, <2>1, <2>3
<1>7. QED
  <2>1. PICK m : m = Pass(l, i)
    OBVIOUS
  <2>2. Done(m, N)
    BY <1>1, <1>6, <2>1
  <2>3. ASSUME NEW a \in 1 .. i, NEW b \in 1 .. n, a < b PROVE Precedes(m[a], m[b])
    <3>1. CASE a = i
      BY <2>2, <2>3, <3>1
    <3>2. CASE a # i
      BY <2>2, <2>3, <3>2 DEF InPlace
    <3>3. QED
      BY <3>1, <3>2
  <2>4. QED
    BY <2>1, <2>2, <2>3 DEF InPlace

(* The two loops put every listing of tasks in order, and leave it a        *)
(* listing of them.                                                         *)
THEOREM LoopsSort ==
  ASSUME NEW S \in SUBSET DOMAIN CreatedAt, NEW n \in Nat, NEW l \in Listings(S, n)
  PROVE  /\ Sorted(l) \in Listings(S, n)
         /\ \A a, b \in 1 .. n : a < b => Precedes(Sorted(l)[a], Sorted(l)[b])
<1> DEFINE L == Listings(S, n)
           Round(g) == [i \in 0 .. n |-> IF i = 0 THEN l ELSE Pass(g[i - 1], i)]
           after == CHOOSE g : g = Round(g)
           P(i) == {m \in L : InPlace(m, n, i)}
<1>0. Len(l) = n /\ l \in L /\ l \in P(0)
  BY ListingLength DEF InPlace
<1>1. Sorted(l) = after[n]
  BY <1>0 DEF Sorted
<1>2. ASSUME NEW i \in 1 .. n, NEW m \in P(i - 1) PROVE Pass(m, i) \in P(i)
  BY PassPlaces
<1>3. \E f : f = Round(f)
  <2>1. PICK d : d = [i \in 1 .. n |-> [m \in L |-> IF m \in P(i - 1) THEN Pass(m, i) ELSE l]]
    OBVIOUS
  <2>2. Rounds(n, L, d)
    <3> HIDE DEF L
    <3>1. ASSUME NEW i \in 1 .. n
          PROVE  [m \in L |-> IF m \in P(i - 1) THEN Pass(m, i) ELSE l] \in [L -> L]
      BY <1>0, <1>2
    <3> HIDE DEF P
    <3>2. QED
      BY <2>1, <3>1 DEF Rounds
  <2>3. PICK f : Unrolled(n, L, l, d, f)
    <3> HIDE DEF L, P
    <3>1. QED
      BY <1>0, <2>2, LoopRuns
  <2>4. /\ f \in [0 .. n -> L] /\ f[0] = l
        /\ \A i \in 1 .. n : f[i] = IF f[i - 1] \in P(i - 1) THEN Pass(f[i - 1], i) ELSE l
    <3> HIDE DEF L, P
    <3>1. f \in [0 .. n -> L] /\ f[0] = l /\ \A i \in 1 .. n : f[i] = d[i][f[i - 1]]
      BY <2>3 DEF Unrolled
    <3>2. \A i \in 1 .. n : f[i - 1] \in L
      BY <3>1
    <3>3. QED
      BY <2>1, <3>1, <3>2
  <2>5. \A i \in 0 .. n : f[i] \in P(i)
    <3> HIDE DEF L, P
    <3>1. PICK G : G = {i \in 0 .. n : f[i] \in P(i)}
      OBVIOUS
    <3>2. 0 \in G
      BY <1>0, <2>4, <3>1
    <3>3. ASSUME NEW i \in 1 .. n, i - 1 \in G PROVE i \in G
      <4>1. f[i - 1] \in P(i - 1) /\ f[i] = Pass(f[i - 1], i)
        BY <2>4, <3>1, <3>3
      <4>2. QED
        BY <1>2, <3>1, <4>1
    <3>4. \A i \in 0 .. n : i \in G
      BY <3>2, <3>3, RoundByRound
    <3>5. QED
      BY <3>1, <3>4
  <2>6. f = Round(f)
    <3> HIDE DEF L, P
    <3>1. \A i \in 1 .. n : i - 1 \in 0 .. n
      OBVIOUS
    <3>2. \A i \in 0 .. n : f[i] = IF i = 0 THEN l ELSE Pass(f[i - 1], i)
      BY <2>4, <2>5, <3>1
    <3>3. QED
      BY <2>4, <3>2
  <2>7. QED
    BY <2>6
<1>4. after = Round(after)
  <2> HIDE DEF Round
  <2>1. QED
    BY <1>3
<1>5. PICK g : g = after
  OBVIOUS
<1>6. g[0] = l /\ \A i \in 1 .. n : g[i] = Pass(g[i - 1], i)
  <2>1. g = Round(g)
    BY <1>4, <1>5
  <2> HIDE DEF after
  <2>2. QED
    BY <2>1
<1>7. g[n] \in P(n)
  <2> HIDE DEF L, P, after
  <2>1. PICK G : G = {i \in 0 .. n : g[i] \in P(i)}
    OBVIOUS
  <2>2. 0 \in G
    BY <1>0, <1>6, <2>1
  <2>3. ASSUME NEW i \in 1 .. n, i - 1 \in G PROVE i \in G
    BY <1>2, <1>6, <2>1, <2>3
  <2>4. \A i \in 0 .. n : i \in G
    BY <2>2, <2>3, RoundByRound
  <2>5. QED
    BY <2>1, <2>4
<1>8. QED
  BY <1>1, <1>5, <1>7 DEF InPlace

(* Whatever a LIMIT cuts off has that many rows before it that it does not. *)
LEMMA ForemostBefore ==
  ASSUME NEW S \in SUBSET DOMAIN CreatedAt, IsFiniteSet(S), NEW n \in Nat,
         NEW t \in S \ Foremost(S, n)
  PROVE  Cardinality({s \in Foremost(S, n) : Precedes(s, t)}) >= n
<1> DEFINE Before(u) == {s \in S : Precedes(s, u)}
           T == {s \in Foremost(S, n) : Precedes(s, t)}
           U == {u \in S \ Foremost(S, n) : u = t \/ Precedes(u, t)}
           F == {Before(u) : u \in U}
           X == DOMAIN CreatedAt
<1>1. IsFiniteSet(T) /\ Cardinality(T) \in Nat
  <2>1. T \in SUBSET S
    BY DEF Foremost
  <2>2. QED
    BY <2>1, FS_Subset, FS_CardinalityType
<1>2. \A u \in S : /\ IsFiniteSet(Before(u)) /\ Cardinality(Before(u)) \in Nat
                   /\ u \in Foremost(S, n) <=> Cardinality(Before(u)) < n
  <2>1. \A u \in S : Before(u) \in SUBSET S
    OBVIOUS
  <2>2. \A u \in S : IsFiniteSet(Before(u))
    BY <2>1, FS_Subset
  <2>3. QED
    BY <2>2, FS_CardinalityType DEF Foremost
<1>3. PICK x \in F : \A y \in F : <<y, x>> \notin StrictSubsetOrdering(X)
  <2>1. F \subseteq FiniteSubsetsOf(X)
    BY <1>2 DEF FiniteSubsetsOf
  <2>2. F # {}
    OBVIOUS
  <2> HIDE DEF F, X
  <2>3. QED
    BY <2>1, <2>2, FS_StrictSubsetOrderingWellFounded, WFMin
<1>4. PICK u \in U : x = Before(u)
  OBVIOUS
<1>5. ASSUME NEW v \in Before(u), v \notin Foremost(S, n) PROVE FALSE
  <2>1. v \in S /\ Precedes(v, u) /\ u \in S /\ (u = t \/ Precedes(u, t))
    BY <1>5
  <2>2. v \in U
    BY <1>5, <2>1, PrecedesOrders
  <2>3. Before(v) \subseteq Before(u)
    BY <2>1, PrecedesOrders
  <2>4. v \in Before(u) /\ v \notin Before(v)
    BY <2>1, PrecedesOrders
  <2>5. <<Before(v), Before(u)>> \in StrictSubsetOrdering(X)
    <3>1. Before(v) \in SUBSET X /\ Before(u) \in SUBSET X /\ Before(v) # Before(u)
      BY <2>4
    <3> HIDE DEF Before, X
    <3>2. QED
      BY <2>3, <3>1 DEF StrictSubsetOrdering
  <2>6. QED
    BY <1>3, <1>4, <2>2, <2>5
<1>6. Before(u) \subseteq T
  <2>1. ASSUME NEW v \in Before(u) PROVE v \in T
    <3>1. v \in Foremost(S, n) /\ v \in S /\ Precedes(v, u) /\ u \in S /\ (u = t \/ Precedes(u, t))
      BY <1>5
    <3>2. QED
      BY <3>1, PrecedesOrders
  <2>2. QED
    BY <2>1
<1>7. Cardinality(Before(u)) <= Cardinality(T)
  <2> HIDE DEF Before, T
  <2>1. QED
    BY <1>1, <1>6, FS_Subset
<1>8. Cardinality(Before(u)) \in Nat /\ ~(Cardinality(Before(u)) < n)
  <2>1. u \in S /\ u \notin Foremost(S, n)
    OBVIOUS
  <2> HIDE DEF Before
  <2>2. QED
    BY <1>2, <2>1
<1>9. QED
  <2> HIDE DEF Before, T
  <2>1. Cardinality(T) >= n
    BY <1>1, <1>7, <1>8
  <2>2. QED
    BY <2>1 DEF T

(* The first m of the rows in order: what an answer is.                     *)
Ranked(answer, rows, m) ==
  /\ answer \in Seq(rows)
  /\ Len(answer) = IF m < Cardinality(rows) THEN m ELSE Cardinality(rows)
  /\ \A a, b \in 1 .. Len(answer) : a < b => Precedes(answer[a], answer[b])

(* An ordered listing lists every row, and before a row only those at the   *)
(* positions before it.                                                     *)
LEMMA OrderedListing ==
  ASSUME NEW rows \in SUBSET DOMAIN CreatedAt, IsFiniteSet(rows),
         NEW n \in Nat, n = Cardinality(rows), NEW l \in Listings(rows, n),
         \A a, b \in 1 .. n : a < b => Precedes(l[a], l[b])
  PROVE  /\ \A t \in rows : \E a \in 1 .. n : t = l[a]
         /\ \A a \in 1 .. n : Cardinality({s \in rows : Precedes(s, l[a])}) < a
<1>1. l \in [1 .. n -> rows] /\ \A a, b \in 1 .. n : a # b => l[a] # l[b]
  BY DEF Listings
<1>2. \A t \in rows : \E a \in 1 .. n : t = l[a]
  <2>1. l \in Injection(1 .. n, rows)
    BY <1>1 DEF Injection, IsInjective
  <2>2. Cardinality(1 .. n) = n
    <3>1. 1 \in Int /\ n \in Int
      OBVIOUS
    <3>2. QED
      BY <3>1, FS_Interval
  <2>3. l \in Surjection(1 .. n, rows)
    BY <2>1, <2>2, FS_Injection
  <2>4. QED
    BY <2>3 DEF Surjection
<1>3. ASSUME NEW a \in 1 .. n PROVE Cardinality({s \in rows : Precedes(s, l[a])}) < a
  <2>1. PICK before : before = {s \in rows : Precedes(s, l[a])}
    OBVIOUS
  <2>2. PICK k : k = a - 1 /\ k \in Nat
    OBVIOUS
  <2>3. \A s \in before : \E b \in 1 .. k : s = l[b]
    <3>1. SUFFICES ASSUME NEW s \in before PROVE \E b \in 1 .. k : s = l[b]
      OBVIOUS
    <3>2. PICK b \in 1 .. n : s = l[b]
      BY <1>2, <2>1
    <3>3. l[a] \in DOMAIN CreatedAt /\ l[b] \in DOMAIN CreatedAt /\ Precedes(l[b], l[a])
      BY <1>1, <2>1, <3>2
    <3>4. ~(a < b) /\ a # b
      BY <3>3, PrecedesOrders
    <3>5. QED
      BY <2>2, <3>2, <3>4
  <2>4. CASE before = {}
    BY <2>1, <2>4, FS_EmptySet
  <2>5. CASE before # {}
    <3>1. PICK x : x \in before
      BY <2>5
    <3>2. PICK f : f = [b \in 1 .. k |-> IF l[b] \in before THEN l[b] ELSE x]
      OBVIOUS
    <3>3. f \in [1 .. k -> before]
      BY <3>1, <3>2
    <3>4. \A s \in before : \E b \in 1 .. k : f[b] = s
      BY <2>3, <3>2
    <3>5. ExistsSurjection(1 .. k, before)
      BY <3>3, <3>4 DEF ExistsSurjection, Surjection
    <3>6. Cardinality(before) <= k
      BY <2>2, <3>5, FS_SurjCardinalityBound
    <3>7. IsFiniteSet(before)
      BY <2>1, FS_Subset
    <3>8. Cardinality(before) \in Nat
      BY <3>7, FS_CardinalityType
    <3>9. QED
      BY <2>1, <2>2, <3>6, <3>8
  <2>6. QED
    BY <2>4, <2>5
<1>4. QED
  BY <1>2, <1>3

(* A list of n elements cut off behind the first m.                         *)
CutTo(answer, l, m, n) == answer = SubSeq(l, 1, IF m < n THEN m ELSE n)

(* The first part of a sequence.                                            *)
LEMMA FirstPart ==
  ASSUME NEW S, NEW n \in Nat, NEW l \in [1 .. n -> S], NEW k \in 0 .. n
  PROVE  /\ SubSeq(l, 1, k) \in Seq(S) /\ Len(SubSeq(l, 1, k)) = k
         /\ \A a \in 1 .. k : SubSeq(l, 1, k)[a] = l[a]
<1>1. PICK one : one = 1
  OBVIOUS
<1>2. one \in Int /\ k \in Int /\ \A a \in one .. k : l[a] \in S
  BY <1>1
<1>3. /\ SubSeq(l, one, k) \in Seq(S)
      /\ Len(SubSeq(l, one, k)) = IF one <= k THEN k - one + 1 ELSE 0
      /\ \A a \in 1 .. k - one + 1 : SubSeq(l, one, k)[a] = l[one + a - 1]
  BY <1>2, SubSeqProperties
<1>4. PICK s : s = SubSeq(l, one, k)
  OBVIOUS
<1>5. Len(s) = k /\ \A a \in 1 .. k : s[a] = l[a]
  <2>1. /\ Len(s) = IF one <= k THEN k - one + 1 ELSE 0
        /\ \A a \in 1 .. k - one + 1 : s[a] = l[one + a - 1]
    BY <1>3, <1>4
  <2>2. \A a \in 1 .. k : a \in 1 .. k - one + 1 /\ one + a - 1 = a
    BY <1>1
  <2>3. QED
    BY <1>1, <2>1, <2>2
<1>6. QED
  BY <1>1, <1>3, <1>4, <1>5

(* An answer names rows that LIMIT m would return, and one that is not      *)
(* named is behind all the m that are.                                      *)
LEMMA RankedNames ==
  ASSUME NEW rows \in SUBSET DOMAIN CreatedAt, IsFiniteSet(rows), NEW m \in Nat,
         NEW n, n = Cardinality(rows), NEW l \in Listings(rows, n), InPlace(l, n, n),
         NEW answer, CutTo(answer, l, m, n)
  PROVE  /\ Ranked(answer, rows, m)
         /\ ToSet(answer) \subseteq Foremost(rows, m)
         /\ \A t \in rows \ ToSet(answer) :
              Len(answer) = m /\ \A s \in ToSet(answer) : Precedes(s, t)
<1>1. n \in Nat
  BY FS_CardinalityType
<1>2. \A a, b \in 1 .. n : a < b => Precedes(l[a], l[b])
  BY <1>1 DEF InPlace
<1>3. PICK k \in 0 .. n : k <= m /\ k = IF m < n THEN m ELSE n
  BY <1>1
<1>4. l \in [1 .. n -> rows] /\ answer = SubSeq(l, 1, k)
  BY <1>3 DEF Listings, CutTo
<1>5. /\ answer \in Seq(rows) /\ Len(answer) = k
      /\ \A a \in 1 .. k : answer[a] = l[a]
  BY <1>1, <1>4, FirstPart
<1>6. Ranked(answer, rows, m)
  <2>1. \A a, b \in 1 .. k : a < b => Precedes(l[a], l[b])
    BY <1>1, <1>2, <1>3
  <2>2. \A a, b \in 1 .. k : a < b => Precedes(answer[a], answer[b])
    BY <1>5, <2>1
  <2>3. QED
    BY <1>3, <1>5, <2>2 DEF Ranked
<1>7. ToSet(answer) = {l[a] : a \in 1 .. k}
  BY <1>1, <1>3, <1>5 DEF ToSet
<1>8. /\ \A t \in rows : \E a \in 1 .. n : t = l[a]
      /\ \A a \in 1 .. n : Cardinality({s \in rows : Precedes(s, l[a])}) < a
  BY <1>1, <1>2, OrderedListing
<1>9. ToSet(answer) \subseteq Foremost(rows, m)
  <2>1. ASSUME NEW a \in 1 .. k PROVE l[a] \in Foremost(rows, m)
    <3>1. a \in 1 .. n /\ a <= m /\ a \in Int
      BY <1>1, <1>3
    <3>2. PICK before : before = {s \in rows : Precedes(s, l[a])}
      OBVIOUS
    <3>3. IsFiniteSet(before)
      BY <3>2, FS_Subset
    <3>4. Cardinality(before) \in Nat /\ Cardinality(before) < a
      BY <1>8, <3>1, <3>2, <3>3, FS_CardinalityType
    <3>5. Cardinality(before) < m /\ l[a] \in rows
      BY <3>1, <3>4 DEF Listings
    <3>6. QED
      BY <3>2, <3>5 DEF Foremost
  <2>2. QED
    BY <1>7, <2>1
<1>10. ASSUME NEW t \in rows \ ToSet(answer)
       PROVE  Len(answer) = m /\ \A s \in ToSet(answer) : Precedes(s, t)
  <2>1. PICK b \in 1 .. n : t = l[b]
    BY <1>8
  <2>2. b > k
    BY <1>1, <1>3, <1>7, <1>10, <2>1
  <2>3. k = m
    BY <1>1, <1>3, <2>2
  <2>4. \A a \in 1 .. k : Precedes(l[a], l[b])
    <3>1. \A a \in 1 .. k : a \in 1 .. n /\ a < b
      BY <1>1, <1>3, <2>2
    <3>2. QED
      BY <1>2, <3>1
  <2>5. QED
    BY <1>5, <1>7, <2>1, <2>3, <2>4
<1>11. QED
  BY <1>6, <1>9, <1>10

(* Nor does a task go before one that is named if a LIMIT of m or more has  *)
(* cut it off before the rows were put together.                            *)
LEMMA CutOffBehind ==
  ASSUME NEW rows \in SUBSET DOMAIN CreatedAt, IsFiniteSet(rows), NEW m \in Nat,
         NEW S \in SUBSET DOMAIN CreatedAt, IsFiniteSet(S), NEW n \in Nat, m <= n,
         Foremost(S, n) \subseteq rows, NEW t \in S \ rows,
         NEW answer, Ranked(answer, rows, m), ToSet(answer) \subseteq Foremost(rows, m)
  PROVE  Len(answer) = m /\ \A s \in ToSet(answer) : Precedes(s, t)
<1>1. PICK ahead : ahead = {s \in Foremost(S, n) : Precedes(s, t)}
  OBVIOUS
<1>2. ahead \in SUBSET rows /\ ahead \subseteq S
  BY <1>1 DEF Foremost
<1>3. Cardinality(ahead) >= n
  BY <1>1, ForemostBefore
<1>4. /\ IsFiniteSet(ahead) /\ Cardinality(ahead) \in Nat /\ Cardinality(rows) \in Nat
      /\ Cardinality(ahead) <= Cardinality(rows)
  BY <1>2, FS_Subset, FS_CardinalityType
<1>5. Len(answer) = m
  BY <1>3, <1>4 DEF Ranked
<1>6. ASSUME NEW s \in ToSet(answer), ~Precedes(s, t) PROVE FALSE
  <2>1. s \in rows /\ s \in DOMAIN CreatedAt /\ t \in DOMAIN CreatedAt /\ s # t
        /\ Cardinality({u \in rows : Precedes(u, s)}) < m
    BY DEF Foremost
  <2>2. Precedes(t, s)
    BY <1>6, <2>1, PrecedesOrders
  <2>3. PICK before : before = {u \in rows : Precedes(u, s)}
    OBVIOUS
  <2>4. \A u \in ahead : u \in DOMAIN CreatedAt /\ Precedes(u, t)
    BY <1>1, <1>2
  <2>5. \A u \in ahead : Precedes(u, s)
    BY <2>1, <2>2, <2>4, PrecedesOrders
  <2>6. ahead \in SUBSET before /\ before \in SUBSET rows
    BY <1>2, <2>3, <2>5
  <2>7. IsFiniteSet(before)
    BY <2>6, FS_Subset
  <2>8. Cardinality(before) \in Nat /\ Cardinality(ahead) <= Cardinality(before)
    BY <2>6, <2>7, FS_Subset, FS_CardinalityType
  <2>9. QED
    BY <1>3, <1>4, <2>1, <2>3, <2>8
<1>7. QED
  BY <1>5, <1>6
=============================================================================
