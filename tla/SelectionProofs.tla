--------------------------- MODULE SelectionProofs ---------------------------
(***************************************************************************)
(* Proofs about Selection, for any subscriptions, servers and endpoints,   *)
(* and any number of switches during a selection.                          *)
(***************************************************************************)
EXTENDS Selection, FiniteSetTheorems, SequenceTheorems, TLAPS

\* A set of naturals has a least element.
LEMMA LeastNat ==
  ASSUME NEW S \in SUBSET Nat, S # {}
  PROVE  \E n \in S : \A m \in S : n <= m
<1> DEFINE R == OpToRel(<, Nat)
<1>1. IsWellFoundedOn(R, Nat)
  BY NatLessThanWellFounded
<1>2. \A n, m \in Nat : n < m => <<n, m>> \in R
  BY DEF OpToRel
<1> HIDE DEF R
<1>3. PICK n \in S : \A m \in S : ~(<<m, n>> \in R)
  BY <1>1, WFMin
<1>4. \A m \in S : m \in Nat /\ n \in Nat /\ ~(m < n)
  BY <1>2, <1>3
<1>5. \A m \in S : n <= m
  BY <1>4
<1> QED
  BY <1>5

\* The groups of the selection in progress, and how many of them were taken.
Plan == GroupsFor(asked, mode, exclude)
Taken == Len(Plan) - Len(left)

\* A Stop ends a selection by priority at the next group, and one that takes all
\* servers at once never.
Going == stopped = "no" \/ mode = "fastest"

\* Nobody answered in the first n groups but who was passed over.
TriedIn(n, groups, passed, known) == \A i \in 1..n : \A y \in groups[i] \ passed : known[y] = Dead
Tried(n) == TriedIn(n, Plan, skipped \cup {exclude}, latency)

\* The groups that are left are the last of the plan, those before the current
\* one did not answer, and of the current one only servers that were passed over
\* are not in the batch.
Searching ==
  phase \in {"group", "queued", "batch"} =>
    /\ Len(left) <= Len(Plan) /\ \A i \in 1..Len(left) : left[i] = Plan[Taken + i]
    /\ phase = "group" /\ Going => Tried(Taken)
    /\ phase # "group" =>
         /\ Taken >= 1 /\ batch \subseteq Plan[Taken] \ {exclude}
         /\ Plan[Taken] \ {exclude} \subseteq batch \cup skipped
         /\ Going => Tried(Taken - 1)

\* The inductive invariant.
SelInv == SelTypeOK /\ Searching /\ ChosenIsBest
------------------------------------------------------------------------------
\* The type of what the user switched off.
Offs == [DOMAIN Order -> SUBSET Servers]

\* Order and its servers.
LEMMA OrderType ==
  /\ DOMAIN Order = 1..Len(Order) /\ Len(Order) \in Nat
  /\ \A i \in DOMAIN Order : Order[i] \in SUBSET Servers
BY SelAssumption, LenProperties, ElementOfSeq

\* The groups by priority: a server is in the group of the first subscription in
\* which it is on, and in no other.
LEMMA PriorityGroups ==
  ASSUME NEW o \in Offs
  PROVE  LET G == priorityServerGroupsLocked(o)
         IN /\ G \in Seq(SUBSET Servers) /\ Len(G) = Len(Order)
            /\ \A i \in 1..Len(Order) : G[i] \subseteq allServersLocked(o)
            /\ \A y \in allServersLocked(o) : \E i \in 1..Len(Order) : y \in G[i]
            /\ \A i \in 1..Len(Order) : \A y \in G[i] :
                 y \in OnIn(o, i) /\ \A j \in 1..(i - 1) : y \notin OnIn(o, j)
<1> DEFINE N == Len(Order)
           G == priorityServerGroupsLocked(o)
<1>1. DOMAIN Order = 1..N /\ N \in Nat /\ \A i \in 1..N : OnIn(o, i) \in SUBSET Servers
  BY OrderType DEF OnIn
<1>2. G = [i \in 1..N |-> OnIn(o, i) \ UNION {OnIn(o, j) : j \in 1..(i - 1)}]
  BY <1>1 DEF priorityServerGroupsLocked
<1> HIDE DEF G, N
<1>3. \A i \in 1..N : G[i] = OnIn(o, i) \ UNION {OnIn(o, j) : j \in 1..(i - 1)}
  BY <1>2
<1>4. G \in [1..N -> SUBSET Servers]
  BY <1>1, <1>2
<1>5. G \in Seq(SUBSET Servers) /\ Len(G) = N
  BY <1>1, <1>4, SeqDef, LenProperties
<1>6. \A i \in 1..N : G[i] \subseteq allServersLocked(o)
  BY <1>1, <1>3 DEF allServersLocked
<1>7. \A i \in 1..N : \A y \in G[i] : y \in OnIn(o, i) /\ \A j \in 1..(i - 1) : y \notin OnIn(o, j)
  BY <1>3
<1>8. ASSUME NEW y \in allServersLocked(o) PROVE \E i \in 1..N : y \in G[i]
  <2> DEFINE S == {i \in 1..N : y \in OnIn(o, i)}
  <2>1. S \in SUBSET Nat /\ S # {}
    BY <1>1 DEF allServersLocked
  <2>2. PICK i \in S : \A k \in S : i <= k
    BY <2>1, LeastNat
  <2>3. \A j \in 1..(i - 1) : y \notin OnIn(o, j)
    BY <1>1, <2>2
  <2>4. y \in G[i]
    BY <1>3, <2>2, <2>3
  <2> QED
    BY <2>2, <2>4
<1> QED
  BY <1>5, <1>6, <1>7, <1>8 DEF G, N

\* Rank gives the group of a server.
LEMMA RankOf ==
  ASSUME asked \in Offs, NEW i \in 1..Len(Order), NEW y,
         y \in OnIn(asked, i), \A j \in 1..(i - 1) : y \notin OnIn(asked, j)
  PROVE  Rank(y) = i
<1> DEFINE k == Rank(y)
<1>1. DOMAIN Order = 1..Len(Order) /\ Len(Order) \in Nat
  BY OrderType
<1>2. k \in 1..Len(Order) /\ y \in OnIn(asked, k) /\ \A j \in 1..(k - 1) : y \notin OnIn(asked, j)
  BY <1>1 DEF Rank
<1> HIDE DEF k
<1>3. k \in Nat /\ i \in Nat /\ k >= 1 /\ i >= 1
  BY <1>1, <1>2
<1>4. ~(k < i) /\ ~(i < k)
  BY <1>2, <1>3
<1> QED
  BY <1>3, <1>4 DEF k

\* The places in a rotated list.
LEMMA Rotation ==
  ASSUME NEW S, NEW G \in Seq(S), NEW k \in 1..Len(G)
  PROVE  LET N == Len(G)
             R == SubSeq(G, k, N) \o SubSeq(G, 1, k - 1)
         IN /\ R \in Seq(S) /\ Len(R) = N
            /\ \A i \in 1..N : R[i] = IF i <= N - k + 1 THEN G[k + i - 1] ELSE G[i - (N - k + 1)]
<1> DEFINE N == Len(G)
           A == SubSeq(G, k, N)
           B == SubSeq(G, 1, k - 1)
<1>1. N \in Nat /\ k \in Int /\ k - 1 \in Int /\ 1 \in Int /\ N \in Int /\ k >= 1 /\ k <= N
  BY LenProperties
<1>2. \A i \in 1..N : G[i] \in S
  BY ElementOfSeq
<1> HIDE DEF N
<1>3. (\A i \in k..N : G[i] \in S) /\ (\A i \in 1..(k - 1) : G[i] \in S)
  BY <1>1, <1>2
<1>4. A \in Seq(S) /\ Len(A) = N - k + 1 /\ \A i \in 1..(N - k + 1) : A[i] = G[k + i - 1]
  BY <1>1, <1>3, SubSeqProperties
<1>5. /\ B \in Seq(S) /\ Len(B) = (IF 1 <= k - 1 THEN k - 1 - 1 + 1 ELSE 0)
      /\ \A i \in 1..(k - 1 - 1 + 1) : B[i] = G[1 + i - 1]
  BY <1>1, <1>3, SubSeqProperties
<1>6. Len(B) = k - 1 /\ \A i \in 1..(k - 1) : B[i] = G[i]
  BY <1>1, <1>5
<1> HIDE DEF A, B
<1>7. A \o B \in Seq(S) /\ Len(A \o B) = N
  <2>1. A \o B \in Seq(S) /\ Len(A \o B) = Len(A) + Len(B)
    BY <1>4, <1>5, ConcatProperties
  <2>2. Len(A) + Len(B) = N
    BY <1>1, <1>4, <1>6
  <2> QED
    BY <2>1, <2>2
<1>8. \A i \in 1..N : (A \o B)[i] = IF i <= N - k + 1 THEN A[i] ELSE B[i - (N - k + 1)]
  <2>1. \A i \in 1..(Len(A) + Len(B)) : (A \o B)[i] = IF i <= Len(A) THEN A[i] ELSE B[i - Len(A)]
    BY <1>4, <1>5, ConcatProperties
  <2>2. Len(A) + Len(B) = N
    BY <1>1, <1>4, <1>6
  <2> QED
    BY <1>4, <2>1, <2>2
<1>9. \A i \in 1..N : i <= N - k + 1 => A[i] = G[k + i - 1]
  BY <1>1, <1>4
<1>10. \A i \in 1..N : ~(i <= N - k + 1) => B[i - (N - k + 1)] = G[i - (N - k + 1)]
  BY <1>1, <1>6
<1>11. \A i \in 1..N : (A \o B)[i] = IF i <= N - k + 1 THEN G[k + i - 1] ELSE G[i - (N - k + 1)]
  BY <1>8, <1>9, <1>10
<1> QED
  BY <1>7, <1>11 DEF A, B, N

\* A selection goes through well-formed groups.
LEMMA GroupsType ==
  ASSUME NEW o \in Offs, NEW m \in {"priority", "active_first", "fastest"}, NEW id
  PROVE  GroupsFor(o, m, id) \in Seq(SUBSET Servers)
<1> DEFINE G == priorityServerGroupsLocked(o)
<1>1. G \in Seq(SUBSET Servers)
  BY PriorityGroups
<1> HIDE DEF G
<1>2. rotatePriorityGroups(G, id) \in Seq(SUBSET Servers)
  <2>1. CASE \E i \in DOMAIN G : id \in G[i]
    <3> DEFINE k == CHOOSE i \in DOMAIN G : id \in G[i]
    <3>1. k \in 1..Len(G)
      BY <1>1, <2>1, LenProperties
    <3> HIDE DEF k
    <3>2. SubSeq(G, k, Len(G)) \o SubSeq(G, 1, k - 1) \in Seq(SUBSET Servers)
      BY <1>1, <3>1, Rotation
    <3> QED
      BY <2>1, <3>2 DEF rotatePriorityGroups, k
  <2>2. CASE ~ \E i \in DOMAIN G : id \in G[i]
    BY <1>1, <2>2 DEF rotatePriorityGroups
  <2> QED
    BY <2>1, <2>2
<1>3. allServersLocked(o) \in SUBSET Servers
  BY OrderType DEF allServersLocked, OnIn
<1>4. << allServersLocked(o) >> \in Seq(SUBSET Servers)
  BY <1>3
<1> QED
  BY <1>1, <1>2, <1>4 DEF GroupsFor, G

\* Modulo, for the distances that occur.
LEMMA Distance ==
  ASSUME NEW N \in Nat, NEW a \in 1..N, NEW k \in 1..N
  PROVE  (a - k) % N = IF a >= k THEN a - k ELSE a - k + N
BY Z3

\* The plan goes through the servers in the order the user asked for: whoever is
\* in an earlier group stands before, and whoever is in the same beside.
LEMMA PlanOrder ==
  ASSUME asked \in Offs, mode \in {"priority", "active_first", "fastest"}
  PROVE  /\ Plan \in Seq(SUBSET Servers)
         /\ \A i \in 1..Len(Plan) : Plan[i] \subseteq allServersLocked(asked)
         /\ \A y \in allServersLocked(asked) : \E i \in 1..Len(Plan) : y \in Plan[i]
         /\ \E d \in Int : \A i \in 1..Len(Plan) : \A y \in Plan[i] : Standing(y) = i - d
<1> DEFINE G == priorityServerGroupsLocked(asked)
           N == Len(Order)
           all == allServersLocked(asked)
<1>1. N \in Nat
  BY OrderType
<1>2. /\ G \in Seq(SUBSET Servers) /\ Len(G) = N
      /\ \A i \in 1..N : G[i] \subseteq all
      /\ \A y \in all : \E i \in 1..N : y \in G[i]
  BY PriorityGroups
<1>3. \A i \in 1..N : \A y \in G[i] : Rank(y) = i
  BY PriorityGroups, RankOf
<1>4. DOMAIN G = 1..N
  BY <1>2, LenProperties
<1>5. Plan \in Seq(SUBSET Servers)
  BY GroupsType DEF Plan
<1>6. CASE mode = "fastest"
  <2>1. Plan = << all >>
    BY <1>6 DEF Plan, GroupsFor
  <2>2. Len(Plan) = 1 /\ Plan[1] = all
    BY <2>1
  <2>3. \A y : Standing(y) = 0
    BY <1>6 DEF Standing
  <2>4. \A i \in 1..Len(Plan) : \A y \in Plan[i] : Standing(y) = i - 1
    BY <2>2, <2>3
  <2> QED
    <3>1. \E d \in Int : \A i \in 1..Len(Plan) : \A y \in Plan[i] : Standing(y) = i - d
      <4> WITNESS 1 \in Int
      <4> QED
        BY <2>4
    <3>2. \A i \in 1..Len(Plan) : Plan[i] = all
      BY <2>2
    <3>3. \A y \in all : \E i \in 1..Len(Plan) : y \in Plan[i]
      BY <2>2
    <3> QED
      BY <1>5, <3>1, <3>2, <3>3
<1>7. CASE mode = "priority" \/ (mode = "active_first" /\ exclude \notin all)
  <2>1. mode = "active_first" => ~ \E i \in DOMAIN G : exclude \in G[i]
    BY <1>2, <1>4, <1>7
  <2>2. Plan = G
    BY <1>7, <2>1 DEF Plan, GroupsFor, rotatePriorityGroups
  <2>3. \A y : Standing(y) = Rank(y)
    BY <1>7 DEF Standing
  <2> HIDE DEF G
  <2>4. \A i \in 1..Len(Plan) : \A y \in Plan[i] : Standing(y) = i - 0
    BY <1>1, <1>2, <1>3, <2>2, <2>3
  <2> QED
    BY <1>2, <1>5, <2>2, <2>4
<1>8. CASE mode = "active_first" /\ exclude \in all
  <2> DEFINE k == CHOOSE i \in DOMAIN G : exclude \in G[i]
  <2>1. k \in 1..N /\ exclude \in G[k]
    BY <1>2, <1>4, <1>8
  <2>2. Plan = SubSeq(G, k, Len(G)) \o SubSeq(G, 1, k - 1)
    BY <1>2, <1>4, <1>8 DEF Plan, GroupsFor, rotatePriorityGroups
  <2> HIDE DEF k, G
  <2>3. /\ Len(Plan) = N
        /\ \A i \in 1..N : Plan[i] = IF i <= N - k + 1 THEN G[k + i - 1] ELSE G[i - (N - k + 1)]
    <3> DEFINE R == SubSeq(G, k, Len(G)) \o SubSeq(G, 1, k - 1)
    <3>1. k \in 1..Len(G)
      BY <1>2, <2>1
    <3>2. /\ Len(R) = Len(G)
          /\ \A i \in 1..Len(G) : R[i] = IF i <= Len(G) - k + 1 THEN G[k + i - 1] ELSE G[i - (Len(G) - k + 1)]
      BY <1>2, <3>1, Rotation
    <3> HIDE DEF R
    <3> QED
      BY <1>2, <2>2, <3>2 DEF R
  <2>4. Rank(exclude) = k
    BY <1>3, <2>1
  <2>5. \A y : Standing(y) = (Rank(y) - k) % N
    BY <1>8, <2>4 DEF Standing
  <2> DEFINE at(i) == IF i <= N - k + 1 THEN k + i - 1 ELSE i - (N - k + 1)
  <2>6. \A i \in 1..N : at(i) \in 1..N /\ Plan[i] = G[at(i)]
    BY <1>1, <2>1, <2>3
  <2>7. \A a \in 1..N : (a - k) % N = IF a >= k THEN a - k ELSE a - k + N
    BY <1>1, <2>1, Distance
  <2>8. \A i \in 1..N : (at(i) - k) % N = i - 1
    <3> SUFFICES ASSUME NEW i \in 1..N PROVE (at(i) - k) % N = i - 1
      OBVIOUS
    <3>1. (at(i) - k) % N = IF at(i) >= k THEN at(i) - k ELSE at(i) - k + N
      BY <2>6, <2>7
    <3>2. at(i) = IF i <= N - k + 1 THEN k + i - 1 ELSE i - (N - k + 1)
      OBVIOUS
    <3>3. (IF at(i) >= k THEN at(i) - k ELSE at(i) - k + N) = i - 1
      BY <1>1, <2>1, <3>2
    <3> QED
      BY <3>1, <3>3
  <2>9. \A i \in 1..N : \A y \in Plan[i] : Standing(y) = i - 1
    <3> SUFFICES ASSUME NEW i \in 1..N, NEW y \in Plan[i] PROVE Standing(y) = i - 1
      OBVIOUS
    <3>1. Rank(y) = at(i)
      BY <1>3, <2>6
    <3> HIDE DEF at
    <3> QED
      BY <2>5, <2>8, <3>1
  <2>10. \A i \in 1..Len(Plan) : Plan[i] \subseteq all
    BY <1>2, <2>3, <2>6
  <2>11. \A y \in all : \E i \in 1..Len(Plan) : y \in Plan[i]
    <3> SUFFICES ASSUME NEW y \in all PROVE \E i \in 1..N : y \in Plan[i]
      BY <2>3
    <3>1. PICK a \in 1..N : y \in G[a]
      BY <1>2
    <3> DEFINE i == IF a >= k THEN a - k + 1 ELSE a - k + N + 1
    <3>2. i \in 1..N /\ at(i) = a
      BY <1>1, <2>1
    <3> HIDE DEF i, at
    <3> QED
      BY <2>6, <3>1, <3>2
  <2> QED
    BY <1>5, <2>3, <2>9, <2>10, <2>11
<1> QED
  BY <1>6, <1>7, <1>8

------------------------------------------------------------------------------
\* pingServerGroups: the result of a server is the answer of each member that
\* answered first.
LEMMA ResultOK ==
  ASSUME SelTypeOK, NEW answers \in [Physical -> Latencies \cup {Dead}], NEW x \in batch
  PROVE  /\ Result(x, answers) \in Latencies \cup {Dead}
         /\ \A e \in FastestMembers(x, answers) :
              e \in Members[x] /\ answers[e] = Result(x, answers) /\ Result(x, answers) \in Latencies
<1>1. Members[x] \subseteq Physical
  BY DEF Physical
<1>2. Latencies \subseteq Nat
  BY SelAssumption
<1>3. \A e \in FastestMembers(x, answers) : e \in Members[x] /\ answers[e] \in Latencies
  BY <1>1 DEF FastestMembers
<1>4. \A e, f \in FastestMembers(x, answers) : answers[e] <= answers[f]
  BY <1>1 DEF FastestMembers
<1>5. \A e, f \in FastestMembers(x, answers) : answers[e] = answers[f]
  <2> SUFFICES ASSUME NEW e \in FastestMembers(x, answers), NEW f \in FastestMembers(x, answers)
               PROVE  answers[e] = answers[f]
    OBVIOUS
  <2>1. answers[e] \in Nat /\ answers[f] \in Nat
    BY <1>2, <1>3
  <2>2. answers[e] <= answers[f] /\ answers[f] <= answers[e]
    BY <1>4
  <2> HIDE DEF SelTypeOK
  <2> QED
    BY <2>1, <2>2
<1>6. CASE FastestMembers(x, answers) = {}
  BY <1>6 DEF Result
<1>7. CASE FastestMembers(x, answers) # {}
  <2> DEFINE c == CHOOSE e \in FastestMembers(x, answers) : TRUE
  <2>1. c \in FastestMembers(x, answers)
    BY <1>7
  <2>2. Result(x, answers) = answers[c]
    BY <1>7 DEF Result
  <2> HIDE DEF c
  <2> QED
    BY <1>3, <1>5, <2>1, <2>2
<1> QED
  BY <1>6, <1>7

\* fastestReachable finds a server whenever one answered.
LEMMA BestExists ==
  ASSUME NEW B, NEW results \in [B -> Latencies \cup {Dead}], fastestReachable(results) = {}
  PROVE  \A x \in B : results[x] = Dead
<1> SUFFICES ASSUME NEW x \in B, results[x] # Dead PROVE FALSE
  OBVIOUS
<1> DEFINE S == {results[y] : y \in {z \in B : results[z] # Dead}}
<1>1. S \in SUBSET Nat /\ results[x] \in S
  BY SelAssumption
<1>2. PICK n \in S : \A m \in S : n <= m
  BY <1>1, LeastNat
<1>3. PICK y \in B : results[y] # Dead /\ results[y] = n
  BY <1>2
<1>4. \A z \in B : results[z] # Dead => results[y] <= results[z]
  BY <1>2, <1>3
<1>5. y \in fastestReachable(results)
  BY <1>3, <1>4 DEF fastestReachable
<1> QED
  BY <1>5

\* The steps keep the types.
LEMMA SelTypes == ASSUME SelTypeOK, [SelNext]_selVars PROVE SelTypeOK'
<1>1. ASSUME NEW m \in {"priority", "active_first", "fastest"}, NEW id \in Servers \cup {NoServer},
             findBestConfigured(m, id)
      PROVE  SelTypeOK'
  <2>1. GroupsFor(off, m, id) \in Seq(SUBSET Servers)
    BY GroupsType DEF SelTypeOK, Offs
  <2> QED
    BY <1>1, <2>1 DEF findBestConfigured, SelTypeOK
<1>2. CASE Over
  <2>1. switches' = 0 /\ 0 \in 0..MaxSwitches
    BY <1>2, SelAssumption DEF Over
  <2>2. left' = << >> /\ << >> \in Seq(SUBSET Servers)
    BY <1>2 DEF Over
  <2> QED
    BY <1>2, <2>1, <2>2 DEF Over, SelTypeOK
<1>3. CASE NextGroup
  <2>1. CASE left # << >> /\ left' = Tail(left) /\ batch' = Head(left) \ {exclude}
             /\ phase' \in {"group", "queued"}
             /\ UNCHANGED <<off, mode, exclude, got, stopped, choice, asked, latency, skipped, switches>>
    <3>1. Tail(left) \in Seq(SUBSET Servers) /\ Head(left) \in SUBSET Servers
      BY <2>1, HeadTailProperties DEF SelTypeOK
    <3> QED
      BY <2>1, <3>1 DEF SelTypeOK
  <2> QED
    BY <1>2, <1>3, <2>1 DEF NextGroup
<1>4. CASE BatchBegins
  BY <1>4 DEF BatchBegins, SelTypeOK
<1>5. CASE BatchEnds
  <2>1. PICK answers \in [Physical -> Latencies \cup {Dead}] :
          LET results == [x \in batch |-> Result(x, answers)]
              best == fastestReachable(results)
          IN /\ got' = [e \in Endpoints |-> IF e \in Physical THEN answers[e] ELSE Unprobed]
             /\ latency' = [x \in Servers |-> IF x \in batch THEN results[x] ELSE latency[x]]
             /\ IF best = {} \/ (stopped = "yes" /\ mode # "fastest") THEN phase' = "group" /\ UNCHANGED choice
                ELSE /\ phase' = "chosen"
                     /\ \E x \in best : \E e \in FastestMembers(x, answers) : choice' = [server |-> x, member |-> e]
    BY <1>5 DEF BatchEnds
  <2>2. UNCHANGED <<off, mode, exclude, left, batch, stopped, asked, skipped, switches>>
    BY <1>5 DEF BatchEnds
  <2>3. \A x \in batch : /\ Result(x, answers) \in Latencies \cup {Dead}
                         /\ \A e \in FastestMembers(x, answers) : e \in Endpoints
    <3>1. \A x \in batch : Members[x] \subseteq Endpoints
      BY SelAssumption DEF SelTypeOK
    <3> QED
      BY <3>1, ResultOK
  <2>4. got' \in [Endpoints -> Latencies \cup {Dead, Unprobed}]
    BY <2>1
  <2>b. batch \subseteq Servers /\ latency \in [Servers -> Latencies \cup {Dead, Unprobed}]
        /\ choice \in [server : Servers, member : Endpoints] \cup {NoServer}
    BY DEF SelTypeOK
  <2>5. latency' \in [Servers -> Latencies \cup {Dead, Unprobed}]
    BY <2>1, <2>3, <2>b
  <2>6. /\ phase' \in {"group", "chosen"}
        /\ choice' \in [server : Servers, member : Endpoints] \cup {NoServer}
    <3> DEFINE best == fastestReachable([x \in batch |-> Result(x, answers)])
    <3>1. best \subseteq batch
      BY DEF fastestReachable
    <3>2. CASE phase' = "group" /\ UNCHANGED choice
      BY <2>b, <3>2
    <3>3. CASE phase' = "chosen" /\ \E x \in best : \E e \in FastestMembers(x, answers) :
                                      choice' = [server |-> x, member |-> e]
      <4>1. PICK x \in best : \E e \in FastestMembers(x, answers) : choice' = [server |-> x, member |-> e]
        BY <3>3
      <4>2. PICK e \in FastestMembers(x, answers) : choice' = [server |-> x, member |-> e]
        BY <4>1
      <4>3. x \in Servers /\ e \in Endpoints
        BY <2>3, <2>b, <3>1
      <4> QED
        BY <3>3, <4>2, <4>3
    <3> QED
      BY <2>1, <3>2, <3>3
  <2> QED
    BY <2>2, <2>4, <2>5, <2>6 DEF SelTypeOK
<1>6. CASE BatchCancelled
  BY <1>6 DEF BatchCancelled, SelTypeOK
<1>7. CASE cancelPingRun
  BY <1>7 DEF cancelPingRun, SelTypeOK
<1>8. ASSUME NEW i \in DOMAIN Order, NEW x \in Order[i], Switch(i, x) PROVE SelTypeOK'
  <2>1. x \in Servers
    BY OrderType
  <2>2. off' \in [DOMAIN Order -> SUBSET Servers]
    BY <1>8, <2>1 DEF Switch, SelTypeOK
  <2>3. switches' \in 0..MaxSwitches
    <3>1. switches \in 0..MaxSwitches /\ switches < MaxSwitches /\ switches' = switches + 1
      BY <1>8 DEF Switch, SelTypeOK
    <3>2. MaxSwitches \in Nat
      BY SelAssumption
    <3> QED
      BY <3>1, <3>2
  <2> QED
    BY <1>8, <2>2, <2>3 DEF Switch, SelTypeOK
<1>9. CASE UNCHANGED selVars
  BY <1>9 DEF selVars, SelTypeOK
<1>10. Commit => Over
  BY DEF Commit
<1> QED
  BY <1>1, <1>2, <1>3, <1>4, <1>5, <1>6, <1>7, <1>8, <1>9, <1>10 DEF SelNext

\* Facts about the plan in any state.
LEMMA PlanType ==
  ASSUME SelTypeOK
  PROVE  /\ Plan \in Seq(SUBSET Servers) /\ Len(Plan) \in Nat
         /\ left \in Seq(SUBSET Servers) /\ Len(left) \in Nat /\ Taken \in Int
<1>1. Plan \in Seq(SUBSET Servers)
  BY GroupsType DEF Plan, SelTypeOK, Offs
<1>2. left \in Seq(SUBSET Servers)
  BY DEF SelTypeOK
<1> QED
  BY <1>1, <1>2, LenProperties DEF Taken

\* The plan stays as long as the selection lasts.
LEMMA PlanStays ==
  ASSUME UNCHANGED <<asked, mode, exclude>>
  PROVE  Plan' = Plan /\ (UNCHANGED left => Taken' = Taken) /\ (UNCHANGED stopped => Going' = Going)
BY DEF Plan, Taken, Going

\* The group of a batch counts as tried when nobody of it answered.
LEMMA TriedGroup ==
  ASSUME NEW n \in Int, NEW groups, NEW passed, NEW known, TriedIn(n - 1, groups, passed, known),
         \A y \in groups[n] \ passed : known[y] = Dead
  PROVE  TriedIn(n, groups, passed, known)
<1> SUFFICES ASSUME NEW i \in 1..n, NEW y \in groups[i] \ passed PROVE known[y] = Dead
  BY DEF TriedIn
<1>1. i \in 1..(n - 1) \/ i = n
  OBVIOUS
<1> QED
  BY <1>1 DEF TriedIn

\* What was tried stays tried when more servers are passed over.
LEMMA TriedStays ==
  ASSUME NEW n, NEW groups, NEW passed, NEW more, NEW known,
         TriedIn(n, groups, passed, known), passed \subseteq more
  PROVE  TriedIn(n, groups, more, known)
BY DEF TriedIn

\* The next group is taken from the plan.
LEMMA NextGroupOK == ASSUME SelInv, NextGroup PROVE Searching'
<1>1. SelTypeOK /\ Searching /\ phase = "group"
  BY DEF SelInv, NextGroup
<1>2. CASE Over
  BY <1>2 DEF Over, Searching
<1>3. CASE /\ left # << >> /\ ~(stopped = "yes" /\ mode # "fastest")
           /\ left' = Tail(left) /\ batch' = Head(left) \ {exclude}
           /\ phase' = (IF batch' = {} THEN "group" ELSE "queued")
           /\ UNCHANGED <<off, mode, exclude, got, stopped, choice, asked, latency, skipped, switches>>
  <2>1. Plan' = Plan
    BY <1>3, PlanStays
  <2>2. /\ Len(Plan) \in Nat /\ Len(left) \in Nat /\ left \in Seq(SUBSET Servers) /\ Len(left) >= 1
    BY <1>1, <1>3, PlanType, EmptySeq
  <2>3. /\ Len(left') = Len(left) - 1 /\ Head(left) = left[1]
        /\ \A i \in 1..(Len(left) - 1) : left'[i] = left[i + 1]
    BY <1>3, <2>2, HeadTailProperties
  <2>4. Len(left) <= Len(Plan) /\ \A i \in 1..Len(left) : left[i] = Plan[Taken + i]
    BY <1>1 DEF Searching
  <2>5. Taken' = Taken + 1 /\ Taken \in Int /\ Taken >= 0
    BY <2>1, <2>2, <2>3, <2>4 DEF Taken
  <2>6. left[1] = Plan[Taken + 1]
    BY <2>2, <2>4
  <2>7. \A i \in 1..Len(left') : left'[i] = Plan'[Taken' + i]
    <3> SUFFICES ASSUME NEW i \in 1..(Len(left) - 1) PROVE left'[i] = Plan[Taken + 1 + i]
      BY <2>1, <2>3, <2>5
    <3>1. i + 1 \in 1..Len(left) /\ left'[i] = left[i + 1]
      BY <2>2, <2>3
    <3>2. left[i + 1] = Plan[Taken + (i + 1)]
      BY <2>4, <3>1
    <3>3. Taken + (i + 1) = Taken + 1 + i
      BY <2>5
    <3> QED
      BY <3>1, <3>2, <3>3
  <2>8. Len(left') <= Len(Plan')
    BY <2>1, <2>2, <2>3, <2>4
  <2>9. batch' = Plan'[Taken'] \ {exclude'}
    BY <1>3, <2>1, <2>3, <2>5, <2>6
  <2>10. TriedIn(Taken, Plan', skipped' \cup {exclude'}, latency')
    <3>1. Going
      BY <1>1, <1>3 DEF Going, SelTypeOK
    <3> QED
      BY <1>1, <1>3, <2>1, <3>1 DEF Searching, Tried
  <2>11. Tried(Taken - 1)'
    BY <2>5, <2>10 DEF Tried
  <2>12. CASE batch' = {}
    <3>1. \A y \in Plan'[Taken'] \ (skipped' \cup {exclude'}) : latency'[y] = Dead
      BY <2>9, <2>12
    <3>2. Taken' - 1 = Taken /\ Taken' \in Int
      BY <2>5
    <3>3. Tried(Taken)'
      BY <2>10, <3>1, <3>2, TriedGroup DEF Tried
    <3> QED
      BY <1>3, <2>7, <2>8, <2>12, <3>3 DEF Searching
  <2>13. CASE batch' # {}
    <3>1. Taken' >= 1
      BY <2>5
    <3> QED
      BY <1>3, <2>7, <2>8, <2>9, <2>11, <2>13, <3>1 DEF Searching
  <2> QED
    BY <2>12, <2>13
<1> QED
  BY <1>2, <1>3 DEF NextGroup

\* A batch that begins, goes on or is given up, with the servers that it loses
\* passed over.
LEMMA BatchGoesOn ==
  ASSUME SelTypeOK, Searching, phase \in {"queued", "batch"},
         UNCHANGED <<asked, mode, exclude, left, latency>>, Going' => Going,
         skipped \subseteq skipped',
         \/ phase' = "group" /\ batch \subseteq skipped'
         \/ phase' \in {"queued", "batch"} /\ batch' \subseteq batch /\ batch \subseteq batch' \cup skipped'
  PROVE  Searching'
<1>1. Plan' = Plan /\ Taken' = Taken /\ Taken \in Int
  BY PlanStays, PlanType
<1>2. /\ Len(left') <= Len(Plan') /\ \A i \in 1..Len(left') : left'[i] = Plan'[Taken' + i]
      /\ Taken' >= 1
      /\ batch \subseteq Plan'[Taken'] \ {exclude'}
      /\ Plan'[Taken'] \ {exclude'} \subseteq batch \cup skipped
  BY <1>1 DEF Searching
<1>3. Going' => TriedIn(Taken' - 1, Plan', skipped' \cup {exclude'}, latency')
  BY <1>1, TriedStays DEF Searching, Tried
<1>4. CASE phase' = "group" /\ batch \subseteq skipped'
  <2>1. \A y \in Plan'[Taken'] \ (skipped' \cup {exclude'}) : latency'[y] = Dead
    BY <1>2, <1>4
  <2>2. Going' => Tried(Taken)'
    BY <1>1, <1>3, <2>1, TriedGroup DEF Tried
  <2> QED
    BY <1>2, <1>4, <2>2 DEF Searching
<1>5. CASE phase' \in {"queued", "batch"} /\ batch' \subseteq batch /\ batch \subseteq batch' \cup skipped'
  <2>1. /\ batch' \subseteq Plan'[Taken'] \ {exclude'}
        /\ Plan'[Taken'] \ {exclude'} \subseteq batch' \cup skipped'
    BY <1>2, <1>5
  <2>2. Going' => Tried(Taken - 1)'
    BY <1>3 DEF Tried
  <2> QED
    BY <1>2, <1>5, <2>1, <2>2 DEF Searching
<1> QED
  BY <1>4, <1>5

\* The results of a batch: the group did not answer, or the best is chosen.
LEMMA BatchEndsOK == ASSUME SelInv, BatchEnds PROVE Searching' /\ ChosenIsBest'
<1>1. SelTypeOK /\ Searching /\ phase = "batch"
  BY DEF SelInv, BatchEnds
<1>2. PICK answers \in [Physical -> Latencies \cup {Dead}] :
        LET results == [x \in batch |-> Result(x, answers)]
            best == fastestReachable(results)
        IN /\ got' = [e \in Endpoints |-> IF e \in Physical THEN answers[e] ELSE Unprobed]
           /\ latency' = [x \in Servers |-> IF x \in batch THEN results[x] ELSE latency[x]]
           /\ IF best = {} \/ (stopped = "yes" /\ mode # "fastest") THEN phase' = "group" /\ UNCHANGED choice
              ELSE /\ phase' = "chosen"
                   /\ \E x \in best : \E e \in FastestMembers(x, answers) : choice' = [server |-> x, member |-> e]
  BY DEF BatchEnds
<1> DEFINE results == [x \in batch |-> Result(x, answers)]
           best == fastestReachable(results)
<1>3. UNCHANGED <<off, mode, exclude, left, batch, stopped, asked, skipped, switches>>
  BY DEF BatchEnds
<1>4. Plan' = Plan /\ Taken' = Taken /\ Taken \in Int /\ Going' = Going
  BY <1>1, <1>3, PlanStays, PlanType
<1>5. results \in [batch -> Latencies \cup {Dead}]
  BY <1>1, ResultOK
<1>6. /\ batch \subseteq Servers /\ latency \in [Servers -> Latencies \cup {Dead, Unprobed}]
      /\ \A x \in Servers : latency'[x] = IF x \in batch THEN results[x] ELSE latency[x]
  BY <1>1, <1>2 DEF SelTypeOK
<1> HIDE DEF results, best
<1>7. /\ Taken >= 1 /\ batch \subseteq Plan[Taken] \ {exclude}
      /\ Plan[Taken] \ {exclude} \subseteq batch \cup skipped
      /\ Len(left) <= Len(Plan) /\ \A i \in 1..Len(left) : left[i] = Plan[Taken + i]
      /\ Going => Tried(Taken - 1)
  BY <1>1 DEF Searching
<1>8. /\ Plan \in Seq(SUBSET Servers) /\ Len(Plan) \in Nat /\ Len(left) \in Nat
      /\ Taken \in 1..Len(Plan)
  BY <1>1, <1>7, PlanType DEF Taken
<1>9. PICK d \in Int : \A i \in 1..Len(Plan) : \A y \in Plan[i] : Standing(y) = i - d
  BY <1>1, PlanOrder DEF SelTypeOK, Offs
<1>10. ASSUME NEW i \in 1..Len(Plan), NEW y \in Plan[i], i # Taken
       PROVE  y \in Servers /\ y \notin batch /\ latency'[y] = latency[y]
  <2>1. y \in Servers
    BY <1>8, ElementOfSeq
  <2>2. y \notin Plan[Taken]
    BY <1>8, <1>9, <1>10
  <2> QED
    BY <1>6, <1>7, <2>1, <2>2
<1>11. Going => TriedIn(Taken - 1, Plan, skipped \cup {exclude}, latency')
  <2> SUFFICES ASSUME Going, NEW i \in 1..(Taken - 1), NEW y \in Plan[i] \ (skipped \cup {exclude})
               PROVE  latency'[y] = Dead
    BY DEF TriedIn
  <2>1. i \in 1..Len(Plan) /\ i # Taken
    BY <1>8
  <2>2. latency[y] = Dead
    BY <1>7 DEF Tried, TriedIn
  <2> QED
    BY <1>10, <2>1, <2>2
<1>12. CASE best = {} \/ (stopped = "yes" /\ mode # "fastest")
  <2>1. phase' = "group"
    BY <1>2, <1>12 DEF results, best
  <2>2. Going => best = {}
    BY <1>12 DEF Going
  <2>3. ASSUME Going PROVE Tried(Taken)'
    <3>1. \A x \in batch : results[x] = Dead
      BY <1>5, <2>2, <2>3, BestExists DEF best
    <3>2. \A y \in Plan[Taken] \ (skipped \cup {exclude}) : latency'[y] = Dead
      BY <1>6, <1>7, <3>1
    <3>3. TriedIn(Taken, Plan, skipped \cup {exclude}, latency')
      BY <1>4, <1>11, <2>3, <3>2, TriedGroup
    <3> QED
      BY <1>3, <1>4, <3>3 DEF Tried
  <2>4. Searching'
    BY <1>3, <1>4, <1>7, <2>1, <2>3 DEF Searching
  <2> QED
    BY <2>1, <2>4 DEF ChosenIsBest
<1>13. CASE ~(best = {} \/ (stopped = "yes" /\ mode # "fastest"))
  <2>1. phase' = "chosen" /\ Going
    BY <1>1, <1>2, <1>13 DEF Going, SelTypeOK, results, best
  <2>2. PICK x \in best : \E e \in FastestMembers(x, answers) : choice' = [server |-> x, member |-> e]
    BY <1>2, <1>13 DEF results, best
  <2>3. PICK e \in FastestMembers(x, answers) : choice' = [server |-> x, member |-> e]
    BY <2>2
  <2>4. /\ x \in batch /\ results[x] # Dead
        /\ \A y \in batch : results[y] # Dead => results[x] <= results[y]
    BY <1>5 DEF fastestReachable, best
  <2>5. e \in Members[x] /\ answers[e] = results[x] /\ results[x] \in Latencies
    BY <1>1, <2>4, ResultOK DEF results
  <2>6. e \in Physical /\ e \in Endpoints
    BY <1>6, <2>4, <2>5, SelAssumption DEF Physical
  <2>7. x \in Servers /\ latency'[x] = results[x] /\ got'[e] = results[x] /\ x # exclude
    BY <1>2, <1>6, <1>7, <2>4, <2>5, <2>6
  <2>8. ASSUME NEW y \in allServersLocked(asked) \ (skipped \cup {exclude})
        PROVE  /\ Standing(y) < Standing(x) => latency'[y] = Dead
               /\ Standing(y) = Standing(x) =>
                    latency'[y] = Dead \/ (latency'[y] \in Latencies /\ latency'[x] <= latency'[y])
    <3>1. PICK i \in 1..Len(Plan) : y \in Plan[i]
      BY <1>1, PlanOrder DEF SelTypeOK, Offs
    <3>2. Standing(y) = i - d /\ Standing(x) = Taken - d
      BY <1>7, <1>8, <1>9, <2>4, <3>1
    <3>3. ASSUME Standing(y) < Standing(x) PROVE latency'[y] = Dead
      <4>1. i \in 1..(Taken - 1)
        BY <1>8, <3>2, <3>3
      <4> QED
        BY <1>11, <2>1, <3>1, <4>1 DEF TriedIn
    <3>4. ASSUME Standing(y) = Standing(x)
          PROVE  latency'[y] = Dead \/ (latency'[y] \in Latencies /\ latency'[x] <= latency'[y])
      <4>1. i = Taken
        BY <1>8, <3>2, <3>4
      <4>2. y \in batch
        BY <1>7, <3>1, <4>1
      <4>3. latency'[y] = results[y] /\ results[y] \in Latencies \cup {Dead}
        BY <1>5, <1>6, <4>2
      <4> QED
        BY <2>4, <2>7, <4>2, <4>3
    <3> QED
      BY <3>3, <3>4
  <2>9. \A y : Standing(y)' = Standing(y)
    BY <1>3 DEF Standing, Rank, OnIn, allServersLocked
  <2>10. allServersLocked(asked)' = allServersLocked(asked)
    BY <1>3
  <2>11. choice'.server = x /\ choice'.member = e
    BY <2>3
  <2>12. ChosenIsBest'
    BY <1>3, <2>5, <2>7, <2>8, <2>9, <2>10, <2>11 DEF ChosenIsBest
  <2> QED
    BY <2>1, <2>12 DEF Searching
<1> QED
  BY <1>12, <1>13

\* Every step preserves the invariant.
LEMMA SelStep == ASSUME SelInv, [SelNext]_selVars PROVE SelInv'
<1>1. SelTypeOK /\ Searching /\ SelTypeOK'
  BY SelTypes DEF SelInv
<1>2. ASSUME NEW m \in {"priority", "active_first", "fastest"}, NEW id \in Servers \cup {NoServer},
             findBestConfigured(m, id)
      PROVE  Searching' /\ ChosenIsBest'
  <2>1. phase' = "group" /\ left' = Plan'
    BY <1>2 DEF findBestConfigured, Plan
  <2>2. left' \in Seq(SUBSET Servers) /\ Len(left') \in Nat
    BY <1>1, LenProperties DEF SelTypeOK
  <2>3. Taken' = 0
    BY <2>1, <2>2 DEF Taken
  <2>4. Tried(Taken)'
    BY <2>3 DEF Tried, TriedIn
  <2>5. Len(left') <= Len(Plan') /\ \A i \in 1..Len(left') : left'[i] = Plan'[Taken' + i]
    BY <2>1, <2>2, <2>3
  <2> QED
    BY <2>1, <2>4, <2>5 DEF Searching, ChosenIsBest
<1>3. ASSUME Over PROVE Searching' /\ ChosenIsBest'
  BY <1>3 DEF Over, Searching, ChosenIsBest
<1>4. ASSUME NextGroup PROVE Searching' /\ ChosenIsBest'
  <2>1. phase' # "chosen"
    BY <1>4 DEF NextGroup, Over
  <2> QED
    BY <1>4, <2>1, NextGroupOK DEF ChosenIsBest
<1>5. ASSUME BatchBegins PROVE Searching' /\ ChosenIsBest'
  <2>1. Searching'
    BY <1>1, <1>5, BatchGoesOn DEF BatchBegins, Going
  <2> QED
    BY <1>5, <2>1 DEF BatchBegins, ChosenIsBest
<1>6. ASSUME BatchEnds PROVE Searching' /\ ChosenIsBest'
  BY <1>6, BatchEndsOK
<1>7. ASSUME BatchCancelled PROVE Searching' /\ ChosenIsBest'
  <2>1. Searching'
    BY <1>1, <1>7, BatchGoesOn DEF BatchCancelled, Going
  <2> QED
    BY <1>7, <2>1 DEF BatchCancelled, ChosenIsBest
<1>8. ASSUME cancelPingRun PROVE Searching' /\ ChosenIsBest'
  <2>1. Going' => Going
    BY <1>8 DEF cancelPingRun, Going
  <2>2. ASSUME phase \in {"queued", "batch"} PROVE Searching'
    BY <1>1, <1>8, <2>1, <2>2, BatchGoesOn DEF cancelPingRun
  <2>3. ASSUME phase = "group" PROVE Searching'
    <3>1. Plan' = Plan /\ Taken' = Taken
      BY <1>8, PlanStays DEF cancelPingRun
    <3>2. Tried(Taken)' <=> Tried(Taken)
      BY <1>8, <2>3, <3>1 DEF cancelPingRun, Tried
    <3> QED
      BY <1>1, <1>8, <2>1, <2>3, <3>1, <3>2 DEF cancelPingRun, Searching
  <2>4. Searching'
    BY <1>8, <2>2, <2>3 DEF cancelPingRun
  <2> QED
    BY <1>8, <2>4 DEF cancelPingRun, ChosenIsBest
<1>9. ASSUME UNCHANGED <<phase, mode, exclude, left, batch, got, stopped, choice, asked, latency, skipped>>
      PROVE  Searching' /\ ChosenIsBest'
  <2>1. Plan' = Plan /\ Taken' = Taken /\ Going' = Going
    BY <1>9, PlanStays
  <2>2. (Tried(Taken)' <=> Tried(Taken)) /\ (Tried(Taken - 1)' <=> Tried(Taken - 1))
    BY <1>9, <2>1 DEF Tried
  <2>3. Searching'
    BY <1>1, <1>9, <2>1, <2>2 DEF Searching
  <2>4. \A y : Standing(y)' = Standing(y)
    BY <1>9 DEF Standing, Rank, OnIn, allServersLocked
  <2>5. ChosenIsBest'
    BY <1>9, <2>4 DEF SelInv, ChosenIsBest
  <2> QED
    BY <2>3, <2>5
<1>10. ASSUME NEW i \in DOMAIN Order, NEW x \in Order[i], Switch(i, x) PROVE Searching' /\ ChosenIsBest'
  BY <1>9, <1>10 DEF Switch
<1>11. UNCHANGED selVars => Searching' /\ ChosenIsBest'
  BY <1>9 DEF selVars
<1>12. Commit => Over
  BY DEF Commit
<1> QED
  BY <1>1, <1>2, <1>3, <1>4, <1>5, <1>6, <1>7, <1>8, <1>10, <1>11, <1>12 DEF SelInv, SelNext

\* Before the first selection there is nothing to find.
LEMMA SelInitially == SelInit => SelInv
<1> SUFFICES ASSUME SelInit PROVE SelInv
  OBVIOUS
<1>1. switches \in 0..MaxSwitches
  BY SelAssumption DEF SelInit
<1>2. left \in Seq(SUBSET Servers)
  BY DEF SelInit
<1>3. SelTypeOK
  BY <1>1, <1>2 DEF SelInit, SelTypeOK
<1> QED
  BY <1>3 DEF SelInv, SelInit, Searching, ChosenIsBest

\* The invariant holds in every state.
THEOREM SelInvariance == SelSpec => []SelInv
<1>1. SelInv /\ [SelNext]_selVars => SelInv'
  BY SelStep
<1> QED
  BY <1>1, SelInitially, PTL DEF SelSpec

\* findBestConfigured chooses a server that answered, and the best of those by
\* the user's order and by latency, whatever was switched, stopped or cancelled
\* meanwhile.
THEOREM ChosenIsBestHolds == SelSpec => []ChosenIsBest
<1>1. SelInv => ChosenIsBest
  BY DEF SelInv
<1> QED
  BY <1>1, SelInvariance, PTL
==============================================================================
