----------------------- MODULE CurveLabImportsProofs ------------------------
(***************************************************************************)
(* What CurveLabImports guarantees for any set of jobs and archives, any   *)
(* limits of the executor, any number of crashes and failing calls.        *)
(*                                                                         *)
(* The argument: the job in the handler's hands has no thread yet, and a   *)
(* thread that may still write its job's row finds the row in flight, with *)
(* an archive that was admitted (RowsOwned).  A transaction that commits a *)
(* new version found no owner of its key and collides with none, and one   *)
(* that found an owner finds it still there, for versions are never        *)
(* withdrawn (SeenStands).  And an admitted archive can be followed to the *)
(* end, because the preflight's search for cycles is sound (SearchInv).    *)
(***************************************************************************)
EXTENDS CurveLabImports, CurveLabJobsProofs, WellFoundedInduction

-----------------------------------------------------------------------------
(* Preflight.  The search walks the tags with three colours.  What it has  *)
(* finished is closed under edges and free of cycles (SearchInv), so when  *)
(* it ends no set of tags waits for itself; and a set of objects that wait *)
(* for each other would make such a set of tags.                           *)

LEMMA NatLeast ==
  ASSUME NEW T, T \subseteq Nat, T # {}
  PROVE  \E x \in T : \A y \in T : x <= y
<1> DEFINE R == OpToRel(<, Nat)
<1>1. IsWellFoundedOn(R, Nat)
  BY NatLessThanWellFounded
<1>2. \A x, y \in Nat : y < x => <<y, x>> \in R
  BY DEF OpToRel
<1> HIDE DEF R
<1>3. PICK x \in T : \A y \in T : ~ (<<y, x>> \in R)
  BY <1>1, WFMin
<1>4. \A y \in T : ~(y < x)
  BY <1>2, <1>3
<1> QED
  BY <1>4

(* What holds of 0, and of k + 1 whenever it holds of k, holds up to N.    *)
LEMMA UpTo ==
  ASSUME NEW N \in Nat, NEW T, 0 \in T, \A k \in 0..N : k \in T /\ k < N => k + 1 \in T
  PROVE  0..N \subseteq T
<1> DEFINE Missing == (0..N) \ T
<1> SUFFICES ASSUME Missing # {} PROVE FALSE
  OBVIOUS
<1>0. Missing \subseteq Nat
  OBVIOUS
<1> HIDE DEF Missing
<1>1. PICK x \in Missing : \A y \in Missing : x <= y
  BY <1>0, NatLeast
<1> USE DEF Missing
<1>2. x # 0 /\ x - 1 \in 0..N /\ x - 1 < N /\ (x - 1) + 1 = x
  BY <1>1
<1>3. x - 1 \in T
  BY <1>1, <1>2
<1> QED
  BY <1>1, <1>2, <1>3

(* A set of numbers up to N has a last one.                                *)
LEMMA LastOf ==
  ASSUME NEW N \in Nat, NEW T, T \subseteq 1..N, T # {}
  PROVE  \E x \in T : \A y \in T : y <= x
<1> DEFINE U == {N - x : x \in T}
<1>1. U \subseteq Nat /\ U # {}
  <2>1. \A x \in T : N - x \in Nat
    OBVIOUS
  <2> QED
    BY <2>1
<1> HIDE DEF U
<1>2. PICK u \in U : \A v \in U : u <= v
  BY <1>1, NatLeast
<1> USE DEF U
<1>3. PICK x \in T : u = N - x
  BY <1>2
<1>4. \A y \in T : N - x <= N - y
  BY <1>2, <1>3
<1>5. \A y \in T : y <= x
  BY <1>4
<1> QED
  BY <1>3, <1>5

(* The edges of an object depend on those of later objects only.           *)
LEMMA EdgesAgree ==
  ASSUME NEW a, IsUpload(a), NEW i \in Nodes(a), NEW f, NEW g,
         \A k \in Nodes(a) : k > i => f[k] = g[k]
  PROVE  EdgesOf(a, i, f) = EdgesOf(a, i, g)
<1>1. \A v \in ToSet(Values(a.objects[i])) : v.kind = "object" => f[v.n] = g[v.n]
  BY DEF IsUpload
<1> DEFINE E(h, v) ==
      CASE v.kind = "ref"    -> {v.tag}
        [] v.kind = "object" -> IF a.objects[v.n].tag # NoTag THEN {a.objects[v.n].tag} ELSE h[v.n]
        [] OTHER             -> {}
<1>2. \A v \in ToSet(Values(a.objects[i])) : E(f, v) = E(g, v)
  BY <1>1
<1> DEFINE V == ToSet(Values(a.objects[i]))
<1>3. EdgesOf(a, i, f) = UNION {E(f, v) : v \in V} /\ EdgesOf(a, i, g) = UNION {E(g, v) : v \in V}
  BY DEF EdgesOf
<1> HIDE DEF E, V
<1> QED
  BY <1>2, <1>3 DEF V

(* Edges is the function its definition describes: the objects are solved  *)
(* from the last one to the first.                                         *)
LEMMA EdgesUnfold ==
  ASSUME NEW a, IsUpload(a)
  PROVE  \A i \in Nodes(a) : Edges(a)[i] = EdgesOf(a, i, Edges(a))
<1> DEFINE n == Len(a.objects)
           From(k) == {i \in Nodes(a) : i >= k}
           Solves(f, k) == f = [i \in From(k) |-> EdgesOf(a, i, f)]
           Found == {k \in 0..n : \E f : Solves(f, (n + 1) - k)}
<1>0. n \in Nat \ {0} /\ Nodes(a) = 1..n
  BY DEF IsUpload
<1>1. 0 \in Found
  <2>1. From((n + 1) - 0) = {}
    BY <1>0
  <2> DEFINE f == [i \in {} |-> EdgesOf(a, i, 0)]
  <2>2. f = [i \in {} |-> EdgesOf(a, i, f)]
    OBVIOUS
  <2>3. Solves(f, (n + 1) - 0)
    BY <2>1, <2>2
  <2> HIDE DEF Solves, f
  <2> QED
    BY <1>0, <2>3
<1>2. ASSUME NEW k \in Found, k < n PROVE k + 1 \in Found
  <2>1. PICK f : Solves(f, (n + 1) - k)
    BY <1>2
  <2> DEFINE A == From((n + 1) - k)
             B == From(n - k)
             g == [i \in B |-> IF i \in A THEN f[i] ELSE EdgesOf(a, i, f)]
  <2>2. B = A \cup {n - k} /\ n - k \in Nodes(a) /\ (n + 1) - (k + 1) = n - k
    BY <1>0, <1>2
  <2>3. ASSUME NEW i \in B PROVE g[i] = EdgesOf(a, i, g)
    <3>1. \A j \in Nodes(a) : j > i => f[j] = g[j]
      BY <1>0, <1>2, <2>2, <2>3
    <3>2. EdgesOf(a, i, f) = EdgesOf(a, i, g)
      <4> HIDE DEF g
      <4>1. i \in Nodes(a)
        BY <2>2, <2>3
      <4> QED
        BY <3>1, <4>1, EdgesAgree
    <3>3. g[i] = EdgesOf(a, i, f)
      BY <2>1
    <3> QED
      BY <3>2, <3>3
  <2>4. g = [i \in B |-> EdgesOf(a, i, g)]
    BY <2>3
  <2>5. Solves(g, (n + 1) - (k + 1))
    BY <2>2, <2>4
  <2>6. k + 1 \in 0..n
    BY <1>0, <1>2
  <2> HIDE DEF Solves, g
  <2> QED
    BY <2>5, <2>6
<1>3. 0..n \subseteq Found
  <2> HIDE DEF Found
  <2> QED
    BY <1>0, <1>1, <1>2, UpTo
<1>4. From((n + 1) - n) = Nodes(a) /\ \E f : Solves(f, (n + 1) - n)
  <2>1. \E f : Solves(f, (n + 1) - n)
    <3> HIDE DEF Solves
    <3>1. n \in Found
      BY <1>0, <1>3
    <3> QED
      BY <3>1
  <2>2. (n + 1) - n = 1
    BY <1>0
  <2>3. From(1) = Nodes(a)
    BY <1>0
  <2> HIDE DEF From, Solves
  <2> QED
    BY <2>1, <2>2, <2>3
<1>5. \E f : f = [i \in Nodes(a) |-> EdgesOf(a, i, f)]
  BY <1>4
<1>6. Edges(a) = CHOOSE f : f = [i \in Nodes(a) |-> EdgesOf(a, i, f)]
  BY DEF Edges
<1>7. Edges(a) = [i \in Nodes(a) |-> EdgesOf(a, i, Edges(a))]
  BY <1>5, <1>6
<1> QED
  BY <1>7

(* So is Search.                                                           *)
LEMMA SearchUnfold ==
  ASSUME NEW g, Turns(g) \in Nat
  PROVE  /\ Search(g)[0] = Start(g)
         /\ \A n \in 1..Turns(g) : Search(g)[n] = Turn(Search(g)[n - 1])
<1> DEFINE N == Turns(g)
           Solves(f, k) == f = [n \in 0..k |-> IF n = 0 THEN Start(g) ELSE Turn(f[n - 1])]
           Found == {k \in 0..N : \E f : Solves(f, k)}
<1>1. 0 \in Found
  <2> DEFINE f == [n \in {0} |-> Start(g)]
  <2>1. Solves(f, 0)
    OBVIOUS
  <2> HIDE DEF Solves, f
  <2> QED
    BY <2>1
<1>2. ASSUME NEW k \in 0..N, k \in Found, k < N PROVE k + 1 \in Found
  <2>1. PICK f : Solves(f, k)
    BY <1>2
  <2> DEFINE h == [n \in 0..(k + 1) |-> IF n <= k THEN f[n] ELSE Turn(f[k])]
  <2>2. ASSUME NEW n \in 0..(k + 1)
        PROVE  h[n] = IF n = 0 THEN Start(g) ELSE Turn(h[n - 1])
    BY <2>1
  <2>3. Solves(h, k + 1)
    BY <2>2
  <2>4. k + 1 \in 0..N
    BY <1>2
  <2> HIDE DEF Solves, h
  <2> QED
    BY <2>3, <2>4
<1>3. 0..N \subseteq Found
  <2> HIDE DEF Found
  <2> QED
    BY <1>1, <1>2, UpTo
<1>4. Search(g) = CHOOSE f : Solves(f, N)
  BY DEF Search
<1>5. \E f : Solves(f, N)
  BY <1>3
<1>6. Solves(Search(g), N)
  BY <1>4, <1>5
<1> QED
  BY <1>6

(* The tags the search has finished.                                       *)
Done(s) == {t \in DOMAIN s.state : s.state[t] = 2}

(* No set of tags in F waits for itself: one of them has no edge into the  *)
(* set.                                                                    *)
Grounded(graph, F) == \A S \in SUBSET F : S # {} => \E t \in S : graph[t] \cap S = {}

IsGraph(graph) ==
  /\ DOMAIN graph = graph[NoTag] \cup {NoTag} /\ NoTag \notin graph[NoTag]
  /\ \A t \in DOMAIN graph : graph[t] \subseteq graph[NoTag]

(* The state of the search, and what the stack says of it.                 *)
IsState(graph, s) ==
  s \in [stack : Seq(DOMAIN graph), left : [DOMAIN graph -> SUBSET DOMAIN graph],
         state : [DOMAIN graph -> 0..2]]

OnStack(s) ==
  /\ \A k \in DOMAIN s.stack : s.state[s.stack[k]] = 1
  /\ \A k, l \in DOMAIN s.stack : s.stack[k] = s.stack[l] => k = l
  /\ IF s.stack = <<>> THEN s.state[NoTag] = 2 ELSE s.stack[1] = NoTag

(* A target that was taken from an entry of the stack is finished or is    *)
(* the next entry; a finished tag has finished targets only.               *)
Looked(graph, s) ==
  /\ \A t \in DOMAIN graph : s.state[t] = 0 => s.left[t] = graph[t]
  /\ \A k \in DOMAIN s.stack :
       graph[s.stack[k]] \subseteq
         s.left[s.stack[k]] \cup Done(s) \cup (IF k < Len(s.stack) THEN {s.stack[k + 1]} ELSE {})
  /\ \A t \in Done(s) : graph[t] \subseteq Done(s)

(* The invariant of the search, ...                                        *)
SearchInv(graph, s) ==
  IsState(graph, s) /\ OnStack(s) /\ Looked(graph, s) /\ Grounded(graph, Done(s))

(* ... which holds when the search starts.                                 *)
LEMMA StartInv ==
  ASSUME NEW graph, IsGraph(graph), graph \in [DOMAIN graph -> SUBSET DOMAIN graph]
  PROVE  SearchInv(graph, Start(graph))
<1> DEFINE s == Start(graph)
<1>1. s.stack = <<NoTag>> /\ s.left = graph /\ Done(s) = {}
      /\ s.state = [t \in DOMAIN graph |-> IF t = NoTag THEN 1 ELSE 0]
  BY DEF Start, Done
<1>2. IsState(graph, s)
  BY DEF Start, IsState, IsGraph
<1>3. OnStack(s)
  BY <1>1 DEF OnStack, IsGraph
<1>4. Looked(graph, s)
  BY <1>1 DEF Looked
<1>5. Grounded(graph, Done(s))
  BY <1>1 DEF Grounded
<1> QED
  BY <1>2, <1>3, <1>4, <1>5 DEF SearchInv

(* The entries of a sequence without its last one.                         *)
LEMMA FrontOf ==
  ASSUME NEW T, NEW q \in Seq(T), q # <<>>
  PROVE  /\ Front(q) \in Seq(T) /\ Len(Front(q)) = Len(q) - 1
         /\ DOMAIN Front(q) = 1..(Len(q) - 1)
         /\ \A k \in 1..(Len(q) - 1) : Front(q)[k] = q[k]
         /\ Len(q) \in Nat \ {0} /\ Last(q) = q[Len(q)] /\ DOMAIN q = 1..Len(q)
         /\ Len(q) \in DOMAIN q
<1>1. Len(q) \in Nat \ {0} /\ DOMAIN q = 1..Len(q)
  OBVIOUS
<1>2. Front(q) = SubSeq(q, 1, Len(q) - 1)
  BY DEF Front
<1>3. Front(q) \in Seq(T)
  BY <1>1, <1>2
<1>4. Len(Front(q)) = Len(q) - 1 /\ \A k \in 1..(Len(q) - 1) : Front(q)[k] = q[k]
  BY <1>1, <1>2
<1>5. DOMAIN Front(q) = 1..(Len(q) - 1)
  BY <1>3, <1>4
<1> QED
  BY <1>1, <1>3, <1>4, <1>5 DEF Last

(* A tag that is finished after all its targets closes no cycle.           *)
LEMMA GroundedMore ==
  ASSUME NEW graph, NEW F, NEW t, t \notin F, graph[t] \subseteq F, Grounded(graph, F),
         \A u \in F : graph[u] \subseteq F
  PROVE  Grounded(graph, F \cup {t})
<1> SUFFICES ASSUME NEW S \in SUBSET (F \cup {t}), S # {} PROVE \E u \in S : graph[u] \cap S = {}
  BY DEF Grounded
<1>1. CASE S \cap F = {}
  BY <1>1
<1>2. CASE S \cap F # {}
  <2>1. PICK u \in S \cap F : graph[u] \cap (S \cap F) = {}
    BY <1>2 DEF Grounded
  <2> QED
    BY <2>1
<1> QED
  BY <1>1, <1>2

(* The entry on top of the stack, and the target it takes next.            *)
Top(s) == Last(s.stack)
Target(s) == CHOOSE t \in s.left[Top(s)] : TRUE

LEMMA TopEntry ==
  ASSUME NEW graph, NEW s, SearchInv(graph, s), s.stack # <<>>
  PROVE  LET n == Len(s.stack) IN
         /\ n \in Nat \ {0} /\ DOMAIN s.stack = 1..n /\ Top(s) = s.stack[n]
         /\ Top(s) \in DOMAIN graph /\ s.state[Top(s)] = 1
         /\ \A k \in 1..(n - 1) : s.stack[k] # Top(s)
<1> DEFINE n == Len(s.stack)
<1>0. s.stack \in Seq(DOMAIN graph) /\ OnStack(s)
  BY DEF SearchInv, IsState
<1>1. n \in Nat \ {0} /\ DOMAIN s.stack = 1..n /\ Top(s) = s.stack[n] /\ n \in DOMAIN s.stack
  BY <1>0, FrontOf DEF Top
<1>2. s.stack[n] \in DOMAIN graph
  BY <1>0, <1>1
<1>3. s.state[s.stack[n]] = 1
  BY <1>0, <1>1 DEF OnStack
<1>4. ASSUME NEW k \in 1..(n - 1), s.stack[k] = s.stack[n] PROVE FALSE
  <2>1. k \in DOMAIN s.stack /\ k # n
    BY <1>1
  <2>2. \A l, m \in DOMAIN s.stack : s.stack[l] = s.stack[m] => l = m
    BY <1>0 DEF OnStack
  <2> QED
    BY <1>1, <1>4, <2>1, <2>2
<1> QED
  BY <1>1, <1>2, <1>3, <1>4

(* A turn finishes the tag on top, ...                                     *)
LEMMA TurnFinishes ==
  ASSUME NEW graph, NEW s, SearchInv(graph, s), s.stack # <<>>, s.left[Top(s)] = {}
  PROVE  LET d == Turn(s)
             n == Len(s.stack) IN
         /\ IsState(graph, d) /\ DOMAIN d.stack = 1..(n - 1) /\ Len(d.stack) = n - 1
         /\ \A k \in 1..(n - 1) : d.stack[k] = s.stack[k]
         /\ d.left = s.left /\ d.state[Top(s)] = 2
         /\ \A t \in DOMAIN graph \ {Top(s)} : d.state[t] = s.state[t]
<1> DEFINE d == Turn(s)
           n == Len(s.stack)
<1>0. /\ s.stack \in Seq(DOMAIN graph) /\ s.left \in [DOMAIN graph -> SUBSET DOMAIN graph]
      /\ s.state \in [DOMAIN graph -> 0..2] /\ Top(s) \in DOMAIN graph
  BY TopEntry DEF SearchInv, IsState
<1>1. d = [stack |-> Front(s.stack), left |-> s.left, state |-> [s.state EXCEPT ![Top(s)] = 2]]
  BY DEF Turn, Top
<1>2. d.stack = Front(s.stack) /\ d.left = s.left /\ d.state = [s.state EXCEPT ![Top(s)] = 2]
  BY <1>1
<1>3. /\ Front(s.stack) \in Seq(DOMAIN graph) /\ Len(Front(s.stack)) = n - 1
      /\ DOMAIN Front(s.stack) = 1..(n - 1)
      /\ \A k \in 1..(n - 1) : Front(s.stack)[k] = s.stack[k]
  BY <1>0, FrontOf
<1>4. [s.state EXCEPT ![Top(s)] = 2] \in [DOMAIN graph -> 0..2]
  BY <1>0
<1>5. IsState(graph, d)
  BY <1>0, <1>1, <1>3, <1>4 DEF IsState
<1> HIDE DEF d
<1>6. d.state[Top(s)] = 2 /\ \A t \in DOMAIN graph \ {Top(s)} : d.state[t] = s.state[t]
  BY <1>0, <1>2
<1> QED
  BY <1>2, <1>3, <1>5, <1>6 DEF d

(* ... or takes its next target, and drops a finished one, ...             *)
LEMMA TargetTaken ==
  ASSUME NEW graph, NEW s, SearchInv(graph, s), s.stack # <<>>, s.left[Top(s)] # {}
  PROVE  LET rest == [s.left EXCEPT ![Top(s)] = @ \ {Target(s)}] IN
         /\ Target(s) \in s.left[Top(s)] /\ Target(s) \in DOMAIN graph
         /\ s.state[Target(s)] \in 0..2
         /\ rest \in [DOMAIN graph -> SUBSET DOMAIN graph]
         /\ rest[Top(s)] = s.left[Top(s)] \ {Target(s)}
         /\ \A t \in DOMAIN graph \ {Top(s)} : rest[t] = s.left[t]
<1>0. /\ s.left \in [DOMAIN graph -> SUBSET DOMAIN graph]
      /\ s.state \in [DOMAIN graph -> 0..2] /\ Top(s) \in DOMAIN graph
  BY TopEntry DEF SearchInv, IsState
<1>1. Target(s) \in s.left[Top(s)]
  BY DEF Target
<1>2. Target(s) \in DOMAIN graph
  BY <1>0, <1>1
<1> QED
  BY <1>0, <1>1, <1>2

LEMMA TurnDrops ==
  ASSUME NEW graph, NEW s, SearchInv(graph, s), s.stack # <<>>, s.left[Top(s)] # {},
         s.state[Target(s)] = 2
  PROVE  LET d == Turn(s) IN
         /\ IsState(graph, d) /\ d.stack = s.stack /\ d.state = s.state
         /\ d.left[Top(s)] = s.left[Top(s)] \ {Target(s)}
         /\ \A t \in DOMAIN graph \ {Top(s)} : d.left[t] = s.left[t]
<1> DEFINE rest == [s.left EXCEPT ![Top(s)] = @ \ {Target(s)}]
           d == Turn(s)
<1>0. IsState(graph, s)
  BY DEF SearchInv
<1>1. /\ rest \in [DOMAIN graph -> SUBSET DOMAIN graph]
      /\ rest[Top(s)] = s.left[Top(s)] \ {Target(s)}
      /\ \A t \in DOMAIN graph \ {Top(s)} : rest[t] = s.left[t]
  BY TargetTaken
<1>2. d = [s EXCEPT !.left = rest]
  BY DEF Turn, Top, Target
<1> HIDE DEF rest, d
<1>3. IsState(graph, d) /\ d.stack = s.stack /\ d.left = rest /\ d.state = s.state
  BY <1>0, <1>1, <1>2 DEF IsState
<1> QED
  BY <1>1, <1>3 DEF d

(* ... enters a new one, ...                                               *)
LEMMA TurnEnters ==
  ASSUME NEW graph, NEW s, SearchInv(graph, s), s.stack # <<>>, s.left[Top(s)] # {},
         s.state[Target(s)] = 0
  PROVE  LET d == Turn(s)
             n == Len(s.stack) IN
         /\ IsState(graph, d) /\ DOMAIN d.stack = 1..(n + 1) /\ Len(d.stack) = n + 1
         /\ d.stack[n + 1] = Target(s) /\ \A k \in 1..n : d.stack[k] = s.stack[k]
         /\ d.state[Target(s)] = 1
         /\ \A t \in DOMAIN graph \ {Target(s)} : d.state[t] = s.state[t]
         /\ d.left[Top(s)] = s.left[Top(s)] \ {Target(s)}
         /\ \A t \in DOMAIN graph \ {Top(s)} : d.left[t] = s.left[t]
<1> DEFINE rest == [s.left EXCEPT ![Top(s)] = @ \ {Target(s)}]
           d == Turn(s)
           n == Len(s.stack)
<1>0. s.stack \in Seq(DOMAIN graph) /\ s.state \in [DOMAIN graph -> 0..2]
  BY DEF SearchInv, IsState
<1>1. /\ rest \in [DOMAIN graph -> SUBSET DOMAIN graph]
      /\ rest[Top(s)] = s.left[Top(s)] \ {Target(s)}
      /\ \A t \in DOMAIN graph \ {Top(s)} : rest[t] = s.left[t]
      /\ Target(s) \in DOMAIN graph
  BY TargetTaken
<1>2. d = [stack |-> Append(s.stack, Target(s)), left |-> rest,
           state |-> [s.state EXCEPT ![Target(s)] = 1]]
  BY DEF Turn, Top, Target
<1> HIDE DEF rest, d
<1>3. /\ d.stack = Append(s.stack, Target(s)) /\ d.left = rest
      /\ d.state = [s.state EXCEPT ![Target(s)] = 1]
  BY <1>2
<1>4. /\ d.stack \in Seq(DOMAIN graph) /\ DOMAIN d.stack = 1..(n + 1) /\ Len(d.stack) = n + 1
      /\ d.stack[n + 1] = Target(s) /\ \A k \in 1..n : d.stack[k] = s.stack[k]
  BY <1>0, <1>1, <1>3
<1>5. /\ d.state \in [DOMAIN graph -> 0..2] /\ d.state[Target(s)] = 1
      /\ \A t \in DOMAIN graph \ {Target(s)} : d.state[t] = s.state[t]
  BY <1>0, <1>1, <1>3
<1>6. IsState(graph, d)
  BY <1>1, <1>2, <1>3, <1>4, <1>5 DEF IsState
<1> QED
  BY <1>1, <1>3, <1>4, <1>5, <1>6 DEF d

(* ... or stops, because the stack is empty or holds the target.           *)
LEMMA TurnStays ==
  ASSUME NEW graph, NEW s, SearchInv(graph, s)
  PROVE  /\ s.stack = <<>> => Turn(s) = s
         /\ s.stack # <<>> /\ s.left[Top(s)] # {} =>
              \/ s.state[Target(s)] = 0
              \/ s.state[Target(s)] = 1 /\ Turn(s) = s
              \/ s.state[Target(s)] = 2
<1>1. s.stack = <<>> => Turn(s) = s
  BY DEF Turn
<1>2. ASSUME s.stack # <<>>, s.left[Top(s)] # {}, s.state[Target(s)] = 1 PROVE Turn(s) = s
  BY <1>2 DEF Turn, Top, Target
<1>3. s.stack # <<>> /\ s.left[Top(s)] # {} => s.state[Target(s)] \in {0, 1, 2}
  <2>1. 0..2 = {0, 1, 2}
    OBVIOUS
  <2> QED
    BY <2>1, TargetTaken
<1> QED
  BY <1>1, <1>2, <1>3

(* A turn of the search keeps its invariant.                               *)
LEMMA TurnInv ==
  ASSUME NEW graph, NEW s, SearchInv(graph, s)
  PROVE  SearchInv(graph, Turn(s))
<1> DEFINE D == DOMAIN graph
           d == Turn(s)
           n == Len(s.stack)
<1>0. IsState(graph, s) /\ OnStack(s) /\ Looked(graph, s) /\ Grounded(graph, Done(s))
  BY DEF SearchInv
<1>s. s.state \in [D -> 0..2] /\ DOMAIN s.state = D
  BY <1>0 DEF IsState
<1>1. ASSUME s.stack # <<>>, s.left[Top(s)] = {} PROVE SearchInv(graph, d)
  <2>1. /\ n \in Nat \ {0} /\ DOMAIN s.stack = 1..n /\ Top(s) = s.stack[n]
        /\ Top(s) \in D /\ s.state[Top(s)] = 1 /\ \A k \in 1..(n - 1) : s.stack[k] # Top(s)
    BY <1>1, TopEntry
  <2>2. /\ IsState(graph, d) /\ DOMAIN d.stack = 1..(n - 1) /\ Len(d.stack) = n - 1
        /\ \A k \in 1..(n - 1) : d.stack[k] = s.stack[k]
        /\ d.left = s.left /\ d.state[Top(s)] = 2
        /\ \A t \in D \ {Top(s)} : d.state[t] = s.state[t]
    BY <1>1, TurnFinishes
  <2> HIDE DEF d, n
  <2>3. DOMAIN d.state = D
    BY <2>2 DEF IsState
  <2>4. Done(d) = Done(s) \cup {Top(s)} /\ Top(s) \notin Done(s)
    BY <1>s, <2>1, <2>2, <2>3 DEF Done
  <2>5. graph[Top(s)] \subseteq Done(s)
    BY <1>0, <1>1, <2>1 DEF Looked, n
  <2>6. Grounded(graph, Done(d))
    BY <1>0, <2>4, <2>5, GroundedMore DEF Looked
  <2>7. OnStack(d)
    <3>0. /\ \A k \in 1..n : s.state[s.stack[k]] = 1 /\ s.stack[k] \in D
          /\ \A k, l \in 1..n : s.stack[k] = s.stack[l] => k = l
          /\ s.stack[1] = NoTag
      BY <1>0, <1>1, <2>1 DEF OnStack, IsState
    <3>1. \A k \in DOMAIN d.stack : d.state[d.stack[k]] = 1
      BY <2>1, <2>2, <3>0
    <3>2. \A k, l \in DOMAIN d.stack : d.stack[k] = d.stack[l] => k = l
      BY <2>1, <2>2, <3>0
    <3>3. IF d.stack = <<>> THEN d.state[NoTag] = 2 ELSE d.stack[1] = NoTag
      <4>1. CASE n = 1
        <5>1. d.stack = <<>>
          BY <2>2, <4>1 DEF IsState
        <5> QED
          BY <2>1, <2>2, <3>0, <4>1, <5>1
      <4>2. CASE n # 1
        <5>1. 1 \in 1..(n - 1) /\ d.stack # <<>>
          BY <2>1, <2>2, <4>2
        <5> QED
          BY <2>2, <3>0, <5>1
      <4> QED
        BY <4>1, <4>2
    <3> QED
      BY <3>1, <3>2, <3>3 DEF OnStack
  <2>8. Looked(graph, d)
    <3>1. \A t \in D : d.state[t] = 0 => d.left[t] = graph[t]
      BY <1>0, <2>2 DEF Looked
    <3>2. ASSUME NEW k \in DOMAIN d.stack
          PROVE  graph[d.stack[k]] \subseteq
                   d.left[d.stack[k]] \cup Done(d)
                     \cup (IF k < Len(d.stack) THEN {d.stack[k + 1]} ELSE {})
      <4>1. graph[s.stack[k]] \subseteq s.left[s.stack[k]] \cup Done(s) \cup {s.stack[k + 1]}
        BY <1>0, <2>1, <2>2 DEF Looked, n
      <4>2. CASE k < n - 1
        <5>0. k \in 1..(n - 1) /\ k + 1 \in 1..(n - 1)
          BY <2>1, <2>2, <4>2
        <5>1. k < Len(d.stack) /\ d.stack[k] = s.stack[k] /\ d.stack[k + 1] = s.stack[k + 1]
          BY <2>2, <4>2, <5>0
        <5> QED
          BY <2>2, <2>4, <4>1, <5>1
      <4>3. CASE k = n - 1
        <5>1. d.stack[k] = s.stack[k] /\ s.stack[k + 1] = Top(s)
          BY <2>1, <2>2, <4>3
        <5> QED
          BY <2>2, <2>4, <4>1, <5>1
      <4> QED
        BY <2>1, <2>2, <4>2, <4>3
    <3>3. \A t \in Done(d) : graph[t] \subseteq Done(d)
      BY <1>0, <2>4, <2>5 DEF Looked
    <3> QED
      BY <3>1, <3>2, <3>3 DEF Looked
  <2> QED
    BY <2>2, <2>6, <2>7, <2>8 DEF SearchInv
<1>2. ASSUME s.stack # <<>>, s.left[Top(s)] # {}, s.state[Target(s)] = 2
      PROVE  SearchInv(graph, d)
  <2>1. Top(s) \in D /\ s.state[Top(s)] = 1 /\ Target(s) \in D
    BY <1>2, TopEntry, TargetTaken
  <2>2. /\ IsState(graph, d) /\ d.stack = s.stack /\ d.state = s.state
        /\ d.left[Top(s)] = s.left[Top(s)] \ {Target(s)}
        /\ \A t \in D \ {Top(s)} : d.left[t] = s.left[t]
    BY <1>2, TurnDrops
  <2> HIDE DEF d
  <2>3. Done(d) = Done(s) /\ Target(s) \in Done(s)
    BY <1>s, <1>2, <2>1, <2>2 DEF Done
  <2>4. OnStack(d)
    BY <1>0, <2>2 DEF OnStack
  <2>5. Looked(graph, d)
    <3>1. \A t \in D : d.state[t] = 0 => d.left[t] = graph[t]
      BY <1>0, <2>1, <2>2 DEF Looked
    <3>2. ASSUME NEW k \in DOMAIN d.stack
          PROVE  graph[d.stack[k]] \subseteq
                   d.left[d.stack[k]] \cup Done(d)
                     \cup (IF k < Len(d.stack) THEN {d.stack[k + 1]} ELSE {})
      <4>1. graph[s.stack[k]] \subseteq
              s.left[s.stack[k]] \cup Done(s) \cup (IF k < n THEN {s.stack[k + 1]} ELSE {})
        BY <1>0, <2>2 DEF Looked
      <4>2. s.stack[k] \in D
        BY <1>0, <2>2 DEF IsState
      <4>3. s.left[s.stack[k]] \subseteq d.left[s.stack[k]] \cup Done(s)
        BY <2>2, <2>3, <4>2
      <4> QED
        BY <2>2, <2>3, <4>1, <4>3
    <3> QED
      BY <1>0, <2>3, <3>1, <3>2 DEF Looked
  <2> QED
    BY <1>0, <2>2, <2>3, <2>4, <2>5 DEF SearchInv
<1>3. ASSUME s.stack # <<>>, s.left[Top(s)] # {}, s.state[Target(s)] = 0
      PROVE  SearchInv(graph, d)
  <2>1. /\ n \in Nat \ {0} /\ DOMAIN s.stack = 1..n /\ Top(s) = s.stack[n]
        /\ Top(s) \in D /\ s.state[Top(s)] = 1 /\ \A k \in 1..(n - 1) : s.stack[k] # Top(s)
        /\ Target(s) \in D
    BY <1>3, TopEntry, TargetTaken
  <2>2. /\ IsState(graph, d) /\ DOMAIN d.stack = 1..(n + 1) /\ Len(d.stack) = n + 1
        /\ d.stack[n + 1] = Target(s) /\ \A k \in 1..n : d.stack[k] = s.stack[k]
        /\ d.state[Target(s)] = 1 /\ \A t \in D \ {Target(s)} : d.state[t] = s.state[t]
        /\ d.left[Top(s)] = s.left[Top(s)] \ {Target(s)}
        /\ \A t \in D \ {Top(s)} : d.left[t] = s.left[t]
    BY <1>3, TurnEnters
  <2> HIDE DEF d, n
  <2>3. Done(d) = Done(s)
    <3>1. DOMAIN d.state = D
      BY <2>2 DEF IsState
    <3>2. \A t \in D : d.state[t] = 2 <=> s.state[t] = 2
      BY <1>3, <2>1, <2>2
    <3> QED
      BY <1>s, <3>1, <3>2 DEF Done
  <2>4. /\ \A k \in 1..n : s.state[s.stack[k]] = 1 /\ s.stack[k] \in D
        /\ \A k, l \in 1..n : s.stack[k] = s.stack[l] => k = l
        /\ s.stack[1] = NoTag
    BY <1>0, <1>3, <2>1 DEF OnStack, IsState
  <2>5. \A k \in DOMAIN d.stack : k \in 1..n \/ k = n + 1
    BY <2>1, <2>2
  <2>6. OnStack(d)
    <3>1. \A k \in DOMAIN d.stack : d.state[d.stack[k]] = 1
      BY <1>3, <2>2, <2>4, <2>5
    <3>2. \A k, l \in DOMAIN d.stack : d.stack[k] = d.stack[l] => k = l
      BY <1>3, <2>2, <2>4, <2>5
    <3>3. d.stack # <<>> /\ d.stack[1] = NoTag
      <4>1. 1 \in 1..n /\ 1 \in 1..(n + 1)
        BY <2>1
      <4> QED
        BY <2>2, <2>4, <4>1
    <3> QED
      BY <3>1, <3>2, <3>3 DEF OnStack
  <2>7. Looked(graph, d)
    <3>1. \A t \in D : d.state[t] = 0 => d.left[t] = graph[t]
      BY <1>0, <1>3, <2>1, <2>2 DEF Looked
    <3>2. ASSUME NEW k \in DOMAIN d.stack
          PROVE  graph[d.stack[k]] \subseteq
                   d.left[d.stack[k]] \cup Done(d)
                     \cup (IF k < Len(d.stack) THEN {d.stack[k + 1]} ELSE {})
      <4>1. CASE k = n + 1
        <5>1. d.left[Target(s)] = graph[Target(s)]
          BY <1>0, <1>3, <2>1, <2>2 DEF Looked
        <5> QED
          BY <2>2, <4>1, <5>1
      <4>2. CASE k = n
        <5>1. graph[Top(s)] \subseteq s.left[Top(s)] \cup Done(s)
          BY <1>0, <2>1 DEF Looked, n
        <5>2. k < Len(d.stack) /\ d.stack[k + 1] = Target(s) /\ d.stack[k] = Top(s)
          BY <2>1, <2>2, <4>2
        <5> QED
          BY <2>2, <2>3, <5>1, <5>2
      <4>3. CASE k < n
        <5>1. k \in 1..(n - 1) /\ k \in 1..n /\ k + 1 \in 1..n /\ k < n + 1
          BY <2>1, <2>2, <4>3
        <5>2. graph[s.stack[k]] \subseteq s.left[s.stack[k]] \cup Done(s) \cup {s.stack[k + 1]}
          BY <1>0, <2>1, <4>3, <5>1 DEF Looked, n
        <5>3. d.left[s.stack[k]] = s.left[s.stack[k]]
          BY <2>1, <2>2, <2>4, <5>1
        <5> QED
          BY <2>2, <2>3, <5>1, <5>2, <5>3
      <4> QED
        BY <2>1, <2>5, <4>1, <4>2, <4>3
    <3> QED
      BY <1>0, <2>3, <3>1, <3>2 DEF Looked
  <2> QED
    BY <1>0, <2>2, <2>3, <2>6, <2>7 DEF SearchInv
<1> QED
  BY <1>1, <1>2, <1>3, TurnStays

(* The stack is a path, and holds every tag the search has entered but not *)
(* finished.                                                               *)
Path(graph, s) ==
  /\ \A t \in DOMAIN graph : s.left[t] \subseteq graph[t]
  /\ \A t \in DOMAIN graph : s.state[t] = 1 => \E k \in DOMAIN s.stack : s.stack[k] = t
  /\ \A k \in DOMAIN s.stack : k < Len(s.stack) => s.stack[k + 1] \in graph[s.stack[k]]

LEMMA StartPath == ASSUME NEW graph, IsGraph(graph) PROVE Path(graph, Start(graph))
<1>1. Start(graph).stack = <<NoTag>> /\ Start(graph).left = graph
      /\ Start(graph).state = [t \in DOMAIN graph |-> IF t = NoTag THEN 1 ELSE 0]
  BY DEF Start
<1> QED
  BY <1>1 DEF Path

LEMMA TurnPath ==
  ASSUME NEW graph, NEW s, SearchInv(graph, s), Path(graph, s)
  PROVE  Path(graph, Turn(s))
<1> DEFINE D == DOMAIN graph
           d == Turn(s)
           n == Len(s.stack)
<1>0. /\ \A t \in D : s.left[t] \subseteq graph[t]
      /\ \A t \in D : s.state[t] = 1 => \E k \in DOMAIN s.stack : s.stack[k] = t
      /\ \A k \in DOMAIN s.stack : k < n => s.stack[k + 1] \in graph[s.stack[k]]
  BY DEF Path
<1>1. ASSUME s.stack # <<>>, s.left[Top(s)] = {} PROVE Path(graph, d)
  <2>1. n \in Nat \ {0} /\ DOMAIN s.stack = 1..n /\ Top(s) = s.stack[n]
    BY <1>1, TopEntry
  <2>2. /\ DOMAIN d.stack = 1..(n - 1) /\ Len(d.stack) = n - 1 /\ d.left = s.left
        /\ \A k \in 1..(n - 1) : d.stack[k] = s.stack[k]
        /\ d.state[Top(s)] = 2 /\ \A t \in D \ {Top(s)} : d.state[t] = s.state[t]
    BY <1>1, TurnFinishes
  <2> HIDE DEF d, n
  <2>3. ASSUME NEW t \in D, d.state[t] = 1 PROVE \E k \in DOMAIN d.stack : d.stack[k] = t
    <3>1. t # Top(s) /\ s.state[t] = 1
      BY <2>2, <2>3
    <3>2. PICK k \in DOMAIN s.stack : s.stack[k] = t
      BY <1>0, <3>1
    <3>3. k \in 1..(n - 1)
      BY <2>1, <3>1, <3>2
    <3> QED
      BY <2>2, <3>2, <3>3
  <2>4. ASSUME NEW k \in DOMAIN d.stack, k < Len(d.stack)
        PROVE  d.stack[k + 1] \in graph[d.stack[k]]
    <3>1. k \in 1..(n - 1) /\ k + 1 \in 1..(n - 1) /\ k \in 1..n /\ k < n
      BY <2>1, <2>2, <2>4
    <3> QED
      BY <1>0, <2>1, <2>2, <3>1
  <2> QED
    BY <1>0, <2>2, <2>3, <2>4 DEF Path
<1>2. ASSUME s.stack # <<>>, s.left[Top(s)] # {}, s.state[Target(s)] = 2 PROVE Path(graph, d)
  <2>1. /\ d.stack = s.stack /\ d.state = s.state
        /\ d.left[Top(s)] \subseteq s.left[Top(s)]
        /\ \A t \in D \ {Top(s)} : d.left[t] = s.left[t]
    BY <1>2, TurnDrops
  <2> HIDE DEF d
  <2> QED
    BY <1>0, <2>1 DEF Path
<1>3. ASSUME s.stack # <<>>, s.left[Top(s)] # {}, s.state[Target(s)] = 0 PROVE Path(graph, d)
  <2>1. /\ n \in Nat \ {0} /\ DOMAIN s.stack = 1..n /\ Top(s) = s.stack[n] /\ Top(s) \in D
        /\ Target(s) \in s.left[Top(s)] /\ Target(s) \in D
    BY <1>3, TopEntry, TargetTaken
  <2>2. /\ DOMAIN d.stack = 1..(n + 1) /\ Len(d.stack) = n + 1
        /\ d.stack[n + 1] = Target(s) /\ \A k \in 1..n : d.stack[k] = s.stack[k]
        /\ \A t \in D \ {Target(s)} : d.state[t] = s.state[t]
        /\ d.left[Top(s)] \subseteq s.left[Top(s)]
        /\ \A t \in D \ {Top(s)} : d.left[t] = s.left[t]
    BY <1>3, TurnEnters
  <2> HIDE DEF d, n
  <2>3. \A t \in D : d.left[t] \subseteq graph[t]
    BY <1>0, <2>2
  <2>4. ASSUME NEW t \in D, d.state[t] = 1 PROVE \E k \in DOMAIN d.stack : d.stack[k] = t
    <3>1. t = Target(s) \/ s.state[t] = 1
      BY <2>2, <2>4
    <3>2. n + 1 \in DOMAIN d.stack /\ 1..n \subseteq DOMAIN d.stack
      BY <2>1, <2>2
    <3> QED
      BY <1>0, <2>1, <2>2, <3>1, <3>2
  <2>5. ASSUME NEW k \in DOMAIN d.stack, k < Len(d.stack)
        PROVE  d.stack[k + 1] \in graph[d.stack[k]]
    <3>1. k \in 1..n
      BY <2>1, <2>2, <2>5
    <3>2. CASE k = n
      BY <1>0, <2>1, <2>2, <3>1, <3>2
    <3>3. CASE k # n
      <4>1. k + 1 \in 1..n /\ k < n
        BY <2>1, <3>1, <3>3
      <4> QED
        BY <1>0, <2>1, <2>2, <3>1, <4>1
    <3> QED
      BY <3>2, <3>3
  <2> QED
    BY <2>3, <2>4, <2>5 DEF Path
<1> QED
  BY <1>1, <1>2, <1>3, TurnStays

(* What the search has left to do: targets to take and tags to finish.     *)
Untried(s) == {p \in (DOMAIN s.left) \X (DOMAIN s.left) : p[2] \in s.left[p[1]]}
Unfinished(s) == {t \in DOMAIN s.state : s.state[t] # 2}
Work(s) == Cardinality(Untried(s)) + Cardinality(Unfinished(s))

LEMMA WorkIsFinite ==
  ASSUME NEW graph, NEW s, IsState(graph, s), IsFiniteSet(DOMAIN graph)
  PROVE  LET n == Cardinality(DOMAIN graph) IN
         /\ IsFiniteSet(Untried(s)) /\ IsFiniteSet(Unfinished(s)) /\ n \in Nat
         /\ Cardinality(Untried(s)) \in Nat /\ Cardinality(Unfinished(s)) \in Nat
         /\ Cardinality(Untried(s)) <= n * n /\ Cardinality(Unfinished(s)) <= n
<1> DEFINE D == DOMAIN graph
<1>1. DOMAIN s.left = D /\ DOMAIN s.state = D
  BY DEF IsState
<1>2. IsFiniteSet(D \X D) /\ Cardinality(D \X D) = Cardinality(D) * Cardinality(D)
  BY FS_Product
<1>3. Untried(s) \in SUBSET (D \X D) /\ Unfinished(s) \in SUBSET D
  BY <1>1 DEF Untried, Unfinished
<1>4. IsFiniteSet(Untried(s)) /\ Cardinality(Untried(s)) <= Cardinality(D \X D)
  BY <1>2, <1>3, FS_Subset
<1>5. IsFiniteSet(Unfinished(s)) /\ Cardinality(Unfinished(s)) <= Cardinality(D)
  BY <1>3, FS_Subset
<1>6. /\ Cardinality(D) \in Nat /\ Cardinality(Untried(s)) \in Nat
      /\ Cardinality(Unfinished(s)) \in Nat
  BY <1>4, <1>5, FS_CardinalityType
<1> QED
  BY <1>2, <1>4, <1>5, <1>6

LEMMA TurnWorks ==
  ASSUME NEW graph, NEW s, SearchInv(graph, s), IsFiniteSet(DOMAIN graph), Turn(s) # s
  PROVE  Work(Turn(s)) = Work(s) - 1
<1> DEFINE d == Turn(s)
           D == DOMAIN graph
<1>0. DOMAIN s.left = D /\ DOMAIN s.state = D /\ IsState(graph, s)
  BY DEF SearchInv, IsState
<1>1. /\ IsFiniteSet(Untried(s)) /\ IsFiniteSet(Unfinished(s))
      /\ Cardinality(Untried(s)) \in Nat /\ Cardinality(Unfinished(s)) \in Nat
  BY <1>0, WorkIsFinite
<1>2. s.stack # <<>> /\ Top(s) \in D /\ s.state[Top(s)] = 1
  BY TurnStays, TopEntry
<1>3. CASE s.left[Top(s)] = {}
  <2>1. /\ d.left = s.left /\ d.state[Top(s)] = 2 /\ IsState(graph, d)
        /\ \A t \in D \ {Top(s)} : d.state[t] = s.state[t]
    BY <1>2, <1>3, TurnFinishes
  <2> HIDE DEF d
  <2>2. DOMAIN d.state = D
    BY <2>1 DEF IsState
  <2>3. Unfinished(d) = Unfinished(s) \ {Top(s)} /\ Top(s) \in Unfinished(s)
    BY <1>0, <1>2, <2>1, <2>2 DEF Unfinished
  <2>4. Untried(d) = Untried(s)
    BY <2>1 DEF Untried
  <2>5. Cardinality(Unfinished(d)) = Cardinality(Unfinished(s)) - 1
    BY <1>1, <2>3, FS_RemoveElement
  <2> QED
    BY <1>1, <2>4, <2>5 DEF Work, d
<1>4. CASE s.left[Top(s)] # {}
  <2>1. /\ IsState(graph, d) /\ Target(s) \in s.left[Top(s)] /\ Target(s) \in D
        /\ d.left[Top(s)] = s.left[Top(s)] \ {Target(s)}
        /\ \A t \in D \ {Top(s)} : d.left[t] = s.left[t]
        /\ \A t \in D : d.state[t] = 2 <=> s.state[t] = 2
    <3>1. s.state[Target(s)] = 0 \/ s.state[Target(s)] = 2
      BY <1>2, <1>4, TurnStays
    <3> HIDE DEF d
    <3>2. CASE s.state[Target(s)] = 2
      BY <1>2, <1>4, <3>2, TargetTaken, TurnDrops DEF d
    <3>3. CASE s.state[Target(s)] = 0
      <4>1. /\ IsState(graph, d) /\ d.state[Target(s)] = 1
            /\ \A t \in D \ {Target(s)} : d.state[t] = s.state[t]
            /\ d.left[Top(s)] = s.left[Top(s)] \ {Target(s)}
            /\ \A t \in D \ {Top(s)} : d.left[t] = s.left[t]
        BY <1>2, <1>4, <3>3, TurnEnters DEF d
      <4>2. Target(s) \in s.left[Top(s)] /\ Target(s) \in D
        BY <1>2, <1>4, TargetTaken
      <4> QED
        BY <3>3, <4>1, <4>2
    <3> QED
      BY <3>1, <3>2, <3>3
  <2> HIDE DEF d
  <2>2. DOMAIN d.left = D /\ DOMAIN d.state = D
    BY <2>1 DEF IsState
  <2>3. Unfinished(d) = Unfinished(s)
    BY <1>0, <2>1, <2>2 DEF Unfinished
  <2>4. Untried(d) = Untried(s) \ {<<Top(s), Target(s)>>} /\ <<Top(s), Target(s)>> \in Untried(s)
    <3>1. \A t, u \in D : u \in d.left[t] <=> (u \in s.left[t] /\ ~(t = Top(s) /\ u = Target(s)))
      BY <1>2, <2>1
    <3> QED
      BY <1>0, <1>2, <2>1, <2>2, <3>1 DEF Untried
  <2>5. Cardinality(Untried(d)) = Cardinality(Untried(s)) - 1
    BY <1>1, <2>4, FS_RemoveElement
  <2> QED
    BY <1>1, <2>3, <2>5 DEF Work, d
<1> QED
  BY <1>3, <1>4

(* The search keeps its invariant, and after its last turn it has come to  *)
(* a stop.                                                                 *)
LEMMA SearchStops ==
  ASSUME NEW graph, IsGraph(graph), graph \in [DOMAIN graph -> SUBSET DOMAIN graph],
         IsFiniteSet(DOMAIN graph)
  PROVE  LET s == Search(graph)[Turns(graph)] IN
         SearchInv(graph, s) /\ Path(graph, s) /\ Turn(s) = s
<1> DEFINE N == Turns(graph)
           after == Search(graph)
           Good == {n \in 0..N : /\ SearchInv(graph, after[n]) /\ Path(graph, after[n])
                                 /\ Turn(after[n]) = after[n] \/ Work(after[n]) + n <= N}
<1>1. N \in Nat
  <2>1. Cardinality(DOMAIN graph) \in Nat
    BY FS_CardinalityType
  <2> QED
    BY <2>1 DEF Turns
<1>2. 0 \in Good
  <2>1. after[0] = Start(graph)
    BY <1>1, SearchUnfold
  <2>2. SearchInv(graph, after[0]) /\ Path(graph, after[0])
    BY <2>1, StartInv, StartPath
  <2>3. Work(after[0]) + 0 <= N
    <3> DEFINE c == Cardinality(DOMAIN graph)
               s == after[0]
    <3>1. /\ c \in Nat /\ Cardinality(Untried(s)) \in Nat /\ Cardinality(Unfinished(s)) \in Nat
          /\ Cardinality(Untried(s)) <= c * c /\ Cardinality(Unfinished(s)) <= c
      BY <2>2, WorkIsFinite DEF SearchInv
    <3>2. c * (c + 1) = c * c + c
      <4> HIDE DEF c
      <4> QED
        BY <3>1
    <3>3. N = c * c + c /\ c * c \in Nat
      BY <3>1, <3>2 DEF Turns
    <3> HIDE DEF c, s, N
    <3>4. Cardinality(Untried(s)) + Cardinality(Unfinished(s)) <= N
      BY <3>1, <3>3
    <3> QED
      BY <3>1, <3>4 DEF Work, s
  <2> QED
    BY <1>1, <2>2, <2>3
<1>3. ASSUME NEW n \in Good, n < N PROVE n + 1 \in Good
  <2> DEFINE s == after[n]
  <2>1. n + 1 \in 1..N /\ (n + 1) - 1 = n /\ n + 1 \in 0..N
    BY <1>1, <1>3
  <2>2. after[n + 1] = Turn(s)
    BY <1>1, <2>1, SearchUnfold
  <2>3. SearchInv(graph, s) /\ Path(graph, s) /\ (Turn(s) = s \/ Work(s) + n <= N)
    BY <1>3
  <2>4. SearchInv(graph, Turn(s)) /\ Path(graph, Turn(s))
    BY <2>3, TurnInv, TurnPath
  <2>5. Turn(Turn(s)) = Turn(s) \/ Work(Turn(s)) + (n + 1) <= N
    <3>1. CASE Turn(s) = s
      BY <3>1
    <3>2. CASE Turn(s) # s
      <4>1. Work(Turn(s)) = Work(s) - 1 /\ Work(s) + n <= N
        BY <2>3, <3>2, TurnWorks
      <4>2. Work(s) \in Nat
        BY <2>3, WorkIsFinite DEF SearchInv, Work
      <4> HIDE DEF s
      <4> QED
        BY <1>1, <1>3, <4>1, <4>2
    <3> QED
      BY <3>1, <3>2
  <2> QED
    BY <2>1, <2>2, <2>4, <2>5
<1>4. 0..N \subseteq Good
  <2> HIDE DEF Good
  <2> QED
    BY <1>1, <1>2, <1>3, UpTo
<1> DEFINE s == after[N]
<1>5. SearchInv(graph, s) /\ Path(graph, s) /\ (Turn(s) = s \/ Work(s) + N <= N)
  BY <1>1, <1>4
<1>6. Turn(s) = s
  <2> SUFFICES ASSUME Turn(s) # s PROVE FALSE
    OBVIOUS
  <2>1. Work(Turn(s)) = Work(s) - 1
    BY <1>5, TurnWorks
  <2>2. Work(s) \in Nat /\ Work(Turn(s)) \in Nat
    BY <1>5, TurnInv, WorkIsFinite DEF SearchInv, Work
  <2> HIDE DEF s
  <2> QED
    BY <1>1, <1>5, <2>1, <2>2
<1> QED
  BY <1>5, <1>6

(* The search comes to its end exactly when no set of tags waits for       *)
(* itself: every cycle is found, and nothing else is refused as one.       *)
THEOREM SearchIsExact ==
  ASSUME NEW graph, IsGraph(graph), graph \in [DOMAIN graph -> SUBSET DOMAIN graph],
         IsFiniteSet(DOMAIN graph)
  PROVE  Search(graph)[Turns(graph)].stack = <<>> <=> Grounded(graph, graph[NoTag])
<1> DEFINE s == Search(graph)[Turns(graph)]
           n == Len(s.stack)
<1>0. SearchInv(graph, s) /\ Path(graph, s) /\ Turn(s) = s
  BY SearchStops
<1> HIDE DEF s
<1>1. ASSUME s.stack = <<>> PROVE Grounded(graph, graph[NoTag])
  <2>1. NoTag \in Done(s) /\ Looked(graph, s) /\ Grounded(graph, Done(s))
    BY <1>0, <1>1 DEF SearchInv, OnStack, Done, IsState, IsGraph
  <2>2. graph[NoTag] \subseteq Done(s)
    BY <2>1 DEF Looked
  <2> QED
    BY <2>1, <2>2 DEF Grounded
<1>2. ASSUME s.stack # <<>> PROVE ~ Grounded(graph, graph[NoTag])
  <2>1. /\ n \in Nat \ {0} /\ DOMAIN s.stack = 1..n /\ Top(s) = s.stack[n]
        /\ Top(s) \in DOMAIN graph
    BY <1>0, <1>2, TopEntry
  <2>2. s.left[Top(s)] # {}
    <3> SUFFICES ASSUME s.left[Top(s)] = {} PROVE FALSE
      OBVIOUS
    <3>1. Len(Turn(s).stack) = n - 1
      BY <1>0, <1>2, TurnFinishes
    <3> QED
      BY <1>0, <2>1, <3>1
  <2>3. Target(s) \in s.left[Top(s)] /\ Target(s) \in DOMAIN graph
    BY <1>0, <1>2, <2>2, TargetTaken
  <2>4. s.state[Target(s)] = 1
    <3>1. s.state[Target(s)] # 0
      <4> SUFFICES ASSUME s.state[Target(s)] = 0 PROVE FALSE
        OBVIOUS
      <4>1. Len(Turn(s).stack) = n + 1
        BY <1>0, <1>2, <2>2, TurnEnters
      <4> QED
        BY <1>0, <2>1, <4>1
    <3>2. s.state[Target(s)] # 2
      <4> SUFFICES ASSUME s.state[Target(s)] = 2 PROVE FALSE
        OBVIOUS
      <4>1. Turn(s).left[Top(s)] = s.left[Top(s)] \ {Target(s)}
        BY <1>0, <1>2, <2>2, TurnDrops
      <4> QED
        BY <1>0, <2>3, <4>1
    <3> QED
      BY <1>0, <1>2, <2>2, <3>1, <3>2, TurnStays
  <2>5. PICK j \in 1..n : s.stack[j] = Target(s)
    BY <1>0, <2>1, <2>3, <2>4 DEF Path
  <2>6. Target(s) \in graph[Top(s)]
    BY <1>0, <2>1, <2>3 DEF Path
  <2> DEFINE S == {s.stack[k] : k \in j..n}
  <2>7. \A t \in S : graph[t] \cap S # {}
    <3> SUFFICES ASSUME NEW k \in j..n PROVE graph[s.stack[k]] \cap S # {}
      OBVIOUS
    <3>1. CASE k = n
      BY <2>1, <2>5, <2>6, <3>1
    <3>2. CASE k # n
      <4>1. k \in 1..n /\ k < n /\ k + 1 \in j..n
        BY <2>1, <3>2
      <4>2. s.stack[k + 1] \in graph[s.stack[k]]
        BY <1>0, <2>1, <4>1 DEF Path
      <4> QED
        BY <4>1, <4>2
    <3> QED
      BY <3>1, <3>2
  <2>8. S \subseteq graph[NoTag] /\ S # {}
    <3>1. \A k \in 1..n : s.stack[k] \in DOMAIN graph
      BY <1>0, <2>1 DEF SearchInv, IsState
    <3>2. Target(s) # NoTag /\ s.stack[1] = NoTag
      BY <1>0, <1>2, <2>1, <2>6 DEF IsGraph, SearchInv, OnStack
    <3>3. ASSUME NEW k \in j..n PROVE s.stack[k] # NoTag
      <4>1. j # 1 /\ k \in 1..n /\ k # 1 /\ 1 \in 1..n
        BY <2>1, <2>5, <3>2
      <4>2. \A l, m \in 1..n : s.stack[l] = s.stack[m] => l = m
        BY <1>0, <2>1 DEF SearchInv, OnStack
      <4> QED
        BY <3>2, <4>1, <4>2
    <3>4. \A k \in j..n : s.stack[k] \in graph[NoTag]
      BY <2>1, <3>1, <3>3 DEF IsGraph
    <3>5. j \in j..n
      BY <2>1
    <3> QED
      BY <3>4, <3>5
  <2> HIDE DEF S
  <2> QED
    BY <2>7, <2>8 DEF Grounded
<1>3. s.stack = <<>> <=> Grounded(graph, graph[NoTag])
  BY <1>1, <1>2
<1> QED
  BY <1>3 DEF s

(* What the edges of an object say of an object or a reference in it.      *)
LEMMA EdgesCover ==
  ASSUME NEW a, IsUpload(a), NEW i \in Nodes(a), NEW m \in Children(a.objects[i])
  PROVE  LET v == m[2] IN
         /\ v.kind = "ref" => v.tag \in Edges(a)[i]
         /\ v.kind = "object" =>
              /\ v.n \in Nodes(a) /\ v.n > i
              /\ IF a.objects[v.n].tag = NoTag THEN Edges(a)[v.n] \subseteq Edges(a)[i]
                 ELSE a.objects[v.n].tag \in Edges(a)[i]
<1> DEFINE v == m[2]
           V == ToSet(Values(a.objects[i]))
           E(w) == CASE w.kind = "ref"    -> {w.tag}
                     [] w.kind = "object" -> IF a.objects[w.n].tag # NoTag
                                             THEN {a.objects[w.n].tag} ELSE Edges(a)[w.n]
                     [] OTHER             -> {}
<1>1. v \in V
  BY DEF Children, ToSet, Values
<1>2. Edges(a)[i] = UNION {E(w) : w \in V}
  BY EdgesUnfold DEF EdgesOf
<1>3. E(v) \subseteq Edges(a)[i]
  <2> HIDE DEF E, V
  <2> QED
    BY <1>1, <1>2
<1>4. v.kind = "ref" => E(v) = {v.tag}
  OBVIOUS
<1>5. v.kind = "object" =>
        E(v) = IF a.objects[v.n].tag # NoTag THEN {a.objects[v.n].tag} ELSE Edges(a)[v.n]
  OBVIOUS
<1>6. v.kind = "object" => v.n \in Nodes(a) /\ v.n > i
  BY <1>1 DEF IsUpload
<1> HIDE DEF E, v
<1>7. /\ v.kind = "ref" => v.tag \in Edges(a)[i]
      /\ v.kind = "object" =>
           /\ v.n \in Nodes(a) /\ v.n > i
           /\ IF a.objects[v.n].tag = NoTag THEN Edges(a)[v.n] \subseteq Edges(a)[i]
              ELSE a.objects[v.n].tag \in Edges(a)[i]
  BY <1>3, <1>4, <1>5, <1>6
<1> QED
  BY <1>7 DEF v

(* Every tag is defined once and no edge dangles.                          *)
TagsResolve(a) ==
  /\ \A t \in Tags(a) : Cardinality(Definitions(a, t)) = 1
  /\ \A i \in Nodes(a) : Edges(a)[i] \subseteq Tags(a)

(* A tag that is referred to is defined by one object, its owner.          *)
LEMMA OwnerDefines ==
  ASSUME NEW a, IsUpload(a), TagsResolve(a), NEW t \in Tags(a)
  PROVE  /\ Owner(a, t) \in Nodes(a) /\ Definitions(a, t) = {Owner(a, t)}
         /\ Cardinality(Definitions(a, t)) = 1
         /\ \A i \in Nodes(a) : a.objects[i].tag = t => i = Owner(a, t)
<1>1. Cardinality(Definitions(a, t)) = 1
  BY DEF TagsResolve
<1>2. PICK i \in Nodes(a) : a.objects[i].tag = t
  BY DEF Tags
<1>3. Owner(a, t) \in Nodes(a) /\ a.objects[Owner(a, t)].tag = t /\ t # NoTag
  BY <1>2 DEF Owner, Tags
<1>4. \A x, y \in Definitions(a, t) : x = y
  <2>1. IsFiniteSet(Nodes(a))
    BY FS_Interval, 1 \in Int, Len(a.objects) \in Int DEF IsUpload
  <2>2. IsFiniteSet(Definitions(a, t))
    BY <2>1, FS_Subset DEF Definitions
  <2>3. \E x : Definitions(a, t) = {x}
    BY <1>1, <2>2, FS_Singleton
  <2> QED
    BY <2>3
<1> QED
  BY <1>1, <1>3, <1>4 DEF Definitions

(* The graph the search walks: finite, and closed when the references      *)
(* resolve.                                                                *)
LEMMA TagGraph ==
  ASSUME NEW a, IsUpload(a), TagsResolve(a)
  PROVE  LET graph == Graph(a) IN
         /\ IsGraph(graph) /\ graph \in [DOMAIN graph -> SUBSET DOMAIN graph]
         /\ IsFiniteSet(DOMAIN graph) /\ graph[NoTag] = Tags(a)
         /\ \A t \in Tags(a) : graph[t] = Edges(a)[Owner(a, t)]
<1> DEFINE graph == Graph(a)
           T == {a.objects[i].tag : i \in Nodes(a)}
<1>1. DOMAIN graph = Tags(a) \cup {NoTag} /\ graph[NoTag] = Tags(a) /\ NoTag \notin Tags(a)
  BY DEF Graph, Tags
<1>2. \A t \in Tags(a) : graph[t] = Edges(a)[Owner(a, t)]
  BY <1>1 DEF Graph
<1>3. \A t \in Tags(a) : graph[t] \subseteq Tags(a)
  BY <1>2, OwnerDefines DEF TagsResolve
<1>4. graph = [t \in Tags(a) \cup {NoTag} |-> graph[t]]
  BY DEF Graph
<1>5. IsFiniteSet(Tags(a) \cup {NoTag})
  <2>1. IsFiniteSet(Nodes(a))
    BY FS_Interval, 1 \in Int, Len(a.objects) \in Int DEF IsUpload
  <2> DEFINE f == [i \in Nodes(a) |-> a.objects[i].tag]
  <2>2. f \in Surjection(Nodes(a), T)
    BY DEF Surjection
  <2> HIDE DEF f
  <2>3. IsFiniteSet(T)
    BY <2>1, <2>2, FS_Surjection
  <2>4. IsFiniteSet(Tags(a))
    BY <2>3, FS_Subset DEF Tags
  <2> QED
    BY <2>4, FS_AddElement
<1> HIDE DEF graph
<1>6. IsGraph(graph) /\ graph \in [DOMAIN graph -> SUBSET DOMAIN graph]
  BY <1>1, <1>3, <1>4 DEF IsGraph
<1>7. IsFiniteSet(DOMAIN graph)
  BY <1>1, <1>5
<1> QED
  BY <1>1, <1>2, <1>6, <1>7 DEF graph

(* What stands in a position for an object leads to one object, of a type  *)
(* that may stand there.                                                   *)
LEMMA EveryPositionLeadsSomewhere ==
  ASSUME NEW a, IsUpload(a), GrammarHolds(a), TagsResolve(a), NEW i \in Nodes(a),
         NEW m \in Children(a.objects[i])
  PROVE  /\ Cardinality(Targets(a, m[2])) = 1
         /\ \A j \in Targets(a, m[2]) : a.objects[j].type \in AllowedAt(m[1])
<1>1. PositionHolds(a, m)
  BY DEF GrammarHolds
<1>2. m[2].kind \in {"object", "ref"}
  BY <1>1 DEF PositionHolds
<1>3. CASE m[2].kind = "object"
  <2>1. Targets(a, m[2]) = {m[2].n}
    BY <1>3 DEF Targets
  <2>2. a.objects[m[2].n].type \in AllowedAt(m[1])
    BY <1>1, <1>3 DEF PositionHolds
  <2> QED
    BY <2>1, <2>2, FS_Singleton
<1>4. CASE m[2].kind = "ref"
  <2>1. Targets(a, m[2]) = Definitions(a, m[2].tag)
    BY <1>4 DEF Targets
  <2>2. m[2].tag \in Tags(a)
    BY <1>4, EdgesCover DEF TagsResolve
  <2>3. \A j \in Definitions(a, m[2].tag) : a.objects[j].type \in AllowedAt(m[1])
    BY <1>1, <1>4 DEF PositionHolds
  <2> QED
    BY <2>1, <2>2, <2>3, OwnerDefines
<1> QED
  BY <1>2, <1>3, <1>4

(* In a set of objects that all need each other, every object has an edge  *)
(* to a tag of the set: the last one without such an edge would need one   *)
(* that is nested in it, has no tag, and comes later.                      *)
LEMMA WaitingObjectsHaveEdges ==
  ASSUME NEW a, IsUpload(a), GrammarHolds(a), TagsResolve(a), NEW S \in SUBSET Nodes(a),
         \A i \in S : Needs(a, i) \cap S # {}
  PROVE  \A i \in S : \E t \in Edges(a)[i] : t \in Tags(a) /\ Owner(a, t) \in S
<1> DEFINE n == Len(a.objects)
           Bare == {i \in S : ~ \E t \in Edges(a)[i] : t \in Tags(a) /\ Owner(a, t) \in S}
<1> SUFFICES ASSUME Bare # {} PROVE FALSE
  OBVIOUS
<1>0. n \in Nat /\ Nodes(a) = 1..n
  BY DEF IsUpload
<1>1. PICK i \in Bare : \A j \in Bare : j <= i
  <2>1. Bare \subseteq 1..n
    BY <1>0
  <2> HIDE DEF Bare
  <2> QED
    BY <1>0, <2>1, LastOf
<1>2. PICK m \in Children(a.objects[i]) : Targets(a, m[2]) \cap S # {}
  BY DEF Needs
<1>3. PICK j \in S : j \in Targets(a, m[2])
  BY <1>2
<1>4. Edges(a)[i] \subseteq Tags(a) /\ i \in Nodes(a) /\ j \in Nodes(a)
  BY DEF TagsResolve
<1>5. m[2].kind \in {"object", "ref"}
  BY <1>4 DEF GrammarHolds, PositionHolds
<1>6. CASE m[2].kind = "ref"
  <2>1. m[2].tag \in Edges(a)[i] /\ m[2].tag \in Tags(a)
    BY <1>4, <1>6, EdgesCover
  <2>2. j = Owner(a, m[2].tag)
    BY <1>3, <1>6, <2>1, OwnerDefines DEF Targets
  <2> QED
    BY <2>1, <2>2
<1>7. CASE m[2].kind = "object" /\ a.objects[j].tag # NoTag
  <2>1. j = m[2].n
    BY <1>3, <1>7 DEF Targets
  <2>2. a.objects[j].tag \in Edges(a)[i] /\ a.objects[j].tag \in Tags(a)
    BY <1>4, <1>7, <2>1, EdgesCover
  <2>3. j = Owner(a, a.objects[j].tag)
    BY <1>4, <2>2, OwnerDefines
  <2> QED
    BY <2>2, <2>3
<1>8. CASE m[2].kind = "object" /\ a.objects[j].tag = NoTag
  <2>1. j = m[2].n
    BY <1>3, <1>8 DEF Targets
  <2>2. j > i /\ Edges(a)[j] \subseteq Edges(a)[i]
    BY <1>4, <1>8, <2>1, EdgesCover
  <2>3. i \in Int /\ j \in Int
    BY <1>0, <1>4
  <2>4. j \notin Bare
    <3> HIDE DEF Bare
    <3> QED
      BY <1>1, <2>2, <2>3
  <2> QED
    BY <2>2, <2>4
<1> QED
  BY <1>5, <1>6, <1>7, <1>8

(* Of tags that resolve the preflight refuses those that wait for each     *)
(* other in a circle and no others.                                        *)
THEOREM PreflightFindsCycles ==
  ASSUME NEW a, IsUpload(a)
  PROVE  ReferencesResolve(a) <=> TagsResolve(a) /\ Grounded(Graph(a), Tags(a))
<1>1. ASSUME TagsResolve(a)
      PROVE  Search(Graph(a))[Turns(Graph(a))].stack = <<>> <=> Grounded(Graph(a), Tags(a))
  <2> DEFINE graph == Graph(a)
  <2>1. /\ IsGraph(graph) /\ graph \in [DOMAIN graph -> SUBSET DOMAIN graph]
        /\ IsFiniteSet(DOMAIN graph) /\ graph[NoTag] = Tags(a)
    BY <1>1, TagGraph
  <2> HIDE DEF graph
  <2>2. Search(graph)[Turns(graph)].stack = <<>> <=> Grounded(graph, Tags(a))
    BY <2>1, SearchIsExact
  <2> QED
    BY <2>2 DEF graph
<1> QED
  BY <1>1 DEF ReferencesResolve, TagsResolve

(* An archive the preflight admits can be followed to the end.             *)
THEOREM AdmittedCanBeFollowed ==
  ASSUME NEW a, IsUpload(a), Admits(a)
  PROVE  NativeCanFollow(a)
<1>0. GrammarHolds(a) /\ TagsResolve(a) /\ Grounded(Graph(a), Tags(a))
  BY PreflightFindsCycles DEF Admits
<1>1. ASSUME NEW S \in SUBSET Nodes(a), S # {}, \A i \in S : Needs(a, i) \cap S # {} PROVE FALSE
  <2> DEFINE graph == Graph(a)
             R == {t \in Tags(a) : Owner(a, t) \in S}
  <2>1. \A i \in S : \E t \in Edges(a)[i] : t \in R
    BY <1>0, <1>1, WaitingObjectsHaveEdges
  <2>2. R # {} /\ R \subseteq Tags(a)
    BY <1>1, <2>1
  <2>3. \A t \in R : graph[t] \cap R # {}
    BY <1>0, <2>1, TagGraph
  <2>4. Grounded(graph, Tags(a))
    BY <1>0
  <2> HIDE DEF R, graph
  <2> QED
    BY <2>2, <2>3, <2>4 DEF Grounded
<1>2. \A S \in SUBSET Nodes(a) : S # {} => \E i \in S : Needs(a, i) \cap S = {}
  BY <1>1
<1> QED
  BY <1>0, <1>2, EveryPositionLeadsSomewhere DEF NativeCanFollow
-----------------------------------------------------------------------------
(* Imports.                                                                *)

LEMMA AdmittedUploads == Admitted \subseteq Archives
BY DEF Admitted

Writing == {"begin", "mark", "check", "native", "validate", "parameters", "publish", "commit",
            "unpublished"}

HandlerOwns ==
  \/ handler = Idle
  \/ /\ handler.job \in Jobs
     /\ handler.step = "persist" =>
          /\ resv[handler.job] = "held" /\ row[handler.job].state = "ABSENT"
          /\ handler.archive \in Admitted
     /\ handler.step = "submit" => resv[handler.job] = "held" /\ row[handler.job].state = "QUEUED"
     /\ handler.step = "cancel" => resv[handler.job] \in {"held", "refused"}

ThreadOwns(j) ==
  /\ resv[j] = "queued" => row[j].state = "QUEUED"
  /\ wpc[j] # "none" <=> resv[j] = "running"
  /\ wpc[j] \in Writing => row[j].state \in InFlight
  /\ wpc[j] = "audit" => row[j].state = "SUCCEEDED"
  /\ row[j].state \in InFlight \cup {"SUCCEEDED"} => row[j].archive \in Admitted
  /\ ~up => resv[j] \in {"none", "done"}

RowsOwned == HandlerOwns /\ (\A j \in Jobs : ThreadOwns(j)) /\ (~up => handler = Idle)

SeenStands ==
  \A j \in Jobs : wpc[j] = "commit" /\ seen[j] # None => version[seen[j]] = row[j].archive

ImportsInv == TypeOK /\ QueueHoldsWaitingJobs /\ RowsOwned /\ SeenStands /\ ImportsPublishOnce
-----------------------------------------------------------------------------
LEMMA ImportsInit == Init => ImportsInv
<1> SUFFICES ASSUME Init PROVE ImportsInv
  OBVIOUS
<1>1. JobsTypeOK /\ QueueHoldsWaitingJobs /\ resv = [j \in Jobs |-> "none"]
  BY JobsInitInv DEF Init, JobsInv, JobsInit
<1>2. TypeOK
  BY <1>1 DEF Init, TypeOK, NoRow, Idle, Phases, InFlight, Terminal
<1>3. RowsOwned /\ SeenStands
  BY <1>1 DEF Init, RowsOwned, HandlerOwns, ThreadOwns, SeenStands, NoRow, Writing, InFlight
<1>4. ImportsPublishOnce
  BY DEF Init, ImportsPublishOnce, NoRow
<1> QED
  BY <1>1, <1>2, <1>3, <1>4 DEF ImportsInv

(* The executor is used through its own steps only, but for a crash.       *)
LEMMA UsesTheExecutor == ImportsInv /\ [Next]_vars => [JobsNext]_jobVars \/ Crash
<1> SUFFICES ASSUME ImportsInv, [Next]_vars, ~Crash PROVE [JobsNext]_jobVars
  OBVIOUS
<1>1. CASE UNCHANGED vars
  BY <1>1 DEF vars, jobVars
<1>2. CASE HandlerStep
  BY <1>2 DEF HandlerStep, RefuseArchive, Receive, Persist, PersistRaises, SubmitJob,
              SubmitJobRaises, CancelJob, JobsNext, ImportsInv, RowsOwned, HandlerOwns, Idle
<1>3. ASSUME NEW j \in Jobs, ImportStep(j) PROVE [JobsNext]_jobVars
  BY <1>3 DEF ImportStep, TakeImport, ImportBegin, ImportMark, ImportCheck, ImportNative,
              ImportValidate, ImportParameters, PublishRead, PublishCommit, PublishRaises,
              Unpublished, ImportAudit, WorkerRaises, ExitImport, RetireImport, TimeOut, Record,
              Proceed, JobsNext
<1>4. CASE Restart \/ \E j \in Jobs : Expire(j)
  BY <1>4 DEF Restart, Expire
<1> QED
  BY <1>1, <1>2, <1>3, <1>4 DEF Next

LEMMA ExecutorKept ==
  ASSUME ImportsInv, [Next]_vars
  PROVE  JobsTypeOK' /\ QueueHoldsWaitingJobs'
<1>1. CASE [JobsNext]_jobVars
  BY <1>1, JobsTypeStep, QueueStep DEF ImportsInv, TypeOK
<1>2. CASE Crash
  BY <1>2, CapacityNat DEF Crash, ImportsInv, TypeOK, JobsTypeOK, Statuses, QueueHoldsWaitingJobs,
                           InState
<1> QED
  BY <1>1, <1>2, UsesTheExecutor
-----------------------------------------------------------------------------
(* What the commit of a publication leaves of a row.                       *)
LEMMA RecordUpdated ==
  ASSUME NEW S, NEW P, NEW A, NEW V, NEW s \in S, NEW p \in P, NEW v \in V,
         NEW r \in [state : S, phase : P, archive : A, described : BOOLEAN, version : V]
  PROVE  [r EXCEPT !.state = s, !.phase = p, !.version = v] \in
           [state : S, phase : P, archive : A, described : BOOLEAN, version : V]
OBVIOUS

(* What any other write of a thread leaves of it.                          *)
LEMMA RecordedRow ==
  ASSUME NEW j \in Jobs, TypeOK, NEW state \in {"RUNNING", "FAILED", "TIMED_OUT"},
         NEW phase \in Phases
  PROVE  [row[j] EXCEPT !.state = state, !.phase = phase] \in
           [state : {"ABSENT"} \cup InFlight \cup Terminal, phase : Phases,
            archive : Archives \cup {None}, described : BOOLEAN, version : Jobs \cup {None}]
<1>1. row[j] \in [state : {"ABSENT"} \cup InFlight \cup Terminal, phase : Phases,
                  archive : Archives \cup {None}, described : BOOLEAN, version : Jobs \cup {None}]
  BY DEF TypeOK
<1>2. state \in {"ABSENT"} \cup InFlight \cup Terminal
  BY DEF InFlight, Terminal
<1> QED
  BY <1>1, <1>2

LEMMA RecordType ==
  ASSUME TypeOK, NEW j \in Jobs, NEW state \in {"RUNNING", "FAILED", "TIMED_OUT"},
         NEW phase \in Phases, NEW step, Record(j, state, phase, step)
  PROVE  row' \in [Jobs -> [state : {"ABSENT"} \cup InFlight \cup Terminal, phase : Phases,
                            archive : Archives \cup {None}, described : BOOLEAN,
                            version : Jobs \cup {None}]]
<1> DEFINE next == [row[j] EXCEPT !.state = state, !.phase = phase]
<1>1. next \in [state : {"ABSENT"} \cup InFlight \cup Terminal, phase : Phases,
                archive : Archives \cup {None}, described : BOOLEAN, version : Jobs \cup {None}]
  BY RecordedRow
<1>2. row' = [row EXCEPT ![j] = next]
  BY Zenon DEF Record
<1> HIDE DEF next
<1> QED
  BY <1>1, <1>2 DEF TypeOK

LEMMA PublishedRow ==
  ASSUME NEW j \in Jobs, TypeOK, NEW v \in Jobs \cup {None}
  PROVE  [row[j] EXCEPT !.state = "SUCCEEDED", !.phase = "PUBLISHED", !.version = v] \in
           [state : {"ABSENT"} \cup InFlight \cup Terminal, phase : Phases,
            archive : Archives \cup {None}, described : BOOLEAN, version : Jobs \cup {None}]
<1>1. row[j] \in [state : {"ABSENT"} \cup InFlight \cup Terminal, phase : Phases,
                  archive : Archives \cup {None}, described : BOOLEAN, version : Jobs \cup {None}]
  BY DEF TypeOK
<1>2. "SUCCEEDED" \in {"ABSENT"} \cup InFlight \cup Terminal /\ "PUBLISHED" \in Phases
  BY DEF Terminal, Phases
<1> QED
  BY <1>1, <1>2, RecordUpdated, Zenon

LEMMA ImportsTypeStep ==
  ASSUME ImportsInv, [Next]_vars
  PROVE  TypeOK'
<1>0. JobsTypeOK'
  BY ExecutorKept
<1>a. TypeOK /\ Admitted \subseteq Archives /\ HandlerOwns
  BY ImportsAssumption, AdmittedUploads DEF ImportsInv, RowsOwned
<1> DEFINE Rest ==
      /\ row' \in [Jobs -> [state : {"ABSENT"} \cup InFlight \cup Terminal, phase : Phases,
                            archive : Archives \cup {None}, described : BOOLEAN,
                            version : Jobs \cup {None}]]
      /\ version' \in [Jobs -> Archives \cup {None}]
      /\ audit' \subseteq Jobs
      /\ handler' \in [step : {"idle", "persist", "submit", "cancel"}, job : Jobs \cup {None},
                       archive : Archives \cup {None}, described : BOOLEAN]
      /\ wpc' \in [Jobs -> {"none", "begin", "mark", "check", "native", "validate", "parameters",
                            "publish", "commit", "unpublished", "audit", "exit"}]
      /\ seen' \in [Jobs -> Jobs \cup {None}]
      /\ expired' \in [Jobs -> BOOLEAN] /\ up' \in BOOLEAN /\ crashes' \in Nat /\ faults' \in Nat
<1> SUFFICES Rest
  BY <1>0 DEF TypeOK
<1> USE <1>a DEF TypeOK, InFlight, Terminal, Phases
<1>1. ASSUME NEW j \in Jobs, NEW a \in Archives, RefuseArchive(j, a) PROVE Rest
  BY <1>1 DEF RefuseArchive, NoRow, threadVars, envVars
<1>2. ASSUME NEW j \in Jobs, NEW a \in Archives, NEW d \in BOOLEAN, Receive(j, a, d) PROVE Rest
  BY <1>2 DEF Receive, tableVars, threadVars, envVars
<1>3. ASSUME Persist PROVE Rest
  BY <1>3 DEF Persist, NoRow, Goto, threadVars, envVars
<1>4. ASSUME PersistRaises \/ SubmitJob \/ SubmitJobRaises \/ CancelJob PROVE Rest
  <2>1. ASSUME PersistRaises PROVE Rest
    BY <2>1 DEF PersistRaises, Goto, Fault, tableVars, threadVars
  <2>2. ASSUME SubmitJobRaises PROVE Rest
    BY <2>2 DEF SubmitJobRaises, Goto, Fault, tableVars, threadVars
  <2>3. ASSUME SubmitJob \/ CancelJob PROVE Rest
    <3>1. UNCHANGED <<row, version, audit, wpc, seen, expired, up, crashes, faults>>
      BY <2>3 DEF SubmitJob, CancelJob, tableVars, threadVars, envVars
    <3>2. handler' = [step |-> "idle", job |-> None, archive |-> None, described |-> FALSE]
      BY <2>3 DEF SubmitJob, CancelJob, Idle
    <3> QED
      BY <3>1, <3>2
  <2> QED
    BY <1>4, <2>1, <2>2, <2>3
<1>5. ASSUME NEW j \in Jobs,
             TakeImport(j) \/ ImportAudit(j) \/ WorkerRaises(j) \/ ExitImport(j) \/ RetireImport(j)
             \/ PublishRaises(j)
      PROVE  Rest
  <2>1. CASE TakeImport(j) \/ ExitImport(j) \/ RetireImport(j)
    BY <2>1 DEF TakeImport, ExitImport, RetireImport, Thread, tableVars, threadVars, envVars
  <2>2. CASE ImportAudit(j)
    BY <2>2 DEF ImportAudit, Thread, envVars
  <2>3. CASE WorkerRaises(j)
    BY <2>3 DEF WorkerRaises, Thread, Fault, tableVars
  <2>4. CASE PublishRaises(j)
    BY <2>4 DEF PublishRaises, Thread, Fault, tableVars, envVars
  <2> QED
    BY <1>5, <2>1, <2>2, <2>3, <2>4
<1>6. ASSUME NEW j \in Jobs, ImportBegin(j) \/ ImportMark(j) \/ ImportCheck(j) \/ ImportNative(j)
                             \/ ImportValidate(j) \/ ImportParameters(j) \/ Unpublished(j)
      PROVE  Rest
  <2> DEFINE Steps == {"mark", "check", "native", "validate", "parameters", "publish", "exit"}
  <2>1. ASSUME NEW state \in {"RUNNING", "FAILED", "TIMED_OUT"}, NEW phase \in Phases,
               NEW step \in Steps, Record(j, state, phase, step)
        PROVE  Rest
    <3>1. row' \in [Jobs -> [state : {"ABSENT"} \cup InFlight \cup Terminal, phase : Phases,
                             archive : Archives \cup {None}, described : BOOLEAN,
                             version : Jobs \cup {None}]]
      BY <1>a, <2>1, RecordType
    <3>2. version' = version
      BY <2>1 DEF Record
    <3>3. /\ wpc' = [wpc EXCEPT ![j] = step]
          /\ UNCHANGED <<version, audit, handler, seen, expired, up, crashes, faults>>
      BY <2>1 DEF Record, Thread, envVars
    <3> QED
      BY <3>1, <3>2, <3>3
  <2>2. ASSUME NEW step \in Steps, Proceed(j, step) PROVE Rest
    BY <2>2 DEF Proceed, Thread, tableVars, envVars
  <2>3. ASSUME Thread(j, "validate"), UNCHANGED <<jobVars, tableVars, handler, seen, envVars>>
        PROVE  Rest
    BY <2>3 DEF Thread, tableVars, envVars
  <2> HIDE DEF Rest
  <2>4. CASE ImportBegin(j) \/ ImportMark(j) \/ ImportCheck(j) \/ Unpublished(j)
    BY <2>1, <2>2, <2>4 DEF ImportBegin, ImportMark, ImportCheck, Unpublished, TimeOut
  <2>5. CASE ImportNative(j)
    BY <2>1, <2>3, <2>5 DEF ImportNative
  <2>6. CASE ImportValidate(j) \/ ImportParameters(j)
    BY <2>1, <2>2, <2>6 DEF ImportValidate, ImportParameters, TimeOut
  <2> QED
    BY <1>6, <2>4, <2>5, <2>6
<1>7. ASSUME NEW j \in Jobs, PublishRead(j) PROVE Rest
  <2>1. \A a : Owners(a) # {} => (CHOOSE v \in Owners(a) : TRUE) \in Jobs
    BY DEF Owners
  <2> QED
    BY <1>7, <2>1 DEF PublishRead, Thread, tableVars, envVars
<1>8. ASSUME NEW j \in Jobs, PublishCommit(j) PROVE Rest
  <2>1. row[j].archive \in Archives \cup {None} /\ seen[j] \in Jobs \cup {None}
    OBVIOUS
  <2>2. version' \in [Jobs -> Archives \cup {None}]
    BY <1>8, <2>1 DEF PublishCommit
  <2>3. ASSUME NEW v \in Jobs \cup {None}
        PROVE  [row[j] EXCEPT !.state = "SUCCEEDED", !.phase = "PUBLISHED", !.version = v] \in
                 [state : {"ABSENT"} \cup InFlight \cup Terminal, phase : Phases,
                  archive : Archives \cup {None}, described : BOOLEAN,
                  version : Jobs \cup {None}]
    BY PublishedRow
  <2> DEFINE v == IF seen[j] = None THEN j ELSE seen[j]
  <2> DEFINE ended == [row[j] EXCEPT !.state = "SUCCEEDED", !.phase = "PUBLISHED", !.version = v]
  <2>4. ended \in [state : {"ABSENT"} \cup InFlight \cup Terminal, phase : Phases,
                   archive : Archives \cup {None}, described : BOOLEAN,
                   version : Jobs \cup {None}]
    BY <2>1, <2>3
  <2>7. row' = [row EXCEPT ![j] = ended]
    BY <1>8, Zenon DEF PublishCommit
  <2> HIDE DEF ended
  <2>5. row' \in [Jobs -> [state : {"ABSENT"} \cup InFlight \cup Terminal, phase : Phases,
                           archive : Archives \cup {None}, described : BOOLEAN,
                           version : Jobs \cup {None}]]
    BY <2>4, <2>7
  <2>6. /\ wpc' = [wpc EXCEPT ![j] = "audit"]
        /\ UNCHANGED <<audit, handler, seen, expired, up, crashes, faults>>
    BY <1>8 DEF PublishCommit, Thread, envVars
  <2> QED
    BY <2>2, <2>5, <2>6
<1>9. ASSUME Crash PROVE Rest
  <2>1. UNCHANGED <<row, version, audit, expired, faults>>
    BY <1>9 DEF Crash, tableVars
  <2>2. handler' = [step |-> "idle", job |-> None, archive |-> None, described |-> FALSE]
    BY <1>9 DEF Crash, Idle
  <2>3. wpc' = [j \in Jobs |-> "none"] /\ seen' = [j \in Jobs |-> None]
    BY <1>9 DEF Crash
  <2>4. up' = FALSE /\ crashes' \in Nat
    BY <1>9 DEF Crash
  <2> QED
    BY <2>1, <2>2, <2>3, <2>4
<1>10. ASSUME Restart PROVE Rest
  <2>1. ASSUME NEW j \in Jobs, NEW s \in {"TIMED_OUT", "FAILED"}
        PROVE  [row[j] EXCEPT !.state = s] \in
                 [state : {"ABSENT"} \cup InFlight \cup Terminal, phase : Phases,
                  archive : Archives \cup {None}, described : BOOLEAN,
                  version : Jobs \cup {None}]
    OBVIOUS
  <2>2. UNCHANGED <<version, audit, handler, wpc, seen, expired, crashes, faults>> /\ up' = TRUE
    BY <1>10 DEF Restart, threadVars
  <2>3. row' \in [Jobs -> [state : {"ABSENT"} \cup InFlight \cup Terminal, phase : Phases,
                           archive : Archives \cup {None}, described : BOOLEAN,
                           version : Jobs \cup {None}]]
    BY <1>10, <2>1 DEF Restart
  <2> QED
    BY <2>2, <2>3
<1>11. ASSUME (\E j \in Jobs : Expire(j)) \/ UNCHANGED vars PROVE Rest
  BY <1>11 DEF Expire, tableVars, threadVars, envVars, vars
<1> HIDE DEF Rest
<1> QED
  BY <1>1, <1>2, <1>3, <1>4, <1>5, <1>6, <1>7, <1>8, <1>9, <1>10, <1>11
  DEF Next, HandlerStep, ImportStep
-----------------------------------------------------------------------------
(* Ownership: k is any job, j the one that moves.                          *)
Owned(k) == HandlerOwns /\ ThreadOwns(k) /\ (~up => handler = Idle)

LEMMA HandlerOwnership ==
  ASSUME ImportsInv, up, HandlerStep, NEW k \in Jobs
  PROVE  Owned(k)'
<1>0. Owned(k) /\ TypeOK
  BY DEF ImportsInv, RowsOwned, Owned
<1>a. Admitted \subseteq Archives /\ None \notin Archives \cup Jobs
  BY ImportsAssumption, AdmittedUploads
<1> USE <1>0, <1>a DEF TypeOK, JobsTypeOK, Statuses, Owned, HandlerOwns, ThreadOwns, Writing,
                       InFlight, Terminal
<1>1. ASSUME NEW j \in Jobs, NEW a \in Archives, RefuseArchive(j, a) PROVE Owned(k)'
  BY <1>1 DEF RefuseArchive, NoRow, jobVars, threadVars, envVars
<1>2. ASSUME NEW j \in Jobs, NEW a \in Archives, NEW d \in BOOLEAN, Receive(j, a, d) PROVE Owned(k)'
  BY <1>2 DEF Receive, Reserve, tableVars, threadVars, envVars
<1>3. ASSUME Persist PROVE Owned(k)'
  BY <1>3 DEF Persist, NoRow, Goto, Idle, jobVars, threadVars, envVars
<1>4. ASSUME PersistRaises PROVE Owned(k)'
  BY <1>4 DEF PersistRaises, Goto, Idle, Fault, jobVars, tableVars, threadVars
<1>5. ASSUME SubmitJob PROVE Owned(k)'
  BY <1>5 DEF SubmitJob, Submit, Idle, tableVars, threadVars, envVars
<1>6. ASSUME SubmitJobRaises PROVE Owned(k)'
  BY <1>6 DEF SubmitJobRaises, SubmitRaises, Goto, Idle, Fault, tableVars, threadVars
<1>7. ASSUME CancelJob PROVE Owned(k)'
  BY <1>7 DEF CancelJob, Cancel, Idle, tableVars, threadVars, envVars
<1> HIDE <1>0, <1>a DEF TypeOK, JobsTypeOK, Statuses, Owned, HandlerOwns, ThreadOwns, Writing,
                        InFlight, Terminal
<1> QED
  BY <1>1, <1>2, <1>3, <1>4, <1>5, <1>6, <1>7 DEF HandlerStep

LEMMA ThreadOwnership ==
  ASSUME ImportsInv, up, NEW j \in Jobs, ImportStep(j), NEW k \in Jobs
  PROVE  Owned(k)'
<1>0. Owned(k) /\ Owned(j) /\ TypeOK
  BY DEF ImportsInv, RowsOwned, Owned
<1>u. up' /\ handler' = handler
  BY DEF ImportStep, TakeImport, ImportBegin, ImportMark, ImportCheck, ImportNative,
         ImportValidate, ImportParameters, PublishRead, PublishCommit, PublishRaises,
         Unpublished, ImportAudit, WorkerRaises, ExitImport, RetireImport, TimeOut, Record,
         Proceed, Fault, envVars
<1> USE <1>0, <1>u DEF TypeOK, JobsTypeOK, Statuses, Owned, HandlerOwns, ThreadOwns, Writing,
                       InFlight, Terminal, Thread
<1>1. CASE TakeImport(j)
  <2>1. resv[j] = "queued"
    BY <1>1, TakenJobWaits DEF TakeImport, ImportsInv
  <2> QED
    BY <1>1, <2>1 DEF TakeImport, Take, tableVars
<1>2. ASSUME NEW state \in {"RUNNING", "FAILED", "TIMED_OUT"}, NEW phase,
             NEW step \in {"mark", "check", "exit"}, state # "RUNNING" => step = "exit",
             wpc[j] \in Writing, Record(j, state, phase, step)
      PROVE  Owned(k)'
  BY <1>2 DEF Record, jobVars
<1>3. ASSUME NEW step \in Writing, wpc[j] \in Writing, Proceed(j, step) PROVE Owned(k)'
  BY <1>3 DEF Proceed, jobVars, tableVars
<1>4. CASE ImportBegin(j) \/ ImportMark(j) \/ Unpublished(j)
  BY <1>2, <1>4 DEF ImportBegin, ImportMark, Unpublished, TimeOut
<1>5. CASE ImportCheck(j) \/ ImportParameters(j) \/ ImportValidate(j)
  BY <1>2, <1>3, <1>5 DEF ImportCheck, ImportParameters, ImportValidate, TimeOut
<1>6. CASE ImportNative(j)
  <2>1. CASE Record(j, "FAILED", "NATIVE_RECONSTRUCTION", "exit")
    BY <1>2, <1>6, <2>1 DEF ImportNative
  <2>2. CASE Thread(j, "validate") /\ UNCHANGED <<jobVars, tableVars, handler, seen, envVars>>
    BY <1>6, <2>2 DEF ImportNative, jobVars, tableVars
  <2> QED
    BY <1>6, <2>1, <2>2 DEF ImportNative
<1>7. CASE PublishRead(j) \/ PublishRaises(j)
  BY <1>7 DEF PublishRead, PublishRaises, jobVars, tableVars
<1>8. CASE PublishCommit(j)
  BY <1>8 DEF PublishCommit, jobVars
<1>9. CASE ImportAudit(j)
  BY <1>9 DEF ImportAudit, jobVars
<1>10. CASE WorkerRaises(j)
  BY <1>10 DEF WorkerRaises, jobVars, tableVars
<1>11. CASE ExitImport(j)
  BY <1>11 DEF ExitImport, Release, tableVars
<1>12. CASE RetireImport(j)
  BY <1>12 DEF RetireImport, Retire, tableVars, threadVars
<1> HIDE <1>0, <1>u DEF TypeOK, JobsTypeOK, Statuses, Owned, HandlerOwns, ThreadOwns, Writing,
                        InFlight, Terminal
<1> QED
  BY <1>1, <1>4, <1>5, <1>6, <1>7, <1>8, <1>9, <1>10, <1>11, <1>12 DEF ImportStep

LEMMA OwnershipStep ==
  ASSUME ImportsInv, [Next]_vars
  PROVE  RowsOwned'
<1>p. RowsOwned /\ TypeOK
  BY DEF ImportsInv
<1>k. ASSUME NEW k \in Jobs PROVE Owned(k)'
  <2>0. Owned(k)
    BY <1>p DEF RowsOwned, Owned
  <2>1. CASE (up /\ HandlerStep) \/ (up /\ \E j \in Jobs : ImportStep(j))
    BY <2>1, HandlerOwnership, ThreadOwnership
  <2> USE <1>p, <2>0 DEF TypeOK, JobsTypeOK, Statuses, Owned, HandlerOwns, ThreadOwns, Writing,
                         InFlight, Terminal
  <2>2. CASE (\E j \in Jobs : Expire(j)) \/ UNCHANGED vars
    BY <2>2 DEF Expire, vars, jobVars, tableVars, threadVars, envVars
  <2>3. CASE Crash
    BY <2>3 DEF Crash, tableVars
  <2>4. CASE Restart
    BY <2>4 DEF Restart, jobVars, threadVars
  <2> QED
    BY <2>1, <2>2, <2>3, <2>4 DEF Next
<1>h. CASE Jobs = {}
  BY <1>h, <1>p DEF RowsOwned, HandlerOwns, TypeOK, Next, Crash, Restart, vars, HandlerStep,
        Persist, PersistRaises, SubmitJob, SubmitJobRaises, CancelJob, Idle
<1> QED
  BY <1>k, <1>h DEF RowsOwned, Owned
-----------------------------------------------------------------------------
(* The only ways in which a row changes.                                   *)
LEMMA RowChange ==
  ASSUME ImportsInv, [Next]_vars, NEW k \in Jobs
  PROVE  \/ row'[k] = row[k]
         \/ PublishCommit(k)
         \/ row[k].state = "ABSENT" /\ row'[k].state \in {"QUEUED", "FAILED"}
         \/ /\ row[k].state \in InFlight /\ row'[k].state \in InFlight \cup {"FAILED", "TIMED_OUT"}
            /\ row'[k].archive = row[k].archive
<1> DEFINE Goal == \/ row'[k] = row[k]
                   \/ PublishCommit(k)
                   \/ row[k].state = "ABSENT" /\ row'[k].state \in {"QUEUED", "FAILED"}
                   \/ /\ row[k].state \in InFlight
                      /\ row'[k].state \in InFlight \cup {"FAILED", "TIMED_OUT"}
                      /\ row'[k].archive = row[k].archive
<1>0. TypeOK /\ HandlerOwns /\ \A j \in Jobs : ThreadOwns(j)
  BY DEF ImportsInv, RowsOwned
<1>r. row \in [Jobs -> [state : {"ABSENT"} \cup InFlight \cup Terminal, phase : Phases,
                        archive : Archives \cup {None}, described : BOOLEAN,
                        version : Jobs \cup {None}]]
  BY <1>0 DEF TypeOK
<1>1. ASSUME HandlerStep PROVE Goal
  <2>1. CASE \E j \in Jobs, a \in Archives : RefuseArchive(j, a)
    BY <2>1, <1>r DEF RefuseArchive, NoRow
  <2>2. CASE Persist
    BY <2>2, <1>r, <1>0 DEF Persist, NoRow, HandlerOwns, Idle
  <2>3. CASE row' = row
    BY <2>3
  <2> HIDE DEF Goal
  <2> QED
    BY <1>1, <2>1, <2>2, <2>3 DEF HandlerStep, Receive, PersistRaises, SubmitJob, SubmitJobRaises,
                                  CancelJob, tableVars
<1>2. ASSUME NEW j \in Jobs, ImportStep(j) PROVE Goal
  <2>1. ASSUME NEW state \in {"RUNNING", "FAILED", "TIMED_OUT"}, NEW phase, NEW step,
               wpc[j] \in Writing, Record(j, state, phase, step)
        PROVE  Goal
    <3>1. row[j].state \in InFlight
      BY <2>1, <1>0 DEF ThreadOwns
    <3>2. row'[k] = row[k] \/ (row'[k].state = state /\ row'[k].archive = row[k].archive /\ j = k)
      BY <2>1, <1>r DEF Record
    <3> QED
      BY <3>1, <3>2 DEF InFlight
  <2>2. CASE row' = row
    BY <2>2
  <2>3. CASE PublishCommit(j)
    <3>1. CASE j = k
      BY <2>3, <3>1
    <3>2. CASE j # k
      BY <2>3, <3>2, <1>r DEF PublishCommit
    <3> QED
      BY <3>1, <3>2
  <2> HIDE DEF Goal
  <2>4. CASE ImportBegin(j) \/ ImportMark(j) \/ ImportCheck(j) \/ ImportNative(j)
    BY <2>1, <2>2, <2>4 DEF ImportBegin, ImportMark, ImportCheck, ImportNative, TimeOut, Proceed,
                            tableVars, Writing
  <2>5. CASE ImportValidate(j) \/ ImportParameters(j) \/ Unpublished(j)
    BY <2>1, <2>2, <2>5 DEF ImportValidate, ImportParameters, Unpublished, TimeOut, Proceed,
                            tableVars, Writing
  <2>6. CASE TakeImport(j) \/ PublishRead(j) \/ PublishRaises(j) \/ ImportAudit(j)
             \/ WorkerRaises(j) \/ ExitImport(j) \/ RetireImport(j)
    BY <2>2, <2>6 DEF TakeImport, PublishRead, PublishRaises, ImportAudit, WorkerRaises,
                      ExitImport, RetireImport, tableVars
  <2> QED
    BY <1>2, <2>3, <2>4, <2>5, <2>6 DEF ImportStep
<1>3. ASSUME Restart PROVE Goal
  BY <1>3, <1>r DEF Restart
<1>4. ASSUME (\E j \in Jobs : Expire(j)) \/ Crash \/ UNCHANGED vars PROVE Goal
  BY <1>4 DEF Expire, Crash, vars, tableVars
<1> HIDE DEF Goal
<1>5. Goal
  BY <1>1, <1>2, <1>3, <1>4 DEF Next
<1> QED
  BY <1>5 DEF Goal

(* A version is inserted by one action and never withdrawn.                *)
LEMMA VersionChange ==
  ASSUME ImportsInv, [Next]_vars
  PROVE  \/ version' = version
         \/ \E j \in Jobs : PublishCommit(j)
<1>1. ASSUME HandlerStep PROVE version' = version
  BY <1>1 DEF HandlerStep, RefuseArchive, Receive, Persist, PersistRaises, SubmitJob,
              SubmitJobRaises, CancelJob, tableVars
<1>2. ASSUME NEW j \in Jobs, ImportStep(j), ~PublishCommit(j) PROVE version' = version
  BY <1>2 DEF ImportStep, TakeImport, ImportBegin, ImportMark, ImportCheck, ImportNative,
              ImportValidate, ImportParameters, PublishRead, PublishRaises, Unpublished,
              ImportAudit, WorkerRaises, ExitImport, RetireImport, TimeOut, Record, Proceed,
              tableVars
<1>3. ASSUME (\E j \in Jobs : Expire(j)) \/ Crash \/ Restart \/ UNCHANGED vars
      PROVE version' = version
  BY <1>3 DEF Expire, Crash, Restart, vars, tableVars
<1> QED
  BY <1>1, <1>2, <1>3 DEF Next

(* What the commit of a publication does, with what is known before it.    *)
LEMMA Committed ==
  ASSUME ImportsInv, NEW j \in Jobs, PublishCommit(j)
  PROVE  /\ row[j].archive \in Archives /\ version[j] = None
         /\ row'[j].state = "SUCCEEDED" /\ row'[j].archive = row[j].archive
         /\ \/ /\ row'[j].version = j /\ version' = [version EXCEPT ![j] = row[j].archive]
               /\ \A v \in Jobs : version[v] # row[j].archive
            \/ /\ row'[j].version = seen[j] /\ seen[j] \in Jobs /\ version' = version
               /\ version[seen[j]] = row[j].archive
         /\ audit' = audit
<1>1. TypeOK /\ ThreadOwns(j) /\ SeenStands /\ ImportsPublishOnce
  BY DEF ImportsInv, RowsOwned
<1>2. wpc[j] = "commit" /\ row[j].state \in InFlight
  BY <1>1 DEF PublishCommit, ThreadOwns, Writing
<1>3. row[j].archive \in Archives
  BY <1>1, <1>2, ImportsAssumption, AdmittedUploads DEF ThreadOwns
<1>4. version[j] = None
  BY <1>1, <1>2 DEF ImportsPublishOnce, InFlight
<1>5. row[j] = [state |-> row[j].state, phase |-> row[j].phase, archive |-> row[j].archive,
                described |-> row[j].described, version |-> row[j].version] /\ row'[j].state = "SUCCEEDED"
      /\ row'[j].archive = row[j].archive
      /\ row'[j].version = IF seen[j] = None THEN j ELSE seen[j]
  <2>1. row \in [Jobs -> [state : {"ABSENT"} \cup InFlight \cup Terminal, phase : Phases,
                          archive : Archives \cup {None}, described : BOOLEAN,
                          version : Jobs \cup {None}]]
    BY <1>1 DEF TypeOK
  <2> QED
    BY <2>1 DEF PublishCommit
<1>6. CASE seen[j] = None
  BY <1>2, <1>3, <1>4, <1>5, <1>6 DEF PublishCommit, Collides, Owners
<1>7. CASE seen[j] # None
  BY <1>1, <1>2, <1>3, <1>4, <1>5, <1>7 DEF PublishCommit, SeenStands, TypeOK
<1> QED
  BY <1>6, <1>7

LEMMA VersionStands ==
  ASSUME ImportsInv, [Next]_vars, NEW v \in Jobs, version[v] # None
  PROVE  version'[v] = version[v]
<1>1. ASSUME NEW j \in Jobs, PublishCommit(j) PROVE version'[v] = version[v]
  BY <1>1, Committed DEF ImportsInv, TypeOK
<1> QED
  BY <1>1, VersionChange
-----------------------------------------------------------------------------
LEMMA SeenStep == ImportsInv /\ [Next]_vars => SeenStands'
<1> SUFFICES ASSUME ImportsInv, [Next]_vars, NEW k \in Jobs, wpc'[k] = "commit", seen'[k] # None
             PROVE  version'[seen'[k]] = row'[k].archive
  BY DEF SeenStands
<1>0. TypeOK /\ SeenStands /\ RowsOwned
  BY DEF ImportsInv
<1>1. (wpc[k] = "commit" /\ seen'[k] = seen[k]) \/ PublishRead(k)
  <2> USE <1>0 DEF TypeOK
  <2>1. ASSUME HandlerStep PROVE UNCHANGED threadVars
    BY <2>1 DEF HandlerStep, RefuseArchive, Receive, Persist, PersistRaises, SubmitJob,
                SubmitJobRaises, CancelJob
  <2>2. ASSUME NEW j \in Jobs, ImportStep(j), ~PublishRead(j)
        PROVE  wpc[k] = "commit" /\ seen' = seen
    <3>1. ASSUME NEW step, step # "commit", Thread(j, step) PROVE wpc[k] = "commit"
      BY <3>1 DEF Thread
    <3>2. ASSUME NEW state, NEW phase, NEW step, step # "commit", Record(j, state, phase, step)
          PROVE  wpc[k] = "commit" /\ seen' = seen
      BY <3>1, <3>2 DEF Record
    <3>3. ASSUME NEW step, step # "commit", Proceed(j, step)
          PROVE  wpc[k] = "commit" /\ seen' = seen
      BY <3>1, <3>3 DEF Proceed
    <3>4. CASE ImportBegin(j) \/ ImportMark(j) \/ ImportCheck(j) \/ Unpublished(j)
      BY <3>2, <3>3, <3>4 DEF ImportBegin, ImportMark, ImportCheck, Unpublished, TimeOut
    <3>5. CASE ImportNative(j) \/ ImportValidate(j) \/ ImportParameters(j)
      BY <3>1, <3>2, <3>3, <3>5 DEF ImportNative, ImportValidate, ImportParameters, TimeOut
    <3>6. CASE TakeImport(j) \/ PublishCommit(j) \/ PublishRaises(j) \/ ImportAudit(j)
               \/ WorkerRaises(j) \/ ExitImport(j)
      BY <3>1, <3>6 DEF TakeImport, PublishCommit, PublishRaises, ImportAudit, WorkerRaises,
                        ExitImport
    <3>7. CASE RetireImport(j)
      BY <3>7 DEF RetireImport, threadVars
    <3> QED
      BY <2>2, <3>4, <3>5, <3>6, <3>7 DEF ImportStep
  <2>3. ASSUME NEW j \in Jobs, PublishRead(j), j # k
        PROVE  wpc[k] = "commit" /\ seen'[k] = seen[k]
    BY <2>3 DEF PublishRead, Thread
  <2>4. ASSUME (\E j \in Jobs : Expire(j)) \/ Restart \/ UNCHANGED vars
        PROVE  UNCHANGED threadVars
    BY <2>4 DEF Expire, Restart, vars
  <2>5. ~Crash
    BY DEF Crash
  <2> QED
    BY <2>1, <2>2, <2>3, <2>4, <2>5 DEF Next, threadVars
<1>2. CASE PublishRead(k)
  <2>1. seen'[k] \in Owners(row[k].archive) /\ row' = row /\ version' = version
    BY <1>2, <1>0 DEF PublishRead, TypeOK, tableVars
  <2> QED
    BY <2>1 DEF Owners
<1>3. CASE wpc[k] = "commit" /\ seen'[k] = seen[k]
  <2>1. row[k].state \in InFlight /\ row[k].archive \in Archives
    BY <1>0, <1>3, ImportsAssumption, AdmittedUploads DEF RowsOwned, ThreadOwns, Writing
  <2>2. version[seen[k]] = row[k].archive /\ seen[k] \in Jobs
    BY <1>0, <1>3 DEF SeenStands, TypeOK
  <2>3. version'[seen[k]] = row[k].archive
    BY <2>1, <2>2, VersionStands, ImportsAssumption, AdmittedUploads
  <2>4. row'[k].archive = row[k].archive
    BY <2>1, RowChange, Committed DEF InFlight
  <2> QED
    BY <1>3, <2>3, <2>4
<1> QED
  BY <1>1, <1>2, <1>3

LEMMA AuditStep ==
  ASSUME ImportsInv, [Next]_vars, NEW k \in audit'
  PROVE  row[k].state = "SUCCEEDED"
<1>0. RowsOwned /\ ImportsPublishOnce
  BY DEF ImportsInv
<1>1. ASSUME HandlerStep PROVE audit' = audit
  BY <1>1 DEF HandlerStep, RefuseArchive, Receive, Persist, PersistRaises, SubmitJob,
              SubmitJobRaises, CancelJob, tableVars
<1>2. ASSUME NEW j \in Jobs, ImportStep(j), ~ImportAudit(j) PROVE audit' = audit
  BY <1>2 DEF ImportStep, TakeImport, ImportBegin, ImportMark, ImportCheck, ImportNative,
              ImportValidate, ImportParameters, PublishRead, PublishRaises, PublishCommit,
              Unpublished, WorkerRaises, ExitImport, RetireImport, TimeOut, Record, Proceed,
              tableVars
<1>3. ASSUME (\E j \in Jobs : Expire(j)) \/ Crash \/ Restart \/ UNCHANGED vars
      PROVE audit' = audit
  BY <1>3 DEF Expire, Crash, Restart, vars, tableVars
<1>4. ASSUME NEW j \in Jobs, ImportAudit(j)
      PROVE audit' = audit \cup {j} /\ row[j].state = "SUCCEEDED"
  BY <1>0, <1>4 DEF ImportAudit, RowsOwned, ThreadOwns
<1> QED
  BY <1>0, <1>1, <1>2, <1>3, <1>4 DEF Next, ImportsPublishOnce

LEMMA PublishOnceStep == ImportsInv /\ [Next]_vars => ImportsPublishOnce'
<1> SUFFICES ASSUME ImportsInv, [Next]_vars PROVE ImportsPublishOnce'
  OBVIOUS
<1>0. TypeOK /\ ImportsPublishOnce /\ audit' \subseteq Jobs
  BY ImportsTypeStep DEF ImportsInv, TypeOK
<1>1. \A u, v \in Jobs : version'[u] = version'[v] /\ version'[u] # None => u = v
  <2>1. ASSUME NEW j \in Jobs, PublishCommit(j)
        PROVE  \A u, v \in Jobs : version'[u] = version'[v] /\ version'[u] # None => u = v
    BY <2>1, <1>0, Committed DEF ImportsPublishOnce, TypeOK
  <2> QED
    BY <1>0, <2>1, VersionChange DEF ImportsPublishOnce
<1>2. ASSUME NEW k \in Jobs, row[k].state = "SUCCEEDED"
      PROVE  row'[k] = row[k]
  <2>1. ~PublishCommit(k)
    BY <1>2 DEF PublishCommit, ImportsInv, RowsOwned, ThreadOwns, Writing, InFlight
  <2> QED
    BY <1>2, <2>1, RowChange DEF InFlight
<1>3. ASSUME NEW v \in Jobs, version'[v] # None
      PROVE  row'[v].state = "SUCCEEDED" /\ row'[v].version = v
  <2>1. CASE version[v] # None
    BY <1>0, <1>2, <2>1 DEF ImportsPublishOnce
  <2>2. CASE version[v] = None
    <3>1. PICK j \in Jobs : PublishCommit(j)
      BY <1>3, <2>2, VersionChange
    <3>2. j = v /\ row'[j].version = j
      BY <1>0, <1>3, <2>2, <3>1, Committed DEF TypeOK
    <3> QED
      BY <3>1, <3>2, Committed
  <2> QED
    BY <2>1, <2>2
<1>4. ASSUME NEW k \in Jobs, row'[k].state = "SUCCEEDED"
      PROVE  row'[k].version # None /\ version'[row'[k].version] = row'[k].archive
  <2>1. CASE row[k].state = "SUCCEEDED"
    <3>1. row[k].version \in Jobs /\ version[row[k].version] = row[k].archive
      BY <1>0, <2>1 DEF ImportsPublishOnce, TypeOK
    <3>2. row[k].archive # None
      BY <2>1, ImportsAssumption, AdmittedUploads DEF ImportsInv, RowsOwned, ThreadOwns
    <3> QED
      BY <1>2, <2>1, <3>1, <3>2, VersionStands, ImportsAssumption, AdmittedUploads
  <2>2. CASE row[k].state # "SUCCEEDED"
    <3>1. PublishCommit(k)
      BY <1>4, <2>2, RowChange DEF InFlight
    <3> QED
      BY <1>0, <3>1, Committed, ImportsAssumption, AdmittedUploads DEF TypeOK
  <2> QED
    BY <2>1, <2>2
<1>5. ASSUME NEW k \in audit' PROVE row'[k].state = "SUCCEEDED"
  BY <1>0, <1>2, <1>5, AuditStep
<1> QED
  BY <1>1, <1>3, <1>4, <1>5 DEF ImportsPublishOnce
-----------------------------------------------------------------------------
(* Every job's types, its owner and what has been published hold for every *)
(* set of jobs and archives, every limit and any number of failures.       *)
THEOREM ImportsInvariant == Spec => []ImportsInv
<1>1. ImportsInv /\ [Next]_vars => ImportsInv'
  BY ExecutorKept, ImportsTypeStep, OwnershipStep, SeenStep, PublishOnceStep DEF ImportsInv
<1> QED
  BY ImportsInit, <1>1, PTL DEF Spec

(* Imports of one archive that race over the key of a version publish it   *)
(* once, and a version, its job and its audit event never contradict each  *)
(* other (ImportsPublishOnce).                                             *)
THEOREM OneVersionPerArchive == Spec => []ImportsPublishOnce
<1>1. ImportsInv => ImportsPublishOnce
  BY DEF ImportsInv
<1> QED
  BY ImportsInvariant, <1>1, PTL

(* A settled import is never rewritten: no thread that may still write has *)
(* a settled row, and the sweep at startup leaves it alone.                *)
THEOREM SettledImportsStay == Spec => TerminalImportsImmutable
<1>1. ImportsInv /\ [Next]_vars =>
        [\A j \in Jobs : row[j].state \in Terminal => row'[j] = row[j]]_vars
  <2> SUFFICES ASSUME ImportsInv, [Next]_vars, NEW j \in Jobs, row[j].state \in Terminal
               PROVE  row'[j] = row[j]
    OBVIOUS
  <2>1. ~PublishCommit(j)
    BY DEF PublishCommit, ImportsInv, RowsOwned, ThreadOwns, Writing, InFlight, Terminal
  <2> QED
    BY <2>1, RowChange DEF InFlight, Terminal
<1> QED
  BY ImportsInvariant, <1>1, PTL DEF Spec, TerminalImportsImmutable

(* The native library is only handed archives whose references it can      *)
(* follow to the end (NativeSeesReconstructible): an import reaches it     *)
(* with the archive it was admitted with, and what the preflight admits    *)
(* can be followed.                                                        *)
THEOREM NativeIsSafe == Spec => []NativeSeesReconstructible
<1>1. Admitted \subseteq Reconstructible
  BY AdmittedCanBeFollowed, ImportsAssumption DEF Admitted, Reconstructible
<1>2. ImportsInv => NativeSeesReconstructible
  BY <1>1 DEF ImportsInv, RowsOwned, ThreadOwns, Writing, NativeSeesReconstructible
<1> QED
  BY ImportsInvariant, <1>2, PTL
=============================================================================
