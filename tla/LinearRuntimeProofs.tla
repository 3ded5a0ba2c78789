------------------------ MODULE LinearRuntimeProofs ------------------------
(***************************************************************************)
(* Proofs about LinearRuntime, for any number of stages, any capacities    *)
(* and policies, any number of frames and any number of restarts.          *)
(*                                                                         *)
(* The pipeline is seen as one line of places (worker 1, queue 1, ...,     *)
(* queue N, poll_latest's variable).  Every step of the program leaves the *)
(* line alone, moves the first frame of a place to the end of the next     *)
(* place, takes the first frame of a place out, adds new frames at the     *)
(* source's end, or empties it all.  The lemmas on Remove, Move and        *)
(* Produce say that each of these keeps the line in order.                 *)
(***************************************************************************)
EXTENDS LinearRuntime, FiniteSetTheorems, TLAPS

Frames == [session : Nat, no : Nat]
Fates == {"unborn", "inside", "delivered", "skipped", "dropped", "refused", "absorbed"}
Numbers == 1..MaxFrames
Pcs == {"none", "entry", "top", "fetch", "process", "emit", "blocked", "ended"}
Calls == {"none", "launching", "pushing", "closing", "joining", "draining"}
Threads == [pc : Pcs, hold : Seq(Frames), ends : BOOLEAN]

TypeOK ==
    /\ entries \in [Stages -> [capacity : Nat \ {0}, policy : Policies]]
    /\ running \in BOOLEAN /\ stop \in BOOLEAN
    /\ owner \in [call : Calls, at : Stages]
    /\ latest \in Seq(Frames)
    /\ queue \in [Stages -> Seq(Frames)]
    /\ closed \in [Stages -> BOOLEAN]
    /\ worker \in [Stages -> Threads]
    /\ session \in Nat
    /\ given \in Frames
    /\ fate \in [Numbers -> Fates]

(* Where a worker is tells how many frames it holds. *)
Fits(w, pc, hold) ==
    /\ pc \in {"none", "entry", "top", "fetch", "ended"} => hold = <<>>
    /\ pc = "process" => Len(hold) = IF w = 1 THEN 0 ELSE 1

HoldsAtItsPlace == \A w \in Stages : Fits(w, worker[w].pc, worker[w].hold)

(* poll_latest has a frame in its variable from its first dequeue on. *)
LatestWhileDraining ==
    /\ owner.call = "draining" <=> latest # <<>>
    /\ Len(latest) <= 1
    /\ owner.call \in {"none", "draining"} => owner.at = 1

Quiet(w) == worker[w].pc \in {"none", "ended"}

(* The owner launches the workers, and joins them, one after the other. *)
OwnerKnowsWorkers ==
    /\ owner.call \in {"launching", "pushing"} => ~running
    /\ owner.call \in {"closing", "joining"} => running
    /\ owner.call = "launching" => \A w \in Stages : w >= owner.at => Quiet(w)
    /\ owner.call = "pushing" => \A w \in Stages : w > owner.at => Quiet(w)
    /\ owner.call = "joining" => \A w \in Stages : w < owner.at => Quiet(w)
    /\ owner.call \in {"none", "draining"} /\ ~running => \A w \in Stages : Quiet(w)

(* The line of places, as a function of the variables it is read from. *)
Line(wk, q, l) ==
    [k \in Places |-> IF k = 2*N + 1 THEN l
                      ELSE IF k % 2 = 1 THEN wk[(k + 1) \div 2].hold
                      ELSE q[k \div 2]]

(* Position (k, i) of the line is nearer to the owner than (l, j). *)
Ahead(k, i, l, j) == k > l \/ (k = l /\ i < j)

Ordered(C) ==
    \A k, l \in Places : \A i \in 1..Len(C[k]), j \in 1..Len(C[l]) :
        Ahead(k, i, l, j) => C[k][i].no < C[l][j].no

(* What is in the line is of this session and known to be inside. *)
Accounted(C, s, F) ==
    \A k \in Places : \A i \in 1..Len(C[k]) :
        C[k][i].session = s /\ C[k][i].no \in Numbers /\ F[C[k][i].no] = "inside"

Found(C, F) ==
    \A n \in Numbers : F[n] = "inside" =>
        \E k \in Places : \E i \in 1..Len(C[k]) : C[k][i].no = n

(* The frame polled last is older than all that is in the line. *)
GivenBefore(C, s, g) ==
    g.session = s => \A k \in Places : \A i \in 1..Len(C[k]) : g.no < C[k][i].no

Born(F, q) == \A n \in Numbers : F[n] # "unborn" <=> n <= q

(* The frames born are the first ones, and the one polled last is of them. *)
Numbered(F, s, g) ==
    /\ g.session <= s
    /\ \E q \in 0..MaxFrames : Born(F, q) /\ (g.session = s => g.no <= q)

Flow(C, s, F, g) ==
    Ordered(C) /\ Accounted(C, s, F) /\ Found(C, F) /\ GivenBefore(C, s, g) /\ Numbered(F, s, g)

FlowInv == Flow(Line(worker, queue, latest), session, fate, given)

-----------------------------------------------------------------------------
(* Each place is a worker's, a queue or poll_latest's variable.             *)
LEMMA KindsOfPlace ==
    /\ \A w \in Stages :
          /\ 2*w - 1 \in Places /\ 2*w - 1 # 2*N + 1
          /\ (2*w - 1) % 2 = 1 /\ ((2*w - 1) + 1) \div 2 = w
          /\ 2*w \in Places /\ 2*w # 2*N + 1
          /\ (2*w) % 2 # 1 /\ (2*w) \div 2 = w
    /\ 2*N + 1 \in Places
    /\ \A k \in Places : k = 2*N + 1 \/ \E w \in Stages : k = 2*w - 1 \/ k = 2*w
<1> USE StagesAssumption DEF Stages, Places
<1>1. ASSUME NEW w \in Stages
      PROVE  /\ 2*w - 1 \in Places /\ 2*w - 1 # 2*N + 1
             /\ (2*w - 1) % 2 = 1 /\ ((2*w - 1) + 1) \div 2 = w
             /\ 2*w \in Places /\ 2*w # 2*N + 1
             /\ (2*w) % 2 # 1 /\ (2*w) \div 2 = w
  OBVIOUS
<1>2. 2*N + 1 \in Places
  OBVIOUS
<1>3. ASSUME NEW k \in Places, k # 2*N + 1
      PROVE  \E w \in Stages : k = 2*w - 1 \/ k = 2*w
  <2>1. CASE k % 2 = 1
    <3>1. (k + 1) \div 2 \in Stages /\ k = 2*((k + 1) \div 2) - 1
      BY <1>3, <2>1
    <3>2. QED
      BY <3>1
  <2>2. CASE k % 2 # 1
    <3>1. k \div 2 \in Stages /\ k = 2*(k \div 2)
      BY <1>3, <2>2
    <3>2. QED
      BY <3>1
  <2>3. QED
    BY <2>1, <2>2
<1>4. QED
  BY <1>1, <1>2, <1>3

(* C has the workers' frames, the queues and l in their places. *)
Reads(C, wk, q, l) ==
    /\ \A w \in Stages : C[2*w - 1] = wk[w].hold
    /\ \A w \in Stages : C[2*w] = q[w]
    /\ C[2*N + 1] = l

LEMMA LineReads == ASSUME NEW wk, NEW q, NEW l PROVE Reads(Line(wk, q, l), wk, q, l)
<1>1. ASSUME NEW w \in Stages PROVE Line(wk, q, l)[2*w - 1] = wk[w].hold
  BY KindsOfPlace DEF Line
<1>2. ASSUME NEW w \in Stages PROVE Line(wk, q, l)[2*w] = q[w]
  BY KindsOfPlace DEF Line
<1>3. Line(wk, q, l)[2*N + 1] = l
  BY KindsOfPlace DEF Line
<1>4. QED
  BY <1>1, <1>2, <1>3 DEF Reads

(* What is read from the places determines the line. *)
LEMMA LineIs ==
    ASSUME NEW C \in [Places -> Seq(Frames)], NEW wk, NEW q, NEW l, Reads(C, wk, q, l)
    PROVE  Line(wk, q, l) = C
<1> DEFINE D == Line(wk, q, l)
<1>1. D = [k \in Places |-> D[k]]
  BY DEF Line
<1>2. ASSUME NEW k \in Places PROVE D[k] = C[k]
  <2>1. CASE k = 2*N + 1
    BY <2>1, LineReads DEF Reads
  <2>2. ASSUME NEW w \in Stages, k = 2*w - 1 PROVE D[k] = C[k]
    BY <2>2, LineReads DEF Reads
  <2>3. ASSUME NEW w \in Stages, k = 2*w PROVE D[k] = C[k]
    BY <2>3, LineReads DEF Reads
  <2>4. QED
    BY <2>1, <2>2, <2>3, KindsOfPlace
<1> HIDE DEF D
<1>3. QED
  BY <1>1, <1>2 DEF D

LEMMA LineType ==
    ASSUME NEW S, NEW wk, NEW q, NEW l \in S,
           \A w \in Stages : wk[w].hold \in S /\ q[w] \in S
    PROVE  Line(wk, q, l) \in [Places -> S]
<1> DEFINE D == Line(wk, q, l)
<1>1. D = [k \in Places |-> D[k]]
  BY DEF Line
<1>2. ASSUME NEW k \in Places PROVE D[k] \in S
  <2>1. CASE k = 2*N + 1
    BY <2>1, LineReads DEF Reads
  <2>2. ASSUME NEW w \in Stages, k = 2*w - 1 PROVE D[k] \in S
    BY <2>2, LineReads DEF Reads
  <2>3. ASSUME NEW w \in Stages, k = 2*w PROVE D[k] \in S
    BY <2>3, LineReads DEF Reads
  <2>4. QED
    BY <2>1, <2>2, <2>3, KindsOfPlace
<1> HIDE DEF D
<1>3. QED
  BY <1>1, <1>2 DEF D

(* A function but for one argument; here a name for the provers to match.   *)
With(f, x, y) == [f EXCEPT ![x] = y]

LEMMA TailIs ==
    ASSUME NEW S, NEW q \in Seq(S), q # <<>>
    PROVE  /\ Tail(q) \in Seq(S) /\ Len(q) \in Nat /\ Len(q) >= 1
           /\ Len(Tail(q)) = Len(q) - 1
           /\ \A i \in 1..Len(Tail(q)) : Tail(q)[i] = q[i + 1] /\ i + 1 \in 1..Len(q)
           /\ Head(q) = q[1] /\ Head(q) \in S /\ 1 \in 1..Len(q)
<1>1. Len(q) \in Nat /\ Len(q) >= 1
  OBVIOUS
<1>2. Tail(q) \in Seq(S) /\ Len(Tail(q)) = Len(q) - 1
  OBVIOUS
<1>3. \A i \in 1..Len(Tail(q)) : Tail(q)[i] = q[i + 1] /\ i + 1 \in 1..Len(q)
  BY <1>1, <1>2
<1>4. Head(q) = q[1] /\ Head(q) \in S
  BY <1>1
<1>5. QED
  BY <1>1, <1>2, <1>3, <1>4

LEMMA AppendIs ==
    ASSUME NEW S, NEW q \in Seq(S), NEW f \in S
    PROVE  /\ Append(q, f) \in Seq(S) /\ Len(q) \in Nat
           /\ Len(Append(q, f)) = Len(q) + 1
           /\ \A i \in 1..Len(q) : Append(q, f)[i] = q[i]
           /\ Append(q, f)[Len(q) + 1] = f
OBVIOUS

-----------------------------------------------------------------------------
(* The line after the first frame of place p was taken out. *)
Without(C, p) == With(C, p, Tail(C[p]))

LEMMA WithoutIs ==
    ASSUME NEW C \in [Places -> Seq(Frames)], NEW p \in Places, C[p] # <<>>
    PROVE  /\ Without(C, p) \in [Places -> Seq(Frames)]
           /\ \A k \in Places : \A i \in 1..Len(Without(C, p)[k]) :
                 LET j == IF k = p THEN i + 1 ELSE i
                 IN  j \in 1..Len(C[k]) /\ Without(C, p)[k][i] = C[k][j]
           /\ \A k \in Places : \A i \in 1..Len(C[k]) :
                 \/ k = p /\ i = 1
                 \/ LET j == IF k = p THEN i - 1 ELSE i
                    IN  j \in 1..Len(Without(C, p)[k]) /\ Without(C, p)[k][j] = C[k][i]
<1> DEFINE D == Without(C, p)
<1>1. /\ D[p] = Tail(C[p])
      /\ \A k \in Places : k # p => D[k] = C[k]
      /\ D \in [Places -> Seq(Frames)]
  <2>1. Tail(C[p]) \in Seq(Frames)
    BY TailIs
  <2>2. QED
    BY <2>1 DEF Without, With
<1> HIDE DEF D
<1>2. /\ Len(C[p]) \in Nat /\ Len(C[p]) >= 1 /\ Len(D[p]) = Len(C[p]) - 1
      /\ \A i \in 1..Len(D[p]) : D[p][i] = C[p][i + 1] /\ i + 1 \in 1..Len(C[p])
  <2>1. C[p] \in Seq(Frames)
    OBVIOUS
  <2>2. QED
    BY <1>1, <2>1, TailIs
<1>3. ASSUME NEW k \in Places, NEW i \in 1..Len(D[k])
      PROVE  LET j == IF k = p THEN i + 1 ELSE i
             IN  j \in 1..Len(C[k]) /\ D[k][i] = C[k][j]
  BY <1>1, <1>2
<1>4. ASSUME NEW k \in Places, NEW i \in 1..Len(C[k]), ~(k = p /\ i = 1)
      PROVE  LET j == IF k = p THEN i - 1 ELSE i
             IN  j \in 1..Len(D[k]) /\ D[k][j] = C[k][i]
  <2>1. CASE k = p
    <3>1. i - 1 \in 1..Len(D[p]) /\ (i - 1) + 1 = i
      BY <1>2, <1>4, <2>1
    <3>2. D[p][i - 1] = C[p][(i - 1) + 1]
      BY <1>2, <3>1
    <3>3. QED
      BY <2>1, <3>1, <3>2
  <2>2. CASE k # p
    BY <1>1, <2>2
  <2>3. QED
    BY <2>1, <2>2
<1>5. QED
  BY <1>1, <1>3, <1>4 DEF D

(* The first frame of a place is the one place it is in, so that it may be  *)
(* taken out when its fate is known.                                        *)
LEMMA RemoveKeepsFlow ==
    ASSUME NEW C \in [Places -> Seq(Frames)], NEW s \in Nat, NEW g \in Frames,
           NEW F \in [Numbers -> Fates], Flow(C, s, F, g),
           NEW p \in Places, C[p] # <<>>,
           NEW what \in Fates \ {"inside", "unborn"}
    PROVE  /\ Head(C[p]) \in Frames /\ Head(C[p]).no \in Numbers
           /\ Head(C[p]).session = s /\ F[Head(C[p]).no] = "inside"
           /\ Flow(Without(C, p), s, With(F, Head(C[p]).no, what), g)
           /\ (\A k \in Places : k > p => C[k] = <<>>)
                 => Flow(Without(C, p), s, With(F, Head(C[p]).no, what), Head(C[p]))
<1> DEFINE D == Without(C, p)
           n == C[p][1].no
           G == With(F, n, what)
<1>1. /\ D \in [Places -> Seq(Frames)]
      /\ \A k \in Places : \A i \in 1..Len(D[k]) :
            LET j == IF k = p THEN i + 1 ELSE i
            IN  j \in 1..Len(C[k]) /\ D[k][i] = C[k][j]
      /\ \A k \in Places : \A i \in 1..Len(C[k]) :
            \/ k = p /\ i = 1
            \/ LET j == IF k = p THEN i - 1 ELSE i
               IN  j \in 1..Len(D[k]) /\ D[k][j] = C[k][i]
  BY WithoutIs
<1>2. /\ Head(C[p]) = C[p][1] /\ C[p][1] \in Frames /\ 1 \in 1..Len(C[p])
  BY TailIs
<1>3. /\ n \in Numbers /\ C[p][1].session = s /\ F[n] = "inside"
  BY <1>2 DEF Flow, Accounted
<1>4. /\ G \in [Numbers -> Fates] /\ G[n] = what
      /\ \A m \in Numbers : m # n => G[m] = F[m]
      /\ \A m \in Numbers : G[m] = "unborn" <=> F[m] = "unborn"
  BY <1>3 DEF With
<1>p. Places \subseteq Int /\ \A k \in Places : Len(C[k]) \in Nat /\ Len(D[k]) \in Nat
  BY <1>1, StagesAssumption DEF Places
<1>t. \A k \in Places : \A i \in 1..Len(C[k]) : C[k][i].no \in Int
  BY DEF Flow, Accounted, Numbers
<1> HIDE DEF D, G, n
<1>5. \A k \in Places : \A i \in 1..Len(C[k]) : ~(k = p /\ i = 1) => C[k][i].no # n
  <2> SUFFICES ASSUME NEW k \in Places, NEW i \in 1..Len(C[k]), ~(k = p /\ i = 1)
               PROVE  C[k][i].no # n
    OBVIOUS
  <2>1. Ahead(p, 1, k, i) \/ Ahead(k, i, p, 1)
    BY <1>p DEF Ahead
  <2>2. C[p][1].no < C[k][i].no \/ C[k][i].no < C[p][1].no
    BY <1>2, <2>1 DEF Flow, Ordered
  <2>3. QED
    BY <1>2, <1>t, <2>2 DEF n
<1>6. Ordered(D)
  <2> SUFFICES ASSUME NEW k \in Places, NEW l \in Places,
                      NEW i \in 1..Len(D[k]), NEW j \in 1..Len(D[l]), Ahead(k, i, l, j)
               PROVE  D[k][i].no < D[l][j].no
    BY DEF Ordered
  <2> DEFINE a == IF k = p THEN i + 1 ELSE i
             b == IF l = p THEN j + 1 ELSE j
  <2>1. a \in 1..Len(C[k]) /\ D[k][i] = C[k][a] /\ b \in 1..Len(C[l]) /\ D[l][j] = C[l][b]
    BY <1>1
  <2>2. Ahead(k, a, l, b)
    BY <1>p DEF Ahead
  <2>3. QED
    BY <2>1, <2>2 DEF Flow, Ordered
<1>7. Accounted(D, s, G)
  <2> SUFFICES ASSUME NEW k \in Places, NEW i \in 1..Len(D[k])
               PROVE  D[k][i].session = s /\ D[k][i].no \in Numbers /\ G[D[k][i].no] = "inside"
    BY DEF Accounted
  <2> DEFINE a == IF k = p THEN i + 1 ELSE i
  <2>1. a \in 1..Len(C[k]) /\ D[k][i] = C[k][a] /\ ~(k = p /\ a = 1)
    BY <1>1, <1>p
  <2>2. C[k][a].no # n /\ C[k][a].session = s /\ C[k][a].no \in Numbers
        /\ F[C[k][a].no] = "inside"
    BY <1>5, <2>1 DEF Flow, Accounted
  <2>3. QED
    BY <1>4, <2>1, <2>2
<1>8. Found(D, G)
  <2> SUFFICES ASSUME NEW m \in Numbers, G[m] = "inside"
               PROVE  \E k \in Places : \E i \in 1..Len(D[k]) : D[k][i].no = m
    BY DEF Found
  <2>1. m # n /\ F[m] = "inside"
    BY <1>4
  <2>2. PICK k \in Places : \E i \in 1..Len(C[k]) : C[k][i].no = m
    BY <2>1 DEF Flow, Found
  <2>i. PICK i \in 1..Len(C[k]) : C[k][i].no = m
    BY <2>2
  <2>3. ~(k = p /\ i = 1)
    BY <2>1, <2>i DEF n
  <2>4. QED
    BY <1>1, <2>i, <2>3
<1>9. GivenBefore(D, s, g)
  <2> SUFFICES ASSUME g.session = s, NEW k \in Places, NEW i \in 1..Len(D[k])
               PROVE  g.no < D[k][i].no
    BY DEF GivenBefore
  <2> DEFINE a == IF k = p THEN i + 1 ELSE i
  <2>1. a \in 1..Len(C[k]) /\ D[k][i] = C[k][a]
    BY <1>1
  <2>2. g.no < C[k][a].no
    BY <2>1 DEF Flow, GivenBefore
  <2>3. QED
    BY <2>1, <2>2
<1>10. Numbered(G, s, g)
  BY <1>4 DEF Flow, Numbered, Born
<1>11. ASSUME \A k \in Places : k > p => C[k] = <<>>
       PROVE  GivenBefore(D, s, C[p][1]) /\ Numbered(G, s, C[p][1])
  <2>1. ASSUME NEW k \in Places, NEW i \in 1..Len(C[k]), ~(k = p /\ i = 1)
        PROVE  n < C[k][i].no
    <3>1. Ahead(p, 1, k, i)
      BY <1>11, <1>p, <2>1 DEF Ahead
    <3>2. QED
      BY <1>2, <3>1 DEF Flow, Ordered, n
  <2>2. GivenBefore(D, s, C[p][1])
    <3> SUFFICES ASSUME NEW k \in Places, NEW i \in 1..Len(D[k])
                 PROVE  n < D[k][i].no
      BY DEF GivenBefore, n
    <3> DEFINE a == IF k = p THEN i + 1 ELSE i
    <3>1. a \in 1..Len(C[k]) /\ D[k][i] = C[k][a] /\ ~(k = p /\ a = 1)
      BY <1>1, <1>p
    <3>2. QED
      BY <2>1, <3>1
  <2>3. \A q \in 0..MaxFrames : Born(F, q) => Born(G, q) /\ n <= q
    BY <1>3, <1>4 DEF Born
  <2>4. Numbered(G, s, C[p][1])
    BY <1>3, <2>3 DEF Flow, Numbered, n
  <2>5. QED
    BY <2>2, <2>4
<1>12. Flow(D, s, G, g)
  BY <1>6, <1>7, <1>8, <1>9, <1>10 DEF Flow
<1>13. (\A k \in Places : k > p => C[k] = <<>>) => Flow(D, s, G, C[p][1])
  BY <1>6, <1>7, <1>8, <1>11 DEF Flow
<1>14. QED
  BY <1>2, <1>3, <1>12, <1>13 DEF D, G, n

-----------------------------------------------------------------------------
(* The line after the first frame of place p went to the end of place p+1. *)
Moved(C, p) == With(With(C, p, Tail(C[p])), p + 1, Append(C[p + 1], Head(C[p])))

LEMMA MovedIs ==
    ASSUME NEW C \in [Places -> Seq(Frames)], NEW p \in Places, p + 1 \in Places, C[p] # <<>>
    PROVE  /\ Moved(C, p) \in [Places -> Seq(Frames)]
           /\ \A k \in Places : \A i \in 1..Len(Moved(C, p)[k]) :
                 LET last == k = p + 1 /\ i = Len(C[k]) + 1
                     l == IF last THEN p ELSE k
                     j == IF last THEN 1 ELSE IF k = p THEN i + 1 ELSE i
                 IN  j \in 1..Len(C[l]) /\ Moved(C, p)[k][i] = C[l][j]
           /\ \A k \in Places : \A i \in 1..Len(Moved(C, p)[k]) :
                 k = p + 1 => i <= Len(C[k]) + 1
           /\ \A k \in Places : \A i \in 1..Len(C[k]) :
                 LET first == k = p /\ i = 1
                     l == IF first THEN p + 1 ELSE k
                     j == IF first THEN Len(C[l]) + 1 ELSE IF k = p THEN i - 1 ELSE i
                 IN  j \in 1..Len(Moved(C, p)[l]) /\ Moved(C, p)[l][j] = C[k][i]
<1> DEFINE D == Moved(C, p)
<1>0. p # p + 1 /\ C[p] \in Seq(Frames) /\ C[p + 1] \in Seq(Frames)
  BY StagesAssumption DEF Places
<1>h. Head(C[p]) = C[p][1] /\ Head(C[p]) \in Frames /\ 1 \in 1..Len(C[p])
  BY <1>0, TailIs
<1>1. /\ D[p] = Tail(C[p])
      /\ D[p + 1] = Append(C[p + 1], Head(C[p]))
      /\ \A k \in Places : k # p /\ k # p + 1 => D[k] = C[k]
      /\ D \in [Places -> Seq(Frames)]
  <2>1. Tail(C[p]) \in Seq(Frames)
    BY TailIs
  <2>2. Append(C[p + 1], Head(C[p])) \in Seq(Frames)
    BY <1>0, <1>h, AppendIs
  <2>3. With(C, p, Tail(C[p])) \in [Places -> Seq(Frames)]
    BY <2>1 DEF With
  <2>4. QED
    BY <1>0, <2>1, <2>2, <2>3 DEF Moved, With
<1> HIDE DEF D
<1>2. /\ Len(C[p]) \in Nat /\ Len(C[p]) >= 1 /\ Len(D[p]) = Len(C[p]) - 1
      /\ \A i \in 1..Len(D[p]) : D[p][i] = C[p][i + 1] /\ i + 1 \in 1..Len(C[p])
  BY <1>0, <1>1, TailIs
<1>3. /\ Len(C[p + 1]) \in Nat /\ Len(D[p + 1]) = Len(C[p + 1]) + 1
      /\ \A i \in 1..Len(C[p + 1]) : D[p + 1][i] = C[p + 1][i]
      /\ D[p + 1][Len(C[p + 1]) + 1] = C[p][1]
  BY <1>0, <1>h, <1>1, AppendIs
<1>4. ASSUME NEW k \in Places, NEW i \in 1..Len(D[k])
      PROVE  LET last == k = p + 1 /\ i = Len(C[k]) + 1
                 l == IF last THEN p ELSE k
                 j == IF last THEN 1 ELSE IF k = p THEN i + 1 ELSE i
             IN  j \in 1..Len(C[l]) /\ D[k][i] = C[l][j]
  <2>1. CASE k = p
    BY <1>0, <1>2, <2>1
  <2>2. CASE k = p + 1 /\ i = Len(C[k]) + 1
    BY <1>0, <1>h, <1>3, <2>2
  <2>3. CASE k = p + 1 /\ i # Len(C[k]) + 1
    <3>1. i \in 1..Len(C[p + 1])
      BY <1>3, <2>3
    <3>2. QED
      BY <1>0, <1>3, <2>3, <3>1
  <2>4. CASE k # p /\ k # p + 1
    BY <1>1, <2>4
  <2>5. QED
    BY <2>1, <2>2, <2>3, <2>4
<1>5. ASSUME NEW k \in Places, NEW i \in 1..Len(D[k]), k = p + 1 PROVE i <= Len(C[k]) + 1
  BY <1>3, <1>5
<1>6. ASSUME NEW k \in Places, NEW i \in 1..Len(C[k])
      PROVE  LET first == k = p /\ i = 1
                 l == IF first THEN p + 1 ELSE k
                 j == IF first THEN Len(C[l]) + 1 ELSE IF k = p THEN i - 1 ELSE i
             IN  j \in 1..Len(D[l]) /\ D[l][j] = C[k][i]
  <2>1. CASE k = p /\ i = 1
    BY <1>0, <1>3, <2>1
  <2>2. CASE k = p /\ i # 1
    <3>1. i - 1 \in 1..Len(D[p]) /\ (i - 1) + 1 = i
      BY <1>2, <2>2
    <3>2. D[p][i - 1] = C[p][(i - 1) + 1]
      BY <1>2, <3>1
    <3>3. QED
      BY <2>2, <3>1, <3>2
  <2>3. CASE k = p + 1
    <3>1. i \in 1..Len(D[p + 1]) /\ D[p + 1][i] = C[p + 1][i]
      BY <1>3, <2>3
    <3>2. QED
      BY <1>0, <2>3, <3>1
  <2>4. CASE k # p /\ k # p + 1
    BY <1>1, <2>4
  <2>5. QED
    BY <2>1, <2>2, <2>3, <2>4
<1>7. QED
  BY <1>1, <1>4, <1>5, <1>6 DEF D

(* Moving to the end of the next place changes no order: all that was there *)
(* is nearer to the owner already.                                          *)
LEMMA MoveKeepsFlow ==
    ASSUME NEW C \in [Places -> Seq(Frames)], NEW s \in Nat, NEW g \in Frames,
           NEW F \in [Numbers -> Fates], Flow(C, s, F, g),
           NEW p \in Places, p + 1 \in Places, C[p] # <<>>
    PROVE  Flow(Moved(C, p), s, F, g)
<1> DEFINE D == Moved(C, p)
<1>1. /\ D \in [Places -> Seq(Frames)]
      /\ \A k \in Places : \A i \in 1..Len(D[k]) :
            LET last == k = p + 1 /\ i = Len(C[k]) + 1
                l == IF last THEN p ELSE k
                j == IF last THEN 1 ELSE IF k = p THEN i + 1 ELSE i
            IN  j \in 1..Len(C[l]) /\ D[k][i] = C[l][j]
      /\ \A k \in Places : \A i \in 1..Len(D[k]) : k = p + 1 => i <= Len(C[k]) + 1
      /\ \A k \in Places : \A i \in 1..Len(C[k]) :
            LET first == k = p /\ i = 1
                l == IF first THEN p + 1 ELSE k
                j == IF first THEN Len(C[l]) + 1 ELSE IF k = p THEN i - 1 ELSE i
            IN  j \in 1..Len(D[l]) /\ D[l][j] = C[k][i]
  BY MovedIs, ZenonT(60)
<1>p. Places \subseteq Int /\ \A k \in Places : Len(C[k]) \in Nat /\ Len(D[k]) \in Nat
  BY <1>1, StagesAssumption DEF Places
<1> HIDE DEF D
<1>2. Ordered(D)
  <2> SUFFICES ASSUME NEW k \in Places, NEW l \in Places,
                      NEW i \in 1..Len(D[k]), NEW j \in 1..Len(D[l]), Ahead(k, i, l, j)
               PROVE  D[k][i].no < D[l][j].no
    BY DEF Ordered
  <2> DEFINE lastK == k = p + 1 /\ i = Len(C[k]) + 1
             lastL == l = p + 1 /\ j = Len(C[l]) + 1
             k0 == IF lastK THEN p ELSE k
             l0 == IF lastL THEN p ELSE l
             i0 == IF lastK THEN 1 ELSE IF k = p THEN i + 1 ELSE i
             j0 == IF lastL THEN 1 ELSE IF l = p THEN j + 1 ELSE j
  <2>1. /\ k0 \in Places /\ l0 \in Places
        /\ i0 \in 1..Len(C[k0]) /\ D[k][i] = C[k0][i0]
        /\ j0 \in 1..Len(C[l0]) /\ D[l][j] = C[l0][j0]
    BY <1>1
  <2>2. /\ k \in Int /\ l \in Int /\ p \in Int /\ i \in Int /\ j \in Int
        /\ k = p + 1 => i <= Len(C[k]) + 1
        /\ l = p + 1 => j <= Len(C[l]) + 1
        /\ Len(C[k]) \in Nat /\ Len(C[l]) \in Nat
        /\ i >= 1 /\ j >= 1
    BY <1>1, <1>p
  <2>3. Ahead(k0, i0, l0, j0)
    BY <2>2 DEF Ahead
  <2>4. QED
    BY <2>1, <2>3 DEF Flow, Ordered
<1>3. Accounted(D, s, F)
  <2> SUFFICES ASSUME NEW k \in Places, NEW i \in 1..Len(D[k])
               PROVE  D[k][i].session = s /\ D[k][i].no \in Numbers /\ F[D[k][i].no] = "inside"
    BY DEF Accounted
  <2>1. \E l \in Places : \E j \in 1..Len(C[l]) : D[k][i] = C[l][j]
    BY <1>1, SMTT(30)
  <2>2. QED
    BY <2>1 DEF Flow, Accounted
<1>4. Found(D, F)
  <2> SUFFICES ASSUME NEW m \in Numbers, F[m] = "inside"
               PROVE  \E k \in Places : \E i \in 1..Len(D[k]) : D[k][i].no = m
    BY DEF Found
  <2>1. PICK k \in Places : \E i \in 1..Len(C[k]) : C[k][i].no = m
    BY DEF Flow, Found
  <2>2. PICK i \in 1..Len(C[k]) : C[k][i].no = m
    BY <2>1
  <2>3. QED
    BY <1>1, <2>2
<1>5. GivenBefore(D, s, g)
  <2> SUFFICES ASSUME g.session = s, NEW k \in Places, NEW i \in 1..Len(D[k])
               PROVE  g.no < D[k][i].no
    BY DEF GivenBefore
  <2>1. \E l \in Places : \E j \in 1..Len(C[l]) : D[k][i] = C[l][j]
    BY <1>1, ZenonT(60)
  <2>2. QED
    BY <2>1 DEF Flow, GivenBefore
<1>6. QED
  BY <1>2, <1>3, <1>4, <1>5 DEF Flow, D

-----------------------------------------------------------------------------
LEMMA BornAreCounted ==
    ASSUME NEW F, NEW q \in 0..MaxFrames, Born(F, q)
    PROVE  Cardinality({n \in Numbers : F[n] # "unborn"}) = q
<1>1. {n \in Numbers : F[n] # "unborn"} = 1..q
  BY BoundsAssumption DEF Numbers, Born
<1>2. Cardinality(1..q) = q
  BY FS_Interval, BoundsAssumption
<1>3. QED
  BY <1>1, <1>2

(* The next frames of the session, for the source that made q so far. *)
News(s, q, c) == [i \in 1..c |-> [session |-> s, no |-> q + i]]

LEMMA NewsIs ==
    ASSUME NEW s \in Nat, NEW q \in Nat, NEW c \in Nat
    PROVE  /\ News(s, q, c) \in Seq(Frames) /\ Len(News(s, q, c)) = c
           /\ \A i \in 1..c : News(s, q, c)[i].session = s /\ News(s, q, c)[i].no = q + i
<1>1. \A i \in 1..c : [session |-> s, no |-> q + i] \in Frames
  BY DEF Frames
<1>2. News(s, q, c) \in [1..c -> Frames]
  BY <1>1 DEF News
<1>3. News(s, q, c) \in Seq(Frames) /\ Len(News(s, q, c)) = c
  BY <1>2
<1>4. \A i \in 1..c : News(s, q, c)[i] = [session |-> s, no |-> q + i]
  BY DEF News
<1>5. QED
  BY <1>3, <1>4

(* New frames are numbered after all that were born, and the place they are *)
(* put in, empty before, is the farthest from the owner.                    *)
LEMMA ProduceKeepsFlow ==
    ASSUME NEW C \in [Places -> Seq(Frames)], NEW s \in Nat, NEW g \in Frames,
           NEW F \in [Numbers -> Fates], Flow(C, s, F, g), C[1] = <<>>,
           NEW q \in 0..MaxFrames, Born(F, q), g.session = s => g.no <= q,
           NEW c \in Nat, q + c <= MaxFrames
    PROVE  /\ News(s, q, c) \in Seq(Frames)
           /\ Flow(With(C, 1, News(s, q, c)), s,
                   [n \in Numbers |-> IF n \in q+1..q+c THEN "inside" ELSE F[n]], g)
<1> DEFINE D == With(C, 1, News(s, q, c))
           G == [n \in Numbers |-> IF n \in q+1..q+c THEN "inside" ELSE F[n]]
<1>0. 1 \in Places /\ Places \subseteq Int /\ \A k \in Places : k >= 1
  BY StagesAssumption DEF Places
<1>1. /\ News(s, q, c) \in Seq(Frames) /\ Len(News(s, q, c)) = c
      /\ \A i \in 1..c : News(s, q, c)[i].session = s /\ News(s, q, c)[i].no = q + i
  <2>1. q \in Nat
    OBVIOUS
  <2>2. QED
    BY <2>1, NewsIs, ZenonT(60)
<1>2. /\ D[1] = News(s, q, c)
      /\ \A k \in Places : k # 1 => D[k] = C[k]
      /\ D \in [Places -> Seq(Frames)]
  BY <1>0, <1>1 DEF With
<1>3. /\ \A n \in Numbers : G[n] = IF n > q /\ n <= q + c THEN "inside" ELSE F[n]
      /\ G \in [Numbers -> Fates]
  BY DEF Numbers, Fates
<1>4. \A k \in Places : \A i \in 1..Len(C[k]) :
         C[k][i].session = s /\ C[k][i].no \in Numbers /\ F[C[k][i].no] = "inside"
         /\ C[k][i].no <= q
  BY DEF Flow, Accounted, Born
<1> HIDE DEF D, G
<1>5. \A k \in Places : \A i \in 1..Len(D[k]) :
         \/ /\ k = 1 /\ D[k][i].session = s /\ D[k][i].no = q + i /\ i \in 1..c
         \/ /\ k # 1 /\ i \in 1..Len(C[k]) /\ D[k][i] = C[k][i]
  BY <1>1, <1>2
<1>6. Ordered(D)
  <2> SUFFICES ASSUME NEW k \in Places, NEW l \in Places,
                      NEW i \in 1..Len(D[k]), NEW j \in 1..Len(D[l]), Ahead(k, i, l, j)
               PROVE  D[k][i].no < D[l][j].no
    BY DEF Ordered
  <2>1. CASE k = 1
    <3>1. l = 1 /\ i < j
      BY <1>0, <2>1 DEF Ahead
    <3>2. D[k][i].no = q + i /\ D[l][j].no = q + j /\ i \in 1..c /\ j \in 1..c
      BY <1>5, <2>1, <3>1
    <3>3. QED
      BY <3>1, <3>2
  <2>2. CASE k # 1 /\ l = 1
    <3>1. D[k][i].no <= q /\ D[k][i].no \in Nat
      <4>1. i \in 1..Len(C[k]) /\ D[k][i] = C[k][i]
        BY ONLY <1>5, <2>2, k \in Places, i \in 1..Len(D[k])
      <4>2. D[k][i].no \in Numbers /\ D[k][i].no <= q
        BY ONLY <1>4, <4>1, k \in Places
      <4>3. QED
        BY ONLY <4>2 DEF Numbers
    <3>2. D[l][j].no = q + j /\ j \in 1..c
      BY ONLY <1>5, <2>2, l \in Places, j \in 1..Len(D[l])
    <3>3. QED
      BY <3>1, <3>2
  <2>3. CASE k # 1 /\ l # 1
    BY <1>5, <2>3 DEF Flow, Ordered
  <2>4. QED
    BY <2>1, <2>2, <2>3
<1>7. Accounted(D, s, G)
  <2> SUFFICES ASSUME NEW k \in Places, NEW i \in 1..Len(D[k])
               PROVE  D[k][i].session = s /\ D[k][i].no \in Numbers /\ G[D[k][i].no] = "inside"
    BY DEF Accounted
  <2>1. CASE k = 1
    <3>1. D[k][i].session = s /\ D[k][i].no = q + i /\ i \in 1..c
      BY <1>5, <2>1
    <3>2. q + i \in Numbers /\ q + i > q /\ q + i <= q + c
      BY <3>1, BoundsAssumption, SMTT(30) DEF Numbers
    <3>3. QED
      BY <1>3, <3>1, <3>2
  <2>2. CASE k # 1
    <3>1. D[k][i] = C[k][i] /\ i \in 1..Len(C[k])
      BY <1>5, <2>2
    <3>2. QED
      BY <1>3, <1>4, <3>1
  <2>3. QED
    BY <2>1, <2>2
<1>8. Found(D, G)
  <2> SUFFICES ASSUME NEW m \in Numbers, G[m] = "inside"
               PROVE  \E k \in Places : \E i \in 1..Len(D[k]) : D[k][i].no = m
    BY DEF Found
  <2>1. CASE m > q /\ m <= q + c
    <3>1. m - q \in 1..c /\ q + (m - q) = m
      BY <2>1 DEF Numbers
    <3>2. D[1][m - q].no = m /\ m - q \in 1..Len(D[1])
      BY <1>1, <1>2, <3>1
    <3>3. QED
      BY <1>0, <3>2
  <2>2. CASE ~(m > q /\ m <= q + c)
    <3>1. F[m] = "inside"
      BY <1>3, <2>2
    <3>2. PICK k \in Places : \E i \in 1..Len(C[k]) : C[k][i].no = m
      BY <3>1 DEF Flow, Found
    <3>3. k # 1
      BY <3>2
    <3>4. QED
      BY <1>2, <3>2, <3>3
  <2>3. QED
    BY <2>1, <2>2
<1>9. GivenBefore(D, s, g)
  <2> SUFFICES ASSUME g.session = s, NEW k \in Places, NEW i \in 1..Len(D[k])
               PROVE  g.no < D[k][i].no
    BY DEF GivenBefore
  <2>1. CASE k = 1
    <3>1. D[k][i].no = q + i /\ i \in 1..c /\ g.no <= q /\ g.no \in Nat
      BY <1>5, <2>1 DEF Frames
    <3>2. QED
      BY <3>1
  <2>2. CASE k # 1
    BY <1>5, <2>2 DEF Flow, GivenBefore
  <2>3. QED
    BY <2>1, <2>2
<1>10. Numbered(G, s, g)
  <2>1. Born(G, q + c)
    BY <1>3 DEF Born, Numbers
  <2>2. q + c \in 0..MaxFrames /\ (g.session = s => g.no <= q + c)
    BY DEF Frames
  <2>3. QED
    BY <2>1, <2>2 DEF Flow, Numbered
<1>11. QED
  BY <1>1, <1>6, <1>7, <1>8, <1>9, <1>10 DEF Flow, D, G

-----------------------------------------------------------------------------
(* What the program's assignments to hold, queue and latest are to the line.*)
LEMMA SetHold ==
    ASSUME NEW wk \in [Stages -> Threads], NEW q \in [Stages -> Seq(Frames)],
           NEW l \in Seq(Frames), NEW w \in Stages, NEW t \in Threads
    PROVE  Line(With(wk, w, t), q, l) = With(Line(wk, q, l), 2*w - 1, t.hold)
<1> DEFINE C == Line(wk, q, l)
           D == With(C, 2*w - 1, t.hold)
           wk2 == With(wk, w, t)
<1>1. C \in [Places -> Seq(Frames)]
  BY LineType DEF Threads
<1>2. /\ \A v \in Stages : C[2*v - 1] = wk[v].hold
      /\ \A v \in Stages : C[2*v] = q[v]
      /\ C[2*N + 1] = l
  BY LineReads DEF Reads
<1> HIDE DEF C
<1>3. /\ 2*w - 1 \in Places /\ t.hold \in Seq(Frames)
      /\ \A v \in Stages : 2*v - 1 \in Places /\ 2*v \in Places /\ 2*v # 2*w - 1
      /\ \A v \in Stages : v # w => 2*v - 1 # 2*w - 1
      /\ 2*N + 1 \in Places /\ 2*N + 1 # 2*w - 1
  BY KindsOfPlace, StagesAssumption DEF Stages, Threads
<1>4. D \in [Places -> Seq(Frames)]
  BY <1>1, <1>3 DEF With
<1>5. Reads(D, wk2, q, l)
  BY <1>1, <1>2, <1>3 DEF Reads, With
<1> HIDE DEF D, wk2
<1>6. Line(wk2, q, l) = D
  BY <1>4, <1>5, LineIs
<1>7. QED
  BY <1>6 DEF C, D, wk2

LEMMA SetQueue ==
    ASSUME NEW wk \in [Stages -> Threads], NEW q \in [Stages -> Seq(Frames)],
           NEW l \in Seq(Frames), NEW w \in Stages, NEW x \in Seq(Frames)
    PROVE  Line(wk, With(q, w, x), l) = With(Line(wk, q, l), 2*w, x)
<1> DEFINE C == Line(wk, q, l)
           D == With(C, 2*w, x)
           q2 == With(q, w, x)
<1>1. C \in [Places -> Seq(Frames)]
  BY LineType DEF Threads
<1>2. /\ \A v \in Stages : C[2*v - 1] = wk[v].hold
      /\ \A v \in Stages : C[2*v] = q[v]
      /\ C[2*N + 1] = l
  BY LineReads DEF Reads
<1> HIDE DEF C
<1>3. /\ 2*w \in Places
      /\ \A v \in Stages : 2*v - 1 \in Places /\ 2*v \in Places /\ 2*v - 1 # 2*w
      /\ \A v \in Stages : v # w => 2*v # 2*w
      /\ 2*N + 1 \in Places /\ 2*N + 1 # 2*w
  BY KindsOfPlace, StagesAssumption DEF Stages
<1>4. D \in [Places -> Seq(Frames)]
  BY <1>1, <1>3 DEF With
<1>5. Reads(D, wk, q2, l)
  BY <1>1, <1>2, <1>3 DEF Reads, With
<1> HIDE DEF D, q2
<1>6. Line(wk, q2, l) = D
  BY <1>4, <1>5, LineIs
<1>7. QED
  BY <1>6 DEF C, D, q2

LEMMA SetLatest ==
    ASSUME NEW wk \in [Stages -> Threads], NEW q \in [Stages -> Seq(Frames)],
           NEW l \in Seq(Frames), NEW x \in Seq(Frames)
    PROVE  Line(wk, q, x) = With(Line(wk, q, l), 2*N + 1, x)
<1> DEFINE C == Line(wk, q, l)
           D == With(C, 2*N + 1, x)
<1>1. C \in [Places -> Seq(Frames)]
  BY LineType DEF Threads
<1>2. /\ \A v \in Stages : C[2*v - 1] = wk[v].hold
      /\ \A v \in Stages : C[2*v] = q[v]
  BY LineReads DEF Reads
<1> HIDE DEF C
<1>3. D \in [Places -> Seq(Frames)]
  BY <1>1, KindsOfPlace DEF With
<1>4. Reads(D, wk, q, x)
  BY <1>1, <1>2, KindsOfPlace DEF Reads, With
<1> HIDE DEF D
<1>5. Line(wk, q, x) = D
  BY <1>3, <1>4, LineIs
<1>6. QED
  BY <1>5 DEF C, D

-----------------------------------------------------------------------------
IsRest(h, q) == h = Tail(q)
IsFirst(h, q) == h = <<Head(q)>>
After(v, w) == w = v + 1
Longer(q, w, f) == With(q, w, Append(q[w], f))

(* The steps of the program as changes of the line.                         *)
LEMMA HoldDropped ==
    ASSUME NEW wk \in [Stages -> Threads], NEW q \in [Stages -> Seq(Frames)],
           NEW l \in Seq(Frames), NEW w \in Stages, NEW t \in Threads,
           IsRest(t.hold, wk[w].hold)
    PROVE  Line(With(wk, w, t), q, l) = Without(Line(wk, q, l), 2*w - 1)
<1>1. Line(wk, q, l)[2*w - 1] = wk[w].hold
  BY LineReads DEF Reads
<1>2. Line(With(wk, w, t), q, l) = With(Line(wk, q, l), 2*w - 1, t.hold)
  BY SetHold
<1>3. Without(Line(wk, q, l), 2*w - 1) = With(Line(wk, q, l), 2*w - 1, t.hold)
  BY <1>1 DEF Without, IsRest
<1>4. QED
  BY <1>2, <1>3

LEMMA QueueDropped ==
    ASSUME NEW wk \in [Stages -> Threads], NEW q \in [Stages -> Seq(Frames)],
           NEW l \in Seq(Frames), NEW w \in Stages, q[w] # <<>>
    PROVE  /\ Without(q, w) \in [Stages -> Seq(Frames)]
           /\ Line(wk, Without(q, w), l) = Without(Line(wk, q, l), 2*w)
<1> DEFINE x == Tail(q[w])
<1>1. Line(wk, q, l)[2*w] = q[w]
  BY LineReads DEF Reads
<1>2. x \in Seq(Frames)
  BY TailIs
<1>3. Without(Line(wk, q, l), 2*w) = With(Line(wk, q, l), 2*w, x) /\ Without(q, w) = With(q, w, x)
  BY <1>1 DEF Without
<1> HIDE DEF x
<1>4. With(q, w, x) \in [Stages -> Seq(Frames)]
  BY <1>2 DEF With
<1>5. Line(wk, With(q, w, x), l) = With(Line(wk, q, l), 2*w, x)
  BY <1>2, SetQueue
<1>6. QED
  BY <1>3, <1>4, <1>5

LEMMA LatestDropped ==
    ASSUME NEW wk \in [Stages -> Threads], NEW q \in [Stages -> Seq(Frames)],
           NEW l \in Seq(Frames), l # <<>>, Len(l) <= 1
    PROVE  Line(wk, q, <<>>) = Without(Line(wk, q, l), 2*N + 1)
<1>1. Line(wk, q, l)[2*N + 1] = l
  BY LineReads DEF Reads
<1>2. Tail(l) = <<>> /\ <<>> \in Seq(Frames)
  OBVIOUS
<1>3. Without(Line(wk, q, l), 2*N + 1) = With(Line(wk, q, l), 2*N + 1, <<>>)
  BY <1>1, <1>2 DEF Without
<1>4. Line(wk, q, <<>>) = With(Line(wk, q, l), 2*N + 1, <<>>)
  BY <1>2, SetLatest
<1>5. QED
  BY <1>3, <1>4

LEMMA HoldEnqueued ==
    ASSUME NEW wk \in [Stages -> Threads], NEW q \in [Stages -> Seq(Frames)],
           NEW l \in Seq(Frames), NEW w \in Stages, NEW t \in Threads,
           wk[w].hold # <<>>, IsRest(t.hold, wk[w].hold)
    PROVE  /\ Longer(q, w, Head(wk[w].hold)) \in [Stages -> Seq(Frames)]
           /\ Line(With(wk, w, t), Longer(q, w, Head(wk[w].hold)), l)
                 = Moved(Line(wk, q, l), 2*w - 1)
<1> DEFINE C == Line(wk, q, l)
           wk2 == With(wk, w, t)
           x == Append(q[w], Head(wk[w].hold))
           q2 == With(q, w, x)
<1>1. C[2*w - 1] = wk[w].hold /\ C[2*w] = q[w] /\ (2*w - 1) + 1 = 2*w
  BY LineReads, StagesAssumption DEF Reads, Stages
<1>2. x \in Seq(Frames) /\ q2 \in [Stages -> Seq(Frames)] /\ wk2 \in [Stages -> Threads]
  <2>1. wk[w].hold \in Seq(Frames)
    BY DEF Threads
  <2>2. Head(wk[w].hold) \in Frames
    BY <2>1, TailIs
  <2>3. x \in Seq(Frames)
    BY <2>2, AppendIs
  <2>4. QED
    BY <2>3 DEF With
<1>3. Moved(C, 2*w - 1) = With(With(C, 2*w - 1, t.hold), 2*w, x)
  BY <1>1 DEF Moved, IsRest
<1> HIDE DEF x
<1>4. Line(wk2, q2, l) = With(With(C, 2*w - 1, t.hold), 2*w, x)
  <2>1. Line(wk2, q, l) = With(C, 2*w - 1, t.hold)
    BY SetHold
  <2>2. Line(wk2, q2, l) = With(Line(wk2, q, l), 2*w, x)
    BY <1>2, SetQueue, ZenonT(60)
  <2>3. QED
    BY <2>1, <2>2
<1>5. QED
  BY <1>2, <1>3, <1>4 DEF Longer, x

LEMMA HoldFetched ==
    ASSUME NEW wk \in [Stages -> Threads], NEW q \in [Stages -> Seq(Frames)],
           NEW l \in Seq(Frames), NEW v \in Stages, NEW w \in Stages, After(v, w), NEW t \in Threads,
           wk[w].hold = <<>>, q[v] # <<>>, IsFirst(t.hold, q[v])
    PROVE  Line(With(wk, w, t), Without(q, v), l) = Moved(Line(wk, q, l), 2*v)
<1> DEFINE C == Line(wk, q, l)
           q2 == Without(q, v)
<1>1. C[2*w - 1] = <<>>
  BY LineReads DEF Reads
<1>2. C[2*v] = q[v]
  BY LineReads DEF Reads
<1>3. Append(<<>>, Head(q[v])) = t.hold /\ 2*v + 1 = 2*w - 1
  BY TailIs DEF Stages, IsFirst, After
<1>4. q2 \in [Stages -> Seq(Frames)] /\ Line(wk, q2, l) = Without(C, 2*v)
  BY QueueDropped
<1>5. Line(With(wk, w, t), q2, l) = With(Line(wk, q2, l), 2*w - 1, t.hold)
  BY <1>4, SetHold
<1>6. Moved(C, 2*v) = With(Without(C, 2*v), 2*w - 1, t.hold)
  BY <1>1, <1>2, <1>3 DEF Moved, Without
<1>7. QED
  BY <1>4, <1>5, <1>6

LEMMA LatestFetched ==
    ASSUME NEW wk \in [Stages -> Threads], NEW q \in [Stages -> Seq(Frames)], q[N] # <<>>
    PROVE  Line(wk, Without(q, N), <<Head(q[N])>>) = Moved(Line(wk, q, <<>>), 2*N)
<1> DEFINE C == Line(wk, q, <<>>)
           q2 == Without(q, N)
           f == Head(q[N])
<1>0. N \in Stages /\ <<>> \in Seq(Frames)
  BY StagesAssumption DEF Stages
<1>1. C[2*N + 1] = <<>> /\ C[2*N] = q[N]
  BY <1>0, LineReads DEF Reads
<1>2. f \in Frames /\ Append(<<>>, f) = <<f>> /\ <<f>> \in Seq(Frames)
  BY <1>0, TailIs
<1>3. q2 \in [Stages -> Seq(Frames)] /\ Line(wk, q2, <<>>) = Without(C, 2*N)
  BY <1>0, QueueDropped
<1>4. Line(wk, q2, <<f>>) = With(Line(wk, q2, <<>>), 2*N + 1, <<f>>)
  BY <1>0, <1>2, <1>3, SetLatest
<1>5. Moved(C, 2*N) = With(Without(C, 2*N), 2*N + 1, <<f>>)
  BY <1>1, <1>2 DEF Moved, Without
<1>6. QED
  BY <1>3, <1>4, <1>5

-----------------------------------------------------------------------------
(* A worker's step changes its own entry and nobody else's.                 *)
Thread(p, h, e) == [pc |-> p, hold |-> h, ends |-> e]

Goes(w, p, h) == worker' = With(worker, w, Thread(p, h, worker[w].ends))

LEMMA GoesKeepsType ==
    ASSUME TypeOK, NEW w \in Stages, NEW p \in Pcs, NEW h \in Seq(Frames), NEW e \in BOOLEAN,
           worker' = With(worker, w, Thread(p, h, e))
    PROVE  /\ Thread(p, h, e) \in Threads /\ worker' \in [Stages -> Threads]
           /\ Thread(p, h, e).pc = p /\ Thread(p, h, e).hold = h /\ Thread(p, h, e).ends = e
           /\ worker'[w] = Thread(p, h, e)
           /\ \A v \in Stages : v # w => worker'[v] = worker[v]
<1>1. /\ Thread(p, h, e) \in Threads
      /\ Thread(p, h, e).pc = p /\ Thread(p, h, e).hold = h /\ Thread(p, h, e).ends = e
  BY DEF Threads, Thread
<1>2. QED
  BY <1>1 DEF TypeOK, With

LEMMA WorkerIsThread ==
    ASSUME TypeOK, NEW w \in Stages
    PROVE  /\ worker[w] = Thread(worker[w].pc, worker[w].hold, worker[w].ends)
           /\ worker[w].pc \in Pcs /\ worker[w].hold \in Seq(Frames)
           /\ worker[w].ends \in BOOLEAN /\ queue[w] \in Seq(Frames)
<1>1. worker[w] \in Threads /\ queue[w] \in Seq(Frames)
  BY DEF TypeOK
<1>2. QED
  BY <1>1 DEF Threads, Thread

LEMMA PcAssigned ==
    ASSUME TypeOK, NEW w \in Stages, NEW p, worker' = [worker EXCEPT ![w].pc = p]
    PROVE  Goes(w, p, worker[w].hold)
<1>1. [worker[w] EXCEPT !.pc = p] = Thread(p, worker[w].hold, worker[w].ends)
  <2>1. worker[w] \in Threads
    BY DEF TypeOK
  <2>2. QED
    BY <2>1 DEF Threads, Thread
<1>2. worker' = [worker EXCEPT ![w] = [worker[w] EXCEPT !.pc = p]]
  OBVIOUS
<1>3. QED
  BY <1>1, <1>2 DEF Goes, With

LEMMA PcAndHoldAssigned ==
    ASSUME TypeOK, NEW w \in Stages, NEW p, NEW h,
           worker' = [worker EXCEPT ![w].pc = p, ![w].hold = h]
    PROVE  Goes(w, p, h)
<1>1. [[worker[w] EXCEPT !.pc = p] EXCEPT !.hold = h] = Thread(p, h, worker[w].ends)
  <2>1. PICK a \in Pcs, b \in Seq(Frames), c \in BOOLEAN :
           worker[w] = [pc |-> a, hold |-> b, ends |-> c]
    BY DEF TypeOK, Threads
  <2>2. [worker[w] EXCEPT !.pc = p] = [pc |-> p, hold |-> b, ends |-> c]
    BY <2>1
  <2>3. [[pc |-> p, hold |-> b, ends |-> c] EXCEPT !.hold = h]
           = [pc |-> p, hold |-> h, ends |-> c]
    OBVIOUS
  <2>4. QED
    BY <2>1, <2>2, <2>3 DEF Thread
<1>2. worker' = [worker EXCEPT ![w] = [[worker[w] EXCEPT !.pc = p] EXCEPT !.hold = h]]
  OBVIOUS
<1>3. QED
  BY <1>1, <1>2 DEF Goes, With

LEMMA MoverFits ==
    ASSUME TypeOK, HoldsAtItsPlace, NEW w \in Stages,
           NEW p \in Pcs, NEW h \in Seq(Frames), NEW e \in BOOLEAN,
           worker' = With(worker, w, Thread(p, h, e)), Fits(w, p, h)
    PROVE  worker' \in [Stages -> Threads] /\ HoldsAtItsPlace'
<1>1. /\ worker' \in [Stages -> Threads] /\ worker'[w].pc = p /\ worker'[w].hold = h
      /\ \A v \in Stages : v # w => worker'[v] = worker[v]
  BY GoesKeepsType
<1>2. \A v \in Stages : Fits(v, worker'[v].pc, worker'[v].hold)
  BY <1>1 DEF HoldsAtItsPlace
<1>3. QED
  BY <1>1, <1>2 DEF HoldsAtItsPlace

LEMMA GoerFits ==
    ASSUME TypeOK, HoldsAtItsPlace, NEW w \in Stages, NEW p \in Pcs, NEW h \in Seq(Frames),
           Goes(w, p, h), Fits(w, p, h)
    PROVE  worker' \in [Stages -> Threads] /\ HoldsAtItsPlace'
<1>1. worker[w].ends \in BOOLEAN /\ worker' = With(worker, w, Thread(p, h, worker[w].ends))
  BY WorkerIsThread DEF Goes
<1>2. QED
  BY <1>1, MoverFits

LEMMA OutputShrinks ==
    ASSUME TypeOK, NEW w \in Stages, worker[w].hold # <<>>, NextOutput(w)
    PROVE  /\ Goes(w, "emit", Tail(worker[w].hold))
           /\ Tail(worker[w].hold) \in Seq(Frames) /\ Head(worker[w].hold) \in Frames
<1>1. worker[w].hold \in Seq(Frames)
  BY WorkerIsThread
<1>2. worker' = [worker EXCEPT ![w].pc = "emit", ![w].hold = Tail(worker[w].hold)]
  BY DEF NextOutput
<1> DEFINE h == Tail(worker[w].hold)
<1>3. h \in Seq(Frames) /\ Head(worker[w].hold) \in Frames
  BY <1>1, TailIs
<1>4. worker' = [worker EXCEPT ![w].pc = "emit", ![w].hold = h]
  BY <1>2
<1> HIDE DEF h
<1>5. Goes(w, "emit", h)
  BY <1>4, PcAndHoldAssigned
<1>6. QED
  BY <1>3, <1>5 DEF h

LEMMA ProducedType == TypeOK => Produced \in Nat
<1> SUFFICES ASSUME TypeOK PROVE Produced \in Nat
  OBVIOUS
<1>1. IsFiniteSet(1..MaxFrames)
  BY FS_Interval, BoundsAssumption
<1>2. IsFiniteSet({n \in 1..MaxFrames : fate[n] # "unborn"})
  BY <1>1, FS_Subset
<1>3. QED
  BY <1>2, FS_CardinalityType DEF Produced

LEMMA FateType ==
    ASSUME TypeOK, NEW f, NEW what \in Fates, Befalls(f, what)
    PROVE  fate' \in [Numbers -> Fates]
BY DEF TypeOK, Befalls

Untouched == UNCHANGED <<entries, running, stop, owner, latest, closed, session, given>>

(* What a worker's step leaves alone, and what it keeps. *)
LEMMA WorkerKeepsType ==
    ASSUME TypeOK, HoldsAtItsPlace, NEW w \in Stages, WorkerStep(w)
    PROVE  /\ worker' \in [Stages -> Threads] /\ HoldsAtItsPlace'
           /\ queue' \in [Stages -> Seq(Frames)]
           /\ fate' \in [Numbers -> Fates]
           /\ Untouched
<1> DEFINE Goal == /\ worker' \in [Stages -> Threads] /\ HoldsAtItsPlace'
                   /\ queue' \in [Stages -> Seq(Frames)]
                   /\ fate' \in [Numbers -> Fates]
                   /\ Untouched
<1> USE DEF queues, histories, Untouched
<1>0. /\ worker \in [Stages -> Threads] /\ queue \in [Stages -> Seq(Frames)]
      /\ fate \in [Numbers -> Fates] /\ Fits(w, worker[w].pc, worker[w].hold)
      /\ worker[w].pc \in Pcs /\ worker[w].hold \in Seq(Frames) /\ worker[w].ends \in BOOLEAN
      /\ Fates = {"unborn", "inside", "delivered", "skipped", "dropped", "refused", "absorbed"}
  BY WorkerIsThread DEF TypeOK, HoldsAtItsPlace, Fates
<1>1. ASSUME Bind(w) PROVE Goal
  <2>1. CASE worker' = worker
    BY <1>0, <1>1, <2>1 DEF Bind, HoldsAtItsPlace
  <2>2. CASE worker' = [worker EXCEPT ![w].pc = "top"]
    <3>1. worker[w].hold = <<>>
      BY <1>0, <1>1 DEF Bind, Fits
    <3>2. Goes(w, "top", worker[w].hold)
      BY <2>2, PcAssigned
    <3>3. "top" \in Pcs /\ Fits(w, "top", worker[w].hold)
      BY <3>1 DEF Pcs, Fits
    <3>4. worker' \in [Stages -> Threads] /\ HoldsAtItsPlace'
      BY <1>0, <3>1, <3>2, <3>3, GoerFits
    <3>5. QED
      BY <1>0, <1>1, <3>4 DEF Bind
  <2>3. QED
    BY <1>1, <2>1, <2>2 DEF Bind
<1>2. ASSUME CheckStop(w) PROVE Goal
  <2>1. PICK p \in {"ended", "fetch"} : worker' = [worker EXCEPT ![w].pc = p]
    BY <1>2 DEF CheckStop
  <2>2. /\ Goes(w, p, worker[w].hold) /\ p \in Pcs
        /\ Fits(w, p, worker[w].hold)
    BY <1>0, <1>2, <2>1, PcAssigned DEF CheckStop, Fits, Pcs
  <2>3. worker' \in [Stages -> Threads] /\ HoldsAtItsPlace'
    BY <1>0, <2>1, <2>2, GoerFits
  <2>4. QED
    BY <1>0, <1>2, <2>3 DEF CheckStop
<1>3. ASSUME Fetch(w) PROVE Goal
  <2>0. /\ worker[w].hold = <<>> /\ "process" \in Pcs /\ "top" \in Pcs
        /\ Fits(w, "top", worker[w].hold)
    <3>1. worker[w].pc = "fetch"
      BY <1>3 DEF Fetch
    <3>2. worker[w].hold = <<>>
      BY <1>0, <3>1 DEF Fits
    <3>3. Fits(w, "top", worker[w].hold)
      BY <3>2 DEF Fits
    <3>4. QED
      BY <3>2, <3>3 DEF Pcs
  <2>1. CASE w = 1
    <3>0. Len(<<>>) = 0
      OBVIOUS
    <3>1. /\ Goes(w, "process", worker[w].hold) /\ UNCHANGED queue
          /\ Fits(w, "process", worker[w].hold)
      BY <1>3, <2>0, <2>1, <3>0, PcAssigned DEF Fetch, Fits
    <3>2. worker' \in [Stages -> Threads] /\ HoldsAtItsPlace'
      BY <1>0, <2>0, <2>1, <3>1, GoerFits
    <3>3. QED
      BY <1>0, <1>3, <3>1, <3>2 DEF Fetch
  <2>2. CASE w > 1 /\ queue[w-1] # <<>>
    <3>0. w - 1 \in Stages
      BY <2>2, StagesAssumption DEF Stages
    <3>1. /\ worker' = [worker EXCEPT ![w].pc = "process", ![w].hold = <<Head(queue[w-1])>>]
          /\ queue' = Without(queue, w-1)
      BY <1>3, <2>2 DEF Fetch, Without, With
    <3>2. queue' \in [Stages -> Seq(Frames)] /\ Head(queue[w-1]) \in Frames
      BY <1>0, <2>2, <3>0, <3>1, QueueDropped, TailIs DEF TypeOK
    <3>3. Goes(w, "process", <<Head(queue[w-1])>>)
      BY <3>1, PcAndHoldAssigned
    <3>4. <<Head(queue[w-1])>> \in Seq(Frames) /\ Fits(w, "process", <<Head(queue[w-1])>>)
      BY <2>2, <3>2 DEF Fits
    <3>5. worker' \in [Stages -> Threads] /\ HoldsAtItsPlace'
      BY <1>0, <2>0, <2>2, <3>3, <3>4, GoerFits
    <3>6. QED
      BY <1>0, <1>3, <3>2, <3>5 DEF Fetch
  <2>3. CASE w > 1 /\ queue[w-1] = <<>>
    <3>1. worker' = [worker EXCEPT ![w].pc = "top"] /\ UNCHANGED queue
      BY <1>3, <2>3 DEF Fetch
    <3>2. worker' \in [Stages -> Threads] /\ HoldsAtItsPlace'
      BY <1>0, <2>0, <3>1, PcAssigned, GoerFits
    <3>3. QED
      BY <1>0, <1>3, <3>1, <3>2 DEF Fetch
  <2>4. QED
    BY <2>1, <2>2, <2>3 DEF Stages
<1>4. ASSUME w = 1, ProcessSource PROVE Goal
  <2>1. PICK k \in 0..MaxBatch, ends \in BOOLEAN :
          /\ worker' = [worker EXCEPT ![1] =
                 [pc |-> "emit", ends |-> ends,
                  hold |-> [i \in 1..k |-> [session |-> session, no |-> Produced + i]]]]
          /\ fate' = [n \in 1..MaxFrames |->
                         IF n \in Produced+1..Produced+k THEN "inside" ELSE fate[n]]
    BY <1>4 DEF ProcessSource
  <2>2. k \in Nat /\ session \in Nat /\ Produced \in Nat
    BY ProducedType, BoundsAssumption DEF TypeOK
  <2>3. /\ News(session, Produced, k) \in Seq(Frames)
        /\ "emit" \in Pcs /\ Fits(w, "emit", News(session, Produced, k))
    BY <2>2, NewsIs DEF Pcs, Fits
  <2>4. worker' = With(worker, w, Thread("emit", News(session, Produced, k), ends))
    BY <1>4, <2>1 DEF With, Thread, News
  <2>5. worker' \in [Stages -> Threads] /\ HoldsAtItsPlace'
    BY <2>3, <2>4, MoverFits
  <2>6. fate' \in [Numbers -> Fates]
    BY <1>0, <2>1 DEF Numbers
  <2>7. QED
    BY <1>0, <1>4, <2>5, <2>6 DEF ProcessSource
<1>5. ASSUME ProcessInput(w) PROVE Goal
  <2>0. /\ "emit" \in Pcs /\ <<>> \in Seq(Frames)
        /\ Fits(w, "emit", <<>>) /\ Fits(w, "emit", worker[w].hold)
    BY DEF Pcs, Fits
  <2>1. CASE worker' = [worker EXCEPT ![w].pc = "emit", ![w].ends = FALSE] /\ UNCHANGED fate
    <3>1. [[worker[w] EXCEPT !.pc = "emit"] EXCEPT !.ends = FALSE]
             = Thread("emit", worker[w].hold, FALSE)
      <4>1. PICK a \in Pcs, b \in Seq(Frames), c \in BOOLEAN :
               worker[w] = [pc |-> a, hold |-> b, ends |-> c]
        BY <1>0 DEF Threads
      <4>2. [worker[w] EXCEPT !.pc = "emit"] = [pc |-> "emit", hold |-> b, ends |-> c]
        BY <4>1
      <4>3. \A e : [[pc |-> "emit", hold |-> b, ends |-> c] EXCEPT !.ends = e]
                      = [pc |-> "emit", hold |-> b, ends |-> e]
        OBVIOUS
      <4>4. QED
        BY <4>1, <4>2, <4>3 DEF Thread
    <3>2. worker' = [worker EXCEPT ![w] = [[worker[w] EXCEPT !.pc = "emit"] EXCEPT !.ends = FALSE]]
      BY <2>1
    <3>3. worker' = With(worker, w, Thread("emit", worker[w].hold, FALSE))
      BY <3>1, <3>2 DEF With
    <3>4. worker' \in [Stages -> Threads] /\ HoldsAtItsPlace'
      BY <1>0, <2>0, <3>3, MoverFits
    <3>5. QED
      BY <1>0, <1>5, <2>1, <3>4 DEF ProcessInput
  <2>2. CASE /\ \E ends \in BOOLEAN :
                   worker' = [worker EXCEPT ![w] = [pc |-> "emit", hold |-> <<>>, ends |-> ends]]
             /\ Befalls(Head(worker[w].hold), "absorbed")
    <3>1. PICK ends \in BOOLEAN : worker' = With(worker, w, Thread("emit", <<>>, ends))
      BY <2>2 DEF With, Thread
    <3>2. worker' \in [Stages -> Threads] /\ HoldsAtItsPlace'
      BY <2>0, <3>1, MoverFits
    <3>3. fate' \in [Numbers -> Fates]
      BY <1>0, <2>2, FateType
    <3>4. QED
      BY <1>0, <1>5, <3>2, <3>3 DEF ProcessInput
  <2>3. QED
    BY <1>5, <2>1, <2>2 DEF ProcessInput
<1>6. ASSUME worker[w].hold # <<>>, NextOutput(w)
      PROVE  /\ worker' \in [Stages -> Threads] /\ HoldsAtItsPlace'
             /\ Tail(worker[w].hold) \in Seq(Frames) /\ Head(worker[w].hold) \in Frames
  <2> DEFINE h == Tail(worker[w].hold)
  <2>1. Goes(w, "emit", h) /\ h \in Seq(Frames) /\ Head(worker[w].hold) \in Frames
    BY <1>6, OutputShrinks
  <2> HIDE DEF h
  <2>2. "emit" \in Pcs /\ Fits(w, "emit", h)
    BY DEF Pcs, Fits
  <2>3. worker' \in [Stages -> Threads] /\ HoldsAtItsPlace'
    BY <1>0, <2>1, <2>2, GoerFits
  <2>4. QED
    BY <2>1, <2>3 DEF h
<1>7. ASSUME EnqueueWithRoom(w) PROVE Goal
  <2>1. worker' \in [Stages -> Threads] /\ HoldsAtItsPlace' /\ Head(worker[w].hold) \in Frames
    BY <1>6, <1>7 DEF EnqueueWithRoom
  <2>2. Append(queue[w], Head(worker[w].hold)) \in Seq(Frames)
    BY <1>0, <2>1, AppendIs
  <2>3. queue' \in [Stages -> Seq(Frames)]
    BY <1>0, <1>7, <2>2 DEF EnqueueWithRoom
  <2>4. QED
    BY <1>0, <1>7, <2>1, <2>3 DEF EnqueueWithRoom
<1>8. ASSUME EnqueueDropLatest(w) PROVE Goal
  <2>1. worker' \in [Stages -> Threads] /\ HoldsAtItsPlace'
    BY <1>6, <1>8 DEF EnqueueDropLatest
  <2>2. fate' \in [Numbers -> Fates]
    BY <1>0, <1>8, FateType DEF EnqueueDropLatest
  <2>3. QED
    BY <1>0, <1>8, <2>1, <2>2 DEF EnqueueDropLatest
<1>9. ASSUME EnqueueDropOldest(w) PROVE Goal
  <2>1. worker' \in [Stages -> Threads] /\ HoldsAtItsPlace' /\ Head(worker[w].hold) \in Frames
    BY <1>6, <1>9 DEF EnqueueDropOldest
  <2>2. fate' \in [Numbers -> Fates]
    BY <1>0, <1>9, FateType DEF EnqueueDropOldest
  <2>3. queue[w] # <<>>
    <3>1. entries[IF w < N THEN w + 1 ELSE w].capacity \in Nat \ {0}
      BY StagesAssumption DEF TypeOK, Stages
    <3>2. QED
      BY <1>9, <3>1 DEF EnqueueDropOldest, Full, EntryOf
  <2>4. Tail(queue[w]) \in Seq(Frames)
    BY <1>0, <2>3, TailIs
  <2>5. Append(Tail(queue[w]), Head(worker[w].hold)) \in Seq(Frames)
    BY <2>1, <2>4, AppendIs
  <2>6. queue' \in [Stages -> Seq(Frames)]
    BY <1>0, <1>9, <2>5 DEF EnqueueDropOldest
  <2>7. QED
    BY <1>0, <1>9, <2>1, <2>2, <2>6 DEF EnqueueDropOldest
<1>10. ASSUME EnqueueBlocks(w) PROVE Goal
  <2>1. /\ Goes(w, "blocked", worker[w].hold) /\ "blocked" \in Pcs
        /\ Fits(w, "blocked", worker[w].hold)
    BY <1>10, PcAssigned DEF EnqueueBlocks, Pcs, Fits
  <2>2. worker' \in [Stages -> Threads] /\ HoldsAtItsPlace'
    BY <1>0, <2>1, GoerFits
  <2>3. QED
    BY <1>0, <1>10, <2>2 DEF EnqueueBlocks
<1>11. ASSUME EnqueueRefused(w) PROVE Goal
  <2>1. worker' \in [Stages -> Threads] /\ HoldsAtItsPlace'
    BY <1>6, <1>11 DEF EnqueueRefused
  <2>2. fate' \in [Numbers -> Fates]
    BY <1>0, <1>11, FateType DEF EnqueueRefused
  <2>3. QED
    BY <1>0, <1>11, <2>1, <2>2 DEF EnqueueRefused
<1>12. ASSUME Finish(w) PROVE Goal
  <2>1. PICK p \in {"ended", "top"} : worker' = [worker EXCEPT ![w].pc = p]
    BY <1>12 DEF Finish
  <2>2. /\ Goes(w, p, worker[w].hold) /\ p \in Pcs
        /\ Fits(w, p, worker[w].hold)
    BY <1>12, <2>1, PcAssigned DEF Finish, Fits, Pcs
  <2>3. worker' \in [Stages -> Threads] /\ HoldsAtItsPlace'
    BY <1>0, <2>1, <2>2, GoerFits
  <2>4. QED
    BY <1>0, <1>12, <2>3 DEF Finish
<1>13. QED
  BY <1>1, <1>2, <1>3, <1>4, <1>5, <1>7, <1>8, <1>9, <1>10, <1>11, <1>12 DEF WorkerStep

-----------------------------------------------------------------------------
StateInv == TypeOK /\ HoldsAtItsPlace /\ LatestWhileDraining /\ OwnerKnowsWorkers

(* owner' when only one of its fields is assigned. *)
LEMMA OwnerAssigned ==
    ASSUME TypeOK
    PROVE  /\ \A c \in Calls : [owner EXCEPT !.call = c] = [call |-> c, at |-> owner.at]
           /\ \A a \in Stages : [owner EXCEPT !.at = a] = [call |-> owner.call, at |-> a]
           /\ owner.call \in Calls /\ owner.at \in Stages
           /\ owner = Idle <=> owner.call = "none" /\ owner.at = 1
<1>1. PICK x \in Calls, y \in Stages : owner = [call |-> x, at |-> y]
  BY DEF TypeOK
<1>2. \A c \in Calls : [[call |-> x, at |-> y] EXCEPT !.call = c] = [call |-> c, at |-> y]
  OBVIOUS
<1>3. \A a \in Stages : [[call |-> x, at |-> y] EXCEPT !.at = a] = [call |-> x, at |-> a]
  OBVIOUS
<1>4. owner.call = x /\ owner.at = y
  BY <1>1
<1>5. owner = Idle <=> owner.call = "none" /\ owner.at = 1
  BY <1>1 DEF Idle
<1>6. QED
  BY <1>1, <1>2, <1>3, <1>4, <1>5

OwnerIs(c, a) == owner' = [call |-> c, at |-> a]

LEMMA OwnerType ==
    ASSUME NEW c \in Calls, NEW a \in Stages, OwnerIs(c, a)
    PROVE  owner' \in [call : Calls, at : Stages] /\ owner'.call = c /\ owner'.at = a
BY DEF OwnerIs

LEMMA Constants ==
    /\ N \in Stages /\ 1 \in Stages /\ <<>> \in Seq(Frames)
    /\ Calls = {"none", "launching", "pushing", "closing", "joining", "draining"}
    /\ Fates = {"unborn", "inside", "delivered", "skipped", "dropped", "refused", "absorbed"}
    /\ \A a \in Stages : a \in Nat /\ 1 <= a /\ a <= N /\ (a < N => a + 1 \in Stages)
BY StagesAssumption DEF Stages, Calls, Fates

LEMMA StartKeepsState == StateInv /\ Start => StateInv'
<1> SUFFICES ASSUME StateInv, Start PROVE StateInv'
  OBVIOUS
<1>1. /\ OwnerIs("launching", 1) /\ owner = Idle /\ latest' = latest /\ running' = running
      /\ ~running /\ owner.call = "none"
  BY DEF Start, OwnerIs, Idle
<1>2. owner' \in [call : Calls, at : Stages] /\ owner'.call = "launching" /\ owner'.at = 1
  BY <1>1, Constants, OwnerType
<1>3. NoThread \in Threads /\ NoThread.pc = "none" /\ NoThread.hold = <<>>
  BY Constants DEF NoThread, Threads, Pcs
<1>4. worker' \in [Stages -> Threads] /\ \A w \in Stages : worker'[w] = NoThread
  BY <1>3 DEF Start
<1>5. HoldsAtItsPlace'
  BY <1>3, <1>4 DEF HoldsAtItsPlace, Fits
<1>6. LatestWhileDraining'
  BY <1>1, <1>2 DEF LatestWhileDraining, StateInv
<1>7. OwnerKnowsWorkers'
  BY <1>1, <1>2, <1>3, <1>4 DEF OwnerKnowsWorkers, Quiet
<1>8. TypeOK'
  <2>1. queue' \in [Stages -> Seq(Frames)] /\ closed' \in [Stages -> BOOLEAN]
    BY Constants DEF Start
  <2>2. fate' \in [Numbers -> Fates]
    BY Constants DEF Start, Numbers
  <2>3. session' \in Nat
    BY DEF Start, StateInv, TypeOK
  <2>s. stop' = FALSE /\ UNCHANGED <<entries, running, latest, given>>
    BY DEF Start
  <2>4. QED
    BY <1>2, <1>4, <2>1, <2>2, <2>3, <2>s DEF StateInv, TypeOK
<1>9. QED
  BY <1>5, <1>6, <1>7, <1>8 DEF StateInv

LEMMA LaunchKeepsState == StateInv /\ Launch => StateInv'
<1> SUFFICES ASSUME StateInv, Launch PROVE StateInv'
  OBVIOUS
<1> USE DEF StateInv
<1> DEFINE a == owner.at
<1>1. /\ a \in Stages /\ owner.call = "launching" /\ OwnerIs("pushing", a)
  BY Constants, OwnerAssigned DEF Launch, OwnerIs
<1>2. owner' \in [call : Calls, at : Stages] /\ owner'.call = "pushing" /\ owner'.at = a
  BY <1>1, Constants, OwnerType
<1>3. worker[a].hold = <<>> /\ worker[a].hold \in Seq(Frames) /\ "entry" \in Pcs
  BY <1>1, Constants, WorkerIsThread DEF OwnerKnowsWorkers, Quiet, HoldsAtItsPlace, Fits, Pcs
<1>4. Goes(a, "entry", worker[a].hold) /\ Fits(a, "entry", worker[a].hold)
  BY <1>1, <1>3, PcAssigned DEF Launch, Fits
<1>5. worker' \in [Stages -> Threads] /\ HoldsAtItsPlace'
  BY <1>1, <1>3, <1>4, GoerFits
<1>6. \A w \in Stages : w # a => worker'[w] = worker[w]
  BY <1>1, <1>4 DEF Goes, With, TypeOK
<1>7. UNCHANGED <<entries, running, stop, latest, queue, closed, crashed, session, given, fate>>
  BY DEF Launch, queues, histories
<1> HIDE DEF a
<1>8. OwnerKnowsWorkers'
  BY <1>1, <1>2, <1>6, <1>7, Constants DEF OwnerKnowsWorkers, Quiet, a
<1>9. LatestWhileDraining'
  BY <1>1, <1>2, <1>7 DEF LatestWhileDraining
<1>10. TypeOK'
  BY <1>2, <1>5, <1>7 DEF TypeOK
<1>11. QED
  BY <1>5, <1>8, <1>9, <1>10

(* The other steps of the owner leave the workers alone. *)
LEMMA OwnerKeepsState ==
    StateInv /\ (Push \/ Stop \/ CloseQueue \/ Join \/ PollOutput \/ PollLatest \/ PollLatestReturns)
        => StateInv'
<1> SUFFICES ASSUME StateInv,
                    Push \/ Stop \/ CloseQueue \/ Join \/ PollOutput \/ PollLatest
                         \/ PollLatestReturns
             PROVE  StateInv'
  OBVIOUS
<1> USE DEF StateInv, queues, histories
<1>0. /\ worker' = worker /\ entries' = entries /\ session' = session
      /\ HoldsAtItsPlace'
  BY DEF Push, Stop, CloseQueue, Join, PollOutput, PollLatest, PollLatestReturns, HoldsAtItsPlace
<1>q. queue[N] \in Seq(Frames) /\ (queue[N] # <<>> => Head(queue[N]) \in Frames)
  BY Constants, TailIs DEF TypeOK
<1>1. CASE Push
  <2>1. owner.call = "pushing" /\ owner.at \in Stages /\ owner.at \in Nat /\ owner.at <= N
    BY <1>1, Constants, OwnerAssigned DEF Push
  <2>2. UNCHANGED <<stop, latest, queue, closed, given, fate>>
    BY <1>1 DEF Push
  <2>3. CASE owner.at < N /\ OwnerIs("launching", owner.at + 1) /\ running' = running
    <3>1. owner'.call = "launching" /\ owner'.at = owner.at + 1
          /\ owner' \in [call : Calls, at : Stages]
      BY <2>1, <2>3, Constants, OwnerType
    <3>2. OwnerKnowsWorkers'
      BY <1>0, <2>1, <2>3, <3>1 DEF OwnerKnowsWorkers, Quiet, Stages
    <3>3. LatestWhileDraining'
      BY <2>1, <2>2, <3>1 DEF LatestWhileDraining
    <3>4. TypeOK'
      BY <1>0, <2>2, <2>3, <3>1 DEF TypeOK
    <3>5. QED
      BY <1>0, <3>2, <3>3, <3>4
  <2>4. CASE owner.at = N /\ OwnerIs("none", 1) /\ running' = TRUE
    <3>1. owner'.call = "none" /\ owner'.at = 1
          /\ owner' \in [call : Calls, at : Stages]
      BY <2>4, Constants, OwnerType
    <3>2. OwnerKnowsWorkers'
      BY <2>4, <3>1 DEF OwnerKnowsWorkers
    <3>3. LatestWhileDraining'
      BY <2>1, <2>2, <3>1 DEF LatestWhileDraining
    <3>4. TypeOK'
      BY <1>0, <2>2, <2>4, <3>1 DEF TypeOK
    <3>5. QED
      BY <1>0, <3>2, <3>3, <3>4
  <2>5. QED
    BY <1>1, <2>3, <2>4 DEF Push, OwnerIs, Idle
<1>2. CASE Stop
  <2>1. /\ OwnerIs("closing", 1) /\ owner.call = "none" /\ running /\ running' = running
        /\ stop' = TRUE /\ UNCHANGED <<latest, queue, closed, given, fate>>
    BY <1>2 DEF Stop, OwnerIs, Idle
  <2>2. owner'.call = "closing" /\ owner'.at = 1 /\ owner' \in [call : Calls, at : Stages]
    BY <2>1, Constants, OwnerType
  <2>3. OwnerKnowsWorkers' /\ LatestWhileDraining'
    BY <2>1, <2>2 DEF OwnerKnowsWorkers, LatestWhileDraining
  <2>4. TypeOK'
    BY <1>0, <2>1, <2>2 DEF TypeOK
  <2>5. QED
    BY <1>0, <2>3, <2>4
<1>3. CASE CloseQueue
  <2>1. /\ owner.call = "closing" /\ owner.at \in Stages /\ UNCHANGED <<running, stop, latest, queue, given, fate>>
        /\ owner.at \in Nat /\ owner.at <= N
    BY <1>3, Constants, OwnerAssigned DEF CloseQueue
  <2>2. closed' \in [Stages -> BOOLEAN]
    BY <1>3, <2>1 DEF CloseQueue, TypeOK
  <2>3. CASE owner.at < N
    <3>1. OwnerIs("closing", owner.at + 1)
      BY <1>3, <2>1, <2>3, Constants, OwnerAssigned DEF CloseQueue, OwnerIs
    <3>2. owner'.call = "closing" /\ owner' \in [call : Calls, at : Stages]
      BY <2>1, <2>3, <3>1, Constants, OwnerType
    <3>3. OwnerKnowsWorkers' /\ LatestWhileDraining'
      BY <2>1, <3>2 DEF OwnerKnowsWorkers, LatestWhileDraining
    <3>4. TypeOK'
      BY <1>0, <2>1, <2>2, <3>2 DEF TypeOK
    <3>5. QED
      BY <1>0, <3>3, <3>4
  <2>4. CASE ~(owner.at < N)
    <3>1. OwnerIs("joining", 1)
      BY <1>3, <2>4 DEF CloseQueue, OwnerIs
    <3>2. owner'.call = "joining" /\ owner' \in [call : Calls, at : Stages] /\ owner'.at = 1
      BY <3>1, Constants, OwnerType
    <3>3. OwnerKnowsWorkers' /\ LatestWhileDraining'
      BY <1>0, <2>1, <3>2, Constants DEF OwnerKnowsWorkers, LatestWhileDraining
    <3>4. TypeOK'
      BY <1>0, <2>1, <2>2, <3>2 DEF TypeOK
    <3>5. QED
      BY <1>0, <3>3, <3>4
  <2>5. QED
    BY <2>3, <2>4
<1>4. CASE Join
  <2>1. /\ owner.call = "joining" /\ owner.at \in Stages /\ owner.at \in Nat /\ owner.at <= N
        /\ Quiet(owner.at) /\ UNCHANGED <<stop, latest, queue, closed, given, fate>>
    BY <1>4, Constants, OwnerAssigned DEF Join, Quiet
  <2>3. CASE owner.at < N /\ owner' = [owner EXCEPT !.at = @ + 1] /\ UNCHANGED running
    <3>1. OwnerIs("joining", owner.at + 1)
      BY <2>1, <2>3, Constants, OwnerAssigned DEF OwnerIs
    <3>2. owner'.call = "joining" /\ owner' \in [call : Calls, at : Stages]
          /\ owner'.at = owner.at + 1
      BY <2>1, <2>3, <3>1, Constants, OwnerType
    <3>3. OwnerKnowsWorkers'
      <4>0. \A w \in Stages : w \in Nat
        BY Constants
      <4>1. \A w \in Stages : w < owner.at + 1 => w < owner.at \/ w = owner.at
        BY <2>1, <4>0
      <4>2. QED
        BY <1>0, <2>1, <2>3, <3>2, <4>1 DEF OwnerKnowsWorkers, Quiet
    <3>4. LatestWhileDraining'
      BY <2>1, <3>2 DEF LatestWhileDraining
    <3>5. TypeOK'
      BY <1>0, <2>1, <2>3, <3>2 DEF TypeOK
    <3>6. QED
      BY <1>0, <3>3, <3>4, <3>5
  <2>4. CASE owner.at = N /\ OwnerIs("none", 1) /\ running' = FALSE
    <3>1. owner'.call = "none" /\ owner'.at = 1 /\ owner' \in [call : Calls, at : Stages]
      BY <2>4, Constants, OwnerType
    <3>2. OwnerKnowsWorkers'
      <4>1. \A w \in Stages : w < owner.at \/ w = owner.at
        BY <2>1, <2>4, Constants
      <4>2. QED
        BY <1>0, <2>1, <2>4, <3>1, <4>1 DEF OwnerKnowsWorkers, Quiet
    <3>3. LatestWhileDraining'
      BY <2>1, <3>1 DEF LatestWhileDraining
    <3>4. TypeOK'
      BY <1>0, <2>1, <2>4, <3>1 DEF TypeOK
    <3>5. QED
      BY <1>0, <3>2, <3>3, <3>4
  <2>5. QED
    BY <1>4, <2>3, <2>4 DEF Join, OwnerIs, Idle
<1>5. CASE PollOutput
  <2>1. /\ queue' = Without(queue, N) /\ queue[N] # <<>> /\ given' = Head(queue[N])
        /\ UNCHANGED <<owner, running, stop, latest, closed>>
    BY <1>5 DEF PollOutput, TakeOutput, Without, With
  <2>2. queue' \in [Stages -> Seq(Frames)]
    BY <2>1, Constants, QueueDropped DEF TypeOK
  <2>3. fate' \in [Numbers -> Fates]
    BY <1>5, Constants, FateType DEF PollOutput
  <2>4. OwnerKnowsWorkers' /\ LatestWhileDraining'
    BY <1>0, <2>1 DEF OwnerKnowsWorkers, LatestWhileDraining, Quiet
  <2>5. TypeOK'
    BY <1>0, <1>q, <2>1, <2>2, <2>3 DEF TypeOK
  <2>6. QED
    BY <1>0, <2>4, <2>5
<1>6. CASE PollLatest
  <2>1. /\ queue' = Without(queue, N) /\ queue[N] # <<>> /\ latest' = <<Head(queue[N])>>
        /\ OwnerIs("draining", 1) /\ UNCHANGED <<running, stop, closed, given>>
        /\ owner.call \in {"none", "draining"}
    BY <1>6 DEF PollLatest, TakeOutput, Without, With, OwnerIs, Idle
  <2>2. queue' \in [Stages -> Seq(Frames)]
    BY <2>1, Constants, QueueDropped DEF TypeOK
  <2>3. fate' \in [Numbers -> Fates]
    BY <1>6, Constants, FateType DEF PollLatest, TypeOK
  <2>4. owner'.call = "draining" /\ owner'.at = 1 /\ owner' \in [call : Calls, at : Stages]
    BY <2>1, Constants, OwnerType
  <2>5. latest' \in Seq(Frames) /\ latest' # <<>> /\ Len(latest') <= 1
    BY <1>q, <2>1
  <2>6. OwnerKnowsWorkers' /\ LatestWhileDraining'
    BY <1>0, <2>1, <2>4, <2>5 DEF OwnerKnowsWorkers, LatestWhileDraining, Quiet
  <2>7. TypeOK'
    BY <1>0, <2>1, <2>2, <2>3, <2>4, <2>5 DEF TypeOK
  <2>8. QED
    BY <1>0, <2>6, <2>7
<1>7. CASE PollLatestReturns
  <2>1. /\ given' = latest[1] /\ latest' = <<>> /\ OwnerIs("none", 1)
        /\ UNCHANGED <<running, stop, closed, queue>> /\ owner.call = "draining"
    BY <1>7 DEF PollLatestReturns, OwnerIs, Idle
  <2>2. fate' \in [Numbers -> Fates]
    BY <1>7, Constants, FateType DEF PollLatestReturns
  <2>3. owner'.call = "none" /\ owner'.at = 1 /\ owner' \in [call : Calls, at : Stages]
    BY <2>1, Constants, OwnerType
  <2>4. given' \in Frames
    <3>1. latest # <<>> /\ latest \in Seq(Frames)
      BY <2>1 DEF LatestWhileDraining, TypeOK
    <3>2. QED
      BY <2>1, <3>1, TailIs
  <2>5. latest' \in Seq(Frames) /\ Len(latest') <= 1
    BY <2>1
  <2>6. OwnerKnowsWorkers' /\ LatestWhileDraining'
    BY <1>0, <2>1, <2>3, <2>5 DEF OwnerKnowsWorkers, LatestWhileDraining, Quiet
  <2>7. TypeOK'
    BY <1>0, <2>1, <2>2, <2>3, <2>4, <2>5 DEF TypeOK
  <2>8. QED
    BY <1>0, <2>6, <2>7
<1>8. QED
  BY <1>1, <1>2, <1>3, <1>4, <1>5, <1>6, <1>7

(* A worker that has not begun or has ended stays so. *)
LEMMA WorkersStayQuiet ==
    ASSUME TypeOK, NEW w \in Stages, WorkerStep(w)
    PROVE  \A v \in Stages : Quiet(v) => Quiet(v)'
<1>1. worker[w].pc \in {"entry", "top", "fetch", "process", "emit", "blocked"}
  BY DEF WorkerStep, Bind, CheckStop, Fetch, ProcessSource, ProcessInput, EnqueueWithRoom,
         EnqueueDropLatest, EnqueueDropOldest, EnqueueBlocks, EnqueueRefused, Finish
<1>2. \A v \in Stages : v # w => worker'[v] = worker[v]
  <2>1. CASE w = 1 /\ ProcessSource
    BY <2>1 DEF ProcessSource, TypeOK
  <2>2. CASE ~(w = 1 /\ ProcessSource)
    BY <2>2 DEF TypeOK, WorkerStep, Bind, CheckStop, Fetch, ProcessInput, EnqueueWithRoom,
                EnqueueDropLatest, EnqueueDropOldest, EnqueueBlocks, EnqueueRefused, Finish,
                NextOutput
  <2>3. QED
    BY <2>1, <2>2
<1>3. QED
  BY <1>1, <1>2 DEF Quiet

LEMMA StateStep == StateInv /\ [Next]_vars => StateInv'
<1> SUFFICES ASSUME StateInv, [Next]_vars PROVE StateInv'
  OBVIOUS
<1>1. ASSUME NEW w \in Stages, WorkerStep(w) PROVE StateInv'
  <2>1. /\ worker' \in [Stages -> Threads] /\ HoldsAtItsPlace'
        /\ queue' \in [Stages -> Seq(Frames)] /\ fate' \in [Numbers -> Fates]
        /\ UNCHANGED <<entries, running, stop, owner, latest, closed, session, given>>
    BY <1>1, WorkerKeepsType DEF StateInv, Untouched
  <2>2. \A v \in Stages : Quiet(v) => Quiet(v)'
    BY <1>1, WorkersStayQuiet DEF StateInv
  <2>3. OwnerKnowsWorkers' /\ LatestWhileDraining'
    BY <2>1, <2>2 DEF StateInv, OwnerKnowsWorkers, LatestWhileDraining
  <2>4. TypeOK'
    BY <2>1 DEF StateInv, TypeOK
  <2>5. QED
    BY <2>1, <2>3, <2>4 DEF StateInv
<1>2. CASE UNCHANGED vars
  BY <1>2 DEF vars, queues, histories, StateInv, TypeOK, HoldsAtItsPlace, LatestWhileDraining, OwnerKnowsWorkers, Quiet
<1>3. QED
  BY <1>1, <1>2, StartKeepsState, LaunchKeepsState, OwnerKeepsState DEF Next, OwnerStep

LEMMA InitState == Init => StateInv
<1> SUFFICES ASSUME Init PROVE StateInv
  OBVIOUS
<1>1. NoThread \in Threads /\ NoThread.pc = "none" /\ NoThread.hold = <<>>
  BY Constants DEF NoThread, Threads, Pcs
<1>2. worker \in [Stages -> Threads] /\ \A w \in Stages : worker[w] = NoThread
  BY <1>1 DEF Init
<1>3. HoldsAtItsPlace /\ OwnerKnowsWorkers
  BY <1>1, <1>2 DEF Init, HoldsAtItsPlace, Fits, OwnerKnowsWorkers, Quiet, Idle
<1>4. owner \in [call : Calls, at : Stages] /\ owner.call = "none" /\ owner.at = 1
  BY Constants DEF Init, Idle
<1>5. LatestWhileDraining
  BY <1>4 DEF Init, LatestWhileDraining
<1>6. TypeOK
  <2>1. entries \in [Stages -> [capacity : Nat \ {0}, policy : Policies]]
    BY EntriesAssumption DEF Init
  <2>2. given \in Frames /\ session \in Nat /\ latest \in Seq(Frames)
    BY DEF Init, Frames
  <2>3. queue \in [Stages -> Seq(Frames)] /\ closed \in [Stages -> BOOLEAN]
    BY Constants DEF Init
  <2>4. fate \in [Numbers -> Fates]
    BY Constants DEF Init, Numbers
  <2>5. running \in BOOLEAN /\ stop \in BOOLEAN
    BY DEF Init
  <2>6. QED
    BY <1>2, <1>4, <2>1, <2>2, <2>3, <2>4, <2>5 DEF TypeOK
<1>7. QED
  BY <1>3, <1>5, <1>6 DEF StateInv

(* Every variable has its type, the frames a worker holds fit its place in  *)
(* worker_func, poll_latest has a frame while it drains, and the owner's    *)
(* place in start() and stop() tells which workers have a thread.           *)
THEOREM StateKept == Spec => []StateInv
<1>1. QED
  BY InitState, StateStep, PTL DEF Spec

(* When stop() has returned, and before the first start(), every worker     *)
(* has exited and holds no frame, for any number of stages: nothing runs    *)
(* behind the owner's back.                                                 *)
THEOREM Quietness == Spec => []StoppedMeansQuiet
<1>1. StateInv => StoppedMeansQuiet
  BY DEF StateInv, StoppedMeansQuiet, OwnerKnowsWorkers, HoldsAtItsPlace, Fits, Quiet, Idle
<1>2. QED
  BY <1>1, StateKept, PTL

-----------------------------------------------------------------------------
LEMMA SameHold ==
    ASSUME NEW wk \in [Stages -> Threads], NEW q \in [Stages -> Seq(Frames)],
           NEW l \in Seq(Frames), NEW w \in Stages, NEW t \in Threads, t.hold = wk[w].hold
    PROVE  Line(With(wk, w, t), q, l) = Line(wk, q, l)
<1> DEFINE C == Line(wk, q, l)
           wk2 == With(wk, w, t)
<1>1. C \in [Places -> Seq(Frames)]
  BY LineType DEF Threads
<1>2. \A v \in Stages : wk2[v].hold = wk[v].hold
  BY DEF With
<1>3. Reads(C, wk2, q, l)
  BY <1>2, LineReads DEF Reads
<1> HIDE DEF C, wk2
<1>4. Line(wk2, q, l) = C
  BY <1>1, <1>3, LineIs
<1>5. QED
  BY <1>4 DEF C, wk2

LEMMA LineNow ==
    ASSUME TypeOK
    PROVE  /\ Line(worker, queue, latest) \in [Places -> Seq(Frames)]
           /\ Reads(Line(worker, queue, latest), worker, queue, latest)
           /\ worker \in [Stages -> Threads] /\ queue \in [Stages -> Seq(Frames)]
           /\ latest \in Seq(Frames) /\ session \in Nat /\ given \in Frames
           /\ fate \in [Numbers -> Fates]
<1>1. /\ worker \in [Stages -> Threads] /\ queue \in [Stages -> Seq(Frames)]
      /\ latest \in Seq(Frames) /\ session \in Nat /\ given \in Frames
      /\ fate \in [Numbers -> Fates]
  BY DEF TypeOK
<1>2. \A w \in Stages : worker[w].hold \in Seq(Frames) /\ queue[w] \in Seq(Frames)
  BY <1>1 DEF Threads
<1>3. Line(worker, queue, latest) \in [Places -> Seq(Frames)]
  BY <1>1, <1>2, LineType
<1>4. QED
  BY <1>1, <1>3, LineReads

(* A worker moves on with the frames it has. *)
LEMMA WalkKeepsFlow ==
    ASSUME TypeOK, FlowInv, NEW w \in Stages, NEW p \in Pcs, NEW e \in BOOLEAN,
           worker' = With(worker, w, Thread(p, worker[w].hold, e)),
           UNCHANGED <<queue, latest, session, fate, given>>
    PROVE  FlowInv'
<1>1. worker[w].hold \in Seq(Frames)
  BY WorkerIsThread
<1>2. Thread(p, worker[w].hold, e) \in Threads
      /\ Thread(p, worker[w].hold, e).hold = worker[w].hold
  BY <1>1, GoesKeepsType
<1>3. Line(worker', queue, latest) = Line(worker, queue, latest)
  BY <1>2, LineNow, SameHold
<1>4. QED
  BY <1>3 DEF FlowInv

(* The first frame a worker holds meets its fate. *)
LEMMA LossKeepsFlow ==
    ASSUME TypeOK, FlowInv, NEW w \in Stages, worker[w].hold # <<>>,
           NEW h \in Seq(Frames), IsRest(h, worker[w].hold), NEW e \in BOOLEAN,
           worker' = With(worker, w, Thread("emit", h, e)),
           NEW what \in Fates \ {"inside", "unborn"}, Befalls(Head(worker[w].hold), what),
           UNCHANGED <<queue, latest, session, given>>
    PROVE  FlowInv'
<1> DEFINE C == Line(worker, queue, latest)
<1>0. "emit" \in Pcs
  BY DEF Pcs
<1>1. Thread("emit", h, e) \in Threads /\ Thread("emit", h, e).hold = h
  BY <1>0, GoesKeepsType
<1>2. C \in [Places -> Seq(Frames)] /\ C[2*w - 1] = worker[w].hold /\ 2*w - 1 \in Places
  BY LineNow, KindsOfPlace DEF Reads
<1>3. Line(worker', queue, latest) = Without(C, 2*w - 1)
  <2> DEFINE t == Thread("emit", h, e)
  <2>1. t \in Threads /\ IsRest(t.hold, worker[w].hold) /\ worker' = With(worker, w, t)
    BY <1>1
  <2>2. /\ worker \in [Stages -> Threads] /\ queue \in [Stages -> Seq(Frames)]
        /\ latest \in Seq(Frames)
    BY LineNow
  <2> HIDE DEF t
  <2>3. Line(With(worker, w, t), queue, latest) = Without(C, 2*w - 1)
    BY <2>1, <2>2, HoldDropped, ZenonT(60)
  <2>4. QED
    BY <2>1, <2>3
<1>4. Flow(C, session, fate, given)
  BY DEF FlowInv
<1> HIDE DEF C
<1>5. Flow(Without(C, 2*w - 1), session, With(fate, Head(C[2*w - 1]).no, what), given)
  BY <1>2, <1>4, LineNow, RemoveKeepsFlow
<1>6. fate' = With(fate, Head(C[2*w - 1]).no, what)
  BY <1>2 DEF Befalls, With
<1>7. QED
  BY <1>3, <1>5, <1>6 DEF FlowInv

(* The first frame a worker holds goes to the end of its output queue. *)
LEMMA EnqueueKeepsFlow ==
    ASSUME TypeOK, FlowInv, NEW w \in Stages, worker[w].hold # <<>>,
           NEW h \in Seq(Frames), IsRest(h, worker[w].hold), NEW e \in BOOLEAN,
           worker' = With(worker, w, Thread("emit", h, e)),
           queue' = Longer(queue, w, Head(worker[w].hold)),
           UNCHANGED <<latest, session, fate, given>>
    PROVE  FlowInv'
<1> DEFINE C == Line(worker, queue, latest)
           t == Thread("emit", h, e)
<1>1. t \in Threads /\ IsRest(t.hold, worker[w].hold) /\ worker' = With(worker, w, t)
  <2>1. "emit" \in Pcs
    BY DEF Pcs
  <2>2. QED
    BY <2>1, GoesKeepsType
<1>2. /\ C \in [Places -> Seq(Frames)] /\ C[2*w - 1] = worker[w].hold
      /\ 2*w - 1 \in Places /\ (2*w - 1) + 1 \in Places
  BY LineNow, KindsOfPlace, StagesAssumption DEF Reads, Stages
<1>3. /\ worker \in [Stages -> Threads] /\ queue \in [Stages -> Seq(Frames)]
      /\ latest \in Seq(Frames)
  BY LineNow
<1>4. Flow(C, session, fate, given)
  BY DEF FlowInv
<1> HIDE DEF C, t
<1>5. Line(worker', queue', latest) = Moved(C, 2*w - 1)
  <2>1. Line(With(worker, w, t), Longer(queue, w, Head(worker[w].hold)), latest)
           = Moved(Line(worker, queue, latest), 2*w - 1)
    BY <1>1, <1>3, HoldEnqueued
  <2>2. QED
    BY <1>1, <2>1 DEF C
<1>6. Flow(Moved(C, 2*w - 1), session, fate, given)
  BY <1>2, <1>4, LineNow, MoveKeepsFlow
<1>7. QED
  BY <1>5, <1>6 DEF FlowInv

(* The first frame of a queue is dropped or polled. *)
LEMMA QueueLossKeepsFlow ==
    ASSUME TypeOK, FlowInv, NEW w \in Stages, queue[w] # <<>>,
           NEW what \in Fates \ {"inside", "unborn"}, Befalls(Head(queue[w]), what)
    PROVE  /\ Without(queue, w) \in [Stages -> Seq(Frames)]
           /\ fate' \in [Numbers -> Fates]
           /\ Flow(Line(worker, Without(queue, w), latest), session, fate', given)
           /\ w = N /\ latest = <<>>
                => Flow(Line(worker, Without(queue, w), latest), session, fate', Head(queue[w]))
<1> DEFINE C == Line(worker, queue, latest)
<1>1. /\ C \in [Places -> Seq(Frames)] /\ C[2*w] = queue[w] /\ 2*w \in Places
      /\ C[2*N + 1] = latest
  BY LineNow, KindsOfPlace DEF Reads
<1>2. /\ Without(queue, w) \in [Stages -> Seq(Frames)]
      /\ Line(worker, Without(queue, w), latest) = Without(C, 2*w)
  <2>1. /\ worker \in [Stages -> Threads] /\ queue \in [Stages -> Seq(Frames)]
        /\ latest \in Seq(Frames)
    BY LineNow
  <2> HIDE DEF C
  <2>2. Without(queue, w) \in [Stages -> Seq(Frames)]
    BY <2>1, QueueDropped
  <2>3. Line(worker, Without(queue, w), latest) = Without(Line(worker, queue, latest), 2*w)
    BY <2>1, QueueDropped, ZenonT(60)
  <2>4. QED
    BY <2>2, <2>3 DEF C
<1>3. Flow(C, session, fate, given)
  BY DEF FlowInv
<1>a. w = N /\ latest = <<>> => \A k \in Places : k > 2*w => C[k] = <<>>
  BY <1>1, StagesAssumption DEF Places
<1> HIDE DEF C
<1>4. /\ Flow(Without(C, 2*w), session, With(fate, Head(C[2*w]).no, what), given)
      /\ (\A k \in Places : k > 2*w => C[k] = <<>>)
            => Flow(Without(C, 2*w), session, With(fate, Head(C[2*w]).no, what), Head(C[2*w]))
  BY <1>1, <1>3, LineNow, RemoveKeepsFlow
<1>5. fate' = With(fate, Head(C[2*w]).no, what)
  BY <1>1 DEF Befalls, With
<1>6. fate' \in [Numbers -> Fates]
  BY FateType
<1>7. QED
  BY <1>1, <1>2, <1>4, <1>5, <1>6, <1>a

LEMMA FetchKeepsFlow ==
    ASSUME TypeOK, FlowInv, NEW w \in Stages, NEW v \in Stages, w = v + 1,
           worker[w].hold = <<>>, queue[v] # <<>>, NEW e \in BOOLEAN,
           NEW h, IsFirst(h, queue[v]), worker' = With(worker, w, Thread("process", h, e)),
           queue' = Without(queue, v),
           UNCHANGED <<latest, session, fate, given>>
    PROVE  FlowInv'
<1> DEFINE C == Line(worker, queue, latest)
           t == Thread("process", h, e)
<1>1. t \in Threads /\ IsFirst(t.hold, queue[v]) /\ worker' = With(worker, w, t)
  <2>1. "process" \in Pcs
    BY DEF Pcs
  <2>2. queue[v] \in Seq(Frames)
    BY WorkerIsThread
  <2>3. h \in Seq(Frames)
    BY <2>2, TailIs DEF IsFirst
  <2>4. QED
    BY <2>1, <2>3, GoesKeepsType
<1>2. /\ C \in [Places -> Seq(Frames)] /\ C[2*v] = queue[v]
      /\ 2*v \in Places /\ 2*v + 1 \in Places
  <2>1. C \in [Places -> Seq(Frames)] /\ C[2*v] = queue[v] /\ 2*v \in Places
    BY LineNow, KindsOfPlace DEF Reads
  <2>2. 2*v + 1 \in Places
    BY StagesAssumption DEF Stages, Places
  <2>3. QED
    BY <2>1, <2>2
<1>3. /\ worker \in [Stages -> Threads] /\ queue \in [Stages -> Seq(Frames)]
      /\ latest \in Seq(Frames)
  BY LineNow
<1>4. Flow(C, session, fate, given)
  BY DEF FlowInv
<1> HIDE DEF C, t
<1>5. Line(worker', queue', latest) = Moved(C, 2*v)
  <2>0. /\ t \in Threads /\ IsFirst(t.hold, queue[v]) /\ worker[w].hold = <<>>
        /\ queue[v] # <<>> /\ After(v, w)
    BY <1>1 DEF After
  <2>1. Line(With(worker, w, t), Without(queue, v), latest)
           = Moved(Line(worker, queue, latest), 2*v)
    BY ONLY <1>3, <2>0, HoldFetched, ZenonT(60)
  <2>2. QED
    BY <1>1, <2>1 DEF C
<1>6. Flow(Moved(C, 2*v), session, fate, given)
  BY <1>2, <1>4, LineNow, MoveKeepsFlow
<1>7. QED
  BY <1>5, <1>6 DEF FlowInv

LEMMA SourceKeepsFlow ==
    ASSUME TypeOK, FlowInv, NEW k \in Nat, Produced + k <= MaxFrames,
           NEW w \in Stages, w = 1, worker[w].hold = <<>>, NEW e \in BOOLEAN,
           worker' = With(worker, w, Thread("emit", News(session, Produced, k), e)),
           fate' = [n \in Numbers |-> IF n \in Produced+1..Produced+k THEN "inside" ELSE fate[n]],
           UNCHANGED <<queue, latest, session, given>>
    PROVE  FlowInv'
<1> DEFINE C == Line(worker, queue, latest)
           h == News(session, Produced, k)
           t == Thread("emit", h, e)
<1>1. h \in Seq(Frames) /\ t \in Threads /\ t.hold = h /\ worker' = With(worker, w, t)
  <2>1. "emit" \in Pcs
    BY DEF Pcs
  <2>2. h \in Seq(Frames)
    BY LineNow, ProducedType, NewsIs
  <2>3. QED
    BY <2>1, <2>2, Constants, GoesKeepsType
<1>2. C \in [Places -> Seq(Frames)] /\ C[1] = <<>> /\ 2*w - 1 = 1
  <2>1. C \in [Places -> Seq(Frames)] /\ C[2*w - 1] = worker[w].hold
    BY LineNow DEF Reads
  <2>2. QED
    BY <2>1
<1>3. /\ worker \in [Stages -> Threads] /\ queue \in [Stages -> Seq(Frames)]
      /\ latest \in Seq(Frames)
  BY LineNow
<1>4. Flow(C, session, fate, given)
  BY DEF FlowInv
<1>5. PICK q \in 0..MaxFrames : Born(fate, q) /\ (given.session = session => given.no <= q)
  BY <1>4 DEF Flow, Numbered
<1>6. Produced = q
  BY <1>5, BornAreCounted DEF Produced, Numbers
<1> HIDE DEF C, t, h
<1>7. Line(worker', queue, latest) = With(C, 1, h)
  <2>1. Line(With(worker, w, t), queue, latest)
           = With(Line(worker, queue, latest), 2*w - 1, t.hold)
    BY <1>1, <1>3, SetHold
  <2>2. QED
    BY <1>1, <1>2, <2>1 DEF C
<1>8. Flow(With(C, 1, News(session, q, k)), session,
           [n \in Numbers |-> IF n \in q+1..q+k THEN "inside" ELSE fate[n]], given)
  BY <1>2, <1>4, <1>5, <1>6, LineNow, ProduceKeepsFlow
<1>9. QED
  BY <1>6, <1>7, <1>8 DEF FlowInv, h

(* A worker's step is one of the changes above. *)
LEMMA WorkerKeepsFlow ==
    ASSUME StateInv, FlowInv, NEW w \in Stages, WorkerStep(w)
    PROVE  FlowInv'
<1> USE DEF queues, histories
<1>0. /\ TypeOK /\ Fits(w, worker[w].pc, worker[w].hold) /\ UNCHANGED <<latest, session, given>>
      /\ worker[w].hold \in Seq(Frames) /\ worker[w].ends \in BOOLEAN
      /\ Fates = {"unborn", "inside", "delivered", "skipped", "dropped", "refused", "absorbed"}
      /\ Pcs = {"none", "entry", "top", "fetch", "process", "emit", "blocked", "ended"}
  BY WorkerKeepsType, WorkerIsThread DEF StateInv, HoldsAtItsPlace, Untouched, Fates, Pcs
<1>w. ASSUME NEW p \in Pcs, worker' = [worker EXCEPT ![w].pc = p], UNCHANGED <<queue, fate>>
      PROVE  FlowInv'
  <2>1. worker' = With(worker, w, Thread(p, worker[w].hold, worker[w].ends))
    BY <1>0, <1>w, PcAssigned DEF Goes
  <2>2. QED
    BY <1>0, <1>w, <2>1, WalkKeepsFlow
<1>l. ASSUME worker[w].hold # <<>>, NextOutput(w), NEW what \in {"dropped", "refused"},
             Befalls(Head(worker[w].hold), what), UNCHANGED queue
      PROVE  FlowInv'
  <2>1. PICK h \in Seq(Frames) : h = Tail(worker[w].hold) /\ Goes(w, "emit", h)
    BY <1>0, <1>l, OutputShrinks
  <2>2. IsRest(h, worker[w].hold) /\ worker' = With(worker, w, Thread("emit", h, worker[w].ends))
    BY <2>1 DEF IsRest, Goes
  <2>3. what \in Fates \ {"inside", "unborn"}
    BY <1>0
  <2>4. QED
    BY <1>0, <1>l, <2>2, <2>3, LossKeepsFlow
<1>1. ASSUME Bind(w) PROVE FlowInv'
  <2>1. CASE worker' = worker
    BY <1>1, <2>1 DEF Bind, FlowInv
  <2>2. CASE worker' # worker
    BY <1>0, <1>1, <1>w, <2>2 DEF Bind
  <2>3. QED
    BY <2>1, <2>2
<1>2. ASSUME CheckStop(w) PROVE FlowInv'
  <2>1. PICK p \in {"ended", "fetch"} : worker' = [worker EXCEPT ![w].pc = p]
    BY <1>2 DEF CheckStop
  <2>2. p \in Pcs /\ UNCHANGED <<queue, fate>>
    BY <1>0, <1>2 DEF CheckStop
  <2>3. QED
    BY <1>w, <2>1, <2>2
<1>3. ASSUME Fetch(w) PROVE FlowInv'
  <2>1. CASE worker' = [worker EXCEPT ![w].pc = "process"] /\ UNCHANGED queue
    BY <1>0, <1>3, <1>w, <2>1 DEF Fetch
  <2>2. CASE worker' = [worker EXCEPT ![w].pc = "top"] /\ UNCHANGED queue
    BY <1>0, <1>3, <1>w, <2>2 DEF Fetch
  <2>3. CASE /\ w > 1 /\ queue[w-1] # <<>>
             /\ worker' = [worker EXCEPT ![w].pc = "process", ![w].hold = <<Head(queue[w-1])>>]
             /\ queue' = [queue EXCEPT ![w-1] = Tail(@)]
    <3>1. PICK v \in Stages : v = w - 1 /\ w = v + 1
      BY <2>3, StagesAssumption DEF Stages
    <3>2. worker[w].pc = "fetch" /\ UNCHANGED fate
      BY <1>3 DEF Fetch
    <3>3. worker[w].hold = <<>> /\ queue[v] # <<>>
      BY <1>0, <2>3, <3>1, <3>2 DEF Fits
    <3>4. queue' = Without(queue, v)
      BY <2>3, <3>1 DEF Without, With
    <3> DEFINE h == <<Head(queue[v])>>
    <3>5. worker' = [worker EXCEPT ![w].pc = "process", ![w].hold = h] /\ IsFirst(h, queue[v])
      BY <2>3, <3>1 DEF IsFirst
    <3> HIDE DEF h
    <3>6. worker' = With(worker, w, Thread("process", h, worker[w].ends))
      BY <1>0, <3>5, PcAndHoldAssigned DEF Goes
    <3>7. QED
      BY <1>0, <3>1, <3>2, <3>3, <3>4, <3>5, <3>6, FetchKeepsFlow
  <2>4. QED
    BY <1>3, <2>1, <2>2, <2>3 DEF Fetch
<1>4. ASSUME w = 1, ProcessSource PROVE FlowInv'
  <2>1. PICK k \in 0..MaxBatch, ends \in BOOLEAN :
          /\ Produced + k <= MaxFrames
          /\ worker' = [worker EXCEPT ![1] =
                 [pc |-> "emit", ends |-> ends,
                  hold |-> [i \in 1..k |-> [session |-> session, no |-> Produced + i]]]]
          /\ fate' = [n \in 1..MaxFrames |->
                         IF n \in Produced+1..Produced+k THEN "inside" ELSE fate[n]]
    BY <1>4 DEF ProcessSource
  <2>2. k \in Nat /\ worker[1].pc = "process" /\ UNCHANGED queue
    BY <1>4, BoundsAssumption DEF ProcessSource
  <2>3. worker[w].hold = <<>>
    BY <1>0, <1>4, <2>2 DEF Fits
  <2>4. worker' = With(worker, w, Thread("emit", News(session, Produced, k), ends))
    BY <1>4, <2>1 DEF With, Thread, News
  <2>5. fate' = [n \in Numbers |-> IF n \in Produced+1..Produced+k THEN "inside" ELSE fate[n]]
    BY <2>1 DEF Numbers
  <2>6. Produced + k <= MaxFrames
    BY <2>1
  <2>7. QED
    BY <1>0, <1>4, <2>2, <2>3, <2>4, <2>5, <2>6, SourceKeepsFlow
<1>5. ASSUME ProcessInput(w) PROVE FlowInv'
  <2>0. w > 1 /\ worker[w].pc = "process" /\ UNCHANGED queue
    BY <1>5 DEF ProcessInput
  <2>1. CASE worker' = [worker EXCEPT ![w].pc = "emit", ![w].ends = FALSE] /\ UNCHANGED fate
    <3>1. [[worker[w] EXCEPT !.pc = "emit"] EXCEPT !.ends = FALSE]
             = Thread("emit", worker[w].hold, FALSE)
      <4>1. PICK a \in Pcs, b \in Seq(Frames), c \in BOOLEAN :
               worker[w] = [pc |-> a, hold |-> b, ends |-> c]
        BY <1>0 DEF Threads, TypeOK
      <4>2. [worker[w] EXCEPT !.pc = "emit"] = [pc |-> "emit", hold |-> b, ends |-> c]
        BY <4>1
      <4>3. \A e : [[pc |-> "emit", hold |-> b, ends |-> c] EXCEPT !.ends = e]
                      = [pc |-> "emit", hold |-> b, ends |-> e]
        OBVIOUS
      <4>4. QED
        BY <4>1, <4>2, <4>3 DEF Thread
    <3>2. worker' = [worker EXCEPT ![w] = [[worker[w] EXCEPT !.pc = "emit"] EXCEPT !.ends = FALSE]]
      BY <2>1
    <3>3. worker' = With(worker, w, Thread("emit", worker[w].hold, FALSE))
      BY <3>1, <3>2 DEF With
    <3>4. "emit" \in Pcs
      BY <1>0
    <3>5. QED
      BY <1>0, <2>0, <2>1, <3>3, <3>4, WalkKeepsFlow
  <2>2. CASE /\ \E ends \in BOOLEAN :
                   worker' = [worker EXCEPT ![w] = [pc |-> "emit", hold |-> <<>>, ends |-> ends]]
             /\ Befalls(Head(worker[w].hold), "absorbed")
    <3>a. PICK ends \in BOOLEAN :
             worker' = [worker EXCEPT ![w] = [pc |-> "emit", hold |-> <<>>, ends |-> ends]]
      BY ONLY <2>2
    <3>1. worker' = With(worker, w, Thread("emit", <<>>, ends))
      BY ONLY <3>a DEF With, Thread
    <3>b. w # 1
      BY ONLY <1>0, <2>0 DEF Stages
    <3>2. Len(worker[w].hold) = 1
      <4>1. Fits(w, worker[w].pc, worker[w].hold)
        BY <1>0
      <4>2. QED
        BY ONLY <2>0, <3>b, <4>1 DEF Fits
    <3>3. worker[w].hold # <<>> /\ Tail(worker[w].hold) = <<>>
      <4>1. ASSUME NEW c \in Seq(Frames), Len(c) = 1 PROVE c # <<>> /\ Tail(c) = <<>>
        <5>0. Len(<<>>) = 0
          OBVIOUS
        <5>1. c # <<>>
          <6>1. c = <<>> => Len(c) = 0
            BY ONLY <5>0
          <6>2. QED
            BY ONLY <4>1, <6>1
        <5>2. Tail(c) \in Seq(Frames) /\ Len(Tail(c)) = 0
          BY ONLY <4>1, <5>1, TailIs
        <5>3. ASSUME NEW t \in Seq(Frames), Len(t) = 0 PROVE t = <<>>
          BY ONLY <5>3
        <5>4. Tail(c) = <<>>
          BY ONLY <5>2, <5>3, Zenon
        <5>5. QED
          BY ONLY <5>1, <5>4
      <4>2. worker[w].hold \in Seq(Frames)
        BY <1>0
      <4>3. QED
        BY ONLY <3>2, <4>1, <4>2
    <3> DEFINE h == <<>>
    <3>4. IsRest(h, worker[w].hold) /\ h \in Seq(Frames)
      BY <3>3 DEF IsRest
    <3>5. worker' = With(worker, w, Thread("emit", h, ends))
      BY <3>1
    <3>6. "absorbed" \in Fates \ {"inside", "unborn"}
      BY <1>0
    <3> HIDE DEF h
    <3>7. QED
      BY <1>0, <2>0, <2>2, <3>3, <3>4, <3>5, <3>6, LossKeepsFlow
  <2>3. QED
    BY <1>5, <2>1, <2>2 DEF ProcessInput
<1>6. ASSUME EnqueueWithRoom(w) PROVE FlowInv'
  <2>1. worker[w].hold # <<>> /\ NextOutput(w) /\ UNCHANGED fate
    BY <1>6 DEF EnqueueWithRoom
  <2>2. PICK h \in Seq(Frames) : h = Tail(worker[w].hold) /\ Goes(w, "emit", h)
    BY <1>0, <2>1, OutputShrinks
  <2>3. IsRest(h, worker[w].hold) /\ worker' = With(worker, w, Thread("emit", h, worker[w].ends))
    BY <2>2 DEF IsRest, Goes
  <2>4. queue' = Longer(queue, w, Head(worker[w].hold))
    BY <1>6 DEF EnqueueWithRoom, Longer, With
  <2>5. QED
    BY <1>0, <2>1, <2>3, <2>4, EnqueueKeepsFlow
<1>7. ASSUME EnqueueDropLatest(w) PROVE FlowInv'
  BY <1>l, <1>7 DEF EnqueueDropLatest
<1>8. ASSUME EnqueueRefused(w) PROVE FlowInv'
  BY <1>l, <1>8 DEF EnqueueRefused
<1>9. ASSUME EnqueueBlocks(w) PROVE FlowInv'
  BY <1>0, <1>w, <1>9 DEF EnqueueBlocks
<1>10. ASSUME Finish(w) PROVE FlowInv'
  <2>1. PICK p \in {"ended", "top"} : worker' = [worker EXCEPT ![w].pc = p]
    BY <1>10 DEF Finish
  <2>2. p \in Pcs /\ UNCHANGED <<queue, fate>>
    BY <1>0, <1>10 DEF Finish
  <2>3. QED
    BY <1>w, <2>1, <2>2

<1>11. ASSUME EnqueueDropOldest(w) PROVE FlowInv'
  <2>1. worker[w].hold # <<>> /\ NextOutput(w) /\ Befalls(Head(queue[w]), "dropped")
    BY <1>11 DEF EnqueueDropOldest
  <2>2. PICK h \in Seq(Frames) : h = Tail(worker[w].hold) /\ Goes(w, "emit", h)
    BY <1>0, <2>1, OutputShrinks
  <2> DEFINE t == Thread("emit", h, worker[w].ends)
             q == Without(queue, w)
             C == Line(worker, q, latest)
  <2>3. IsRest(h, worker[w].hold) /\ worker' = With(worker, w, t)
    BY <2>2 DEF IsRest, Goes
  <2>4. t \in Threads /\ t.hold = h
    <3>1. "emit" \in Pcs
      BY <1>0
    <3>2. QED
      BY <1>0, <2>3, <3>1, GoesKeepsType
  <2>5. queue[w] # <<>>
    <3>1. entries[IF w < N THEN w + 1 ELSE w].capacity \in Nat \ {0}
      BY <1>0, StagesAssumption DEF TypeOK, Stages
    <3>2. QED
      BY <1>11, <3>1 DEF EnqueueDropOldest, Full, EntryOf
  <2>6. "dropped" \in Fates \ {"inside", "unborn"}
    BY <1>0
  <2>7. /\ q \in [Stages -> Seq(Frames)] /\ fate' \in [Numbers -> Fates]
        /\ Flow(C, session, fate', given)
    BY <1>0, <2>1, <2>5, <2>6, QueueLossKeepsFlow
  <2>8. /\ worker \in [Stages -> Threads] /\ latest \in Seq(Frames)
        /\ queue \in [Stages -> Seq(Frames)] /\ session \in Nat /\ given \in Frames
    BY <1>0, LineNow
  <2>9. queue' = Longer(q, w, Head(worker[w].hold))
    <3>1. q = [queue EXCEPT ![w] = Tail(queue[w])] /\ q[w] = Tail(queue[w])
      BY <2>8 DEF Without, With
    <3>2. queue' = [queue EXCEPT ![w] = Append(Tail(queue[w]), Head(worker[w].hold))]
      BY <1>11 DEF EnqueueDropOldest
    <3> HIDE DEF q
    <3>3. Longer(q, w, Head(worker[w].hold))
             = [queue EXCEPT ![w] = Append(q[w], Head(worker[w].hold))]
      BY <2>8, <3>1 DEF Longer, With
    <3>4. QED
      BY <3>1, <3>2, <3>3
  <2>10. /\ C \in [Places -> Seq(Frames)] /\ C[2*w - 1] = worker[w].hold
    <3>1. \A v \in Stages : worker[v].hold \in Seq(Frames) /\ q[v] \in Seq(Frames)
      BY <2>7, <2>8 DEF Threads
    <3> HIDE DEF q
    <3>2. C \in [Places -> Seq(Frames)]
      BY <2>8, <3>1, LineType
    <3>3. Reads(C, worker, q, latest)
      BY LineReads
    <3>4. QED
      BY <3>2, <3>3 DEF Reads
  <2>11. 2*w - 1 \in Places /\ (2*w - 1) + 1 \in Places
    BY KindsOfPlace, StagesAssumption DEF Stages
  <2> HIDE DEF q, t
  <2>12. IsRest(t.hold, worker[w].hold)
    BY <2>3, <2>4
  <2>13. Line(With(worker, w, t), Longer(q, w, Head(worker[w].hold)), latest)
            = Moved(Line(worker, q, latest), 2*w - 1)
    BY <2>1, <2>4, <2>7, <2>8, <2>12, HoldEnqueued, ZenonT(30)
  <2> HIDE DEF C
  <2>14. Flow(Moved(C, 2*w - 1), session, fate', given)
    BY <2>1, <2>7, <2>8, <2>10, <2>11, MoveKeepsFlow
  <2>15. Line(worker', queue', latest) = Moved(C, 2*w - 1)
    BY <2>3, <2>9, <2>13 DEF C
  <2>16. QED
    BY <1>0, <2>14, <2>15 DEF FlowInv
<1>12. QED
  BY <1>1, <1>2, <1>3, <1>4, <1>5, <1>6, <1>7, <1>8, <1>9, <1>10, <1>11 DEF WorkerStep

-----------------------------------------------------------------------------
LEMMA EmptyFlow ==
    ASSUME NEW C, NEW s \in Nat, NEW g \in Frames, NEW F,
           \A k \in Places : C[k] = <<>>,
           \A n \in Numbers : F[n] = "unborn",
           g.session < s \/ (g.session = s /\ g.no = 0)
    PROVE  Flow(C, s, F, g)
<1>0. /\ g.session \in Nat /\ g.no \in Nat /\ Len(<<>>) = 0
      /\ \A k \in Places : 1..Len(C[k]) = {}
  BY DEF Frames
<1>1. Ordered(C) /\ Accounted(C, s, F) /\ GivenBefore(C, s, g)
  BY <1>0 DEF Ordered, Accounted, GivenBefore
<1>2. Found(C, F)
  BY DEF Found
<1>3. Born(F, 0)
  BY DEF Born, Numbers
<1>4. Numbered(F, s, g)
  BY <1>0, <1>3, BoundsAssumption DEF Numbered
<1>5. QED
  BY <1>1, <1>2, <1>4 DEF Flow

LEMMA OwnerKeepsFlow ==
    ASSUME StateInv, FlowInv,
           Start \/ Stop \/ OwnerStep \/ PollOutput \/ PollLatest \/ PollLatestReturns
    PROVE  FlowInv'
<1> USE DEF queues, histories
<1>0. /\ TypeOK /\ N \in Stages
      /\ Fates = {"unborn", "inside", "delivered", "skipped", "dropped", "refused", "absorbed"}
      /\ worker \in [Stages -> Threads] /\ queue \in [Stages -> Seq(Frames)]
      /\ latest \in Seq(Frames) /\ session \in Nat /\ given \in Frames
      /\ fate \in [Numbers -> Fates]
  BY LineNow, Constants DEF StateInv
<1>1. CASE Start
  <2>1. /\ queue' = [w \in Stages |-> <<>>] /\ worker' = [w \in Stages |-> NoThread]
        /\ latest' = latest /\ session' = session + 1 /\ given' = given
        /\ fate' = [n \in 1..MaxFrames |-> "unborn"] /\ owner.call = "none"
    BY <1>1 DEF Start, Idle
  <2>2. latest = <<>>
    BY <2>1 DEF StateInv, LatestWhileDraining
  <2> DEFINE C == Line(worker', queue', latest')
  <2>3. Reads(C, worker', queue', latest')
    BY LineReads
  <2>4. \A k \in Places : C[k] = <<>>
    <3>1. NoThread.hold = <<>>
      BY DEF NoThread
    <3>2. \A w \in Stages : worker'[w].hold = <<>> /\ queue'[w] = <<>>
      BY <2>1, <3>1
    <3> HIDE DEF C
    <3>3. \A w \in Stages : C[2*w - 1] = <<>> /\ C[2*w] = <<>>
      BY <2>3, <3>2 DEF Reads
    <3>4. C[2*N + 1] = <<>>
      BY <2>1, <2>2, <2>3 DEF Reads
    <3>5. QED
      BY <3>3, <3>4, KindsOfPlace
  <2>5. given.session < session + 1
    BY <1>0 DEF FlowInv, Flow, Numbered, Frames
  <2>6. \A n \in Numbers : fate'[n] = "unborn"
    BY <2>1 DEF Numbers
  <2> HIDE DEF C
  <2>7. session' \in Nat /\ given' \in Frames /\ given'.session < session'
    BY <1>0, <2>1, <2>5
  <2>8. Flow(C, session', fate', given')
    BY <2>4, <2>6, <2>7, EmptyFlow
  <2>9. QED
    BY <2>8 DEF FlowInv, C
<1>2. CASE Stop \/ Push \/ CloseQueue \/ Join
  BY <1>2 DEF Stop, Push, CloseQueue, Join, FlowInv
<1>3. CASE Launch
  <2>1. /\ owner.call = "launching" /\ owner.at \in Stages
        /\ worker' = [worker EXCEPT ![owner.at].pc = "entry"]
        /\ UNCHANGED <<queue, latest, session, fate, given>>
    BY <1>0, <1>3, OwnerAssigned DEF Launch
  <2>2. PICK a \in Stages : a = owner.at
    BY <2>1
  <2>3. worker' = With(worker, a, Thread("entry", worker[a].hold, worker[a].ends))
    BY <1>0, <2>1, <2>2, PcAssigned DEF Goes
  <2>4. "entry" \in Pcs /\ worker[a].ends \in BOOLEAN
    BY <1>0, WorkerIsThread DEF Pcs
  <2>5. QED
    BY <1>0, <2>1, <2>3, <2>4, WalkKeepsFlow
<1>4. CASE PollOutput
  <2>1. /\ queue[N] # <<>> /\ queue' = Without(queue, N) /\ given' = Head(queue[N])
        /\ Befalls(Head(queue[N]), "delivered") /\ UNCHANGED <<worker, latest, session>>
        /\ owner.call = "none"
    BY <1>4 DEF PollOutput, TakeOutput, Without, With, Idle
  <2>2. latest = <<>>
    BY <2>1 DEF StateInv, LatestWhileDraining
  <2>3. "delivered" \in Fates \ {"inside", "unborn"}
    BY <1>0
  <2>4. Flow(Line(worker, Without(queue, N), latest), session, fate', Head(queue[N]))
    BY <1>0, <2>1, <2>2, <2>3, QueueLossKeepsFlow
  <2>5. QED
    BY <2>1, <2>4 DEF FlowInv
<1>5. ASSUME latest # <<>>, NEW what \in {"skipped", "delivered"}, Befalls(latest[1], what)
      PROVE  /\ fate' \in [Numbers -> Fates] /\ latest[1] \in Frames
             /\ Flow(Line(worker, queue, <<>>), session, fate', given)
             /\ Flow(Line(worker, queue, <<>>), session, fate', latest[1])
  <2> DEFINE C == Line(worker, queue, latest)
             p == 2*N + 1
  <2>1. Len(latest) <= 1
    BY DEF StateInv, LatestWhileDraining
  <2>2. Line(worker, queue, <<>>) = Without(C, p)
    BY <1>0, <1>5, <2>1, LatestDropped
  <2>3. C \in [Places -> Seq(Frames)] /\ C[p] = latest /\ p \in Places
    BY <1>0, LineNow, KindsOfPlace DEF Reads
  <2>4. Flow(C, session, fate, given)
    BY DEF FlowInv
  <2>5. \A k \in Places : k > p => C[k] = <<>>
    BY StagesAssumption DEF Places
  <2>6. what \in Fates \ {"inside", "unborn"}
    BY <1>0
  <2> HIDE DEF C, p
  <2>7. /\ Flow(Without(C, p), session, With(fate, Head(C[p]).no, what), given)
        /\ Flow(Without(C, p), session, With(fate, Head(C[p]).no, what), Head(C[p]))
    BY <1>0, <1>5, <2>3, <2>4, <2>5, <2>6, RemoveKeepsFlow
  <2>8. Head(C[p]) = latest[1] /\ latest[1] \in Frames
    BY <1>0, <1>5, <2>3, TailIs
  <2>9. fate' = With(fate, Head(C[p]).no, what)
    BY <1>5, <2>8 DEF Befalls, With
  <2>10. fate' \in [Numbers -> Fates]
    BY <1>0, <1>5, <2>6, FateType
  <2>11. QED
    BY <2>2, <2>7, <2>8, <2>9, <2>10
<1>6. CASE PollLatest
  <2>1. /\ queue[N] # <<>> /\ queue' = Without(queue, N) /\ latest' = <<Head(queue[N])>>
        /\ IF latest = <<>> THEN UNCHANGED fate ELSE Befalls(latest[1], "skipped")
        /\ UNCHANGED <<worker, session, given>>
    BY <1>6 DEF PollLatest, TakeOutput, Without, With
  <2> DEFINE C == Line(worker, queue, <<>>)
             p == 2*N
  <2>2. Flow(C, session, fate', given) /\ fate' \in [Numbers -> Fates]
    <3>1. CASE latest = <<>>
      BY <1>0, <2>1, <3>1 DEF FlowInv
    <3>2. CASE latest # <<>>
      BY <1>5, <2>1, <3>2
    <3>3. QED
      BY <3>1, <3>2
  <2>3. Line(worker, Without(queue, N), <<Head(queue[N])>>) = Moved(C, p)
    BY <1>0, <2>1, LatestFetched
  <2>4. C \in [Places -> Seq(Frames)] /\ C[p] = queue[N] /\ p \in Places /\ p + 1 \in Places
    <3>1. \A w \in Stages : worker[w].hold \in Seq(Frames) /\ queue[w] \in Seq(Frames)
      BY <1>0 DEF Threads
    <3>2. <<>> \in Seq(Frames)
      OBVIOUS
    <3>3. C \in [Places -> Seq(Frames)]
      BY <3>1, <3>2, LineType
    <3>4. C[p] = queue[N]
      BY <1>0, LineReads DEF Reads
    <3>5. QED
      BY <1>0, <3>3, <3>4, KindsOfPlace
  <2> HIDE DEF C, p
  <2>5. Flow(Moved(C, p), session, fate', given)
    BY <1>0, <2>1, <2>2, <2>4, MoveKeepsFlow
  <2>6. QED
    BY <2>1, <2>3, <2>5 DEF FlowInv
<1>7. CASE PollLatestReturns
  <2>1. /\ owner.call = "draining" /\ latest' = <<>> /\ given' = latest[1]
        /\ Befalls(latest[1], "delivered") /\ UNCHANGED <<worker, queue, session>>
    BY <1>7 DEF PollLatestReturns
  <2>2. latest # <<>>
    BY <2>1 DEF StateInv, LatestWhileDraining
  <2>3. Flow(Line(worker, queue, <<>>), session, fate', latest[1])
    BY <1>5, <2>1, <2>2
  <2>4. QED
    BY <2>1, <2>3 DEF FlowInv
<1>8. QED
  BY <1>1, <1>2, <1>3, <1>4, <1>6, <1>7 DEF OwnerStep

LEMMA InitFlow == Init => FlowInv
<1> SUFFICES ASSUME Init PROVE FlowInv
  OBVIOUS
<1> DEFINE C == Line(worker, queue, latest)
<1>1. Reads(C, worker, queue, latest)
  BY LineReads
<1>2. NoThread.hold = <<>>
  BY DEF NoThread
<1>3. \A w \in Stages : worker[w].hold = <<>> /\ queue[w] = <<>>
  BY <1>2 DEF Init
<1> HIDE DEF C
<1>4. \A w \in Stages : C[2*w - 1] = <<>> /\ C[2*w] = <<>>
  BY <1>1, <1>3 DEF Reads
<1>5. C[2*N + 1] = <<>>
  BY <1>1 DEF Init, Reads
<1>6. \A k \in Places : C[k] = <<>>
  BY <1>4, <1>5, KindsOfPlace
<1>7. /\ session \in Nat /\ given \in Frames /\ given.session = session /\ given.no = 0
      /\ \A n \in Numbers : fate[n] = "unborn"
  BY DEF Init, Frames, Numbers
<1>8. Flow(C, session, fate, given)
  BY <1>6, <1>7, EmptyFlow
<1>9. QED
  BY <1>8 DEF FlowInv, C

(* What is inside the pipeline stands in it in the order the source made    *)
(* it, once, is of the current session, and is newer than what was polled.  *)
THEOREM FlowKept == Spec => []FlowInv
<1>1. StateInv /\ FlowInv /\ [Next]_vars => FlowInv'
  <2> SUFFICES ASSUME StateInv, FlowInv, [Next]_vars PROVE FlowInv'
    OBVIOUS
  <2>1. CASE UNCHANGED vars
    BY <2>1 DEF vars, queues, histories, FlowInv
  <2>2. QED
    BY <2>1, OwnerKeepsFlow, WorkerKeepsFlow DEF Next
<1>2. QED
  BY <1>1, InitFlow, StateKept, PTL DEF Spec


-----------------------------------------------------------------------------
(* The line is what Content shows of the places.                            *)
LEMMA ContentIs ==
    ASSUME TypeOK
    PROVE  \E C \in [Places -> Seq(Frames)] :
              /\ C = Line(worker, queue, latest)
              /\ \A k \in Places : Content(k) = C[k]
              /\ \A k \in Places : DOMAIN Content(k) = 1..Len(C[k])
              /\ \A k \in Places : Held(k) = {C[k][i] : i \in 1..Len(C[k])}
<1> DEFINE C == Line(worker, queue, latest)
<1>1. C \in [Places -> Seq(Frames)]
  <2>1. \A w \in Stages : worker[w].hold \in Seq(Frames) /\ queue[w] \in Seq(Frames)
    BY DEF TypeOK, Threads
  <2>2. QED
    BY <2>1, LineType DEF TypeOK
<1>2. ASSUME NEW k \in Places PROVE Content(k) = C[k]
  BY <1>2 DEF Line, Content
<1> HIDE DEF C
<1>3. \A k \in Places : DOMAIN Content(k) = 1..Len(C[k])
  BY <1>1, <1>2
<1>4. \A k \in Places : Held(k) = {C[k][i] : i \in 1..Len(C[k])}
  BY <1>2, <1>3 DEF Held
<1>5. QED
  BY <1>1, <1>2, <1>3, <1>4 DEF C

LEMMA HeldIsOrdered == TypeOK /\ FlowInv => NoOvertaking
<1> SUFFICES ASSUME TypeOK, FlowInv PROVE NoOvertaking
  OBVIOUS
<1>1. PICK C \in [Places -> Seq(Frames)] :
         /\ C = Line(worker, queue, latest)
         /\ \A k \in Places : Content(k) = C[k]
         /\ \A k \in Places : DOMAIN Content(k) = 1..Len(C[k])
         /\ \A k \in Places : Held(k) = {C[k][i] : i \in 1..Len(C[k])}
  BY ContentIs
<1>2. /\ Ordered(C) /\ Accounted(C, session, fate) /\ GivenBefore(C, session, given)
      /\ given.session <= session
  BY <1>1 DEF FlowInv, Flow, Numbered
<1>3. given.session \in Nat /\ session \in Nat
  BY DEF TypeOK, Frames
<1>4. ASSUME NEW k \in Places, NEW i \in DOMAIN Content(k), NEW j \in DOMAIN Content(k), i < j
      PROVE  Older(Content(k)[i], Content(k)[j])
  <2>1. /\ i \in 1..Len(C[k]) /\ j \in 1..Len(C[k])
        /\ Content(k)[i] = C[k][i] /\ Content(k)[j] = C[k][j]
    BY <1>1, <1>4
  <2>2. C[k][i].session = C[k][j].session
    BY <1>2, <2>1 DEF Accounted
  <2>3. C[k][i].no < C[k][j].no
    BY <1>2, <1>4, <2>1 DEF Ordered, Ahead
  <2>4. QED
    BY <2>1, <2>2, <2>3 DEF Older
<1>5. ASSUME NEW k \in Places, NEW l \in Places, k < l, NEW f \in Held(k), NEW g \in Held(l)
      PROVE  Older(g, f)
  <2>1. PICK i \in 1..Len(C[k]) : f = C[k][i]
    BY <1>1, <1>5
  <2>2. PICK j \in 1..Len(C[l]) : g = C[l][j]
    BY <1>1, <1>5
  <2>3. g.session = f.session
    BY <1>2, <2>1, <2>2 DEF Accounted
  <2>4. Ahead(l, j, k, i)
    BY <1>5 DEF Ahead, Places
  <2>5. g.no < f.no
    BY <1>2, <2>1, <2>2, <2>4 DEF Ordered
  <2>6. QED
    BY <2>3, <2>5 DEF Older
<1>6. ASSUME NEW k \in Places, NEW f \in Held(k) PROVE Older(given, f)
  <2>1. PICK i \in 1..Len(C[k]) : f = C[k][i]
    BY <1>1, <1>6
  <2>2. f.session = session
    BY <1>2, <2>1 DEF Accounted
  <2>3. given.session = session => given.no < f.no
    BY <1>2, <2>1 DEF GivenBefore
  <2>4. QED
    BY <1>2, <1>3, <2>2, <2>3 DEF Older
<1>7. QED
  BY <1>4, <1>5, <1>6 DEF NoOvertaking

(* Whatever the policies drop, wherever the workers are and however often   *)
(* the runtime is restarted, frames stay in the order of the source, and    *)
(* what is polled is older than all that is left.                           *)
THEOREM Order == Spec => []NoOvertaking
<1>1. StateInv => TypeOK
  BY DEF StateInv
<1>2. QED
  BY <1>1, StateKept, FlowKept, HeldIsOrdered, PTL

(* After a restart no place holds a frame of an earlier session.            *)
THEOREM Freshness == Spec => []NothingStale
<1>1. TypeOK /\ FlowInv => NothingStale
  <2> SUFFICES ASSUME TypeOK, FlowInv PROVE NothingStale
    OBVIOUS
  <2>1. PICK C \in [Places -> Seq(Frames)] :
           /\ C = Line(worker, queue, latest)
           /\ \A k \in Places : Content(k) = C[k]
           /\ \A k \in Places : DOMAIN Content(k) = 1..Len(C[k])
           /\ \A k \in Places : Held(k) = {C[k][i] : i \in 1..Len(C[k])}
    BY ContentIs
  <2>2. Accounted(C, session, fate)
    BY <2>1 DEF FlowInv, Flow
  <2>3. QED
    BY <2>1, <2>2 DEF Accounted, NothingStale
<1>2. StateInv => TypeOK
  BY DEF StateInv
<1>3. QED
  BY <1>1, <1>2, StateKept, FlowKept, PTL


(* A frame inside the pipeline is in exactly one of its places, and a frame *)
(* that came out of it, or was never made, is in none.                      *)
THEOREM Conservation == Spec => []EachFrameOnce
<1>1. TypeOK /\ FlowInv => EachFrameOnce
  <2> SUFFICES ASSUME TypeOK, FlowInv, NEW n \in 1..MaxFrames
               PROVE  Cardinality({k \in Places : [session |-> session, no |-> n] \in Held(k)})
                         = IF fate[n] = "inside" THEN 1 ELSE 0
    BY DEF EachFrameOnce
  <2> DEFINE f == [session |-> session, no |-> n]
             At == {k \in Places : f \in Held(k)}
  <2>1. PICK C \in [Places -> Seq(Frames)] :
           /\ C = Line(worker, queue, latest)
           /\ \A k \in Places : Content(k) = C[k]
           /\ \A k \in Places : DOMAIN Content(k) = 1..Len(C[k])
           /\ \A k \in Places : Held(k) = {C[k][i] : i \in 1..Len(C[k])}
    BY ContentIs
  <2>2. Ordered(C) /\ Accounted(C, session, fate) /\ Found(C, fate)
    BY <2>1 DEF FlowInv, Flow
  <2>3. n \in Nat /\ n \in Numbers /\ f.no = n
    BY BoundsAssumption DEF Numbers
  <2>4. ASSUME NEW k \in Places, f \in Held(k)
        PROVE  fate[n] = "inside" /\ \E i \in 1..Len(C[k]) : C[k][i].no = n
    <3>1. PICK i \in 1..Len(C[k]) : f = C[k][i]
      BY <2>1, <2>4
    <3>2. C[k][i].no = n
      BY <2>3, <3>1
    <3>3. QED
      BY <2>2, <3>2 DEF Accounted
  <2>5. ASSUME NEW k \in Places, NEW i \in 1..Len(C[k]), C[k][i].no = n PROVE f \in Held(k)
    <3>1. C[k] \in Seq(Frames)
      BY <2>1
    <3>2. C[k][i] \in Frames
      BY <3>1
    <3>3. C[k][i].session = session
      BY <2>2 DEF Accounted
    <3>4. C[k][i] = f
      BY <2>5, <3>2, <3>3 DEF Frames
    <3>5. QED
      BY <2>1, <3>4
  <2>6. CASE fate[n] = "inside"
    <3>1. PICK k \in Places : \E i \in 1..Len(C[k]) : C[k][i].no = n
      BY <2>2, <2>3, <2>6 DEF Found
    <3>2. PICK i \in 1..Len(C[k]) : C[k][i].no = n
      BY <3>1
    <3>3. ASSUME NEW l \in Places, f \in Held(l) PROVE l = k
      <4>1. PICK j \in 1..Len(C[l]) : C[l][j].no = n
        BY <2>4, <3>3
      <4>2. ~Ahead(k, i, l, j) /\ ~Ahead(l, j, k, i)
        BY <2>2, <2>3, <3>2, <4>1 DEF Ordered
      <4>3. QED
        BY <4>2 DEF Ahead, Places
    <3>4. At = {k}
      BY <2>5, <3>2, <3>3
    <3>5. QED
      BY <2>6, <3>4, FS_Singleton
  <2>7. CASE fate[n] # "inside"
    <3>1. At = {}
      BY <2>4, <2>7
    <3>2. QED
      BY <2>7, <3>1, FS_EmptySet
  <2>8. QED
    BY <2>6, <2>7
<1>2. StateInv => TypeOK
  BY DEF StateInv
<1>3. QED
  BY <1>1, <1>2, StateKept, FlowKept, PTL

-----------------------------------------------------------------------------
(* Only a queue that does not block drops, and it drops one frame.          *)
LEMMA DropsNeedAPolicy ==
    ASSUME TypeOK, Next, NEW n \in Numbers, fate'[n] = "dropped", fate[n] # "dropped"
    PROVE  \E w \in Stages : EntryOf(w).policy # "Block"
<1> USE DEF queues, histories
<1>1. ASSUME NEW f, NEW what \in Fates \ {"dropped"}, Befalls(f, what) PROVE FALSE
  BY <1>1 DEF Befalls, TypeOK, Numbers
<1>2. CASE UNCHANGED fate
  BY <1>2
<1>3. CASE fate' = [m \in 1..MaxFrames |-> "unborn"]
  BY <1>3 DEF Numbers
<1>4. ASSUME ProcessSource PROVE FALSE
  <2>1. PICK k \in 0..MaxBatch :
           fate' = [m \in 1..MaxFrames |->
                       IF m \in Produced+1..Produced+k THEN "inside" ELSE fate[m]]
    BY <1>4 DEF ProcessSource
  <2>2. QED
    BY <2>1 DEF Numbers
<1>5. CASE PollOutput \/ PollLatest \/ PollLatestReturns
  BY <1>1, <1>2, <1>5 DEF PollOutput, PollLatest, PollLatestReturns, Fates
<1>6. ASSUME NEW w \in Stages, WorkerStep(w) PROVE EntryOf(w).policy # "Block"
  <2>1. CASE EnqueueDropLatest(w) \/ EnqueueDropOldest(w)
    BY <2>1 DEF EnqueueDropLatest, EnqueueDropOldest
  <2>2. CASE ProcessInput(w) \/ EnqueueRefused(w)
    BY <1>1, <1>2, <2>2 DEF ProcessInput, EnqueueRefused, Fates
  <2>3. CASE Bind(w) \/ CheckStop(w) \/ Fetch(w) \/ EnqueueWithRoom(w)
             \/ EnqueueBlocks(w) \/ Finish(w)
    BY <1>2, <2>3 DEF Bind, CheckStop, Fetch, EnqueueWithRoom, EnqueueBlocks, Finish
  <2>4. QED
    BY <1>4, <1>6, <2>1, <2>2, <2>3 DEF WorkerStep
<1>7. CASE Start
  BY <1>3, <1>7 DEF Start
<1>8. CASE Stop \/ OwnerStep
  BY <1>2, <1>8 DEF Stop, OwnerStep, Launch, Push, CloseQueue, Join
<1>9. QED
  BY <1>5, <1>6, <1>7, <1>8 DEF Next

(* Where every stage that reads a queue was added with the policy Block,    *)
(* nothing is ever dropped.                                                 *)
THEOREM BlockDropsNothing == Spec => []BlockedInputsKeepAll
<1>1. Init => BlockedInputsKeepAll
  BY DEF Init, BlockedInputsKeepAll
<1>2. TypeOK /\ BlockedInputsKeepAll /\ [Next]_vars => BlockedInputsKeepAll'
  <2> SUFFICES ASSUME TypeOK, BlockedInputsKeepAll, [Next]_vars,
                      \A w \in Stages : w > 1 \/ N = 1 => entries'[w].policy = "Block",
                      NEW n \in Numbers, fate'[n] = "dropped"
               PROVE  FALSE
    BY DEF BlockedInputsKeepAll, Numbers
  <2>1. entries' = entries
    BY DEF Next, vars, queues, histories, Start, Stop, OwnerStep, Launch, Push, CloseQueue,
           Join, PollOutput, PollLatest, PollLatestReturns, WorkerStep, Bind, CheckStop,
           Fetch, ProcessSource, ProcessInput, EnqueueWithRoom, EnqueueDropLatest,
           EnqueueDropOldest, EnqueueBlocks, EnqueueRefused, Finish
  <2>2. \A w \in Stages : EntryOf(w).policy = "Block"
    BY <2>1, StagesAssumption DEF EntryOf, Stages
  <2>3. fate[n] # "dropped"
    BY <2>1 DEF BlockedInputsKeepAll, Numbers
  <2>4. Next
    BY <2>3 DEF vars
  <2>5. QED
    BY <2>2, <2>3, <2>4, DropsNeedAPolicy
<1>3. StateInv => TypeOK
  BY DEF StateInv
<1>4. QED
  BY <1>1, <1>2, <1>3, StateKept, PTL DEF Spec

=============================================================================
