----------------------- MODULE DecimationThreadProofs -----------------------
(***************************************************************************)
(* Proofs about DecimationThread, for any number of channels and workers,  *)
(* any ring and window sizes and any number of restarts.                   *)
(*                                                                         *)
(* The invariant has four parts: what start() and stop() know of the       *)
(* threads (Lifecycle), what a round's counters mean (Rounds), what the    *)
(* results of a round have seen (Fresh), and the shape of the raw windows  *)
(* (WindowHasNoGap, inductive as it stands).                               *)
(***************************************************************************)
EXTENDS DecimationThread, FiniteSetTheorems, SequenceTheorems, WellFoundedInduction, TLAPS

AllModes == {"None", "MinMax", "LTTB"}
Settings == [mode : AllModes, target : Nat, rate : Nat, span : Nat]
Pcs == {"none", "wait", "work", "ended"}
SettingNames == {"mode", "target", "rate", "span"}
Threads == [pc : Pcs, last : Nat, unread : Seq(SettingNames), set : Settings,
            todo : SUBSET Channels]
Owners == {"idle", "reading", "waking", "joining"}
Coords == {"none", "top", "scan", "waiting", "decimate", "publish", "ended"}
MaxWorkers == Least(Largest(ChannelCounts), 4)

(* The types of what the threads work with; the frames on their way out     *)
(* need none.                                                               *)
TypeOK ==
    /\ hw \in HwWorkers /\ channels \in ChannelCounts
    /\ numWorkers \in 0..MaxWorkers
    /\ setting \in Settings
    /\ owner \in Owners /\ coord \in Coords
    /\ running \in BOOLEAN /\ stopping \in BOOLEAN /\ exit \in BOOLEAN
    /\ generation \in 0..(GenerationMod - 1) /\ done \in Nat
    /\ worker \in [Workers -> Threads]
    /\ pushed \in [Channels -> Nat]
    /\ taken \in [Channels -> Nat] /\ \A c \in Channels : taken[c] <= pushed[c]
    /\ atSignal \in [Channels -> Nat]
    /\ hist \in [Channels -> Seq(Int)]
    /\ result \in [Channels -> [upto : Nat, vtx : Nat]]

(* The workers of this run have been started, and end when told to.         *)
WorkersLive ==
    \A w \in Workers :
        /\ w > numWorkers => worker[w].pc = "none"
        /\ w <= numWorkers => worker[w].pc # "none"
        /\ worker[w].pc = "ended" => exit

(* Who is alive when: a flag is only up while stop() is at work, and a      *)
(* runtime without workers has one channel.                                 *)
Lifecycle ==
    /\ owner \in {"waking", "joining"} => running /\ stopping
    /\ ~running => coord \in {"none", "ended"} /\ numWorkers = 0 /\ ~exit
    /\ running /\ numWorkers = 0 => channels = 1
    /\ running /\ owner \in {"idle", "reading"} => ~stopping
    /\ running /\ ~stopping => ~exit /\ coord \notin {"none", "ended"}
    /\ WorkersLive

Finished(w) == worker[w].pc # "work" /\ worker[w].last = generation

(* Outside a round every worker has finished the last generation; in one    *)
(* the count is right, also when the generation has wrapped around.         *)
Rounds ==
    /\ coord # "waiting" => \A w \in 1..numWorkers : Finished(w)
    /\ coord = "waiting" =>
          /\ numWorkers > 0
          /\ \A w \in 1..numWorkers : worker[w].pc = "work" => worker[w].last = generation
          /\ done = Cardinality({w \in 1..numWorkers : Finished(w)})

(* What the results of the round have seen. *)
Fresh ==
    /\ \A c \in Channels : atSignal[c] <= pushed[c]
    /\ coord = "waiting" =>
          \A w \in 1..numWorkers : worker[w].last = generation =>
              \A c \in Assigned(w) :
                  (worker[w].pc = "work" /\ c \in worker[w].todo) \/ result[c].upto >= atSignal[c]
    /\ coord = "decimate" => numWorkers = 0 /\ taken[1] >= atSignal[1]
    /\ coord = "publish" => \A c \in Used : frame.upto[c] >= atSignal[c]

-----------------------------------------------------------------------------
LEMMA Sizes ==
    /\ Largest(ChannelCounts) \in ChannelCounts
    /\ \A n \in ChannelCounts : n \in Nat /\ n > 0 /\ n <= Largest(ChannelCounts)
    /\ MaxWorkers \in Nat /\ Workers = 1..MaxWorkers
    /\ GenerationMod \in Nat /\ GenerationMod > 1 /\ RingSize \in Nat /\ RingSize > 0
<1>1. ChannelCounts \subseteq Nat \ {0}
  BY CountsAssumption
<1>2. \A n \in ChannelCounts : n \in Nat /\ n > 0
  BY ONLY <1>1
<1>3. \E n \in ChannelCounts : \A m \in ChannelCounts : m <= n
  BY CountsAssumption
<1> DEFINE L == Largest(ChannelCounts)
<1>4. L = CHOOSE n \in ChannelCounts : \A m \in ChannelCounts : m <= n
  BY DEF Largest
<1> HIDE DEF L
<1>5. L \in ChannelCounts /\ \A m \in ChannelCounts : m <= L
  BY ONLY <1>3, <1>4, Zenon
<1>6. Least(L, 4) \in Nat
  BY <1>2, <1>5 DEF Least
<1>7. MaxWorkers \in Nat /\ Workers = 1..MaxWorkers
  BY <1>6 DEF L, MaxWorkers, Workers
<1>8. QED
  BY <1>2, <1>5, <1>7, SizesAssumption DEF L

(* The workers of a run, and the channels dealt out to them.                *)
LEMMA WorkersFor ==
    ASSUME hw \in Nat \ {0}, NEW n \in ChannelCounts
    PROVE  NumWorkers(n) \in 0..MaxWorkers /\ (NumWorkers(n) = 0 => n = 1)
<1> DEFINE L == Largest(ChannelCounts)
<1>1. n \in Nat /\ n > 0 /\ L \in Nat /\ n <= L /\ MaxWorkers = Least(L, 4)
  BY Sizes DEF MaxWorkers
<1> HIDE DEF L
<1>2. QED
  BY <1>1 DEF NumWorkers, Least

LEMMA UsedChannels ==
    ASSUME TypeOK
    PROVE  /\ channels \in Nat /\ channels > 0 /\ Used \subseteq Channels
           /\ 1 \in Used /\ channels \in Used
           /\ \A w \in Workers : Assigned(w) \subseteq Channels
<1>1. Largest(ChannelCounts) \in Nat /\ channels \in Nat /\ channels > 0
      /\ channels <= Largest(ChannelCounts)
  BY Sizes DEF TypeOK
<1>2. QED
  BY <1>1 DEF Used, Channels, Assigned

LEMMA EveryChannelAssigned ==
    ASSUME TypeOK, numWorkers > 0, NEW c \in Used
    PROVE  \E w \in 1..numWorkers : c \in Assigned(w)
<1>1. c \in Nat /\ c > 0 /\ numWorkers \in Nat
  BY UsedChannels, Sizes DEF TypeOK, Used
<1>2. (c - 1) % numWorkers \in 0..(numWorkers - 1)
  BY <1>1
<1>3. ((c - 1) % numWorkers) + 1 \in 1..numWorkers
  BY <1>1, <1>2
<1>4. QED
  BY <1>3 DEF Assigned

LEMMA NextGeneration ==
    ASSUME NEW g \in 0..(GenerationMod - 1)
    PROVE  (g + 1) % GenerationMod \in 0..(GenerationMod - 1) /\ (g + 1) % GenerationMod # g
<1>1. GenerationMod \in Nat /\ GenerationMod > 1 /\ g \in Nat
  BY Sizes
<1>2. CASE g + 1 < GenerationMod
  BY <1>1, <1>2
<1>3. CASE g + 1 = GenerationMod
  <2>1. (g + 1) % GenerationMod = 0
    BY <1>1, <1>3
  <2>2. QED
    BY <1>1, <1>3, <2>1
<1>4. QED
  BY <1>1, <1>2, <1>3

(* The first of a worker's channels still to do.                            *)
LEMMA FirstToDo ==
    ASSUME NEW S, S \subseteq Channels, S # {}
    PROVE  (CHOOSE n \in S : \A m \in S : n <= m) \in S
<1> DEFINE R == {ss \in Nat \X Nat : ss[1] < ss[2]}
<1>0. S \subseteq Nat
  BY DEF Channels
<1>1. R = OpToRel(<, Nat)
  BY DEF OpToRel
<1>2. IsWellFoundedOn(R, Nat)
  BY <1>1, NatLessThanWellFounded
<1> HIDE DEF R
<1>3. PICK x \in S : \A y \in S : ~(<<y, x>> \in R)
  BY <1>0, <1>2, WFMin
<1>4. \A y \in S : x <= y
  <2> TAKE y \in S
  <2>1. <<y, x>> \notin R /\ x \in Nat /\ y \in Nat
    BY <1>0, <1>3
  <2>2. QED
    BY <2>1 DEF R
<1>5. QED
  BY <1>4

(* The number of vertices Decimator::decimate makes of n samples.           *)
LEMMA VerticesType ==
    ASSUME NEW n \in Nat, NEW s \in Settings
    PROVE  Vertices(n, Effective(s), s.target) \in Nat
<1>1. s.target \in Nat /\ s.mode \in AllModes
  BY DEF Settings
<1>2. Effective(s) \in AllModes
  BY <1>1 DEF Effective, AllModes
<1>3. ASSUME NEW m \in AllModes, NEW t \in Nat PROVE Vertices(n, m, t) \in Nat
  <2>1. CASE m = "None"
    BY <2>1 DEF Vertices
  <2>2. CASE m = "MinMax"
    <3>1. 2 * (t \div 2) \in Nat
      OBVIOUS
    <3> DEFINE h == 2 * (t \div 2)
    <3>2. Vertices(n, m, t) = IF t < 2 THEN 0 ELSE IF n <= t THEN n ELSE h
      BY <2>2 DEF Vertices
    <3> HIDE DEF h
    <3>3. QED
      BY <3>1, <3>2 DEF h
  <2>3. CASE m = "LTTB"
    BY <2>3 DEF Vertices, Least
  <2>4. QED
    BY <2>1, <2>2, <2>3 DEF AllModes
<1>4. QED
  BY <1>1, <1>2, <1>3

-----------------------------------------------------------------------------
(* s is a run of consecutive samples that ends with sample top.             *)
GapFree(s, top) == \A i \in 1..Len(s) : s[i] = top - Len(s) + i

Kept(avail, window) == IF window > 0 THEN Least(avail, window) ELSE avail
Newest(k, top) == [i \in 1..k |-> top - k + i]
Drained(s, k, top, window) == IF k = 0 THEN s ELSE Trim(s \o Newest(k, top), window)

LEMMA TrimIs ==
    ASSUME NEW t \in Seq(Int), NEW window \in Nat
    PROVE  \E n \in Nat :
              /\ n = IF window > 0 THEN Least(window, Len(t)) ELSE Len(t)
              /\ Trim(t, window) \in Seq(Int) /\ Len(Trim(t, window)) = n
              /\ \A i \in 1..n : Trim(t, window)[i] = t[Len(t) - n + i]
<1>1. Len(t) \in Nat /\ \A i \in 1..Len(t) : t[i] \in Int
  OBVIOUS
<1>2. CASE window = 0
  BY <1>1, <1>2 DEF Trim
<1>3. CASE window > 0
  <2> DEFINE n == Least(window, Len(t))
             m == Len(t) - n + 1
  <2>a. n \in Nat /\ n <= Len(t)
    BY <1>1 DEF Least
  <2>1. n \in Nat /\ n <= Len(t) /\ m \in Int /\ m \in 1..(Len(t) + 1)
    <3> HIDE DEF n
    <3>1. QED
      BY <1>1, <2>a
  <2>2. Trim(t, window) = SubSeq(t, m, Len(t))
    BY <1>3 DEF Trim
  <2>3. n = IF window > 0 THEN Least(window, Len(t)) ELSE Len(t)
    BY <1>3
  <2>4. m = Len(t) - n + 1
    OBVIOUS
  <2> HIDE DEF n, m
  <2>5. \A i \in m..Len(t) : t[i] \in Int
    BY <1>1, <2>1
  <2>6. /\ SubSeq(t, m, Len(t)) \in Seq(Int)
        /\ Len(SubSeq(t, m, Len(t))) = IF m <= Len(t) THEN Len(t) - m + 1 ELSE 0
        /\ \A i \in 1..Len(t) - m + 1 : SubSeq(t, m, Len(t))[i] = t[m + i - 1]
    BY <1>1, <2>1, <2>5, SubSeqProperties
  <2> DEFINE r == SubSeq(t, m, Len(t))
  <2>b. Trim(t, window) = r
    BY <2>2
  <2> HIDE DEF r
  <2>7. r \in Seq(Int) /\ Len(r) = n /\ \A i \in 1..n : r[i] = t[m + i - 1]
    BY <1>1, <2>1, <2>4, <2>6 DEF r
  <2>8. \A i \in 1..n : m + i - 1 = Len(t) - n + i
    BY <1>1, <2>1, <2>4
  <2>9. ASSUME NEW i \in 1..n PROVE r[i] = t[Len(t) - n + i]
    <3>1. r[i] = t[m + i - 1] /\ m + i - 1 = Len(t) - n + i
      BY ONLY <2>7, <2>8, <2>9
    <3>2. QED
      BY ONLY <3>1
  <2>10. /\ Trim(t, window) \in Seq(Int) /\ Len(Trim(t, window)) = n
         /\ \A i \in 1..n : Trim(t, window)[i] = t[Len(t) - n + i]
    BY ONLY <2>7, <2>9, <2>b
  <2>11. n \in Nat
    BY <2>1
  <2>12. QED
    <3> WITNESS n \in Nat
    <3>1. QED
      BY ONLY <2>3, <2>10
<1>4. window = 0 \/ window > 0
  OBVIOUS
<1>5. QED
  BY ONLY <1>2, <1>3, <1>4, Zenon

(* Draining a channel keeps its window a run up to the last sample taken:   *)
(* where samples are discarded, the window is full of newer ones.           *)
LEMMA DrainedIs ==
    ASSUME NEW s \in Seq(Int), NEW top \in Nat, NEW avail \in Nat, NEW window \in Nat,
           NEW k, k = Kept(avail, window)
    PROVE  /\ Drained(s, k, top + avail, window) \in Seq(Int)
           /\ GapFree(s, top) => GapFree(Drained(s, k, top + avail, window), top + avail)
<1> DEFINE upto == top + avail
           new == Newest(k, upto)
           t == s \o new
<1>1. /\ k \in Nat /\ k <= avail /\ upto \in Nat /\ Len(s) \in Nat /\ upto = top + avail
      /\ k = avail \/ (window > 0 /\ k = window)
      /\ k = 0 => avail = 0
  BY DEF Kept, Least
<1>2. CASE k = 0
  BY <1>1, <1>2 DEF Drained
<1>3. CASE k # 0
  <2>1. new \in Seq(Int) /\ Len(new) = k /\ \A i \in 1..k : new[i] = upto - k + i
    BY <1>1, SMTT(30) DEF Newest
  <2> HIDE DEF new, upto
  <2>2. /\ t \in Seq(Int) /\ Len(t) = Len(s) + k
        /\ \A i \in 1..Len(s) : t[i] = s[i]
        /\ \A i \in 1..Len(new) : t[Len(s) + i] = new[i]
    <3>1. /\ t \in Seq(Int) /\ Len(t) = Len(s) + Len(new)
          /\ \A i \in 1..Len(s) + Len(new) : t[i] = IF i <= Len(s) THEN s[i] ELSE new[i - Len(s)]
      BY <2>1, ConcatProperties
    <3> HIDE DEF t
    <3>2. ASSUME NEW i \in 1..Len(new) PROVE t[Len(s) + i] = new[i]
      <4>1. Len(s) + i \in 1..Len(s) + Len(new) /\ ~(Len(s) + i <= Len(s))
            /\ Len(s) + i - Len(s) = i
        BY <1>1, <2>1, <3>2, SMTT(30)
      <4>2. QED
        BY ONLY <3>1, <4>1
    <3>3. ASSUME NEW i \in 1..Len(s) PROVE t[i] = s[i]
      <4>1. i \in 1..Len(s) + Len(new) /\ i <= Len(s)
        BY <1>1, <2>1, <3>3
      <4>2. QED
        BY ONLY <3>1, <4>1
    <3>4. QED
      BY <2>1, <3>1, <3>2, <3>3
  <2> HIDE DEF t
  <2>3. PICK n \in Nat :
           /\ n = IF window > 0 THEN Least(window, Len(t)) ELSE Len(t)
           /\ Trim(t, window) \in Seq(Int) /\ Len(Trim(t, window)) = n
           /\ \A i \in 1..n : Trim(t, window)[i] = t[Len(t) - n + i]
    BY <2>2, TrimIs
  <2> DEFINE r == Trim(t, window)
  <2>4. r = Drained(s, k, upto, window)
    BY <1>3 DEF Drained, t, new
  <2>5. r \in Seq(Int) /\ Len(r) = n /\ \A i \in 1..n : r[i] = t[Len(t) - n + i]
    BY <2>3
  <2> HIDE DEF r
  <2>6. n <= Len(t) /\ Len(t) \in Nat
    BY <1>1, <2>2, <2>3 DEF Least
  <2>a. Len(t) \in Nat /\ Len(t) = Len(s) + k /\ n \in Nat /\ n <= Len(t)
    BY <2>2, <2>6
  <2>b. k # avail => n = k
    BY ONLY <1>1, <1>3, <2>3, <2>a DEF Least
  <2>7. ASSUME GapFree(s, top), NEW i \in 1..n PROVE r[i] = upto - n + i
    <3> DEFINE j == Len(t) - n + i
    <3>0. i \in 1..n /\ \A l \in 1..Len(s) : s[l] = top - Len(s) + l
      BY <2>7 DEF GapFree
    <3>1. r[i] = t[j]
      BY ONLY <2>5, <3>0
    <3>2. j \in 1..Len(s) + k /\ j \in Int /\ j = Len(s) + k - n + i
      BY ONLY <1>1, <2>a, <3>0
    <3> HIDE DEF j
    <3>3. CASE j <= Len(s)
      <4>1. k = avail
        BY ONLY <1>1, <2>a, <2>b, <3>0, <3>2, <3>3
      <4>a. j \in 1..Len(s)
        BY ONLY <1>1, <3>2, <3>3
      <4>2. t[j] = s[j] /\ j \in 1..Len(s)
        BY ONLY <2>2, <4>a
      <4>3. s[j] = top - Len(s) + j
        BY ONLY <3>0, <4>2
      <4>4. QED
        BY ONLY <1>1, <2>a, <3>0, <3>1, <3>2, <4>1, <4>2, <4>3, top \in Nat, avail \in Nat
    <3>4. CASE ~(j <= Len(s))
      <4>1. PICK l \in 1..k : j = Len(s) + l
        <5>1. j - Len(s) \in 1..k /\ j = Len(s) + (j - Len(s))
          BY ONLY <1>1, <3>2, <3>4
        <5>2. QED
          BY ONLY <5>1
      <4>2. t[j] = new[l] /\ new[l] = upto - k + l
        BY ONLY <2>1, <2>2, <4>1
      <4>3. upto - k + l = upto - n + i
        BY ONLY <1>1, <2>a, <3>0, <3>2, <4>1
      <4>4. QED
        BY ONLY <3>1, <4>2, <4>3
    <3>5. QED
      BY <3>3, <3>4
  <2>8. GapFree(s, top) => GapFree(r, upto)
    BY <2>5, <2>7 DEF GapFree
  <2>9. QED
    BY <2>4, <2>5, <2>8 DEF upto
<1>4. QED
  BY <1>2, <1>3

-----------------------------------------------------------------------------
LEMMA WindowType == ASSUME NEW s \in Settings PROVE Window(s) \in Nat
<1>1. s.rate \in Nat /\ s.span \in Nat /\ RingSize \in Nat
  BY Sizes DEF Settings
<1>2. s.rate * s.span \in Nat
  BY <1>1
<1>3. QED
  BY <1>1, <1>2 DEF Window, Least

LEMMA DrainEffect ==
    ASSUME TypeOK, NEW c \in Channels, NEW s \in Settings, Drain(c, Window(s))
    PROVE  /\ taken' \in [Channels -> Nat] /\ hist' \in [Channels -> Seq(Int)]
           /\ taken'[c] = pushed[c] /\ \A d \in Channels : d # c => taken'[d] = taken[d]
           /\ \A d \in Channels : taken'[d] <= pushed[d]
           /\ WindowHasNoGap =>
                 \A d \in Channels : \A i \in 1..Len(hist'[d]) :
                     hist'[d][i] = taken'[d] - Len(hist'[d]) + i
<1> DEFINE window == Window(s)
           avail == pushed[c] - taken[c]
           k == Kept(avail, window)
           h == Drained(hist[c], k, pushed[c], window)
<1>1. /\ window \in Nat /\ taken[c] \in Nat /\ pushed[c] \in Nat /\ avail \in Nat
      /\ pushed[c] = taken[c] + avail
      /\ hist[c] \in Seq(Int)
  BY WindowType DEF TypeOK
<1>2. taken' = [taken EXCEPT ![c] = pushed[c]]
  BY DEF Drain
<1>3. hist' = [hist EXCEPT ![c] = h]
  BY DEF Drain, Drained, Newest, Kept
<1>4. k = Kept(avail, window)
  OBVIOUS
<1>5. h = Drained(hist[c], k, taken[c] + avail, window)
  BY <1>1
<1> HIDE DEF window, avail, k, h
<1>6. h \in Seq(Int) /\ (GapFree(hist[c], taken[c]) => GapFree(h, taken[c] + avail))
  BY <1>1, <1>4, <1>5, DrainedIs
<1>7. /\ taken' \in [Channels -> Nat] /\ hist' \in [Channels -> Seq(Int)]
      /\ taken'[c] = pushed[c] /\ hist'[c] = h
      /\ \A d \in Channels : d # c => taken'[d] = taken[d] /\ hist'[d] = hist[d]
  BY <1>1, <1>2, <1>3, <1>6 DEF TypeOK
<1>a. ASSUME NEW d \in Channels PROVE taken'[d] <= pushed[d]
  <2>1. taken[d] <= pushed[d] /\ pushed[d] \in Nat /\ taken'[d] \in Nat
    BY <1>7 DEF TypeOK
  <2>2. CASE d = c
    BY <1>7, <2>1, <2>2
  <2>3. CASE d # c
    BY <1>7, <2>1, <2>3
  <2>4. QED
    BY <2>2, <2>3
<1>8. ASSUME WindowHasNoGap, NEW d \in Channels PROVE GapFree(hist'[d], taken'[d])
  <2>1. CASE d = c
    <3>1. GapFree(hist[c], taken[c])
      BY <1>8 DEF WindowHasNoGap, GapFree
    <3>2. QED
      BY <1>1, <1>6, <1>7, <2>1, <3>1
  <2>2. CASE d # c
    <3>1. GapFree(hist[d], taken[d])
      BY <1>8 DEF WindowHasNoGap, GapFree
    <3>2. QED
      BY <1>7, <2>2, <3>1
  <2>3. QED
    BY <2>1, <2>2
<1>9. QED
  BY <1>7, <1>8, <1>a DEF GapFree

(* The channel a worker turns to is one of those it has still to do.        *)
First(S) == CHOOSE n \in S : \A m \in S : n <= m

(* A load of a worker changes no more than the settings it works with.      *)
LEMMA LoadEffect ==
    ASSUME TypeOK, NEW w \in Workers, WorkerLoads(w)
    PROVE  /\ worker' \in [Workers -> Threads]
           /\ worker[w].pc = "work" /\ worker'[w].pc = "work"
           /\ worker'[w].last = worker[w].last /\ worker'[w].todo = worker[w].todo
           /\ \A v \in Workers : v # w => worker'[v] = worker[v]
<1>1. PICK a \in Pcs, b \in Nat, u \in Seq(SettingNames), d \in Settings, e \in SUBSET Channels :
         worker[w] = [pc |-> a, last |-> b, unread |-> u, set |-> d, todo |-> e]
  BY DEF TypeOK, Threads
<1>2. PICK m \in AllModes, t \in Nat, r \in Nat, s \in Nat :
         d = [mode |-> m, target |-> t, rate |-> r, span |-> s]
  BY DEF Settings
<1>3. PICK k : k = Head(u)
  OBVIOUS
<1>4. u # <<>> /\ a = "work"
  BY <1>1 DEF WorkerLoads
<1>5. k \in SettingNames /\ Tail(u) \in Seq(SettingNames)
  BY ONLY <1>3, <1>4
<1>6. PICK z : z = [d EXCEPT ![k] = setting[k]]
  OBVIOUS
<1>7. z \in Settings
  <2>1. PICK m2 \in AllModes, t2 \in Nat, r2 \in Nat, s2 \in Nat :
           setting = [mode |-> m2, target |-> t2, rate |-> r2, span |-> s2]
    BY DEF TypeOK, Settings
  <2>2. CASE k = "mode"
    BY ONLY <1>2, <1>6, <2>1, <2>2 DEF Settings
  <2>3. CASE k = "target"
    BY ONLY <1>2, <1>6, <2>1, <2>3 DEF Settings
  <2>4. CASE k = "rate"
    BY ONLY <1>2, <1>6, <2>1, <2>4 DEF Settings
  <2>5. CASE k = "span"
    BY ONLY <1>2, <1>6, <2>1, <2>5 DEF Settings
  <2>6. QED
    BY <1>5, <2>2, <2>3, <2>4, <2>5 DEF SettingNames
<1>8. Loaded(worker[w]) = [pc |-> a, last |-> b, unread |-> Tail(u), set |-> z, todo |-> e]
  <2>1. Loaded(worker[w])
          = [[worker[w] EXCEPT !.set = [worker[w].set EXCEPT ![Head(worker[w].unread)]
                                            = setting[Head(worker[w].unread)]]]
                EXCEPT !.unread = Tail(worker[w].unread)]
    BY <1>1 DEF Loaded
  <2>2. worker[w].set = d /\ worker[w].unread = u
    BY ONLY <1>1
  <2>3. Loaded(worker[w]) = [[worker[w] EXCEPT !.set = z] EXCEPT !.unread = Tail(u)]
    BY ONLY <1>3, <1>6, <2>1, <2>2
  <2>4. [worker[w] EXCEPT !.set = z] = [pc |-> a, last |-> b, unread |-> u, set |-> z, todo |-> e]
    BY ONLY <1>1
  <2>5. QED
    BY ONLY <2>3, <2>4
<1>9. [pc |-> a, last |-> b, unread |-> Tail(u), set |-> z, todo |-> e] \in Threads
  BY <1>5, <1>7 DEF Threads
<1>10. worker' = [worker EXCEPT ![w] = Loaded(worker[w])]
  BY DEF WorkerLoads
<1>11. QED
  BY <1>1, <1>4, <1>8, <1>9, <1>10 DEF TypeOK

LEMMA TypeStep == TypeOK /\ [Next]_vars => TypeOK'
<1> SUFFICES ASSUME TypeOK, [Next]_vars PROVE TypeOK'
  OBVIOUS
<1> USE DEF settings, caller, sync, rings, data, output
<1>k. /\ AllModes = {"None", "MinMax", "LTTB"} /\ Pcs = {"none", "wait", "work", "ended"}
      /\ Owners = {"idle", "reading", "waking", "joining"}
      /\ Coords = {"none", "top", "scan", "waiting", "decimate", "publish", "ended"}
  BY DEF AllModes, Pcs, Owners, Coords
<1>s. NoSetting \in Settings /\ 0 \in 0..(GenerationMod - 1)
  BY Sizes DEF NoSetting, Settings, AllModes
<1>n. /\ NoWorker \in Threads /\ [NoWorker EXCEPT !.pc = "wait"] \in Threads
      /\ [NoWorker EXCEPT !.pc = "none"] = NoWorker
  <2>1. PICK u \in Seq(SettingNames) : u = <<>>
    BY EmptySeq
  <2>2. PICK d \in Settings : d = NoSetting
    BY <1>s
  <2>3. NoWorker = [pc |-> "none", last |-> 0, unread |-> u, set |-> d, todo |-> {}]
    BY <2>1, <2>2 DEF NoWorker
  <2>4. PICK n \in Nat, e \in SUBSET Channels : n = 0 /\ e = {}
    OBVIOUS
  <2>5. NoWorker = [pc |-> "none", last |-> n, unread |-> u, set |-> d, todo |-> e]
    BY <2>3, <2>4
  <2>6. \A p : [[pc |-> "none", last |-> n, unread |-> u, set |-> d, todo |-> e] EXCEPT !.pc = p]
                = [pc |-> p, last |-> n, unread |-> u, set |-> d, todo |-> e]
    OBVIOUS
  <2>7. \A p \in Pcs : [pc |-> p, last |-> n, unread |-> u, set |-> d, todo |-> e] \in Threads
    BY DEF Threads
  <2>8. "none" \in Pcs /\ "wait" \in Pcs
    BY <1>k
  <2>9. QED
    BY ONLY <2>5, <2>6, <2>7, <2>8
<1>o. LoadOrder \in Seq(SettingNames)
  BY DEF LoadOrder, SettingNames
<1>m. MaxWorkers \in Nat
  BY Sizes
<1>1. CASE UNCHANGED vars
  BY <1>1 DEF vars, TypeOK
<1>2. ASSUME NEW c \in Channels, Arrive(c) PROVE TypeOK'
  <2>1. pushed' = [pushed EXCEPT ![c] = pushed[c] + 1] /\ pushed \in [Channels -> Nat]
    BY <1>2 DEF Arrive, TypeOK
  <2>2. pushed' \in [Channels -> Nat] /\ \A d \in Channels : pushed[d] <= pushed'[d]
    BY ONLY <2>1
  <2>3. ASSUME NEW d \in Channels PROVE taken[d] <= pushed'[d]
    <3>1. taken[d] <= pushed[d] /\ taken[d] \in Nat /\ pushed[d] \in Nat /\ pushed'[d] \in Nat
      BY <2>2 DEF TypeOK
    <3>2. QED
      BY <2>2, <3>1
  <2>4. QED
    BY <1>2, <2>2, <2>3 DEF Arrive, TypeOK
<1>3. ASSUME Start PROVE TypeOK'
  <2>1. PICK n \in ChannelCounts, mode \in Modes, target \in Targets :
           /\ channels' = n /\ numWorkers' = NumWorkers(n)
           /\ setting' = [setting EXCEPT !.mode = mode, !.target = target]
    BY <1>3 DEF Start
  <2>2. numWorkers' \in 0..MaxWorkers
    BY <2>1, CountsAssumption, WorkersFor DEF TypeOK
  <2>3. setting' \in Settings
    BY <2>1, SettingsAssumption DEF TypeOK, Settings, AllModes
  <2>4. worker' \in [Workers -> Threads]
    <3>1. worker' = [w \in Workers |->
                        [NoWorker EXCEPT !.pc = IF w <= numWorkers' THEN "wait" ELSE "none"]]
      BY <1>3 DEF Start
    <3>2. QED
      BY <1>n, <3>1
  <2>5. generation' \in 0..(GenerationMod - 1) /\ done' \in Nat /\ exit' \in BOOLEAN
    <3>1. \/ generation' = 0 /\ done' = 0 /\ exit' = FALSE
          \/ generation' = generation /\ done' = done /\ exit' = exit
      BY <1>3 DEF Start, sync
    <3>2. generation \in 0..(GenerationMod - 1) /\ done \in Nat /\ 0 \in Nat
      BY DEF TypeOK
    <3>3. exit \in BOOLEAN
      BY DEF TypeOK
    <3>4. QED
      BY ONLY <1>s, <3>1, <3>2, <3>3, Zenon
  <2>6. QED
    BY <1>3, <1>k, <2>1, <2>2, <2>3, <2>4, <2>5 DEF Start, TypeOK
<1>4. ASSUME NEW s \in Settings, setting' = s,
             UNCHANGED <<hw, channels, numWorkers, caller, sync, coord, worker, rings, data,
                         output, atSignal>>
      PROVE  TypeOK'
  BY <1>4 DEF TypeOK
<1>5. CASE \/ \E mode \in Modes : SetMode(mode)
           \/ \E n \in Targets : SetTargetPoints(n)
           \/ \E rate \in Rates : SetSampleRate(rate)
           \/ \E span \in Spans : SetVisibleTimeSpan(span)
  <2>1. setting \in Settings /\ setting' \in Settings
    <3>1. PICK a \in AllModes, b \in Nat, d \in Nat, e \in Nat :
             setting = [mode |-> a, target |-> b, rate |-> d, span |-> e]
      BY DEF TypeOK, Settings
    <3>2. CASE \E mode \in Modes : SetMode(mode)
      <4>1. PICK mode \in Modes : setting' = [setting EXCEPT !.mode = mode]
        BY <3>2 DEF SetMode
      <4>2. mode \in AllModes
        BY SettingsAssumption DEF AllModes
      <4>3. QED
        BY ONLY <3>1, <4>1, <4>2 DEF Settings
    <3>3. CASE \E n \in Targets : SetTargetPoints(n)
      <4>1. PICK n \in Targets : setting' = [setting EXCEPT !.target = n]
        BY <3>3 DEF SetTargetPoints
      <4>2. n \in Nat
        BY SettingsAssumption
      <4>3. QED
        BY ONLY <3>1, <4>1, <4>2 DEF Settings
    <3>4. CASE \E rate \in Rates : SetSampleRate(rate)
      <4>1. PICK rate \in Rates : setting' = [setting EXCEPT !.rate = rate]
        BY <3>4 DEF SetSampleRate
      <4>2. rate \in Nat
        BY SettingsAssumption
      <4>3. QED
        BY ONLY <3>1, <4>1, <4>2 DEF Settings
    <3>5. CASE \E span \in Spans : SetVisibleTimeSpan(span)
      <4>1. PICK span \in Spans : setting' = [setting EXCEPT !.span = span]
        BY <3>5 DEF SetVisibleTimeSpan
      <4>2. span \in Nat
        BY SettingsAssumption
      <4>3. QED
        BY ONLY <3>1, <4>1, <4>2 DEF Settings
    <3>6. QED
      BY <1>5, <3>2, <3>3, <3>4, <3>5
  <2>2. UNCHANGED <<hw, channels, numWorkers, caller, sync, coord, worker, rings, data,
                    output, atSignal>>
    BY <1>5 DEF SetMode, SetTargetPoints, SetSampleRate, SetVisibleTimeSpan
  <2>3. QED
    BY <1>4, <2>1, <2>2
<1>6. CASE Stop \/ WakeWorkers \/ TryGetFrame \/ ReadVertexCount
  BY <1>6, <1>k DEF Stop, WakeWorkers, TryGetFrame, ReadVertexCount, TypeOK
<1>7. CASE Join
  <2>1. NoHistory \in [Channels -> Seq(Int)] /\ NoResult \in [Channels -> [upto : Nat, vtx : Nat]]
    BY DEF NoHistory, NoResult
  <2>2. worker' \in [Workers -> Threads] /\ numWorkers' \in 0..MaxWorkers
    BY <1>7, <1>m, <1>n DEF Join
  <2>3. hist' \in [Channels -> Seq(Int)] /\ result' \in [Channels -> [upto : Nat, vtx : Nat]]
    BY <1>7, <2>1 DEF Join
  <2>4. /\ generation' \in 0..(GenerationMod - 1) /\ done' \in Nat
        /\ owner' \in Owners /\ running' \in BOOLEAN /\ exit' \in BOOLEAN
    BY <1>7, <1>k, <1>s DEF Join
  <2>5. UNCHANGED <<hw, channels, setting, stopping, coord, pushed, taken, atSignal>>
    BY <1>7 DEF Join
  <2>6. QED
    BY <2>2, <2>3, <2>4, <2>5 DEF TypeOK
<1>8. CASE CheckStop \/ ScanEmpty \/ Gather \/ SingleDecimate
  BY <1>8, <1>k DEF CheckStop, ScanEmpty, Gather, SingleDecimate, TypeOK
<1>9. CASE Signal
  BY <1>9, <1>k, NextGeneration DEF Signal, TypeOK
<1>10. CASE SingleDrain
  <2>1. taken' \in [Channels -> Nat] /\ hist' \in [Channels -> Seq(Int)]
        /\ \A d \in Channels : taken'[d] <= pushed[d]
    <3>1. 1 \in Channels /\ setting \in Settings
      BY UsedChannels DEF TypeOK
    <3>2. Drain(1, Window(setting)) /\ UNCHANGED pushed
      BY <1>10 DEF SingleDrain
    <3>3. QED
      BY <3>1, <3>2, DrainEffect
  <2>2. QED
    BY <1>10, <1>k, <2>1 DEF SingleDrain, TypeOK
<1>11. CASE Publish
  <2>1. Nothing \in [Channels -> Nat]
    BY DEF Nothing
  <2>2. QED
    BY <1>11, <1>k, <2>1 DEF Publish, TypeOK
<1>12. ASSUME NEW w \in Workers, WorkerWakes(w) PROVE TypeOK'
  <2>1. CASE worker' = [worker EXCEPT ![w].pc = "ended"]
    BY <1>12, <1>k, <2>1, ZenonT(60) DEF WorkerWakes, TypeOK, Threads
  <2>2. CASE worker' = [worker EXCEPT ![w] =
                 [pc |-> "work", last |-> generation, unread |-> LoadOrder, set |-> NoSetting,
                  todo |-> Assigned(w)]]
    <3>1. Assigned(w) \in SUBSET Channels /\ generation \in Nat
      BY UsedChannels, Sizes DEF TypeOK
    <3>2. worker' \in [Workers -> Threads]
      BY <1>k, <1>o, <1>s, <2>2, <3>1 DEF TypeOK, Threads
    <3>3. QED
      BY <1>12, <3>2 DEF WorkerWakes, TypeOK
  <2>3. QED
    BY <1>12, <2>1, <2>2 DEF WorkerWakes
<1>13. ASSUME NEW w \in Workers, WorkerDecimates(w) PROVE TypeOK'
  <2> DEFINE c == First(worker[w].todo)
             set == worker[w].set
  <2>1. worker[w].todo \subseteq Channels /\ worker[w].todo # {} /\ set \in Settings
    BY <1>13 DEF WorkerDecimates, TypeOK, Threads
  <2>2. c \in Channels
    BY <2>1, FirstToDo DEF First
  <2>3. /\ worker' = [worker EXCEPT ![w].todo = @ \ {c}]
        /\ Drain(c, Window(set))
        /\ result' = [result EXCEPT ![c] =
               [upto |-> taken'[c],
                vtx  |-> IF hist'[c] = <<>> THEN 0
                         ELSE Vertices(Len(hist'[c]), Effective(set), set.target)]]
    BY <1>13 DEF WorkerDecimates, First
  <2> HIDE DEF c, set
  <2>4. /\ taken' \in [Channels -> Nat] /\ hist' \in [Channels -> Seq(Int)]
        /\ \A d \in Channels : taken'[d] <= pushed[d]
    BY <2>1, <2>2, <2>3, DrainEffect
  <2>5. Vertices(Len(hist'[c]), Effective(set), set.target) \in Nat
    <3>1. Len(hist'[c]) \in Nat
      BY <2>2, <2>4
    <3>2. QED
      BY <2>1, <3>1, VerticesType
  <2>6. result' \in [Channels -> [upto : Nat, vtx : Nat]]
    BY <2>2, <2>3, <2>4, <2>5 DEF TypeOK
  <2>7. worker' \in [Workers -> Threads]
    <3>1. PICK a \in Pcs, b \in Nat, u \in Seq(SettingNames), d \in Settings,
                   e \in SUBSET Channels :
             worker[w] = [pc |-> a, last |-> b, unread |-> u, set |-> d, todo |-> e]
      BY DEF TypeOK, Threads
    <3>2. [worker[w] EXCEPT !.todo = @ \ {c}] \in Threads
      BY <3>1 DEF Threads
    <3>3. QED
      BY <2>3, <3>2 DEF TypeOK
  <2>8. QED
    BY <1>13, <2>4, <2>6, <2>7 DEF WorkerDecimates, TypeOK
<1>14. ASSUME NEW w \in Workers, WorkerDone(w) PROVE TypeOK'
  <2>1. worker' \in [Workers -> Threads]
    <3>1. PICK a \in Pcs, b \in Nat, u \in Seq(SettingNames), d \in Settings,
                   e \in SUBSET Channels :
             worker[w] = [pc |-> a, last |-> b, unread |-> u, set |-> d, todo |-> e]
      BY DEF TypeOK, Threads
    <3>2. [[worker[w] EXCEPT !.pc = "wait"] EXCEPT !.set = NoSetting]
             = [pc |-> "wait", last |-> b, unread |-> u, set |-> NoSetting, todo |-> e]
      <4>1. [worker[w] EXCEPT !.pc = "wait"]
              = [pc |-> "wait", last |-> b, unread |-> u, set |-> d, todo |-> e]
        BY ONLY <3>1
      <4>2. \A n : [[pc |-> "wait", last |-> b, unread |-> u, set |-> d, todo |-> e] EXCEPT !.set = n]
                      = [pc |-> "wait", last |-> b, unread |-> u, set |-> n, todo |-> e]
        OBVIOUS
      <4>3. QED
        BY ONLY <4>1, <4>2
    <3>3. worker' = [worker EXCEPT ![w] =
                        [[worker[w] EXCEPT !.pc = "wait"] EXCEPT !.set = NoSetting]]
      BY <1>14 DEF WorkerDone
    <3>4. [pc |-> "wait", last |-> b, unread |-> u, set |-> NoSetting, todo |-> e] \in Threads
      BY <1>k, <1>s DEF Threads
    <3>5. QED
      BY <3>2, <3>3, <3>4 DEF TypeOK
  <2>2. QED
    BY <1>14, <2>1 DEF WorkerDone, TypeOK
<1>15. ASSUME NEW w \in Workers, WorkerLoads(w) PROVE TypeOK'
  BY <1>15, LoadEffect DEF WorkerLoads, TypeOK
<1>16. QED
  BY <1>1, <1>2, <1>3, <1>5, <1>6, <1>7, <1>8, <1>9, <1>10, <1>11, <1>12, <1>13, <1>14, <1>15
  DEF Next, OwnerStep, Coordinator, Worker

-----------------------------------------------------------------------------
SetterStep ==
    \/ \E mode \in Modes : SetMode(mode)
    \/ \E n \in Targets : SetTargetPoints(n)
    \/ \E rate \in Rates : SetSampleRate(rate)
    \/ \E span \in Spans : SetVisibleTimeSpan(span)

LEMMA LifecycleStep == TypeOK /\ Lifecycle /\ [Next]_vars => Lifecycle'
<1> SUFFICES ASSUME TypeOK, Lifecycle, [Next]_vars PROVE Lifecycle'
  OBVIOUS
<1> USE DEF settings, caller, sync, rings, data, output
<1>k. /\ worker \in [Workers -> Threads] /\ numWorkers \in Nat
      /\ \A w \in Workers : w \in Nat /\ worker[w].pc \in Pcs
      /\ Pcs = {"none", "wait", "work", "ended"} /\ owner \in Owners
      /\ Owners = {"idle", "reading", "waking", "joining"}
  BY Sizes DEF TypeOK, Threads, Pcs, Owners
<1>1. CASE UNCHANGED vars
  BY <1>1 DEF vars, Lifecycle, WorkersLive
<1>2. CASE (\E c \in Channels : Arrive(c)) \/ SetterStep
  <2>1. UNCHANGED <<channels, numWorkers, caller, sync, coord, worker>>
    BY <1>2 DEF Arrive, SetterStep, SetMode, SetTargetPoints, SetSampleRate, SetVisibleTimeSpan
  <2>2. QED
    BY <2>1 DEF Lifecycle, WorkersLive
<1>3. CASE Start
  <2>1. PICK n \in ChannelCounts : channels' = n /\ numWorkers' = NumWorkers(n)
    BY <1>3 DEF Start
  <2>2. numWorkers' \in Nat /\ (numWorkers' = 0 => channels' = 1)
    BY <2>1, CountsAssumption, Sizes, WorkersFor DEF TypeOK
  <2>3. ~exit'
    BY <1>3 DEF Start, Lifecycle, WorkersLive
  <2>4. \A w \in Workers : worker'[w].pc = IF w <= numWorkers' THEN "wait" ELSE "none"
    BY <1>3 DEF Start, NoWorker
  <2>5. /\ running' /\ ~stopping' /\ coord' = "top" /\ owner' = owner /\ owner = "idle"
    BY <1>3 DEF Start
  <2>6. WorkersLive'
    BY <1>k, <2>2, <2>4 DEF WorkersLive
  <2>7. owner' \notin {"waking", "joining"} /\ coord' \notin {"none", "ended"}
    BY <2>5
  <2>8. QED
    BY <2>2, <2>3, <2>5, <2>6, <2>7 DEF Lifecycle
<1>4. CASE Stop \/ WakeWorkers \/ TryGetFrame \/ ReadVertexCount
  <2>1. UNCHANGED <<numWorkers, worker>> /\ (exit => exit')
    BY <1>4 DEF Stop, WakeWorkers, TryGetFrame, ReadVertexCount
  <2>2. WorkersLive'
    BY <2>1 DEF Lifecycle, WorkersLive
  <2>3. CASE Stop
    BY <2>2, <2>3 DEF Stop, Lifecycle
  <2>4. CASE WakeWorkers
    BY <2>2, <2>4 DEF WakeWorkers, Lifecycle
  <2>5. CASE TryGetFrame \/ ReadVertexCount
    BY <2>2, <2>5 DEF TryGetFrame, ReadVertexCount, Lifecycle
  <2>6. QED
    BY <1>4, <2>3, <2>4, <2>5
<1>5. CASE Join
  <2>1. \A w \in Workers : worker'[w].pc = "none"
    BY <1>5 DEF Join, NoWorker
  <2>2. \A w \in Workers : ~(w <= 0)
    BY Sizes
  <2>3. /\ owner' \notin {"waking", "joining"} /\ ~running' /\ numWorkers' = 0 /\ ~exit'
        /\ coord' = "ended"
    BY <1>5 DEF Join
  <2>4. WorkersLive'
    BY <2>1, <2>2, <2>3 DEF WorkersLive
  <2>5. QED
    BY ONLY <2>3, <2>4 DEF Lifecycle
<1>6. CASE CheckStop
  <2>1. UNCHANGED <<numWorkers, worker>> /\ (exit => exit')
    <3>1. UNCHANGED <<numWorkers, worker>>
      BY <1>6 DEF CheckStop
    <3>2. exit' = (exit \/ numWorkers > 0) \/ exit' = exit
      BY <1>6, Zenon DEF CheckStop
    <3>3. ASSUME exit PROVE exit'
      <4>1. exit = TRUE
        BY <3>3 DEF TypeOK
      <4>2. (exit \/ numWorkers > 0) = TRUE
        BY ONLY <4>1
      <4>3. exit' = TRUE
        BY ONLY <3>2, <4>1, <4>2, Zenon
      <4>4. QED
        BY ONLY <4>3
    <3>4. QED
      BY ONLY <3>1, <3>3, Zenon
  <2>2. WorkersLive'
    BY <2>1 DEF Lifecycle, WorkersLive
  <2>3. CASE stopping
    BY <1>6, <2>2, <2>3 DEF CheckStop, Lifecycle
  <2>4. CASE ~stopping
    BY <1>6, <2>2, <2>4 DEF CheckStop, Lifecycle
  <2>5. QED
    BY <2>3, <2>4
<1>7. CASE ScanEmpty \/ Signal \/ Gather \/ SingleDrain \/ SingleDecimate \/ Publish
  BY <1>7 DEF ScanEmpty, Signal, Gather, SingleDrain, SingleDecimate, Publish, Lifecycle, WorkersLive
<1>8. ASSUME NEW w \in Workers, Worker(w) PROVE Lifecycle'
  <2>1. UNCHANGED <<channels, numWorkers, caller, exit, coord>>
    BY <1>8 DEF Worker, WorkerWakes, WorkerLoads, WorkerDecimates, WorkerDone
  <2>2. CASE WorkerWakes(w)
    <3>1. /\ worker[w].pc # "none" /\ worker'[w].pc # "none" /\ (worker'[w].pc = "ended" => exit)
          /\ \A v \in Workers : v # w => worker'[v] = worker[v]
      BY <2>2, <1>k DEF WorkerWakes, Threads
    <3>2. QED
      BY <2>1, <3>1 DEF Lifecycle, WorkersLive
  <2>3. CASE WorkerDecimates(w)
    <3>1. PICK S : worker' = [worker EXCEPT ![w].todo = S]
      BY <2>3 DEF WorkerDecimates
    <3>2. \A v \in Workers : worker'[v].pc = worker[v].pc
      BY <1>k, <3>1 DEF Threads
    <3>3. QED
      BY <2>1, <3>2 DEF Lifecycle, WorkersLive
  <2>4. CASE WorkerDone(w)
    <3>1. /\ worker[w].pc = "work" /\ worker'[w].pc = "wait"
          /\ \A v \in Workers : v # w => worker'[v] = worker[v]
      BY <2>4, <1>k DEF WorkerDone, Threads
    <3>2. QED
      BY <2>1, <3>1 DEF Lifecycle, WorkersLive
  <2>5. CASE WorkerLoads(w)
    BY <2>1, <2>5, LoadEffect DEF Lifecycle, WorkersLive
  <2>6. QED
    BY <1>8, <2>2, <2>3, <2>4, <2>5 DEF Worker
<1>9. QED
  BY <1>1, <1>2, <1>3, <1>4, <1>5, <1>6, <1>7, <1>8 DEF Next, OwnerStep, Coordinator, SetterStep

-----------------------------------------------------------------------------
(* The workers that have finished the round.                                *)
Finishers == {w \in 1..numWorkers : Finished(w)}

LEMMA FinishersCounted ==
    ASSUME TypeOK
    PROVE  /\ 1..numWorkers \subseteq Workers /\ IsFiniteSet(Finishers)
           /\ Cardinality(Finishers) \in Nat
           /\ numWorkers \in Nat
           /\ Cardinality(Finishers) >= numWorkers => Finishers = 1..numWorkers
<1>1. numWorkers \in Nat /\ 1..numWorkers \subseteq Workers
  BY Sizes DEF TypeOK
<1>2. IsFiniteSet(1..numWorkers) /\ Cardinality(1..numWorkers) = numWorkers
  BY <1>1, FS_Interval
<1>3. Finishers \in SUBSET (1..numWorkers)
  BY DEF Finishers
<1>4. /\ IsFiniteSet(Finishers) /\ Cardinality(Finishers) <= numWorkers
      /\ numWorkers = Cardinality(Finishers) => 1..numWorkers = Finishers
  BY <1>2, <1>3, FS_Subset
<1>5. Cardinality(Finishers) \in Nat
  BY <1>4, FS_CardinalityType
<1>6. QED
  BY <1>1, <1>4, <1>5

(* The round is over when the counter says so.                              *)
LEMMA AllFinished ==
    ASSUME TypeOK, Rounds, coord = "waiting", done >= numWorkers, NEW w \in 1..numWorkers
    PROVE  Finished(w)
<1>1. done = Cardinality(Finishers)
  BY DEF Rounds, Finishers
<1>2. Finishers = 1..numWorkers
  BY <1>1, FinishersCounted
<1>3. QED
  BY <1>2 DEF Finishers

LEMMA RoundsStep == TypeOK /\ Lifecycle /\ Rounds /\ [Next]_vars => Rounds'
<1> SUFFICES ASSUME TypeOK, Lifecycle, Rounds, [Next]_vars PROVE Rounds'
  OBVIOUS
<1> USE DEF settings, caller, sync, rings, data, output
<1>k. /\ worker \in [Workers -> Threads] /\ numWorkers \in Nat
      /\ \A w \in 1..numWorkers : w \in Workers /\ w <= numWorkers
      /\ generation \in Nat /\ done \in Nat
  BY Sizes, FinishersCounted DEF TypeOK
<1>u. ASSUME UNCHANGED <<numWorkers, generation, done, coord, worker>> PROVE Rounds'
  BY <1>u DEF Rounds, Finished
<1>c. ASSUME UNCHANGED <<numWorkers, generation, done, worker>>,
             coord # "waiting", coord' # "waiting"
      PROVE  Rounds'
  BY <1>c DEF Rounds, Finished
<1>1. CASE UNCHANGED vars
  BY <1>1, <1>u DEF vars
<1>2. CASE (\E c \in Channels : Arrive(c)) \/ SetterStep
  BY <1>2, <1>u
  DEF Arrive, SetterStep, SetMode, SetTargetPoints, SetSampleRate, SetVisibleTimeSpan
<1>3. CASE Start
  <2>1. coord' = "top" /\ \A w \in Workers : worker'[w].pc \in {"wait", "none"} /\ worker'[w].last = 0
    BY <1>3 DEF Start, NoWorker
  <2>2. numWorkers' > 0 => generation' = 0
    BY <1>3 DEF Start
  <2>3. numWorkers' \in Nat /\ \A w \in 1..numWorkers' : w \in Workers /\ numWorkers' > 0
    <3>1. TypeOK'
      BY TypeStep
    <3>2. QED
      BY <3>1, Sizes DEF TypeOK
  <2>4. QED
    BY <2>1, <2>2, <2>3 DEF Rounds, Finished
<1>4. CASE Stop \/ WakeWorkers \/ TryGetFrame \/ ReadVertexCount
  BY <1>4, <1>u DEF Stop, WakeWorkers, TryGetFrame, ReadVertexCount
<1>5. CASE Join
  <2>1. numWorkers' = 0 /\ coord' = "ended"
    BY <1>5 DEF Join
  <2>2. QED
    BY <2>1 DEF Rounds
<1>6. CASE CheckStop \/ ScanEmpty \/ SingleDrain \/ SingleDecimate \/ Publish
  BY <1>6, <1>c DEF CheckStop, ScanEmpty, SingleDrain, SingleDecimate, Publish
<1>7. CASE Signal
  <2>1. /\ coord = "scan" /\ coord' = "waiting" /\ numWorkers > 0 /\ done' = 0
        /\ generation' # generation
        /\ UNCHANGED <<numWorkers, worker>>
    BY <1>7, NextGeneration DEF Signal, TypeOK
  <2>2. \A w \in 1..numWorkers : worker[w].last = generation /\ worker[w].pc # "work"
    BY <2>1 DEF Rounds, Finished
  <2>3. {w \in 1..numWorkers' : Finished(w)'} = {}
    BY <2>1, <2>2 DEF Finished
  <2>4. Cardinality({w \in 1..numWorkers' : Finished(w)'}) = 0
    BY <2>3, FS_EmptySet
  <2>5. QED
    BY <2>1, <2>2, <2>4 DEF Rounds
<1>8. CASE Gather
  <2>1. \A w \in 1..numWorkers : Finished(w)
    BY <1>8, AllFinished DEF Gather
  <2>2. coord' = "publish" /\ UNCHANGED <<numWorkers, generation, worker>>
    BY <1>8 DEF Gather
  <2>3. QED
    BY <2>1, <2>2 DEF Rounds, Finished
<1>9. ASSUME NEW w \in Workers, UNCHANGED <<numWorkers, generation, done, coord>>,
             \A v \in Workers : v # w => worker'[v] = worker[v],
             worker[w].pc # "none",
             coord = "waiting" => (worker'[w].pc = "work" => worker'[w].last = generation),
             Finished(w) <=> Finished(w)'
      PROVE  Rounds'
  <2>1. \A v \in Workers : Finished(v) <=> Finished(v)'
    BY <1>9 DEF Finished
  <2>2. {v \in 1..numWorkers' : Finished(v)'} = {v \in 1..numWorkers : Finished(v)}
    BY <1>9, <1>k, <2>1
  <2>3. QED
    BY <1>9, <1>k, <2>1, <2>2 DEF Rounds
<1>w. ASSUME NEW w \in Workers, worker[w].pc # "none" PROVE w \in 1..numWorkers
  BY <1>w, <1>k, Sizes DEF Lifecycle, WorkersLive
<1>10. ASSUME NEW w \in Workers, WorkerWakes(w) PROVE Rounds'
  <2>1. worker[w].pc = "wait" /\ w \in 1..numWorkers /\ UNCHANGED <<numWorkers, generation, done, coord>>
    BY <1>10, <1>w DEF WorkerWakes
  <2>2. CASE worker' = [worker EXCEPT ![w].pc = "ended"]
    BY <1>9, <1>k, <2>1, <2>2 DEF Finished
  <2>3. CASE /\ generation > worker[w].last
             /\ worker' = [worker EXCEPT ![w] =
                 [pc |-> "work", last |-> generation, unread |-> LoadOrder, set |-> NoSetting,
                  todo |-> Assigned(w)]]
    <3>1. ~Finished(w)
      <4>1. worker[w].last \in Nat
        BY DEF TypeOK, Threads
      <4>2. QED
        BY <1>k, <2>3, <4>1 DEF Finished
    <3>2. worker'[w].pc = "work" /\ worker'[w].last = generation
          /\ \A v \in Workers : v # w => worker'[v] = worker[v]
      BY <1>k, <2>3
    <3>3. QED
      BY <1>9, <2>1, <3>1, <3>2 DEF Finished
  <2>4. QED
    BY <1>10, <2>2, <2>3 DEF WorkerWakes
<1>11. ASSUME NEW w \in Workers, WorkerDecimates(w) PROVE Rounds'
  <2>1. worker[w].pc = "work" /\ UNCHANGED <<numWorkers, generation, done, coord>>
    BY <1>11 DEF WorkerDecimates
  <2>2. PICK S : worker' = [worker EXCEPT ![w].todo = S]
    BY <1>11 DEF WorkerDecimates
  <2>3. /\ worker'[w].pc = worker[w].pc /\ worker'[w].last = worker[w].last
        /\ \A v \in Workers : v # w => worker'[v] = worker[v]
    BY <1>k, <2>2 DEF Threads
  <2>4. coord = "waiting" => worker[w].last = generation
    BY <1>w, <2>1 DEF Rounds
  <2>5. QED
    BY <1>9, <2>1, <2>3, <2>4 DEF Finished
<1>12. ASSUME NEW w \in Workers, WorkerDone(w) PROVE Rounds'
  <2>1. worker[w].pc = "work" /\ UNCHANGED <<numWorkers, generation, coord>> /\ done' = done + 1
    BY <1>12 DEF WorkerDone
  <2>2. /\ worker'[w].pc = "wait" /\ worker'[w].last = worker[w].last
        /\ \A v \in Workers : v # w => worker'[v] = worker[v]
    BY <1>12, <1>k DEF WorkerDone, Threads
  <2>3. w \in 1..numWorkers
    BY <1>w, <2>1
  <2>4. coord = "waiting"
    BY <2>1, <2>3 DEF Rounds, Finished
  <2>5. worker[w].last = generation
    BY <2>1, <2>3, <2>4 DEF Rounds
  <2>6. ~Finished(w) /\ Finished(w)' /\ \A v \in Workers : v # w => (Finished(v) <=> Finished(v)')
    BY <2>1, <2>2, <2>5 DEF Finished
  <2>7. {v \in 1..numWorkers' : Finished(v)'} = Finishers \cup {w} /\ w \notin Finishers
    BY <1>k, <2>1, <2>3, <2>6 DEF Finishers
  <2>8. Cardinality(Finishers \cup {w}) = Cardinality(Finishers) + 1
    BY <2>7, FinishersCounted, FS_AddElement
  <2>9. done = Cardinality(Finishers)
    BY <2>4 DEF Rounds, Finishers
  <2>10. done' = Cardinality({v \in 1..numWorkers' : Finished(v)'})
    BY <2>1, <2>7, <2>8, <2>9
  <2>11. \A v \in 1..numWorkers' : worker'[v].pc = "work" => worker'[v].last = generation'
    BY <1>k, <2>1, <2>2, <2>4 DEF Rounds
  <2>12. QED
    BY <2>1, <2>4, <2>10, <2>11 DEF Rounds
<1>13. ASSUME NEW w \in Workers, WorkerLoads(w) PROVE Rounds'
  <2>1. worker[w].pc = "work" /\ UNCHANGED <<numWorkers, generation, done, coord>>
    BY <1>13 DEF WorkerLoads
  <2>2. coord = "waiting" => worker[w].last = generation
    BY <1>w, <2>1 DEF Rounds
  <2>3. QED
    BY <1>9, <1>13, <2>1, <2>2, LoadEffect DEF Finished
<1>14. QED
  BY <1>1, <1>2, <1>3, <1>4, <1>5, <1>6, <1>7, <1>8, <1>10, <1>11, <1>12, <1>13
  DEF Next, OwnerStep, Coordinator, Worker, SetterStep

-----------------------------------------------------------------------------
(* Channel c of worker w is still to be done in this round, or its result   *)
(* has seen what the round was signalled for.                               *)
Seen(w, c) ==
    (worker[w].pc = "work" /\ c \in worker[w].todo) \/ result[c].upto >= atSignal[c]

RoundSeen ==
    \A w \in 1..numWorkers : worker[w].last = generation => \A c \in Assigned(w) : Seen(w, c)

LEMMA FreshStep == TypeOK /\ Lifecycle /\ Rounds /\ Fresh /\ [Next]_vars => Fresh'
<1> SUFFICES ASSUME TypeOK, Lifecycle, Rounds, Fresh, [Next]_vars PROVE Fresh'
  OBVIOUS
<1> USE DEF settings, caller, sync, rings, data, output
<1>k. /\ worker \in [Workers -> Threads] /\ numWorkers \in Nat
      /\ \A w \in 1..numWorkers : w \in Workers /\ Assigned(w) \subseteq Channels
      /\ generation \in Nat /\ TypeOK'
      /\ Used \subseteq Channels /\ 1 \in Channels /\ 1 \in Used
  <2>1. TypeOK'
    BY TypeStep
  <2>2. /\ worker \in [Workers -> Threads] /\ numWorkers \in Nat /\ 1..numWorkers \subseteq Workers
        /\ generation \in Nat
    BY Sizes, FinishersCounted DEF TypeOK
  <2>3. /\ Used \subseteq Channels /\ 1 \in Channels /\ 1 \in Used
        /\ \A w \in Workers : Assigned(w) \subseteq Channels
    BY UsedChannels
  <2>4. QED
    BY ONLY <2>1, <2>2, <2>3
<1>n. /\ \A c \in Channels : pushed[c] \in Nat /\ taken[c] \in Nat /\ atSignal[c] \in Nat
      /\ \A c \in Channels : pushed'[c] \in Nat /\ taken'[c] \in Nat /\ atSignal'[c] \in Nat
      /\ \A c \in Channels : result[c].upto \in Nat /\ result'[c].upto \in Nat
  BY <1>k DEF TypeOK
<1>r. coord = "waiting" => RoundSeen
  BY DEF Fresh, RoundSeen, Seen
<1>q. ASSUME \A c \in Channels : atSignal'[c] <= pushed'[c],
             coord' = "waiting" => RoundSeen',
             coord' = "decimate" => numWorkers' = 0 /\ taken'[1] >= atSignal'[1],
             coord' = "publish" => \A c \in Used' : frame'.upto[c] >= atSignal'[c]
      PROVE  Fresh'
  BY <1>q DEF Fresh, RoundSeen, Seen
<1>e. ASSUME UNCHANGED <<channels, numWorkers, generation, pushed, taken, atSignal, worker,
                         result, frame>>,
             coord' = coord \/ coord' \in {"top", "scan", "ended"}
      PROVE  Fresh'
  <2>1. UNCHANGED <<RoundSeen, Used>>
    BY <1>e DEF RoundSeen, Seen, Assigned, Used
  <2>2. QED
    BY <1>e, <1>q, <1>r, <2>1 DEF Fresh
<1>1. CASE UNCHANGED vars
  BY <1>1, <1>e DEF vars
<1>2. ASSUME NEW c \in Channels, Arrive(c) PROVE Fresh'
  <2>1. /\ pushed' = [pushed EXCEPT ![c] = pushed[c] + 1]
        /\ UNCHANGED <<channels, numWorkers, generation, taken, atSignal, worker, result, frame,
                       coord>>
    BY <1>2 DEF Arrive
  <2>2. ASSUME NEW d \in Channels PROVE atSignal'[d] <= pushed'[d]
    <3>1. atSignal[d] <= pushed[d] /\ pushed' = [pushed EXCEPT ![c] = pushed[c] + 1]
          /\ pushed \in [Channels -> Nat] /\ atSignal[d] \in Nat
      BY <1>n, <2>1 DEF Fresh, TypeOK
    <3>2. pushed[d] <= pushed'[d] /\ pushed[d] \in Nat /\ pushed'[d] \in Nat
      BY ONLY <3>1, c \in Channels, d \in Channels
    <3>3. QED
      BY <2>1, <3>1, <3>2
  <2>3. UNCHANGED <<RoundSeen, Used>>
    BY <2>1 DEF RoundSeen, Seen, Assigned, Used
  <2>4. QED
    BY <1>q, <1>r, <2>1, <2>2, <2>3 DEF Fresh
<1>3. CASE SetterStep
  <2>1. UNCHANGED <<channels, numWorkers, generation, pushed, taken, atSignal, worker, result,
                    frame, coord>>
    BY <1>3 DEF SetterStep, SetMode, SetTargetPoints, SetSampleRate, SetVisibleTimeSpan
  <2>2. QED
    BY <1>e, <2>1
<1>4. CASE Start
  BY <1>4, <1>q DEF Start, Fresh
<1>5. CASE Stop \/ WakeWorkers \/ TryGetFrame \/ ReadVertexCount
  BY <1>5, <1>e DEF Stop, WakeWorkers, TryGetFrame, ReadVertexCount
<1>6. CASE Join
  BY <1>6, <1>q DEF Join, Fresh
<1>7. CASE CheckStop \/ ScanEmpty
  BY <1>7, <1>e DEF CheckStop, ScanEmpty
<1>8. CASE Signal
  <2>1. /\ coord = "scan" /\ coord' = "waiting" /\ generation' # generation
        /\ atSignal' = pushed /\ UNCHANGED <<numWorkers, worker, pushed>>
    BY <1>8, NextGeneration DEF Signal, TypeOK
  <2>2. \A w \in 1..numWorkers : worker[w].last = generation
    BY <2>1 DEF Rounds, Finished
  <2>3. RoundSeen'
    BY <2>1, <2>2 DEF RoundSeen
  <2>4. \A c \in Channels : atSignal'[c] <= pushed'[c]
    BY <1>n, <2>1
  <2>5. QED
    BY <1>q, <2>1, <2>3, <2>4
<1>9. CASE Gather
  <2>1. /\ coord = "waiting" /\ coord' = "publish" /\ done >= numWorkers
        /\ UNCHANGED <<channels, pushed, atSignal, result>>
        /\ frame'.upto = [c \in Used |-> result[c].upto]
    BY <1>9 DEF Gather
  <2>2. ASSUME NEW c \in Used PROVE frame'.upto[c] >= atSignal[c]
    <3>1. PICK w \in 1..numWorkers : c \in Assigned(w)
      BY <2>1, EveryChannelAssigned DEF Rounds
    <3>2. worker[w].pc # "work" /\ worker[w].last = generation
      BY <2>1, AllFinished DEF Finished
    <3>3. result[c].upto >= atSignal[c]
      BY <1>r, <2>1, <3>1, <3>2 DEF RoundSeen, Seen
    <3>4. QED
      BY <2>1, <3>3
  <2>3. Used' = Used
    BY <2>1 DEF Used
  <2>4. QED
    BY <1>q, <2>1, <2>2, <2>3 DEF Fresh
<1>10. CASE SingleDrain
  <2>1. /\ numWorkers = 0 /\ coord' = "decimate" /\ atSignal' = pushed
        /\ UNCHANGED <<numWorkers, pushed>> /\ Drain(1, Window(setting))
    BY <1>10 DEF SingleDrain
  <2>2. taken'[1] = pushed[1]
    <3>1. setting \in Settings
      BY DEF TypeOK
    <3>2. QED
      BY <1>k, <2>1, <3>1, DrainEffect
  <2>3. taken'[1] >= atSignal'[1] /\ \A c \in Channels : atSignal'[c] <= pushed'[c]
    BY <1>k, <1>n, <2>1, <2>2
  <2>4. QED
    BY <1>q, <2>1, <2>3
<1>11. CASE SingleDecimate
  <2>1. /\ coord = "decimate" /\ coord' = "publish" /\ frame'.upto = <<taken[1]>>
        /\ UNCHANGED <<channels, pushed, atSignal>>
    BY <1>11 DEF SingleDecimate
  <2>2. channels = 1
    BY <2>1 DEF Lifecycle, Fresh
  <2>3. \A c \in Used' : c = 1
    BY <2>1, <2>2 DEF Used
  <2>4. frame'.upto[1] >= atSignal'[1]
    BY <2>1 DEF Fresh
  <2>5. QED
    BY <1>q, <2>1, <2>3, <2>4 DEF Fresh
<1>12. CASE Publish
  <2>1. \A c \in Channels : atSignal'[c] = 0
    BY <1>12 DEF Publish, Nothing
  <2>2. QED
    BY <1>12, <1>n, <1>q, <2>1 DEF Publish
<1>w. ASSUME NEW w \in Workers, worker[w].pc # "none" PROVE w \in 1..numWorkers
  BY <1>w, <1>k, Sizes DEF Lifecycle, WorkersLive
<1>13. ASSUME NEW w \in Workers,
              UNCHANGED <<channels, numWorkers, generation, pushed, atSignal, frame, coord>>,
              \A c \in Channels : taken'[c] >= taken[c],
              \A v \in Workers : v # w => worker'[v] = worker[v],
              \A v \in Workers, c \in Channels : v # w /\ Seen(v, c) => Seen(v, c)',
              RoundSeen /\ worker'[w].last = generation => \A c \in Assigned(w) : Seen(w, c)'
       PROVE  Fresh'
  <2>1. Used' = Used /\ \A v \in Workers : Assigned(v)' = Assigned(v)
    BY <1>13 DEF Used, Assigned
  <2>2. ASSUME RoundSeen PROVE RoundSeen'
    <3>1. SUFFICES ASSUME NEW v \in 1..numWorkers, worker'[v].last = generation,
                          NEW c \in Assigned(v)
                   PROVE  Seen(v, c)'
      BY <1>13, <1>k, <2>1 DEF RoundSeen
    <3>2. CASE v = w
      BY <1>13, <2>2, <3>1, <3>2
    <3>3. CASE v # w
      <4>1. v \in Workers /\ worker[v].last = generation /\ c \in Channels
        BY <1>13, <1>k, <3>1, <3>3
      <4>2. Seen(v, c)
        BY <2>2, <4>1 DEF RoundSeen
      <4>3. QED
        BY <1>13, <3>3, <4>1, <4>2
    <3>4. QED
      BY <3>2, <3>3
  <2>3. coord' = "decimate" => numWorkers' = 0 /\ taken'[1] >= atSignal'[1]
    <3>1. ASSUME coord = "decimate" PROVE numWorkers = 0 /\ taken[1] >= atSignal[1]
      BY <3>1 DEF Fresh
    <3>2. taken'[1] >= taken[1]
      BY <1>13, <1>k
    <3>3. QED
      BY <1>13, <1>k, <1>n, <3>1, <3>2
  <2>4. QED
    BY <1>13, <1>q, <1>r, <2>1, <2>2, <2>3 DEF Fresh
<1>14. ASSUME NEW w \in Workers, WorkerWakes(w) PROVE Fresh'
  <2>1. /\ worker[w].pc = "wait" /\ w \in 1..numWorkers
        /\ UNCHANGED <<channels, numWorkers, generation, pushed, taken, result, atSignal, frame,
                       coord>>
    BY <1>14, <1>w DEF WorkerWakes
  <2>2. \A c \in Channels : taken'[c] >= taken[c]
    BY <1>n, <2>1
  <2>3. CASE worker' = [worker EXCEPT ![w].pc = "ended"]
    <3>1. /\ worker'[w].pc = "ended" /\ worker'[w].last = worker[w].last
          /\ \A v \in Workers : v # w => worker'[v] = worker[v]
      BY <1>k, <2>3 DEF Threads
    <3>2. \A v \in Workers, c \in Channels : v # w /\ Seen(v, c) => Seen(v, c)'
      BY <2>1, <3>1 DEF Seen
    <3>3. RoundSeen /\ worker'[w].last = generation => \A c \in Assigned(w) : Seen(w, c)'
      BY <2>1, <3>1 DEF RoundSeen, Seen
    <3>4. QED
      BY <1>13, <2>1, <2>2, <3>1, <3>2, <3>3
  <2>4. CASE worker' = [worker EXCEPT ![w] =
                 [pc |-> "work", last |-> generation, unread |-> LoadOrder, set |-> NoSetting,
                  todo |-> Assigned(w)]]
    <3>1. /\ worker'[w].pc = "work" /\ worker'[w].todo = Assigned(w)
          /\ \A v \in Workers : v # w => worker'[v] = worker[v]
      BY <1>k, <2>4
    <3>2. \A v \in Workers, c \in Channels : v # w /\ Seen(v, c) => Seen(v, c)'
      BY <2>1, <3>1 DEF Seen
    <3>3. \A c \in Assigned(w) : Seen(w, c)'
      BY <3>1 DEF Seen
    <3>4. QED
      BY <1>13, <2>1, <2>2, <3>1, <3>2, <3>3
  <2>5. QED
    BY <1>14, <2>3, <2>4 DEF WorkerWakes
<1>15. ASSUME NEW w \in Workers, WorkerDecimates(w) PROVE Fresh'
  <2> DEFINE c == First(worker[w].todo)
             set == worker[w].set
  <2>1. /\ worker[w].pc = "work" /\ w \in 1..numWorkers
        /\ UNCHANGED <<channels, numWorkers, generation, pushed, atSignal, frame, coord>>
    BY <1>15, <1>w DEF WorkerDecimates
  <2>2. c \in worker[w].todo /\ c \in Channels /\ set \in Settings
    BY <1>15, FirstToDo DEF WorkerDecimates, TypeOK, Threads, First
  <2>3. PICK r : /\ worker' = [worker EXCEPT ![w].todo = @ \ {c}]
                 /\ Drain(c, Window(set))
                 /\ result' = [result EXCEPT ![c] = r] /\ r.upto = taken'[c]
    <3> DEFINE n == IF hist'[c] = <<>> THEN 0
                    ELSE Vertices(Len(hist'[c]), Effective(set), set.target)
               r == [upto |-> taken'[c], vtx |-> n]
    <3>1. /\ worker' = [worker EXCEPT ![w].todo = @ \ {c}]
          /\ Drain(c, Window(set))
          /\ result' = [result EXCEPT ![c] = r]
      BY <1>15 DEF WorkerDecimates, First
    <3> HIDE DEF n
    <3>2. r.upto = taken'[c]
      OBVIOUS
    <3> HIDE DEF r
    <3>3. QED
      BY <3>1, <3>2
  <2> HIDE DEF c, set
  <2>4. taken'[c] = pushed[c] /\ \A d \in Channels : d # c => taken'[d] = taken[d]
    BY <2>2, <2>3, DrainEffect
  <2>5. \A d \in Channels : taken'[d] >= taken[d]
    <3>1. taken[c] <= pushed[c]
      BY <2>2 DEF TypeOK
    <3>2. QED
      BY <1>n, <2>2, <2>4, <3>1
  <2>6. result'[c].upto >= atSignal'[c] /\ \A d \in Channels : d # c => result'[d] = result[d]
    <3>1. result'[c].upto = pushed[c] /\ \A d \in Channels : d # c => result'[d] = result[d]
      BY <2>2, <2>3, <2>4 DEF TypeOK
    <3>2. pushed[c] >= atSignal[c]
      BY <1>n, <2>2 DEF Fresh
    <3>3. QED
      BY <2>1, <3>1, <3>2
  <2>7. /\ worker'[w].pc = worker[w].pc /\ worker'[w].last = worker[w].last
        /\ worker'[w].todo = worker[w].todo \ {c}
        /\ \A v \in Workers : v # w => worker'[v] = worker[v]
    BY <1>k, <2>3 DEF Threads
  <2>8. ASSUME NEW v \in Workers, NEW d \in Channels, v # w, Seen(v, d) PROVE Seen(v, d)'
    BY <2>1, <2>6, <2>7, <2>8 DEF Seen
  <2>9. ASSUME NEW d \in Channels, Seen(w, d) PROVE Seen(w, d)'
    BY <2>1, <2>6, <2>7, <2>9 DEF Seen
  <2>10. ASSUME RoundSeen, worker'[w].last = generation, NEW d \in Assigned(w) PROVE Seen(w, d)'
    BY <1>k, <2>1, <2>7, <2>9, <2>10 DEF RoundSeen
  <2>11. QED
    BY <1>13, <2>1, <2>5, <2>7, <2>8, <2>10
<1>16. ASSUME NEW w \in Workers, WorkerDone(w) PROVE Fresh'
  <2>1. /\ worker[w].pc = "work" /\ worker[w].todo = {} /\ w \in 1..numWorkers
        /\ UNCHANGED <<channels, numWorkers, generation, pushed, taken, result, atSignal, frame,
                       coord>>
    BY <1>16, <1>w DEF WorkerDone
  <2>2. \A c \in Channels : taken'[c] >= taken[c]
    BY <1>n, <2>1
  <2>3. /\ worker'[w].pc = "wait" /\ worker'[w].last = worker[w].last
        /\ \A v \in Workers : v # w => worker'[v] = worker[v]
    BY <1>16, <1>k DEF WorkerDone, Threads
  <2>4. \A v \in Workers, c \in Channels : v # w /\ Seen(v, c) => Seen(v, c)'
    BY <2>1, <2>3 DEF Seen
  <2>5. RoundSeen /\ worker'[w].last = generation => \A c \in Assigned(w) : Seen(w, c)'
    BY <2>1, <2>3 DEF RoundSeen, Seen
  <2>6. QED
    BY <1>13, <2>1, <2>2, <2>3, <2>4, <2>5
<1>17. ASSUME NEW w \in Workers, WorkerLoads(w) PROVE Fresh'
  <2>1. /\ worker[w].pc = "work" /\ w \in 1..numWorkers
        /\ UNCHANGED <<channels, numWorkers, generation, pushed, taken, result, atSignal, frame,
                       coord>>
    BY <1>17, <1>w DEF WorkerLoads
  <2>2. \A c \in Channels : taken'[c] >= taken[c]
    BY <1>n, <2>1
  <2>3. /\ worker'[w].pc = "work" /\ worker'[w].last = worker[w].last
        /\ worker'[w].todo = worker[w].todo
        /\ \A v \in Workers : v # w => worker'[v] = worker[v]
    BY <1>17, LoadEffect
  <2>4. \A v \in Workers, c \in Channels : v # w /\ Seen(v, c) => Seen(v, c)'
    BY <2>1, <2>3 DEF Seen
  <2>5. RoundSeen /\ worker'[w].last = generation => \A c \in Assigned(w) : Seen(w, c)'
    BY <2>1, <2>3 DEF RoundSeen, Seen
  <2>6. QED
    BY <1>13, <2>1, <2>2, <2>3, <2>4, <2>5
<1>18. QED
  BY <1>1, <1>2, <1>3, <1>4, <1>5, <1>6, <1>7, <1>8, <1>9, <1>10, <1>11, <1>12, <1>14, <1>15,
     <1>16, <1>17
  DEF Next, OwnerStep, Coordinator, Worker, SetterStep

-----------------------------------------------------------------------------
LEMMA WindowStep == TypeOK /\ WindowHasNoGap /\ [Next]_vars => WindowHasNoGap'
<1> SUFFICES ASSUME TypeOK, WindowHasNoGap, [Next]_vars PROVE WindowHasNoGap'
  OBVIOUS
<1> USE DEF settings, caller, sync, rings, data, output
<1>1. CASE UNCHANGED <<taken, hist>>
  BY <1>1 DEF WindowHasNoGap
<1>2. ASSUME NEW c \in Channels, NEW s \in Settings, Drain(c, Window(s)) PROVE WindowHasNoGap'
  BY <1>2, DrainEffect DEF WindowHasNoGap
<1>3. CASE Join
  <2>1. \A c \in Channels : hist'[c] = <<>>
    BY <1>3 DEF Join, NoHistory
  <2>2. QED
    BY <2>1 DEF WindowHasNoGap
<1>4. CASE SingleDrain
  <2>1. 1 \in Channels /\ setting \in Settings /\ Drain(1, Window(setting))
    BY <1>4, UsedChannels DEF SingleDrain, TypeOK
  <2>2. QED
    BY <1>2, <2>1
<1>5. ASSUME NEW w \in Workers, WorkerDecimates(w) PROVE WindowHasNoGap'
  <2> DEFINE c == First(worker[w].todo)
             set == worker[w].set
  <2>1. c \in Channels /\ set \in Settings
    BY <1>5, FirstToDo DEF WorkerDecimates, TypeOK, Threads, First
  <2>2. Drain(c, Window(set))
    BY <1>5 DEF WorkerDecimates, First
  <2> HIDE DEF c, set
  <2>3. QED
    BY <1>2, <2>1, <2>2
<1>6. QED
  BY <1>1, <1>3, <1>4, <1>5
  DEF vars, Next, OwnerStep, Coordinator, Worker, Arrive, Start, SetMode, SetTargetPoints,
      SetSampleRate, SetVisibleTimeSpan, Stop, WakeWorkers, TryGetFrame, ReadVertexCount,
      CheckStop, ScanEmpty, Signal, Gather, SingleDecimate, Publish, WorkerWakes, WorkerLoads, WorkerDone

LEMMA InitInv == Init => TypeOK /\ Lifecycle /\ Rounds /\ Fresh /\ WindowHasNoGap
<1> SUFFICES ASSUME Init PROVE TypeOK /\ Lifecycle /\ Rounds /\ Fresh /\ WindowHasNoGap
  OBVIOUS
<1>1. /\ \A w \in Workers : worker[w].pc = "none" /\ ~(w <= 0)
      /\ NoWorker \in Threads
  BY Sizes DEF Init, NoWorker, NoSetting, Threads, Pcs, Settings, AllModes, SettingNames
<1>2. TypeOK
  <2>1. Nothing \in [Channels -> Nat] /\ \A c \in Channels : Nothing[c] <= Nothing[c]
    BY DEF Nothing
  <2>2. NoHistory \in [Channels -> Seq(Int)] /\ NoResult \in [Channels -> [upto : Nat, vtx : Nat]]
    BY DEF NoHistory, NoResult
  <2>3. setting \in Settings
    BY DEF Init, Settings, AllModes
  <2>4. worker \in [Workers -> Threads]
    BY <1>1 DEF Init
  <2>5. /\ hw \in HwWorkers /\ channels \in ChannelCounts /\ numWorkers \in 0..MaxWorkers
        /\ generation \in 0..(GenerationMod - 1) /\ done \in Nat
        /\ owner \in Owners /\ coord \in Coords
    BY Sizes DEF Init, Owners, Coords
  <2>a. running \in BOOLEAN /\ stopping \in BOOLEAN /\ exit \in BOOLEAN
    BY DEF Init
  <2>6. pushed = Nothing /\ taken = Nothing /\ atSignal = Nothing /\ hist = NoHistory
        /\ result = NoResult
    BY DEF Init
  <2>7. QED
    BY <2>1, <2>2, <2>3, <2>4, <2>5, <2>6, <2>a DEF TypeOK
<1>3. Lifecycle
  BY <1>1 DEF Init, Lifecycle, WorkersLive
<1>4. Rounds
  BY DEF Init, Rounds
<1>5. Fresh
  BY DEF Init, Fresh, Nothing
<1>6. WindowHasNoGap
  <2>1. \A c \in Channels : hist[c] = <<>>
    BY DEF Init, NoHistory
  <2>2. QED
    BY <2>1 DEF WindowHasNoGap
<1>7. QED
  BY <1>2, <1>3, <1>4, <1>5, <1>6

(* The invariant: the types, the life of the threads, the counters of the   *)
(* rounds, what the results have seen, and the shape of the windows.        *)
THEOREM ThreadsKept == Spec => [](TypeOK /\ Lifecycle /\ Rounds /\ Fresh /\ WindowHasNoGap)
  BY InitInv, TypeStep, LifecycleStep, RoundsStep, FreshStep, WindowStep, PTL DEF Spec

(* The coordinator gathers, and signals again, only when every worker has   *)
(* counted itself done in this round; work_generation_ may wrap around.     *)
THEOREM RoundsApart == Spec => []RoundsDoNotOverlap
<1>1. TypeOK /\ Lifecycle /\ Rounds => RoundsDoNotOverlap
  <2> SUFFICES ASSUME TypeOK, Lifecycle, Rounds PROVE RoundsDoNotOverlap
    OBVIOUS
  <2>1. ASSUME coord # "waiting", NEW w \in Workers PROVE worker[w].pc # "work"
    <3>1. CASE w <= numWorkers
      <4>1. w \in 1..numWorkers
        BY <3>1, Sizes DEF TypeOK
      <4>2. QED
        BY <2>1, <4>1 DEF Rounds, Finished
    <3>2. CASE ~(w <= numWorkers)
      <4>1. w > numWorkers
        BY <3>2, Sizes DEF TypeOK
      <4>2. QED
        BY <4>1 DEF Lifecycle, WorkersLive
    <3>3. QED
      BY <3>1, <3>2
  <2>2. QED
    BY <2>1 DEF Rounds, Finished, RoundsDoNotOverlap
<1>2. QED
  BY <1>1, ThreadsKept, PTL

(* No channel of a frame misses what was in the rings at the signal.        *)
THEOREM Freshness == Spec => []FramesAreFresh
<1>1. Fresh => FramesAreFresh
  BY DEF Fresh, FramesAreFresh
<1>2. QED
  BY <1>1, ThreadsKept, PTL

(* The window of a channel is one run of samples, whatever is discarded.    *)
THEOREM Windows == Spec => []WindowHasNoGap
  BY ThreadsKept, PTL

(* The threads of a run live until its stop(), after any number of          *)
(* restarts.                                                                *)
THEOREM LiveUntilStopped == Spec => []RunsUntilStopped
<1>1. TypeOK /\ Lifecycle => RunsUntilStopped
  <2> SUFFICES ASSUME TypeOK, Lifecycle, running, owner \in {"idle", "reading"}
               PROVE  /\ coord # "ended"
                      /\ \A w \in Workers :
                            worker[w].pc \in IF w <= numWorkers THEN {"wait", "work"} ELSE {"none"}
    BY DEF RunsUntilStopped
  <2>1. ~stopping /\ ~exit /\ coord # "ended" /\ WorkersLive
    BY DEF Lifecycle
  <2>2. ASSUME NEW w \in Workers
        PROVE  worker[w].pc \in IF w <= numWorkers THEN {"wait", "work"} ELSE {"none"}
    <3>1. worker[w].pc \in {"none", "wait", "work", "ended"} /\ worker[w].pc # "ended"
      BY <2>1 DEF TypeOK, Threads, Pcs, WorkersLive
    <3>2. w \in Nat /\ numWorkers \in Nat
      BY Sizes DEF TypeOK
    <3>3. QED
      BY <2>1, <3>1, <3>2 DEF WorkersLive
  <2>3. QED
    BY <2>1, <2>2
<1>2. QED
  BY <1>1, ThreadsKept, PTL

=============================================================================
