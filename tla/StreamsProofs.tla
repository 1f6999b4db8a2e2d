----------------------------- MODULE StreamsProofs -----------------------------
(***************************************************************************)
(* Theorems about Streams, for every set of members, every capacity of the *)
(* queues and buffers, and any number of calls, writes and losses.         *)
(***************************************************************************)
EXTENDS Streams, FiniteSetTheorems, SequenceTheorems, WellFoundedInduction, TLAPS

-----------------------------------------------------------------------------
\* Stream ids.

LEMMA LeastNumber ==
  ASSUME NEW S \in SUBSET Nat, S # {}
  PROVE  \E i \in S : \A j \in S : i <= j
  <1> DEFINE R == {ss \in Nat \X Nat : ss[1] < ss[2]}
  <1>1. IsWellFoundedOn(R, Nat)
    BY NatLessThanWellFounded DEF OpToRel
  <1>2. \A i, j \in Nat : <<j, i>> \in R <=> j < i
    OBVIOUS
  <1> HIDE DEF R
  <1>3. \E i \in S : \A j \in S : ~(<<j, i>> \in R)
    BY <1>1, WFMin
  <1>4. PICK i \in S : \A j \in S : ~(<<j, i>> \in R)
    BY <1>3
  <1>5. ASSUME NEW j \in S
        PROVE  i <= j
    <2>1. i \in Nat /\ j \in Nat
      OBVIOUS
    <2>2. ~(j < i)
      BY <1>2, <1>4, <2>1
    <2> QED
      BY <2>1, <2>2
  <1> QED
    BY <1>5

LEMMA Pigeons ==
  ASSUME NEW L \in Nat, NEW f \in [0..L -> 1..L]
  PROVE  \E i, j \in 0..L : i # j /\ f[i] = f[j]
  <1>1. IsFiniteSet(0..L) /\ Cardinality(0..L) = L + 1
    BY FS_Interval
  <1>2. IsFiniteSet(1..L) /\ Cardinality(1..L) = IF 1 > L THEN 0 ELSE L - 1 + 1
    BY FS_Interval
  <1>3. Cardinality(1..L) < Cardinality(0..L)
    BY <1>1, <1>2
  <1> QED
    BY <1>1, <1>2, <1>3, FS_PigeonHole

\* Among one more candidate than there are Stream objects one is not taken.
LEMMA SomeIdIsFree ==
  ASSUME ends \in Seq(End), NEW p, NEW q, NEW n \in Nat, n = nextId[p][Parity(p, q)],
         n % 2 = Parity(p, q)
  PROVE  FreeIds(p, q) # {} /\ FreeIds(p, q) \subseteq Nat
  <1>1. FreeIds(p, q) \subseteq Nat
    BY DEF FreeIds
  <1> DEFINE L == Len(ends)
             cand(j) == n + 2 * j
  <1>2. L \in Nat /\ Ends = 1..L
    BY DEF Ends
  <1>3. ASSUME NEW j \in 0..L
        PROVE  cand(j) \in n..(n + 2 * L) /\ cand(j) % 2 = Parity(p, q)
    <2>1. (n + 2 * j) % 2 = n % 2
      BY <1>2
    <2> QED
      BY <1>2, <2>1
  <1>4. ASSUME \A j \in 0..L : Busy(p, cand(j))
        PROVE  FALSE
    <2> DEFINE f == [j \in 0..L |-> CHOOSE k \in Ends : ends[k].id = cand(j)]
    <2>1. \A j \in 0..L : \E k \in Ends : ends[k].id = cand(j)
      BY <1>4 DEF Busy, Find
    <2>2. \A j \in 0..L : f[j] \in Ends /\ ends[f[j]].id = cand(j)
      BY <2>1
    <2>3. f \in [0..L -> 1..L]
      BY <1>2, <2>2
    <2>4. PICK i, j \in 0..L : i # j /\ f[i] = f[j]
      BY <1>2, <2>3, Pigeons
    <2>5. cand(i) = cand(j)
      BY <2>2, <2>4
    <2> QED
      BY <1>2, <2>4, <2>5
  <1>5. PICK j \in 0..L : ~Busy(p, cand(j))
    BY <1>4
  <1>6. cand(j) \in FreeIds(p, q)
    BY <1>3, <1>5 DEF FreeIds
  <1> QED
    BY <1>1, <1>6

-----------------------------------------------------------------------------
\* The inductive invariant.

\* The parities of the two counters, which the ids keep.
Counters == \A p \in Members, b \in {0, 1} : nextId[p][b] % 2 = b

\* Without an error the reader has every chunk up to the next.
Gapless ==
    \A k \in Ends : ends[k].err = "none" =>
        /\ ends[k].next = Len(ends[k].got)
        /\ \A i \in DOMAIN ends[k].got : ends[k].got[i].seq = i - 1

\* Where a chunk can be.
OnRelay == {f \in FramesOn(Paths) : f.kind = "data"}
TakenBy(k) == {ends[k].got[i] : i \in DOMAIN ends[k].got}

Written(f) ==
    /\ f.of \in Ends
    /\ f.seq < ends[f.of].sent
    /\ f.id = ends[f.of].id

\* Every chunk was written, and its end drew its number.
ChunksAreWritten ==
    /\ \A f \in writing \cup OnRelay : Written(f)
    /\ \A k \in Ends : \A f \in ends[k].buf \cup TakenBy(k) : Written(f)

\* No chunk is in two places.
RelayOnce ==
    \A pq, rs \in Paths : \A i \in DOMAIN relay[pq], j \in DOMAIN relay[rs] :
        relay[pq][i] = relay[rs][j] /\ relay[pq][i].kind = "data" => pq = rs /\ i = j

ChunksAreOnce ==
    /\ \A f \in writing : f \notin OnRelay
    /\ \A f \in writing \cup OnRelay : \A k \in Ends : f \notin ends[k].buf /\ f \notin TakenBy(k)
    /\ RelayOnce
    /\ \A k, l \in Ends : \A f \in ends[k].buf :
         f \notin TakenBy(l) /\ (f \in ends[l].buf => k = l)

\* What was taken has numbers below the next.
TakenInOrder == \A k \in Ends : \A f \in TakenBy(k) : f.seq < ends[k].next

\* The ids a member draws for a peer have the parity their order gives.
Named(e) == e.at # e.peer /\ (e.mine => e.id % 2 = Parity(e.at, e.peer))
EndsAreNamed == \A k \in Ends : Named(ends[k])

\* A frame travels from the member that wrote it to the peer of that stream, and
\* ends up in a stream of the same id there.
Routed(pq, f) == ends[f.of].at = pq[1] /\ ends[f.of].peer = pq[2]
ChunksOn(pq) == {f \in FramesOn({pq}) : f.kind = "data"}
FramesAreRouted == \A pq \in Paths : \A f \in ChunksOn(pq) : Routed(pq, f)

Addressed(e, f) == f.id = e.id /\ ends[f.of].peer = e.at
ChunksAreAddressed ==
    \A k \in Ends : \A f \in ends[k].buf \cup TakenBy(k) : Addressed(ends[k], f)

Names == EndsAreNamed /\ FramesAreRouted /\ ChunksAreAddressed

StreamInv ==
    /\ TypeOK /\ Counters /\ Gapless /\ ChunksAreWritten /\ ChunksAreOnce /\ TakenInOrder
    /\ Names

-----------------------------------------------------------------------------
\* What the operations make of an end.

LEMMA DataIsFrame == Data \subseteq Frame
  BY DEF Data, Frame

\* Whose stream it is, with whom, and under which id.
SameName(e, x) == x.at = e.at /\ x.peer = e.peer /\ x.id = e.id /\ x.mine = e.mine

\* What a view of an end shows that no call but the chunks' own changes.
SameChunks(e, x) ==
    /\ SameName(e, x)
    /\ x.sent = e.sent /\ x.next = e.next /\ x.buf = e.buf /\ x.got = e.got
    /\ x.err = "none" => e.err = "none"

LEMMA EndTyped ==
  ASSUME NEW e \in End
  PROVE  /\ e.at \in Members /\ e.peer \in Members /\ e.id \in Nat
         /\ e.err \in Errors /\ e.sent \in Nat /\ e.next \in Nat
         /\ e.buf \in SUBSET Data /\ e.got \in Seq(Data) /\ e.unread \in 0..QueueLen
  BY DEF End

LEMMA EndCalls ==
  ASSUME NEW e \in End
  PROVE  /\ \A s \in States, err \in Errors \ {"none"} :
              /\ [e EXCEPT !.state = s, !.err = err] \in End
              /\ SameChunks(e, [e EXCEPT !.state = s, !.err = err])
         /\ \A s \in States : /\ [e EXCEPT !.state = s] \in End
                              /\ SameChunks(e, [e EXCEPT !.state = s])
         /\ e.unread > 0 => /\ [e EXCEPT !.unread = @ - 1] \in End
                            /\ SameChunks(e, [e EXCEPT !.unread = @ - 1])
         /\ \A kind : Ended(e, kind) \in End /\ SameChunks(e, Ended(e, kind))
         /\ [e EXCEPT !.sent = @ + 1] \in End
  <1>1. \A s \in States, err \in Errors \ {"none"} :
              /\ [e EXCEPT !.state = s, !.err = err] \in End
              /\ SameChunks(e, [e EXCEPT !.state = s, !.err = err])
    BY DEF End, SameChunks, SameName
  <1>2. \A s \in States : /\ [e EXCEPT !.state = s] \in End
                          /\ SameChunks(e, [e EXCEPT !.state = s])
    BY DEF End, SameChunks, SameName
  <1>3. e.unread > 0 => /\ [e EXCEPT !.unread = @ - 1] \in End
                        /\ SameChunks(e, [e EXCEPT !.unread = @ - 1])
    <2>1. e.unread > 0 => e.unread - 1 \in 0..QueueLen
      BY StreamConstants, EndTyped
    <2>2. \A u \in 0..QueueLen : /\ [e EXCEPT !.unread = u] \in End
                                /\ SameChunks(e, [e EXCEPT !.unread = u])
      BY DEF End, SameChunks, SameName
    <2> QED
      BY <2>1, <2>2
  <1>4. \A kind : Ended(e, kind) \in End /\ SameChunks(e, Ended(e, kind))
    BY DEF End, SameChunks, SameName, Ended, States, Errors
  <1>5. [e EXCEPT !.sent = @ + 1] \in End
    BY DEF End
  <1> QED
    BY <1>1, <1>2, <1>3, <1>4, <1>5

LEMMA NewEndTyped ==
  ASSUME NEW p \in Members, NEW q \in Members, NEW id \in Nat, NEW mine \in BOOLEAN
  PROVE  NewEnd(p, q, id, mine) \in End
  <1>1. <<>> \in Seq(Data)
    BY EmptySeq
  <1> QED
    BY <1>1, StreamConstants DEF NewEnd, End, States, Errors

\* push of the frame awaited, or of one kept whose turn it is.
LEMMA HandedEffect ==
  ASSUME NEW e \in End, NEW f \in Data
  PROVE  LET x == Handed(e, f)
         IN  /\ x \in End /\ SameName(e, x)
             /\ x.sent = e.sent /\ x.next = e.next + 1 /\ x.buf = e.buf \ {f}
             /\ \/ x.err = e.err /\ x.got = Append(e.got, f) /\ e.unread < QueueLen
                \/ x.err # "none" /\ x.got = e.got /\ ~(e.unread < QueueLen)
  <1> DEFINE y == [e EXCEPT !.next = @ + 1, !.buf = @ \ {f}]
  <1>1. /\ y \in End /\ SameName(e, y)
        /\ y.sent = e.sent /\ y.next = e.next + 1 /\ y.buf = e.buf \ {f}
        /\ y.err = e.err /\ y.got = e.got /\ y.unread = e.unread
    <2>1. e.next + 1 \in Nat /\ e.buf \ {f} \in SUBSET Data
      BY EndTyped
    <2>2. \A n \in Nat, B \in SUBSET Data : [e EXCEPT !.next = n, !.buf = B] \in End
      BY DEF End
    <2> QED
      BY <2>1, <2>2 DEF End, SameName
  <1>2. Handed(e, f) = Push(y, f)
    BY DEF Handed
  <1> HIDE DEF y
  <1>3. CASE e.unread < QueueLen
    <2>1. Handed(e, f) = [y EXCEPT !.unread = @ + 1, !.got = Append(@, f)]
      BY <1>1, <1>2, <1>3 DEF Push
    <2>2. y.unread + 1 \in 0..QueueLen /\ Append(y.got, f) \in Seq(Data)
      BY <1>1, <1>3, StreamConstants, EndTyped, AppendProperties
    <2> QED
      BY <1>1, <1>3, <2>1, <2>2 DEF End, SameName
  <1>4. CASE ~(e.unread < QueueLen)
    <2>1. Handed(e, f) = [y EXCEPT !.err = IF @ = "none" THEN "overflow" ELSE @]
      BY <1>1, <1>2, <1>4 DEF Push
    <2> QED
      BY <1>1, <1>4, <2>1 DEF End, Errors, SameName
  <1> QED
    BY <1>3, <1>4

LEMMA KeptEffect ==
  ASSUME NEW e \in End, NEW f \in Data
  PROVE  LET x == Kept(e, f)
         IN  /\ x \in End /\ SameName(e, x)
             /\ x.sent = e.sent /\ x.next = e.next /\ x.err = e.err /\ x.got = e.got
             /\ x.buf \subseteq e.buf \cup {f}
  <1>1. Displaced(e, f) \subseteq e.buf
    BY DEF Displaced
  <1> QED
    BY <1>1 DEF Kept, End, SameName

-----------------------------------------------------------------------------
\* What the calls make of the frames on their way.

RelayKeeps(more) ==
    /\ relay' \in [Paths -> Seq(Frame)]
    /\ OnRelay' \subseteq OnRelay \cup more
    /\ RelayOnce'

LEMMA OnRelayMeans ==
  ASSUME relay \in [Paths -> Seq(Frame)]
  PROVE  /\ OnRelay \subseteq Data
         /\ \A pq \in Paths : \A i \in 1..Len(relay[pq]) :
              relay[pq][i].kind = "data" => relay[pq][i] \in OnRelay
  <1>1. ASSUME NEW pq \in Paths, NEW i \in DOMAIN relay[pq]
        PROVE  relay[pq][i] \in Frame
    <2>1. relay[pq] \in Seq(Frame) /\ i \in 1..Len(relay[pq])
      BY LenProperties
    <2> QED
      BY <2>1, ElementOfSeq
  <1>2. \A f \in Frame : f.kind = "data" => f \in Data
    BY DEF Frame, Data
  <1>3. OnRelay \subseteq Data
    BY <1>1, <1>2 DEF OnRelay, FramesOn
  <1>4. \A pq \in Paths : DOMAIN relay[pq] = 1..Len(relay[pq])
    BY LenProperties
  <1> QED
    BY <1>3, <1>4 DEF OnRelay, FramesOn

\* The same frames as before, at other places but each at one only: g says from
\* where the frame at a place comes.
LEMMA RelayShifted ==
  ASSUME relay \in [Paths -> Seq(Frame)], RelayOnce,
         relay' \in [Paths -> Seq(Frame)],
         NEW pq \in Paths, NEW d \in Nat,
         \A rs \in Paths \ {pq} : relay'[rs] = relay[rs],
         \A i \in 1..Len(relay'[pq]) :
            i + d \in 1..Len(relay[pq]) /\ relay'[pq][i] = relay[pq][i + d]
  PROVE  RelayKeeps({})
  <1>1. /\ \A rs \in Paths : DOMAIN relay[rs] = 1..Len(relay[rs])
        /\ \A rs \in Paths : DOMAIN relay'[rs] = 1..Len(relay'[rs])
    BY LenProperties
  <1>2. OnRelay' \subseteq OnRelay
    <2>1. ASSUME NEW rs \in Paths, NEW i \in DOMAIN relay'[rs]
          PROVE  \E j \in DOMAIN relay[rs] : relay'[rs][i] = relay[rs][j]
      BY <1>1
    <2> QED
      BY <2>1 DEF OnRelay, FramesOn
  <1>3. RelayOnce'
    <2> SUFFICES ASSUME NEW rs \in Paths, NEW ts \in Paths,
                        NEW i \in DOMAIN relay'[rs], NEW j \in DOMAIN relay'[ts],
                        relay'[rs][i] = relay'[ts][j], relay'[rs][i].kind = "data"
                 PROVE  rs = ts /\ i = j
      BY DEF RelayOnce
    <2>1. PICK m \in DOMAIN relay[rs] :
            relay'[rs][i] = relay[rs][m] /\ m = IF rs = pq THEN i + d ELSE i
      BY <1>1
    <2>2. PICK n \in DOMAIN relay[ts] :
            relay'[ts][j] = relay[ts][n] /\ n = IF ts = pq THEN j + d ELSE j
      BY <1>1
    <2>3. relay[rs][m] = relay[ts][n] /\ relay[rs][m].kind = "data"
      BY <2>1, <2>2
    <2>4. rs = ts /\ m = n
      BY <2>3 DEF RelayOnce
    <2>5. i \in Nat /\ j \in Nat
      BY <1>1
    <2> QED
      BY <2>1, <2>2, <2>4, <2>5
  <1> QED
    BY <1>2, <1>3 DEF RelayKeeps

LEMMA RelayTaken ==
  ASSUME relay \in [Paths -> Seq(Frame)], RelayOnce, NEW pq \in Paths, relay[pq] # <<>>,
         relay' = [relay EXCEPT ![pq] = Tail(@)]
  PROVE  /\ RelayKeeps({})
         /\ Head(relay[pq]) \in Frame
         /\ Head(relay[pq]).kind = "data" =>
              Head(relay[pq]) \in OnRelay /\ Head(relay[pq]) \notin OnRelay'
  <1> DEFINE s == relay[pq]
  <1>1. s \in Seq(Frame) /\ s # <<>>
    OBVIOUS
  <1>2. /\ Head(s) \in Frame /\ Tail(s) \in Seq(Frame) /\ Len(Tail(s)) = Len(s) - 1
        /\ \A i \in 1..Len(Tail(s)) : Tail(s)[i] = s[i + 1]
    BY <1>1, HeadTailProperties
  <1>3. Len(s) \in Nat \ {0} /\ Head(s) = s[1]
    BY <1>1, EmptySeq, LenProperties
  <1>4. relay'[pq] = Tail(s) /\ \A rs \in Paths \ {pq} : relay'[rs] = relay[rs]
    OBVIOUS
  <1>5. relay' \in [Paths -> Seq(Frame)]
    BY <1>2
  <1> HIDE DEF s
  <1>6. \A i \in 1..Len(Tail(s)) : i + 1 \in 1..Len(s) /\ Tail(s)[i] = s[i + 1]
    BY <1>2, <1>3
  <1>7. RelayKeeps({})
    <2>1. \A i \in 1..Len(relay'[pq]) :
            i + 1 \in 1..Len(relay[pq]) /\ relay'[pq][i] = relay[pq][i + 1]
      BY <1>4, <1>6 DEF s
    <2> QED
      BY <1>4, <1>5, <2>1, RelayShifted
  <1>8. ASSUME Head(s).kind = "data"
        PROVE  Head(s) \in OnRelay /\ Head(s) \notin OnRelay'
    <2>1. 1 \in DOMAIN relay[pq] /\ Head(s) = relay[pq][1]
      BY <1>3, LenProperties DEF s
    <2>2. Head(s) \in OnRelay
      BY <1>8, <2>1 DEF OnRelay, FramesOn
    <2>3. ASSUME NEW rs \in Paths, NEW i \in DOMAIN relay'[rs], relay'[rs][i] = Head(s)
          PROVE  FALSE
      <3>1. CASE rs = pq
        <4>1. i \in 1..Len(Tail(s)) /\ s[i + 1] = s[1]
          BY <1>2, <1>3, <1>4, <2>3, <3>1, LenProperties
        <4>2. i + 1 \in DOMAIN relay[pq] /\ relay[pq][i + 1] = relay[pq][1] /\ i + 1 # 1
          BY <1>1, <1>6, <4>1, LenProperties DEF s
        <4> QED
          BY <1>8, <2>1, <4>2 DEF RelayOnce
      <3>2. CASE rs # pq
        BY <1>4, <1>8, <2>1, <2>3, <3>2 DEF RelayOnce
      <3> QED
        BY <3>1, <3>2
    <2> QED
      BY <2>2, <2>3 DEF OnRelay, FramesOn
  <1> QED
    BY <1>2, <1>7, <1>8 DEF s

LEMMA RelayCleared ==
  ASSUME relay \in [Paths -> Seq(Frame)], RelayOnce, NEW paths, relay' = Cleared(relay, paths)
  PROVE  RelayKeeps({})
  <1>1. <<>> \in Seq(Frame) /\ DOMAIN <<>> = {}
    BY EmptySeq
  <1>2. relay' \in [Paths -> Seq(Frame)]
    BY <1>1 DEF Cleared
  <1>3. \A pq \in Paths : relay'[pq] = <<>> \/ relay'[pq] = relay[pq]
    BY DEF Cleared
  <1>4. \A pq \in Paths : \A i \in DOMAIN relay'[pq] : i \in DOMAIN relay[pq] /\ relay'[pq] = relay[pq]
    BY <1>1, <1>3
  <1>5. OnRelay' \subseteq OnRelay
    BY <1>4 DEF OnRelay, FramesOn
  <1>6. RelayOnce'
    BY <1>4 DEF RelayOnce
  <1> QED
    BY <1>2, <1>5, <1>6 DEF RelayKeeps

\* A frame is put behind the others, on one path or on none.
LEMMA RelaySent ==
  ASSUME relay \in [Paths -> Seq(Frame)], RelayOnce, NEW e, NEW f \in Frame, relay' = Sent(e, f),
         f \notin OnRelay
  PROVE  RelayKeeps(IF f.kind = "data" THEN {f} ELSE {})
  <1> DEFINE pq == <<e.at, e.peer>>
             more == IF f.kind = "data" THEN {f} ELSE {}
  <1>1. CASE relay' = relay
    BY <1>1 DEF RelayKeeps, OnRelay, FramesOn, RelayOnce
  <1>2. CASE pq \in Paths /\ relay' = [relay EXCEPT ![pq] = Append(@, f)]
    <2> DEFINE s == relay[pq]
    <2>1. s \in Seq(Frame)
      BY <1>2
    <2>2. /\ Append(s, f) \in Seq(Frame) /\ Len(Append(s, f)) = Len(s) + 1
          /\ \A i \in 1..Len(s) : Append(s, f)[i] = s[i]
          /\ Append(s, f)[Len(s) + 1] = f
      BY <2>1, AppendProperties
    <2>3. Len(s) \in Nat
      BY <2>1, LenProperties
    <2>4. relay'[pq] = Append(s, f) /\ \A rs \in Paths \ {pq} : relay'[rs] = relay[rs]
      BY <1>2
    <2>5. relay' \in [Paths -> Seq(Frame)]
      BY <1>2, <2>2
    <2>6. /\ \A rs \in Paths : DOMAIN relay[rs] = 1..Len(relay[rs])
          /\ \A rs \in Paths : DOMAIN relay'[rs] = 1..Len(relay'[rs])
      BY <2>5, LenProperties
    <2> HIDE DEF s, pq
    <2>7. ASSUME NEW rs \in Paths, NEW i \in DOMAIN relay'[rs]
          PROVE  \/ i \in DOMAIN relay[rs] /\ relay'[rs][i] = relay[rs][i]
                 \/ rs = pq /\ i = Len(s) + 1 /\ relay'[rs][i] = f
      <3>1. CASE rs # pq
        BY <2>4, <3>1
      <3>2. CASE rs = pq
        <4>1. i \in 1..(Len(s) + 1) /\ DOMAIN relay[rs] = 1..Len(s) /\ relay[rs] = s
          BY <2>2, <2>4, <2>6, <2>7, <3>2 DEF s
        <4> QED
          BY <2>2, <2>3, <2>4, <3>2, <4>1
      <3> QED
        BY <3>1, <3>2
    <2>8. OnRelay' \subseteq OnRelay \cup more
      BY <2>7 DEF OnRelay, FramesOn
    <2>9. f.kind = "data" => \A rs \in Paths : \A i \in DOMAIN relay[rs] : relay[rs][i] # f
      BY DEF OnRelay, FramesOn
    <2>10. RelayOnce'
      BY <2>7, <2>9 DEF RelayOnce
    <2> QED
      BY <2>5, <2>8, <2>10 DEF RelayKeeps
  <1>3. relay' = relay \/ (pq \in Paths /\ relay' = [relay EXCEPT ![pq] = Append(@, f)])
    BY DEF Sent
  <1> QED
    BY <1>1, <1>2, <1>3

-----------------------------------------------------------------------------
\* What the invariant needs to know of a step.

Fresh(e) == e.state = "open" /\ e.sent = 0 /\ e.next = 0 /\ e.buf = {} /\ e.got = <<>>

\* A step that gives no reader a chunk.
NothingRead ==
    /\ Ends \subseteq DOMAIN ends'
    /\ \A k \in Ends : LET e == ends[k] x == ends'[k] IN
         /\ SameName(e, x) /\ x.next = e.next /\ x.buf = e.buf /\ x.got = e.got
         /\ x.sent \in Nat /\ e.sent <= x.sent
         /\ x.err = "none" => e.err = "none"
    /\ \A k \in DOMAIN ends' \ Ends : Fresh(ends'[k]) /\ Named(ends'[k])

LEMMA NothingReadIsSafe ==
  ASSUME StreamInv, ends' \in Seq(End), NothingRead, RelayOnce',
         OnRelay \subseteq Data, OnRelay' \subseteq Data, writing' \subseteq Data,
         \A f \in writing' : f \notin OnRelay',
         \A f \in writing' \cup OnRelay' :
            f \in writing \cup OnRelay \/ (Written(f)' /\ ~Written(f))
  PROVE  Gapless' /\ ChunksAreWritten' /\ ChunksAreOnce' /\ TakenInOrder'
  <1>1. ends \in Seq(End) /\ writing \subseteq Data
    BY DEF StreamInv, TypeOK
  <1>2. \A k \in Ends : ends[k] \in End
    <2>1. Ends = 1..Len(ends)
      BY <1>1, LenProperties DEF Ends
    <2> QED
      BY <1>1, <2>1, ElementOfSeq
  <1>3. \A k \in Ends : TakenBy(k)' = TakenBy(k) /\ ends'[k].buf = ends[k].buf
    BY DEF NothingRead, TakenBy
  <1>4. \A k \in DOMAIN ends' \ Ends : TakenBy(k)' = {} /\ ends'[k].buf = {}
    BY DEF NothingRead, Fresh, TakenBy
  <1>5. Gapless'
    <2> SUFFICES ASSUME NEW k \in DOMAIN ends', ends'[k].err = "none"
                 PROVE  /\ ends'[k].next = Len(ends'[k].got)
                        /\ \A i \in DOMAIN ends'[k].got : ends'[k].got[i].seq = i - 1
      BY DEF Gapless, Ends
    <2>1. CASE k \in Ends
      BY <2>1 DEF NothingRead, StreamInv, Gapless
    <2>2. CASE k \notin Ends
      BY <2>2 DEF NothingRead, Fresh
    <2> QED
      BY <2>1, <2>2
  <1>6. ASSUME NEW f \in Data, Written(f)
        PROVE  Written(f)'
    <2>1. f.of \in Ends /\ f.seq < ends[f.of].sent /\ f.id = ends[f.of].id
      BY <1>6 DEF Written
    <2>2. /\ f.of \in DOMAIN ends' /\ ends'[f.of].id = f.id
          /\ ends'[f.of].sent \in Nat /\ ends[f.of].sent <= ends'[f.of].sent
      BY <2>1 DEF NothingRead, SameName
    <2>3. f.seq \in Nat /\ ends[f.of].sent \in Nat
      BY <1>2, <2>1 DEF Data, End
    <2>4. f.seq < ends'[f.of].sent
      BY <2>1, <2>2, <2>3
    <2> QED
      BY <2>2, <2>4 DEF Written, Ends
  <1>7. ASSUME NEW k \in Ends, NEW f \in ends[k].buf \cup TakenBy(k)
        PROVE  f \in Data /\ Written(f)
    <2>1. f \in Data
      BY <1>2, ElementOfSeq, LenProperties DEF End, TakenBy
    <2> QED
      BY <2>1 DEF StreamInv, ChunksAreWritten
  <1>8. \A k \in DOMAIN ends' : \A f \in ends'[k].buf \cup TakenBy(k)' :
          k \in Ends /\ f \in ends[k].buf \cup TakenBy(k)
    BY <1>3, <1>4
  <1>9. ChunksAreWritten'
    <2>1. ASSUME NEW f \in writing' \cup OnRelay'
          PROVE  Written(f)'
      BY <1>6 DEF StreamInv, ChunksAreWritten
    <2>2. ASSUME NEW k \in DOMAIN ends', NEW f \in ends'[k].buf \cup TakenBy(k)'
          PROVE  Written(f)'
      BY <1>6, <1>7, <1>8, <2>2
    <2> QED
      BY <2>1, <2>2 DEF ChunksAreWritten, Ends
  <1>10. ChunksAreOnce'
    <2>1. ASSUME NEW f \in writing' \cup OnRelay', NEW k \in DOMAIN ends'
          PROVE  f \notin ends'[k].buf /\ f \notin TakenBy(k)'
      <3> SUFFICES ASSUME f \in ends'[k].buf \cup TakenBy(k)'
                   PROVE  FALSE
        OBVIOUS
      <3>1. k \in Ends /\ f \in ends[k].buf \cup TakenBy(k)
        BY <1>8
      <3>2. Written(f)
        BY <1>7, <3>1
      <3>3. f \in writing \cup OnRelay
        BY <3>2
      <3> QED
        BY <3>1, <3>3 DEF StreamInv, ChunksAreOnce
    <2>2. ASSUME NEW k \in DOMAIN ends', NEW l \in DOMAIN ends', NEW f \in ends'[k].buf
          PROVE  f \notin TakenBy(l)' /\ (f \in ends'[l].buf => k = l)
      <3>1. k \in Ends /\ f \in ends[k].buf
        BY <1>3, <1>4
      <3>2. CASE l \in Ends
        BY <1>3, <3>1, <3>2 DEF StreamInv, ChunksAreOnce
      <3>3. CASE l \notin Ends
        BY <1>4, <3>3
      <3> QED
        BY <3>2, <3>3
    <2> QED
      BY <2>1, <2>2 DEF ChunksAreOnce, Ends
  <1>11. TakenInOrder'
    <2>1. ASSUME NEW k \in DOMAIN ends', NEW f \in TakenBy(k)'
          PROVE  f.seq < ends'[k].next
      <3>1. k \in Ends /\ f \in TakenBy(k)
        BY <1>3, <1>4
      <3> QED
        BY <3>1 DEF StreamInv, TakenInOrder, NothingRead
    <2> QED
      BY <2>1 DEF TakenInOrder, Ends
  <1> QED
    BY <1>5, <1>9, <1>10, <1>11

\* A step that gives the end k, which may be a new one, the chunk f: handed on,
\* or kept for later.  e is the end before.
Reads(k, e, f) ==
    /\ k \in DOMAIN ends' /\ e \in End /\ f \in Data
    /\ Ends \subseteq DOMAIN ends' /\ DOMAIN ends' \subseteq Ends \cup {k}
    /\ \A j \in Ends \ {k} : ends'[j] = ends[j]
    /\ IF k \in Ends THEN e = ends[k] ELSE Fresh(e) /\ Named(e)
    /\ \/ f.seq = e.next /\ ends'[k] = Handed(e, f)
       \/ ends'[k] = Kept(e, f)

\* The chunk was nowhere but on its way here, or kept here.
ComesFrom(k, f) ==
    /\ Written(f)
    /\ f \notin writing' /\ f \notin OnRelay'
    /\ \A l \in Ends : f \notin TakenBy(l) /\ (f \in ends[l].buf => k = l)

\* The end that is given a chunk, and what it has afterwards.
LEMMA ReadEffect ==
  ASSUME StreamInv, ends' \in Seq(End), NEW k, NEW e, NEW f, Reads(k, e, f)
  PROVE  LET x == ends'[k] IN
         /\ SameName(e, x) /\ x.sent = e.sent /\ e.sent \in Nat
         /\ e.next \in Nat /\ x.next \in Nat /\ e.next <= x.next
         /\ x.buf \subseteq e.buf \cup {f}
         /\ \/ x.got = e.got /\ (x.err = "none" => e.err = "none" /\ x.next = e.next)
            \/ /\ x.got = Append(e.got, f) /\ x.err = e.err
               /\ f.seq = e.next /\ x.next = e.next + 1 /\ f \notin x.buf
         /\ e.got \in Seq(Data)
         /\ e.err = "none" => /\ e.next = Len(e.got)
                              /\ \A i \in DOMAIN e.got : e.got[i].seq = i - 1
         /\ \A i \in DOMAIN e.got : e.got[i].seq < e.next
  <1>1. e \in End /\ f \in Data
    BY DEF Reads
  <1>2. /\ e.err = "none" => /\ e.next = Len(e.got)
                             /\ \A i \in DOMAIN e.got : e.got[i].seq = i - 1
        /\ \A i \in DOMAIN e.got : e.got[i].seq < e.next
    <2>1. CASE k \in Ends
      BY <2>1 DEF Reads, StreamInv, Gapless, TakenInOrder, TakenBy
    <2>2. CASE k \notin Ends
      <3>1. e.next = 0 /\ e.got = <<>>
        BY <2>2 DEF Reads, Fresh
      <3> QED
        BY <3>1
    <2> QED
      BY <2>1, <2>2
  <1>3. e.sent \in Nat /\ e.next \in Nat /\ e.got \in Seq(Data)
    BY <1>1, EndTyped
  <1>4. CASE f.seq = e.next /\ ends'[k] = Handed(e, f)
    BY <1>1, <1>2, <1>3, <1>4, HandedEffect
  <1>5. CASE ends'[k] = Kept(e, f)
    BY <1>1, <1>2, <1>3, <1>5, KeptEffect
  <1> QED
    BY <1>4, <1>5 DEF Reads

LEMMA ReadIsSafe ==
  ASSUME StreamInv, ends' \in Seq(End), RelayOnce',
         OnRelay' \subseteq OnRelay, writing' = writing, OnRelay \subseteq Data,
         NEW k, NEW e, NEW f, Reads(k, e, f), ComesFrom(k, f)
  PROVE  Gapless' /\ ChunksAreWritten' /\ ChunksAreOnce' /\ TakenInOrder'
  <1> DEFINE x == ends'[k]
             others == DOMAIN ends' \ {k}
  <1>1. /\ SameName(e, x) /\ x.sent = e.sent /\ e.sent \in Nat
        /\ e.next \in Nat /\ x.next \in Nat /\ e.next <= x.next
        /\ x.buf \subseteq e.buf \cup {f}
        /\ \/ x.got = e.got /\ (x.err = "none" => e.err = "none" /\ x.next = e.next)
           \/ /\ x.got = Append(e.got, f) /\ x.err = e.err
              /\ f.seq = e.next /\ x.next = e.next + 1 /\ f \notin x.buf
        /\ e.got \in Seq(Data)
        /\ e.err = "none" => /\ e.next = Len(e.got)
                             /\ \A i \in DOMAIN e.got : e.got[i].seq = i - 1
        /\ \A i \in DOMAIN e.got : e.got[i].seq < e.next
    BY ReadEffect
  <1>2. /\ \A j \in others : j \in Ends /\ ends'[j] = ends[j]
        /\ \A j \in Ends : j = k \/ j \in others
        /\ k \in DOMAIN ends' /\ f \in Data
        /\ k \in Ends => e = ends[k]
        /\ k \notin Ends => e.buf = {} /\ e.got = <<>>
    BY DEF Reads, Fresh
  <1>3. DOMAIN e.got = 1..Len(e.got) /\ Len(e.got) \in Nat
    BY <1>1, LenProperties
  <1>4. x.got = Append(e.got, f) =>
          /\ DOMAIN x.got = 1..(Len(e.got) + 1) /\ Len(x.got) = Len(e.got) + 1
          /\ \A i \in 1..Len(e.got) : x.got[i] = e.got[i]
          /\ x.got[Len(e.got) + 1] = f
    BY <1>1, <1>2, AppendProperties, LenProperties
  <1>5. \A j \in others : TakenBy(j)' = TakenBy(j)
    BY <1>2 DEF TakenBy
  <1> DEFINE old == {e.got[i] : i \in DOMAIN e.got}
  <1>6. TakenBy(k)' \subseteq old \cup {f} /\ (f \in x.buf => TakenBy(k)' = old)
    <2>1. CASE x.got = e.got
      BY <2>1 DEF TakenBy
    <2>2. CASE x.got = Append(e.got, f) /\ f \notin x.buf
      <3>1. ASSUME NEW i \in DOMAIN x.got
            PROVE  x.got[i] \in old \cup {f}
        BY <1>3, <1>4, <2>2
      <3> QED
        BY <2>2, <3>1 DEF TakenBy
    <2> QED
      BY <1>1, <2>1, <2>2
  <1>7. /\ k \in Ends => e.buf = ends[k].buf /\ old = TakenBy(k)
        /\ k \notin Ends => e.buf = {} /\ old = {}
    BY <1>2 DEF TakenBy
  <1> HIDE DEF x, old
  <1>8. Gapless'
    <2> SUFFICES ASSUME NEW j \in DOMAIN ends', ends'[j].err = "none"
                 PROVE  /\ ends'[j].next = Len(ends'[j].got)
                        /\ \A i \in DOMAIN ends'[j].got : ends'[j].got[i].seq = i - 1
      BY DEF Gapless, Ends
    <2>1. CASE j # k
      BY <1>2, <2>1 DEF StreamInv, Gapless
    <2>2. CASE j = k
      <3>1. CASE x.got = e.got /\ x.next = e.next /\ e.err = "none"
        BY <1>1, <2>2, <3>1 DEF x
      <3>2. CASE x.got = Append(e.got, f) /\ x.err = e.err /\ f.seq = e.next /\ x.next = e.next + 1
        <4>1. e.next = Len(e.got) /\ \A i \in DOMAIN e.got : e.got[i].seq = i - 1
          BY <1>1, <2>2, <3>2 DEF x
        <4>2. ASSUME NEW i \in DOMAIN x.got
              PROVE  x.got[i].seq = i - 1
          BY <1>3, <1>4, <3>2, <4>1
        <4> QED
          BY <1>3, <1>4, <2>2, <3>2, <4>1, <4>2 DEF x
      <3> QED
        BY <1>1, <2>2, <3>1, <3>2 DEF x
    <2> QED
      BY <2>1, <2>2
  <1>9. TakenInOrder'
    <2> SUFFICES ASSUME NEW j \in DOMAIN ends', NEW c \in TakenBy(j)'
                 PROVE  c.seq < ends'[j].next
      BY DEF TakenInOrder, Ends
    <2>1. CASE j # k
      BY <1>2, <1>5, <2>1 DEF StreamInv, TakenInOrder
    <2>2. CASE j = k /\ c \in old
      <3>1. c \in Data /\ c.seq < e.next
        <4>1. PICK i \in DOMAIN e.got : c = e.got[i]
          BY <2>2 DEF old
        <4> QED
          BY <1>1, <1>3, <4>1, ElementOfSeq
      <3>2. c.seq \in Nat
        BY <3>1 DEF Data
      <3> QED
        BY <1>1, <2>2, <3>1, <3>2 DEF x
    <2>3. CASE j = k /\ c = f /\ x.got = Append(e.got, f)
      BY <1>1, <1>2, <1>4, <2>3 DEF x, Data
    <2> QED
      <3>1. j = k => (x.got = e.got /\ c \in old) \/ x.got = Append(e.got, f)
        BY <1>1 DEF x, TakenBy, old
      <3> QED
        BY <1>6, <2>1, <2>2, <2>3, <3>1
  <1>10. ASSUME NEW g, Written(g)
         PROVE  Written(g)'
    <2>1. g.of \in Ends /\ ends'[g.of].sent = ends[g.of].sent /\ ends'[g.of].id = ends[g.of].id
      BY <1>1, <1>2, <1>10 DEF Written, x, SameName
    <2> QED
      BY <1>2, <1>10, <2>1 DEF Written, Ends
  <1>11. ASSUME NEW j \in DOMAIN ends', NEW g \in ends'[j].buf \cup TakenBy(j)'
         PROVE  \/ g = f /\ j = k
                \/ j \in Ends /\ g \in ends[j].buf \cup TakenBy(j)
    BY <1>1, <1>2, <1>5, <1>6, <1>7 DEF x
  <1>12. ChunksAreWritten'
    <2>1. ASSUME NEW g \in writing' \cup OnRelay'
          PROVE  Written(g)'
      BY <1>10 DEF StreamInv, ChunksAreWritten
    <2>2. ASSUME NEW j \in DOMAIN ends', NEW g \in ends'[j].buf \cup TakenBy(j)'
          PROVE  Written(g)'
      <3>1. Written(f)
        BY DEF ComesFrom
      <3> QED
        BY <1>10, <1>11, <3>1 DEF StreamInv, ChunksAreWritten
    <2> QED
      BY <2>1, <2>2 DEF ChunksAreWritten, Ends
  <1>13. ChunksAreOnce'
    <2>1. \A g \in writing' : g \notin OnRelay'
      BY DEF StreamInv, ChunksAreOnce
    <2>2. ASSUME NEW g \in writing' \cup OnRelay', NEW j \in DOMAIN ends'
          PROVE  g \notin ends'[j].buf /\ g \notin TakenBy(j)'
      <3>1. g # f /\ g \in writing \cup OnRelay
        BY DEF ComesFrom
      <3> QED
        BY <1>11, <3>1 DEF StreamInv, ChunksAreOnce
    <2>3. ASSUME NEW j \in DOMAIN ends', NEW l \in DOMAIN ends', NEW g \in ends'[j].buf
          PROVE  g \notin TakenBy(l)' /\ (g \in ends'[l].buf => j = l)
      <3>1. CASE g = f
        <4>1. j = k
          BY <1>2, <3>1 DEF ComesFrom
        <4>2. CASE l = k
          <5>1. f \notin old
            BY <1>7 DEF ComesFrom
          <5> QED
            BY <1>6, <3>1, <4>1, <4>2, <5>1 DEF x
        <4>3. CASE l # k
          BY <1>2, <1>5, <3>1, <4>1, <4>3 DEF ComesFrom
        <4> QED
          BY <4>2, <4>3
      <3>2. CASE g # f
        <4>1. j \in Ends /\ g \in ends[j].buf
          BY <1>1, <1>2, <3>2 DEF x
        <4>2. ASSUME NEW m \in Ends
              PROVE  g \notin TakenBy(m) /\ (g \in ends[m].buf => j = m)
          BY <4>1 DEF StreamInv, ChunksAreOnce
        <4>3. g \notin TakenBy(l)'
          BY <1>11, <1>2, <1>5, <1>6, <1>7, <3>2, <4>2
        <4>4. g \in ends'[l].buf => l \in Ends /\ g \in ends[l].buf
          BY <1>1, <1>2, <3>2 DEF x
        <4> QED
          BY <4>2, <4>3, <4>4
      <3> QED
        BY <3>1, <3>2
    <2>4. RelayOnce'
      OBVIOUS
    <2> QED
      BY <2>1, <2>2, <2>3, <2>4 DEF ChunksAreOnce, Ends
  <1> QED
    BY <1>8, <1>9, <1>12, <1>13

-----------------------------------------------------------------------------
\* The kinds of steps.

\* No chunk is written or read; perhaps there is a new end.
EndsStay ==
    /\ DOMAIN ends' = Ends \/ DOMAIN ends' = 1..(Len(ends) + 1)
    /\ Ends \subseteq DOMAIN ends'
    /\ \A k \in Ends : SameChunks(ends[k], ends'[k])
    /\ \A k \in DOMAIN ends' \ Ends : Fresh(ends'[k]) /\ Named(ends'[k])

\* The frames on their way and those about to be sent, with none in both.
Travels(more) ==
    /\ RelayOnce'
    /\ \A f \in writing' : f \notin OnRelay'
    /\ writing' \cup OnRelay' \subseteq writing \cup OnRelay \cup more

Quiet == EndsStay /\ Travels({})

Draws(k) ==
    /\ k \in Ends
    /\ ends' = [ends EXCEPT ![k].sent = @ + 1]
    /\ Travels({Chunk(k)})

Given(k, e, f) ==
    /\ Reads(k, e, f) /\ ComesFrom(k, f) /\ Addressed(e, f)
    /\ RelayOnce' /\ OnRelay' \subseteq OnRelay /\ writing' = writing

\* The same in full: what becomes of the end, and of what it has no room for.
Gets(k, e, f) ==
    /\ Given(k, e, f)
    /\ ends'[k] = Delivered(e, f) /\ lost' = lost \cup LostBy(e, f)
    /\ k \in Ends => e.state = "open" \/ Ready(k) # {}
    /\ k \notin Ends => ~e.mine

StepKind ==
    \/ Quiet
    \/ \E k \in Ends : Draws(k)
    \/ \E k, e, f : Given(k, e, f)

LEMMA EndsTyped ==
  ASSUME ends \in Seq(End)
  PROVE  /\ Len(ends) \in Nat /\ Ends = 1..Len(ends)
         /\ \A k \in Ends : ends[k] \in End
  <1>1. Len(ends) \in Nat /\ Ends = 1..Len(ends)
    BY LenProperties DEF Ends
  <1> QED
    BY <1>1, ElementOfSeq

\* Sequences are what functions on their places are.
LEMMA PlacesMakeSeq ==
  ASSUME NEW S, NEW n \in Nat, NEW s, s \in [1..n -> S]
  PROVE  s \in Seq(S)
  BY SeqDef

LEMMA EndsChange ==
  ASSUME ends \in Seq(End), ends' = [k \in Ends |-> ends'[k]], \A k \in Ends : ends'[k] \in End
  PROVE  ends' \in Seq(End) /\ DOMAIN ends' = Ends
  <1>1. ends' \in [1..Len(ends) -> End] /\ DOMAIN ends' = Ends
    BY EndsTyped
  <1> QED
    BY <1>1, EndsTyped, PlacesMakeSeq

LEMMA EndsKept ==
  ASSUME ends \in Seq(End), ends' = [k \in Ends |-> ends'[k]],
         \A k \in Ends : ends'[k] = ends[k] \/ (ends'[k] \in End /\ SameChunks(ends[k], ends'[k]))
  PROVE  ends' \in Seq(End) /\ EndsStay
  <1>1. \A k \in Ends : ends'[k] \in End /\ SameChunks(ends[k], ends'[k])
    BY EndsTyped DEF SameChunks, SameName
  <1>2. ends' \in Seq(End) /\ DOMAIN ends' = Ends
    BY <1>1, EndsChange
  <1> QED
    BY <1>1, <1>2 DEF EndsStay

LEMMA EndMade ==
  ASSUME ends \in Seq(End), NEW p \in Members, NEW q \in Members, NEW id \in Nat,
         NEW mine \in BOOLEAN, p # q, mine => id % 2 = Parity(p, q),
         ends' = Append(ends, NewEnd(p, q, id, mine))
  PROVE  ends' \in Seq(End) /\ EndsStay
  <1> DEFINE e == NewEnd(p, q, id, mine)
  <1>1. e \in End /\ Fresh(e) /\ Named(e)
    BY NewEndTyped DEF NewEnd, Fresh, Named
  <1>2. /\ ends' \in Seq(End) /\ Len(ends') = Len(ends) + 1
        /\ \A k \in 1..Len(ends) : ends'[k] = ends[k]
        /\ ends'[Len(ends) + 1] = e
    BY <1>1, AppendProperties
  <1>3. DOMAIN ends' = 1..(Len(ends) + 1)
    BY <1>2, LenProperties
  <1> HIDE DEF e
  <1>4. DOMAIN ends' \ Ends = {Len(ends) + 1} /\ Ends \subseteq DOMAIN ends'
    BY <1>3, EndsTyped
  <1>5. \A k \in Ends : ends'[k] = ends[k]
    BY <1>2, EndsTyped
  <1> QED
    BY <1>1, <1>2, <1>3, <1>4, <1>5 DEF EndsStay, SameChunks, SameName

LEMMA EndsDrawn ==
  ASSUME ends \in Seq(End), NEW k \in Ends, ends' = [ends EXCEPT ![k].sent = @ + 1]
  PROVE  ends' \in Seq(End) /\ NothingRead /\ DOMAIN ends' = Ends
  <1>1. /\ DOMAIN ends' = Ends /\ ends' = [j \in Ends |-> ends'[j]]
        /\ ends'[k] = [ends[k] EXCEPT !.sent = @ + 1]
        /\ \A j \in Ends \ {k} : ends'[j] = ends[j]
    BY DEF Ends
  <1>2. \A j \in Ends : ends[j] \in End /\ ends[j].sent \in Nat
    BY EndsTyped, EndTyped
  <1>3. ends'[k] \in End
    BY <1>1, <1>2, EndCalls
  <1>4. ends' \in Seq(End)
    BY <1>1, <1>2, <1>3, EndsChange
  <1>5. /\ ends'[k].sent = ends[k].sent + 1 /\ SameName(ends[k], ends'[k])
        /\ ends'[k].next = ends[k].next /\ ends'[k].buf = ends[k].buf
        /\ ends'[k].got = ends[k].got /\ ends'[k].err = ends[k].err
    BY <1>1, <1>2 DEF End, SameName
  <1>6. NothingRead
    BY <1>1, <1>2, <1>5 DEF NothingRead, SameName
  <1> QED
    BY <1>1, <1>4, <1>6

-----------------------------------------------------------------------------
\* One kind for every call.

LEMMA ChunkIsNew ==
  ASSUME StreamInv, NEW k \in Ends
  PROVE  Chunk(k) \in Data /\ ~Written(Chunk(k)) /\ Chunk(k) \notin writing \cup OnRelay
  <1>1. ends[k] \in End /\ k \in Nat
    BY EndsTyped DEF StreamInv, TypeOK
  <1>2. Chunk(k) \in Data /\ Chunk(k).of = k /\ Chunk(k).seq = ends[k].sent
    BY <1>1, EndTyped DEF Chunk, Data
  <1>3. ~Written(Chunk(k))
    BY <1>1, <1>2, EndTyped DEF Written
  <1> QED
    BY <1>2, <1>3 DEF StreamInv, ChunksAreWritten

LEMMA QuietTravel ==
  ASSUME StreamInv, writing' \subseteq writing, RelayKeeps({})
  PROVE  Travels({})
  BY DEF StreamInv, ChunksAreOnce, RelayKeeps, Travels

LEMMA RelayStays ==
  ASSUME StreamInv, UNCHANGED relay
  PROVE  RelayKeeps({})
  BY DEF StreamInv, TypeOK, ChunksAreOnce, RelayKeeps, RelayOnce, OnRelay, FramesOn

LEMMA OpenStreamIsQuiet ==
  ASSUME StreamInv, NEW p \in Members, NEW q \in Members, <<p, q>> \in Paths, OpenStream(p, q)
  PROVE  TypeOK' /\ Counters' /\ Quiet
  <1> DEFINE b == Parity(p, q)
             id == CHOOSE i \in FreeIds(p, q) : \A j \in FreeIds(p, q) : i <= j
  <1>1. TypeOK /\ Counters
    BY DEF StreamInv
  <1>2. b \in {0, 1} /\ nextId[p][b] \in Nat /\ nextId[p][b] % 2 = b
    BY <1>1 DEF TypeOK, Counters, Parity
  <1>3. id \in FreeIds(p, q) /\ id \in Nat
    <2>1. FreeIds(p, q) # {} /\ FreeIds(p, q) \subseteq Nat
      BY <1>1, <1>2, SomeIdIsFree DEF TypeOK
    <2>2. \E i \in FreeIds(p, q) : \A j \in FreeIds(p, q) : i <= j
      BY <2>1, LeastNumber
    <2> QED
      BY <2>1, <2>2
  <1>4. id % 2 = b
    BY <1>3 DEF FreeIds
  <1>5. /\ nextId' = [nextId EXCEPT ![p][b] = id + 2]
        /\ ends' = Append(ends, NewEnd(p, q, id, TRUE))
        /\ control' = control \/ control' = [control EXCEPT ![<<p, q>>] = Append(@, id)]
        /\ calls' = calls + 1
        /\ UNCHANGED <<left, peers, closedIds, writing, relay, drops, lost, told>>
    BY DEF OpenStream, Call
  <1> HIDE DEF id, b
  <1>6. ends' \in Seq(End) /\ EndsStay
    <2>1. p # q /\ id % 2 = Parity(p, q)
      BY <1>4 DEF Paths, b
    <2> QED
      BY <1>1, <1>3, <1>5, <2>1, EndMade DEF TypeOK
  <1>7. nextId' \in [Members -> [{0, 1} -> Nat]] /\ Counters'
    <2>1. id + 2 \in Nat /\ (id + 2) % 2 = b
      BY <1>2, <1>3, <1>4
    <2> QED
      BY <1>1, <1>2, <1>5, <2>1 DEF TypeOK, Counters
  <1>8. control' \in [Paths -> Seq(Nat)]
    <2>1. Append(control[<<p, q>>], id) \in Seq(Nat)
      BY <1>1, <1>3, AppendProperties DEF TypeOK
    <2> QED
      BY <1>1, <1>5, <2>1 DEF TypeOK
  <1>9. TypeOK'
    <2>1. /\ left' \subseteq Members /\ peers' \in [Members -> SUBSET Members]
          /\ closedIds' \in [Members -> SUBSET Nat] /\ writing' \subseteq Data
          /\ relay' \in [Paths -> Seq(Frame)] /\ lost' \subseteq Frame
          /\ calls' \in Nat /\ drops' \in Nat /\ told' \subseteq Nat
      BY <1>1, <1>5 DEF TypeOK
    <2> QED
      BY <1>6, <1>7, <1>8, <2>1 DEF TypeOK
  <1>10. Travels({})
    BY <1>5, QuietTravel, RelayStays
  <1> QED
    BY <1>6, <1>7, <1>9, <1>10 DEF Quiet

LEMMA WriteDraws ==
  ASSUME StreamInv, NEW k \in Ends, Write(k)
  PROVE  TypeOK' /\ Counters' /\ Draws(k)
  <1>1. TypeOK /\ Counters
    BY DEF StreamInv
  <1>2. /\ ends' = [ends EXCEPT ![k].sent = @ + 1]
        /\ writing' = writing \cup {Chunk(k)} /\ calls' = calls + 1
        /\ UNCHANGED <<left, peers, nextId, closedIds, control, relay, drops, lost, told>>
    BY DEF Write, Draw, Call
  <1>3. ends' \in Seq(End)
    BY <1>1, <1>2, EndsDrawn DEF TypeOK
  <1>4. Chunk(k) \in Data /\ Chunk(k) \notin OnRelay
    BY ChunkIsNew
  <1>5. RelayKeeps({})
    BY <1>2, RelayStays
  <1>6. Travels({Chunk(k)})
    BY <1>2, <1>4, <1>5 DEF Travels, RelayKeeps, StreamInv, ChunksAreOnce
  <1>7. TypeOK' /\ Counters'
    BY <1>1, <1>2, <1>3, <1>4 DEF TypeOK, Counters
  <1> QED
    BY <1>2, <1>6, <1>7 DEF Draws

LEMMA SendIsKind ==
  ASSUME StreamInv, NEW f \in writing, Send(f)
  PROVE  TypeOK' /\ Counters' /\ StepKind
  <1> DEFINE k == f.of
  <1>1. TypeOK /\ Counters /\ RelayOnce
    BY DEF StreamInv, ChunksAreOnce
  <1>2. f \in Data /\ f.kind = "data" /\ k \in Ends /\ Written(f) /\ f \notin OnRelay
    BY <1>1 DEF TypeOK, Data, StreamInv, ChunksAreWritten, ChunksAreOnce, Written
  <1>3. /\ relay' = Sent(ends[k], f)
        /\ lost' = lost \cup {f} \/ lost' = lost
        /\ UNCHANGED <<left, peers, nextId, closedIds, control, drops, told>>
    BY DEF Send
  <1>4. RelayKeeps({f})
    BY <1>1, <1>2, <1>3, RelaySent, DataIsFrame DEF TypeOK
  <1>5. lost' \subseteq Frame /\ relay' \in [Paths -> Seq(Frame)]
    BY <1>1, <1>2, <1>3, <1>4, DataIsFrame DEF TypeOK, RelayKeeps
  <1>6. CASE Draw(k, writing \ {f})
    <2>1. /\ ends' = [ends EXCEPT ![k].sent = @ + 1]
          /\ writing' = (writing \ {f}) \cup {Chunk(k)} /\ calls' = calls + 1
      BY <1>6 DEF Draw, Call
    <2>2. ends' \in Seq(End)
      BY <1>1, <1>2, <2>1, EndsDrawn DEF TypeOK
    <2>3. Chunk(k) \in Data /\ Chunk(k) \notin OnRelay /\ Chunk(k) # f
      BY <1>2, ChunkIsNew
    <2>4. Travels({Chunk(k)})
      BY <1>4, <2>1, <2>3 DEF Travels, RelayKeeps, StreamInv, ChunksAreOnce
    <2>5. TypeOK' /\ Counters'
      BY <1>1, <1>3, <1>5, <2>1, <2>2, <2>3 DEF TypeOK, Counters
    <2> QED
      BY <1>2, <2>1, <2>4, <2>5 DEF StepKind, Draws
  <1>7. CASE writing' = writing \ {f} /\ UNCHANGED <<ends, calls>>
    <2>1. Travels({})
      BY <1>4, <1>7 DEF Travels, RelayKeeps, StreamInv, ChunksAreOnce
    <2>2. EndsStay
      BY <1>7 DEF EndsStay, SameChunks, SameName, Ends
    <2>3. TypeOK' /\ Counters'
      BY <1>1, <1>3, <1>5, <1>7 DEF TypeOK, Counters
    <2> QED
      BY <2>1, <2>2, <2>3 DEF StepKind, Quiet
  <1> QED
    BY <1>6, <1>7 DEF Send

LEMMA SendFailsIsQuiet ==
  ASSUME StreamInv, NEW f \in writing, SendFails(f)
  PROVE  TypeOK' /\ Counters' /\ Quiet
  <1>1. TypeOK /\ Counters
    BY DEF StreamInv
  <1>2. /\ drops' = drops \/ drops' = drops + 1
        /\ writing' = writing \ {f} /\ lost' = lost \cup {f}
        /\ UNCHANGED <<left, peers, calls, nextId, ends, closedIds, control, relay, told>>
    BY DEF SendFails
  <1>3. f \in Frame
    BY <1>1, DataIsFrame DEF TypeOK
  <1>4. EndsStay /\ Travels({})
    BY <1>2, QuietTravel, RelayStays DEF EndsStay, SameChunks, SameName, Ends
  <1>5. TypeOK' /\ Counters'
    BY <1>1, <1>2, <1>3 DEF TypeOK, Counters
  <1> QED
    BY <1>4, <1>5 DEF Quiet

LEMMA ReadMessageIsQuiet ==
  ASSUME StreamInv, NEW k \in Ends, ReadMessage(k)
  PROVE  TypeOK' /\ Counters' /\ Quiet
  <1>1. TypeOK /\ Counters
    BY DEF StreamInv
  <1>2. /\ ends[k].unread > 0
        /\ ends' = [ends EXCEPT ![k].unread = @ - 1]
        /\ UNCHANGED <<left, peers, calls, nextId, closedIds, writing, control, relay, drops, lost, told>>
    BY DEF ReadMessage
  <1>3. /\ ends' = [j \in Ends |-> ends'[j]]
        /\ ends'[k] = [ends[k] EXCEPT !.unread = @ - 1]
        /\ \A j \in Ends \ {k} : ends'[j] = ends[j]
    BY <1>2 DEF Ends
  <1>4. ends'[k] \in End /\ SameChunks(ends[k], ends'[k])
    BY <1>1, <1>2, <1>3, EndsTyped, EndCalls DEF TypeOK
  <1>5. ends' \in Seq(End) /\ EndsStay
    BY <1>1, <1>3, <1>4, EndsKept DEF TypeOK
  <1>6. Travels({})
    BY <1>2, QuietTravel, RelayStays
  <1>7. TypeOK' /\ Counters'
    BY <1>1, <1>2, <1>5 DEF TypeOK, Counters
  <1> QED
    BY <1>5, <1>6, <1>7 DEF Quiet

LEMMA ReadEndIsQuiet ==
  ASSUME StreamInv, NEW k \in Ends, ReadEnd(k)
  PROVE  TypeOK' /\ Counters' /\ Quiet
  <1>1. TypeOK /\ Counters
    BY DEF StreamInv
  <1>2. /\ told' = told \cup {k} /\ calls' = calls + 1
        /\ UNCHANGED <<left, peers, nextId, ends, closedIds, writing, control, relay, drops, lost>>
    BY DEF ReadEnd, Call
  <1>3. k \in Nat
    BY <1>1, EndsTyped DEF TypeOK
  <1>4. EndsStay /\ Travels({})
    BY <1>2, QuietTravel, RelayStays DEF EndsStay, SameChunks, SameName, Ends
  <1>5. TypeOK' /\ Counters'
    BY <1>1, <1>2, <1>3 DEF TypeOK, Counters
  <1> QED
    BY <1>4, <1>5 DEF Quiet

LEMMA ShutIsQuiet ==
  ASSUME StreamInv, NEW k \in Ends, Close(k) \/ Reset(k)
  PROVE  TypeOK' /\ Counters' /\ Quiet
  <1>1. TypeOK /\ Counters /\ RelayOnce
    BY DEF StreamInv, ChunksAreOnce
  <1>2. PICK kind \in {"close", "reset"}, err \in Errors \ {"none"} : Shut(k, kind, err)
    BY DEF Close, Reset, Errors
  <1> DEFINE e == ends[k]
             f == [kind |-> kind, id |-> e.id]
             s == IF \E g \in writing : g.of = k THEN "cut" ELSE "closed"
  <1>3. e \in End /\ e.at \in Members /\ e.id \in Nat
    BY <1>1, EndsTyped, EndTyped DEF TypeOK
  <1>4. /\ ends' = [ends EXCEPT ![k].state = s, ![k].err = err]
        /\ relay' = Sent(e, f) /\ calls' = calls + 1
        /\ closedIds' = [closedIds EXCEPT ![e.at] = @ \cup {e.id}]
        /\ UNCHANGED <<left, peers, nextId, writing, control, drops, lost, told>>
    BY <1>2 DEF Shut, Call, DropStream
  <1>5. /\ ends' = [j \in Ends |-> ends'[j]]
        /\ ends'[k] = [e EXCEPT !.state = s, !.err = err]
        /\ \A j \in Ends \ {k} : ends'[j] = ends[j]
    BY <1>4 DEF Ends
  <1>6. s \in States
    BY DEF States
  <1>7. f \in Frame /\ f.kind # "data" /\ f \notin OnRelay
    <2>1. f \in [kind : {"close", "reset"}, id : Nat]
      BY <1>3
    <2>2. f.kind # "data"
      OBVIOUS
    <2> HIDE DEF f
    <2> QED
      BY <2>1, <2>2 DEF Frame, OnRelay
  <1> HIDE DEF s, f
  <1>8. ends'[k] \in End /\ SameChunks(e, ends'[k])
    <2>1. /\ [e EXCEPT !.state = s, !.err = err] \in End
          /\ SameChunks(e, [e EXCEPT !.state = s, !.err = err])
      <3> HIDE DEF e
      <3> QED
        BY <1>3, <1>6, EndCalls
    <2> QED
      BY <1>5, <2>1
  <1>9. ends' \in Seq(End) /\ EndsStay
    BY <1>1, <1>5, <1>8, EndsKept DEF TypeOK
  <1>10. RelayKeeps({})
    BY <1>1, <1>4, <1>7, RelaySent DEF TypeOK
  <1>11. Travels({})
    BY <1>4, <1>10, QuietTravel
  <1>12. closedIds' \in [Members -> SUBSET Nat]
    BY <1>1, <1>3, <1>4 DEF TypeOK
  <1>13. relay' \in [Paths -> Seq(Frame)]
    BY <1>10 DEF RelayKeeps
  <1>14. TypeOK' /\ Counters'
    BY <1>1, <1>4, <1>9, <1>12, <1>13 DEF TypeOK, Counters
  <1> QED
    BY <1>9, <1>11, <1>14 DEF Quiet

LEMMA AbandonedStay ==
  ASSUME TypeOK, NEW ks, ends' = Abandoned(ks)
  PROVE  ends' \in Seq(End) /\ EndsStay
  <1>1. ends' = [k \in Ends |-> ends'[k]]
    BY DEF Abandoned
  <1>2. ASSUME NEW k \in Ends
        PROVE  ends'[k] = ends[k] \/ (ends'[k] \in End /\ SameChunks(ends[k], ends'[k]))
    <2>1. ends[k] \in End
      BY EndsTyped DEF TypeOK
    <2>2. ends'[k] = ends[k] \/ ends'[k] = [ends[k] EXCEPT !.state = "left"]
      BY DEF Abandoned
    <2> QED
      BY <2>1, <2>2, EndCalls DEF States
  <1> QED
    BY <1>1, <1>2, EndsKept DEF TypeOK

LEMMA FramesTyped ==
  ASSUME TypeOK, NEW paths \in SUBSET Paths
  PROVE  FramesOn(paths) \subseteq Frame
  <1>1. ASSUME NEW pq \in paths, NEW i \in DOMAIN relay[pq]
        PROVE  relay[pq][i] \in Frame
    <2>1. relay[pq] \in Seq(Frame) /\ i \in 1..Len(relay[pq])
      BY LenProperties DEF TypeOK
    <2> QED
      BY <2>1, ElementOfSeq
  <1> QED
    BY <1>1 DEF FramesOn

LEMMA CloseClientIsQuiet ==
  ASSUME StreamInv, NEW p \in Members, CloseClient(p)
  PROVE  TypeOK' /\ Counters' /\ Quiet
  <1> DEFINE inbound == {pq \in Paths : pq[2] = p}
  <1>1. TypeOK /\ Counters /\ RelayOnce
    BY DEF StreamInv, ChunksAreOnce
  <1>2. /\ left' = left \cup {p} /\ calls' = calls + 1
        /\ ends' = Abandoned({k \in Ends : ends[k].at = p})
        /\ relay' = Cleared(relay, inbound) /\ control' = Cleared(control, inbound)
        /\ lost' = lost \cup FramesOn(inbound)
        /\ UNCHANGED <<peers, nextId, closedIds, writing, drops, told>>
    BY DEF CloseClient, Call
  <1>3. FramesOn(inbound) \subseteq Frame
    BY <1>1, FramesTyped
  <1> HIDE DEF inbound
  <1>4. ends' \in Seq(End) /\ EndsStay
    BY <1>1, <1>2, AbandonedStay
  <1>5. RelayKeeps({})
    BY <1>1, <1>2, RelayCleared DEF TypeOK
  <1>6. control' \in [Paths -> Seq(Nat)]
    <2>1. <<>> \in Seq(Nat)
      BY EmptySeq
    <2> QED
      BY <1>1, <1>2, <2>1 DEF Cleared, TypeOK
  <1>7. relay' \in [Paths -> Seq(Frame)] /\ Travels({})
    BY <1>2, <1>5, QuietTravel DEF RelayKeeps
  <1>8. TypeOK' /\ Counters'
    BY <1>1, <1>2, <1>3, <1>4, <1>6, <1>7 DEF TypeOK, Counters
  <1> QED
    BY <1>4, <1>7, <1>8 DEF Quiet

LEMMA OnMemberLeftIsQuiet ==
  ASSUME StreamInv, NEW p \in Members, NEW q \in Members, <<p, q>> \in Paths, OnMemberLeft(p, q)
  PROVE  TypeOK' /\ Counters' /\ Quiet
  <1>1. TypeOK /\ Counters /\ RelayOnce
    BY DEF StreamInv, ChunksAreOnce
  <1>2. /\ peers' = [peers EXCEPT ![q] = @ \ {p}]
        /\ ends' = Abandoned({k \in Ends : ends[k].at = q /\ ends[k].peer = p})
        /\ relay' = Cleared(relay, {<<p, q>>})
        /\ lost' = lost \cup FramesOn({<<p, q>>})
        /\ UNCHANGED <<left, nextId, closedIds, writing, control, calls, drops, told>>
    BY DEF OnMemberLeft
  <1>3. FramesOn({<<p, q>>}) \subseteq Frame
    BY <1>1, FramesTyped
  <1>4. ends' \in Seq(End) /\ EndsStay
    BY <1>1, <1>2, AbandonedStay
  <1>5. RelayKeeps({})
    BY <1>1, <1>2, RelayCleared DEF TypeOK
  <1>6. peers' \in [Members -> SUBSET Members]
    BY <1>1, <1>2 DEF TypeOK
  <1>7. relay' \in [Paths -> Seq(Frame)] /\ Travels({})
    BY <1>2, <1>5, QuietTravel DEF RelayKeeps
  <1>8. TypeOK' /\ Counters'
    BY <1>1, <1>2, <1>3, <1>4, <1>6, <1>7 DEF TypeOK, Counters
  <1> QED
    BY <1>4, <1>7, <1>8 DEF Quiet

LEMMA TailTyped ==
  ASSUME NEW S, NEW s \in Seq(S), s # <<>>
  PROVE  Head(s) \in S /\ Tail(s) \in Seq(S)
  BY HeadTailProperties

LEMMA OnStreamOpenIsQuiet ==
  ASSUME StreamInv, NEW p \in Members, NEW q \in Members, <<p, q>> \in Paths, OnStreamOpen(p, q)
  PROVE  TypeOK' /\ Counters' /\ Quiet
  <1> DEFINE id == Head(control[<<p, q>>])
  <1>1. TypeOK /\ Counters
    BY DEF StreamInv
  <1>2. /\ control[<<p, q>>] # <<>>
        /\ ends' = ends \/ ends' = Append(ends, NewEnd(q, p, id, FALSE))
        /\ control' = [control EXCEPT ![<<p, q>>] = Tail(@)]
        /\ UNCHANGED <<left, peers, calls, nextId, closedIds, writing, relay, drops, lost, told>>
    BY DEF OnStreamOpen
  <1>3. id \in Nat /\ Tail(control[<<p, q>>]) \in Seq(Nat)
    BY <1>1, <1>2, TailTyped DEF TypeOK
  <1> HIDE DEF id
  <1>4. control' \in [Paths -> Seq(Nat)]
    BY <1>1, <1>2, <1>3 DEF TypeOK
  <1>5. ends' \in Seq(End) /\ EndsStay
    <2>1. CASE ends' = ends
      BY <1>1, <2>1 DEF TypeOK, EndsStay, SameChunks, SameName, Ends
    <2>2. CASE ends' = Append(ends, NewEnd(q, p, id, FALSE))
      <3>1. p # q
        BY DEF Paths
      <3> QED
        BY <1>1, <1>3, <2>2, <3>1, EndMade DEF TypeOK
    <2> QED
      BY <1>2, <2>1, <2>2
  <1>6. Travels({})
    BY <1>2, QuietTravel, RelayStays
  <1>7. TypeOK' /\ Counters'
    <2>1. /\ left' \subseteq Members /\ peers' \in [Members -> SUBSET Members]
          /\ nextId' \in [Members -> [{0, 1} -> Nat]]
          /\ closedIds' \in [Members -> SUBSET Nat] /\ writing' \subseteq Data
          /\ relay' \in [Paths -> Seq(Frame)] /\ lost' \subseteq Frame
          /\ calls' \in Nat /\ drops' \in Nat /\ told' \subseteq Nat
      BY <1>1, <1>2 DEF TypeOK
    <2> QED
      BY <1>1, <1>2, <1>4, <1>5, <2>1 DEF TypeOK, Counters
  <1> QED
    BY <1>5, <1>6, <1>7 DEF Quiet

LEMMA DroppedIsQuiet ==
  ASSUME StreamInv, NEW p \in Members, NEW q \in Members, <<p, q>> \in Paths, Dropped(p, q)
  PROVE  TypeOK' /\ Counters' /\ Quiet
  <1>1. TypeOK /\ Counters /\ RelayOnce
    BY DEF StreamInv, ChunksAreOnce
  <1>2. /\ drops' = drops + 1
        /\ UNCHANGED <<left, peers, calls, nextId, ends, closedIds, writing, told>>
    BY DEF Dropped
  <1>3. RelayKeeps({}) /\ control' \in [Paths -> Seq(Nat)] /\ lost' \subseteq Frame
    <2>1. CASE /\ relay[<<p, q>>] # <<>>
               /\ lost' = lost \cup {Head(relay[<<p, q>>])}
               /\ relay' = [relay EXCEPT ![<<p, q>>] = Tail(@)]
               /\ UNCHANGED control
      <3>1. RelayKeeps({}) /\ Head(relay[<<p, q>>]) \in Frame
        BY <1>1, <2>1, RelayTaken DEF TypeOK
      <3> QED
        BY <1>1, <2>1, <3>1 DEF TypeOK
    <2>2. CASE /\ control[<<p, q>>] # <<>>
               /\ control' = [control EXCEPT ![<<p, q>>] = Tail(@)]
               /\ UNCHANGED <<relay, lost>>
      <3>1. Tail(control[<<p, q>>]) \in Seq(Nat)
        BY <1>1, <2>2, TailTyped DEF TypeOK
      <3> QED
        BY <1>1, <2>2, <3>1, RelayStays DEF TypeOK
    <2> QED
      BY <2>1, <2>2 DEF Dropped
  <1>4. EndsStay /\ Travels({})
    BY <1>2, <1>3, QuietTravel DEF EndsStay, SameChunks, SameName, Ends
  <1>5. TypeOK' /\ Counters'
    <2>1. relay' \in [Paths -> Seq(Frame)]
      BY <1>3 DEF RelayKeeps
    <2> QED
      BY <1>1, <1>2, <1>3, <2>1 DEF TypeOK, Counters
  <1> QED
    BY <1>4, <1>5 DEF Quiet

\* What an end is given, whether it was there before or not.
LEMMA DeliveredTyped ==
  ASSUME NEW e \in End, NEW f \in Data
  PROVE  /\ Handed(e, f) \in End /\ Delivered(e, f) \in End
         /\ LostBy(e, f) \subseteq Frame /\ Overflown(e, f) \subseteq Frame
         /\ \/ f.seq = e.next /\ Delivered(e, f) = Handed(e, f)
            \/ Delivered(e, f) = Kept(e, f)
         /\ Delivered(e, f).id = e.id
  <1>1. /\ \/ f.seq = e.next /\ Delivered(e, f) = Handed(e, f)
           \/ Delivered(e, f) = Kept(e, f)
    BY DEF Delivered, Awaited
  <1>2. Handed(e, f) \in End /\ Kept(e, f) \in End /\ Handed(e, f).id = e.id /\ Kept(e, f).id = e.id
    BY HandedEffect, KeptEffect DEF SameName
  <1>3. LostBy(e, f) \subseteq Frame /\ Overflown(e, f) \subseteq Frame
    BY EndTyped, DataIsFrame DEF LostBy, Overflown, Displaced
  <1> QED
    BY <1>1, <1>2, <1>3

LEMMA HandOnGives ==
  ASSUME StreamInv, NEW k \in Ends, HandOn(k)
  PROVE  TypeOK' /\ Counters' /\ \E e, f : Gets(k, e, f)
  <1> DEFINE e == ends[k]
  <1>1. TypeOK /\ Counters
    BY DEF StreamInv
  <1>2. PICK f \in Ready(k) :
          /\ ends' = [ends EXCEPT ![k] = Handed(@, f)]
          /\ lost' = lost \cup Overflown(ends[k], f)
          /\ UNCHANGED <<left, peers, calls, nextId, closedIds, writing, control, relay, drops, told>>
    BY DEF HandOn
  <1>3. /\ f \in e.buf /\ f.seq = e.next /\ e \in End
        /\ f \in Data /\ Handed(e, f) \in End /\ Overflown(e, f) \subseteq Frame
    BY <1>1, EndsTyped, EndTyped, DeliveredTyped DEF Ready, TypeOK
  <1>4. /\ ends' = [j \in Ends |-> ends'[j]]
        /\ ends'[k] = Handed(e, f)
        /\ \A j \in Ends \ {k} : ends'[j] = ends[j]
    BY <1>2 DEF Ends
  <1>5. ends' \in Seq(End) /\ DOMAIN ends' = Ends
    BY <1>1, <1>3, <1>4, EndsTyped, EndsChange DEF TypeOK
  <1>6. Reads(k, e, f)
    BY <1>3, <1>4, <1>5 DEF Reads
  <1>7. RelayKeeps({})
    BY <1>2, RelayStays
  <1>8. ComesFrom(k, f)
    BY <1>2, <1>3, <1>7 DEF ComesFrom, RelayKeeps, StreamInv, ChunksAreWritten, ChunksAreOnce
  <1>9. Given(k, e, f)
    BY <1>2, <1>3, <1>6, <1>7, <1>8 DEF Given, RelayKeeps, StreamInv, Names, ChunksAreAddressed
  <1>10. TypeOK' /\ Counters'
    BY <1>1, <1>2, <1>3, <1>5 DEF TypeOK, Counters
  <1>11. Gets(k, e, f)
    <2>1. Delivered(e, f) = Handed(e, f) /\ LostBy(e, f) = Overflown(e, f)
      BY <1>3 DEF Delivered, LostBy, Awaited
    <2> QED
      BY <1>2, <1>4, <1>9, <2>1 DEF Gets
  <1> QED
    BY <1>10, <1>11

\* The stream a frame is put into: the one of that id that is open here, or a new one.
MadeFor(p, q, f, k, e) ==
    IF k \in Ends THEN k \in Find(q, f.id)
    ELSE ~Busy(q, f.id) /\ e = NewEnd(q, p, f.id, FALSE)

LEMMA OnDataGives ==
  ASSUME StreamInv, NEW p \in Members, NEW q \in Members, NEW f \in Data, OnData(p, q, f),
         p # q, UNCHANGED writing, f \in OnRelay, f \notin OnRelay', RelayKeeps({}),
         ends[f.of].peer = q
  PROVE  /\ ends' \in Seq(End) /\ lost' \subseteq Frame
         /\ \E k, e : Gets(k, e, f) /\ MadeFor(p, q, f, k, e)
  <1>1. TypeOK
    BY DEF StreamInv
  <1>2. ASSUME NEW k, NEW e, Reads(k, e, f), e.at = q, e.id = f.id
        PROVE  Given(k, e, f)
    <2>1. ComesFrom(k, f)
      BY DEF ComesFrom, StreamInv, ChunksAreWritten, ChunksAreOnce
    <2> QED
      BY <1>2, <2>1 DEF Given, RelayKeeps, Addressed
  <1>3. CASE Busy(q, f.id)
    <2> DEFINE k == CHOOSE x \in Find(q, f.id) : TRUE
               e == ends[k]
    <2>1. k \in Ends /\ e.at = q /\ e.id = f.id /\ k \in Find(q, f.id) /\ e.state = "open"
      BY <1>3 DEF Busy, Find
    <2>2. ends' = [ends EXCEPT ![k] = Delivered(@, f)] /\ lost' = lost \cup LostBy(e, f)
      BY <1>3 DEF OnData
    <2> HIDE DEF k
    <2>3. /\ e \in End /\ Delivered(e, f) \in End /\ LostBy(e, f) \subseteq Frame
          /\ \/ f.seq = e.next /\ Delivered(e, f) = Handed(e, f)
             \/ Delivered(e, f) = Kept(e, f)
      BY <1>1, <2>1, EndsTyped, DeliveredTyped DEF TypeOK
    <2>4. /\ ends' = [j \in Ends |-> ends'[j]]
          /\ ends'[k] = Delivered(e, f)
          /\ \A j \in Ends \ {k} : ends'[j] = ends[j]
      BY <2>1, <2>2 DEF Ends
    <2>5. ends' \in Seq(End) /\ DOMAIN ends' = Ends
      BY <1>1, <2>3, <2>4, EndsTyped, EndsChange DEF TypeOK
    <2>6. Reads(k, e, f)
      BY <2>1, <2>3, <2>4, <2>5 DEF Reads
    <2>7. Gets(k, e, f) /\ MadeFor(p, q, f, k, e)
      <3>1. Given(k, e, f) /\ e.state = "open" /\ k \in Find(q, f.id)
        BY <1>2, <2>1, <2>6
      <3> QED
        BY <2>1, <2>2, <2>4, <3>1 DEF Gets, MadeFor
    <2> QED
      BY <1>1, <2>2, <2>3, <2>5, <2>7 DEF TypeOK
  <1>4. CASE ~Busy(q, f.id)
    <2> DEFINE e == NewEnd(q, p, f.id, FALSE)
               all == Append(ends, e)
               k == Len(all)
    <2>1. ends' = [all EXCEPT ![k] = Delivered(@, f)] /\ lost' = lost \cup LostBy(all[k], f)
      BY <1>4 DEF OnData
    <2>2. e \in End /\ Fresh(e) /\ Named(e) /\ e.at = q /\ e.id = f.id
      <3>1. f.id \in Nat
        BY DEF Data
      <3> QED
        BY <3>1, NewEndTyped DEF NewEnd, Fresh, Named
    <2> HIDE DEF e
    <2>3. /\ all \in Seq(End) /\ Len(all) = Len(ends) + 1
          /\ \A j \in 1..Len(ends) : all[j] = ends[j]
          /\ all[Len(ends) + 1] = e
      BY <1>1, <2>2, AppendProperties DEF TypeOK
    <2>4. k = Len(ends) + 1 /\ DOMAIN all = 1..(Len(ends) + 1) /\ all[k] = e
      BY <2>3, LenProperties
    <2>5. /\ Delivered(e, f) \in End /\ LostBy(e, f) \subseteq Frame
          /\ Delivered(e, f).id = e.id
          /\ \/ f.seq = e.next /\ Delivered(e, f) = Handed(e, f)
             \/ Delivered(e, f) = Kept(e, f)
      BY <2>2, DeliveredTyped
    <2>6. Len(ends) \in Nat /\ Ends = 1..Len(ends)
      BY <1>1, EndsTyped DEF TypeOK
    <2> HIDE DEF all, k
    <2>7. k \notin Ends /\ DOMAIN all = Ends \cup {k}
      BY <2>4, <2>6
    <2>8. /\ ends' \in Seq(End) /\ DOMAIN ends' = Ends \cup {k}
          /\ ends'[k] = Delivered(e, f)
          /\ \A j \in Ends : ends'[j] = ends[j]
      <3>1. ends' \in Seq(End)
        BY <2>1, <2>3, <2>4, <2>5, <2>7, ExceptSeq
      <3> QED
        BY <2>1, <2>3, <2>4, <2>6, <2>7, <3>1
    <2>9. Reads(k, e, f)
      BY <2>2, <2>5, <2>7, <2>8 DEF Reads
    <2>10. Gets(k, e, f) /\ MadeFor(p, q, f, k, e)
      <3>1. Given(k, e, f) /\ ~e.mine /\ e = NewEnd(q, p, f.id, FALSE)
        BY <1>2, <2>2, <2>9 DEF e, NewEnd
      <3> QED
        BY <1>4, <2>1, <2>4, <2>7, <2>8, <3>1 DEF Gets, MadeFor
    <2> QED
      BY <1>1, <2>1, <2>4, <2>5, <2>8, <2>10 DEF TypeOK
  <1> QED
    BY <1>3, <1>4

LEMMA OnCloseStays ==
  ASSUME StreamInv, NEW q \in Members, NEW f \in Frame, OnClose(q, f)
  PROVE  /\ ends' \in Seq(End) /\ EndsStay
         /\ closedIds' \in [Members -> SUBSET Nat] /\ UNCHANGED lost
  <1>1. TypeOK
    BY DEF StreamInv
  <1>2. f.id \in Nat
    BY DEF Frame, Data
  <1>3. /\ ends' = [k \in Ends |-> IF k \in Find(q, f.id) THEN Ended(ends[k], f.kind) ELSE ends[k]]
        /\ closedIds' = closedIds \/ closedIds' = [closedIds EXCEPT ![q] = @ \cup {f.id}]
        /\ lost' = lost
    BY DEF OnClose, DropStream
  <1>4. ends' = [k \in Ends |-> ends'[k]]
    BY <1>3
  <1>5. ASSUME NEW k \in Ends
        PROVE  ends'[k] = ends[k] \/ (ends'[k] \in End /\ SameChunks(ends[k], ends'[k]))
    <2>1. ends[k] \in End
      BY <1>1, EndsTyped DEF TypeOK
    <2>2. ends'[k] = ends[k] \/ ends'[k] = Ended(ends[k], f.kind)
      BY <1>3
    <2> QED
      BY <2>1, <2>2, EndCalls
  <1>6. ends' \in Seq(End) /\ EndsStay
    BY <1>1, <1>4, <1>5, EndsKept DEF TypeOK
  <1>7. closedIds' \in [Members -> SUBSET Nat]
    <2>1. closedIds[q] \cup {f.id} \in SUBSET Nat
      BY <1>1, <1>2 DEF TypeOK
    <2> QED
      BY <1>1, <1>3, <2>1 DEF TypeOK
  <1> QED
    BY <1>3, <1>6, <1>7

LEMMA ReceiveIsKind ==
  ASSUME StreamInv, NEW p \in Members, NEW q \in Members, <<p, q>> \in Paths, Receive(p, q)
  PROVE  TypeOK' /\ Counters' /\ StepKind
  <1> DEFINE f == Head(relay[<<p, q>>])
  <1>1. TypeOK /\ Counters /\ RelayOnce
    BY DEF StreamInv, ChunksAreOnce
  <1>2. /\ relay[<<p, q>>] # <<>> /\ (OnData(p, q, f) \/ OnClose(q, f))
        /\ relay' = [relay EXCEPT ![<<p, q>>] = Tail(@)]
        /\ UNCHANGED <<left, peers, calls, nextId, writing, control, drops, told>>
    BY DEF Receive
  <1>3. /\ RelayKeeps({}) /\ f \in Frame
        /\ f.kind = "data" => f \in OnRelay /\ f \notin OnRelay'
    BY <1>1, <1>2, RelayTaken DEF Receive, TypeOK
  <1>4. f.kind = "data" => f \in ChunksOn(<<p, q>>)
    <2>1. Len(relay[<<p, q>>]) \in Nat \ {0} /\ f = relay[<<p, q>>][1]
      BY <1>1, <1>2, EmptySeq, LenProperties, HeadTailProperties DEF TypeOK
    <2>2. 1 \in DOMAIN relay[<<p, q>>]
      BY <1>1, <2>1, LenProperties DEF TypeOK
    <2> QED
      BY <2>1, <2>2 DEF ChunksOn, FramesOn
  <1> HIDE DEF f
  <1>5. /\ ends' \in Seq(End) /\ lost' \subseteq Frame
        /\ closedIds' \in [Members -> SUBSET Nat] /\ StepKind
    <2>1. CASE OnData(p, q, f)
      <3>1. f.kind = "data" /\ UNCHANGED closedIds
        BY <2>1 DEF OnData
      <3>2. f \in Data
        BY <1>3, <3>1 DEF Frame, Data
      <3>3. p # q /\ ends[f.of].peer = q
        <4>1. p # q
          BY DEF Paths
        <4>2. <<p, q>>[2] = q
          OBVIOUS
        <4> QED
          BY <1>4, <3>1, <4>1, <4>2 DEF StreamInv, Names, FramesAreRouted, Routed
      <3>4. ends' \in Seq(End) /\ lost' \subseteq Frame /\ \E k, e : Given(k, e, f)
        BY <1>2, <1>3, <2>1, <3>1, <3>2, <3>3, OnDataGives DEF Gets
      <3> QED
        BY <1>1, <3>1, <3>4 DEF StepKind, TypeOK
    <2>2. CASE OnClose(q, f)
      <3>1. /\ ends' \in Seq(End) /\ EndsStay
            /\ closedIds' \in [Members -> SUBSET Nat] /\ UNCHANGED lost
        BY <1>3, <2>2, OnCloseStays
      <3>2. Travels({})
        BY <1>2, <1>3, QuietTravel
      <3> QED
        BY <1>1, <3>1, <3>2 DEF StepKind, Quiet, TypeOK
    <2> QED
      BY <1>2, <2>1, <2>2
  <1>6. relay' \in [Paths -> Seq(Frame)]
    BY <1>3 DEF RelayKeeps
  <1>7. TypeOK' /\ Counters'
    BY <1>1, <1>2, <1>5, <1>6 DEF TypeOK, Counters
  <1> QED
    BY <1>5, <1>7

LEMMA NextIsKind ==
  ASSUME StreamInv, Next
  PROVE  TypeOK' /\ Counters' /\ StepKind
  <1>1. ASSUME NEW pq \in Paths,
               \/ OpenStream(pq[1], pq[2]) \/ Receive(pq[1], pq[2])
               \/ OnStreamOpen(pq[1], pq[2]) \/ OnMemberLeft(pq[1], pq[2])
               \/ Dropped(pq[1], pq[2])
        PROVE  TypeOK' /\ Counters' /\ StepKind
    <2>1. pq[1] \in Members /\ pq[2] \in Members /\ <<pq[1], pq[2]>> \in Paths
      BY DEF Paths
    <2>2. CASE OpenStream(pq[1], pq[2])
      BY <2>1, <2>2, OpenStreamIsQuiet DEF StepKind
    <2>3. CASE Receive(pq[1], pq[2])
      BY <2>1, <2>3, ReceiveIsKind
    <2>4. CASE OnStreamOpen(pq[1], pq[2])
      BY <2>1, <2>4, OnStreamOpenIsQuiet DEF StepKind
    <2>5. CASE OnMemberLeft(pq[1], pq[2])
      BY <2>1, <2>5, OnMemberLeftIsQuiet DEF StepKind
    <2>6. CASE Dropped(pq[1], pq[2])
      BY <2>1, <2>6, DroppedIsQuiet DEF StepKind
    <2> QED
      BY <1>1, <2>2, <2>3, <2>4, <2>5, <2>6
  <1>2. ASSUME NEW p \in Members, CloseClient(p)
        PROVE  TypeOK' /\ Counters' /\ StepKind
    BY <1>2, CloseClientIsQuiet DEF StepKind
  <1>3. ASSUME NEW k \in Ends,
               \/ Write(k) \/ ReadMessage(k) \/ ReadEnd(k)
               \/ Close(k) \/ Reset(k) \/ HandOn(k)
        PROVE  TypeOK' /\ Counters' /\ StepKind
    <2>1. CASE Write(k)
      BY <2>1, WriteDraws DEF StepKind
    <2>2. CASE ReadMessage(k)
      BY <2>2, ReadMessageIsQuiet DEF StepKind
    <2>3. CASE Close(k) \/ Reset(k)
      BY <2>3, ShutIsQuiet DEF StepKind
    <2>4. CASE HandOn(k)
      BY <2>4, HandOnGives DEF StepKind, Gets
    <2>5. CASE ReadEnd(k)
      BY <2>5, ReadEndIsQuiet DEF StepKind
    <2> QED
      BY <1>3, <2>1, <2>2, <2>3, <2>4, <2>5
  <1>4. ASSUME NEW f \in writing, Send(f) \/ SendFails(f)
        PROVE  TypeOK' /\ Counters' /\ StepKind
    <2>1. CASE Send(f)
      BY <2>1, SendIsKind
    <2>2. CASE SendFails(f)
      BY <2>2, SendFailsIsQuiet DEF StepKind
    <2> QED
      BY <1>4, <2>1, <2>2
  <1> QED
    BY <1>1, <1>2, <1>3, <1>4 DEF Next

LEMMA QuietReadsNothing ==
  ASSUME ends \in Seq(End), EndsStay
  PROVE  NothingRead
  <1>1. \A k \in Ends : ends[k].sent \in Nat
    BY EndsTyped, EndTyped
  <1> QED
    BY <1>1 DEF EndsStay, NothingRead, SameChunks

LEMMA KindsAreSafe ==
  ASSUME StreamInv, TypeOK', StepKind
  PROVE  Gapless' /\ ChunksAreWritten' /\ ChunksAreOnce' /\ TakenInOrder'
  <1>1. TypeOK /\ ends \in Seq(End) /\ ends' \in Seq(End) /\ writing' \subseteq Data
    BY DEF StreamInv, TypeOK
  <1>2. OnRelay \subseteq Data
    BY <1>1, OnRelayMeans DEF TypeOK
  <1>3. CASE Quiet
    <2>1. NothingRead
      BY <1>1, <1>3, QuietReadsNothing DEF Quiet
    <2>2. OnRelay' \subseteq Data
      BY <1>1, <1>2, <1>3 DEF Quiet, Travels, TypeOK
    <2> QED
      BY <1>1, <1>2, <1>3, <2>1, <2>2, NothingReadIsSafe DEF Quiet, Travels
  <1>4. ASSUME NEW k \in Ends, Draws(k)
        PROVE  Gapless' /\ ChunksAreWritten' /\ ChunksAreOnce' /\ TakenInOrder'
    <2>1. ends' = [ends EXCEPT ![k].sent = @ + 1] /\ Travels({Chunk(k)})
      BY <1>4 DEF Draws
    <2>2. NothingRead /\ DOMAIN ends' = Ends
      BY <1>1, <2>1, EndsDrawn
    <2>3. PICK c \in Data : c = Chunk(k) /\ ~Written(c)
      BY ChunkIsNew
    <2>4. OnRelay' \subseteq Data
      BY <1>1, <1>2, <2>1, <2>3 DEF Travels, TypeOK
    <2>5. Written(c)'
      <3>1. ends[k] \in End /\ ends[k].sent \in Nat
        BY <1>1, EndsTyped, EndTyped
      <3>2. ends'[k].sent = ends[k].sent + 1 /\ ends'[k].id = ends[k].id
        BY <1>1, <2>1, <3>1 DEF Ends, End
      <3>3. c.of = k /\ c.seq = ends[k].sent /\ c.id = ends[k].id
        BY <2>3 DEF Chunk
      <3>4. c.of \in DOMAIN ends' /\ c.seq < ends'[c.of].sent /\ c.id = ends'[c.of].id
        BY <2>2, <3>1, <3>2, <3>3
      <3> QED
        BY <3>4 DEF Written, Ends
    <2>6. \A f \in writing' \cup OnRelay' :
            f \in writing \cup OnRelay \/ (Written(f)' /\ ~Written(f))
      BY <2>1, <2>3, <2>5 DEF Travels
    <2> QED
      BY <1>1, <1>2, <2>1, <2>2, <2>4, <2>6, NothingReadIsSafe DEF Travels
  <1>5. ASSUME NEW k, NEW e, NEW f, Given(k, e, f)
        PROVE  Gapless' /\ ChunksAreWritten' /\ ChunksAreOnce' /\ TakenInOrder'
    BY <1>1, <1>2, <1>5, ReadIsSafe DEF Given
  <1> QED
    BY <1>3, <1>4, <1>5 DEF StepKind

-----------------------------------------------------------------------------
\* Names: every step keeps them, on its way and where a chunk arrives.

RoutesKeep ==
    \A pq \in Paths : \A f \in ChunksOn(pq)' :
        f \in ChunksOn(pq) \/ (f.of \in Ends /\ Routed(pq, f))

ChunksKeep ==
    \A k \in DOMAIN ends' : \A f \in ends'[k].buf \cup TakenBy(k)' :
        \/ k \in Ends /\ f \in ends[k].buf \cup TakenBy(k)
        \/ f.of \in Ends /\ Addressed(ends'[k], f)

LEMMA NamesKeep ==
  ASSUME StreamInv, Ends \subseteq DOMAIN ends', RoutesKeep, ChunksKeep,
         \A k \in Ends : SameName(ends[k], ends'[k]),
         \A k \in DOMAIN ends' \ Ends : Named(ends'[k])
  PROVE  Names'
  <1>1. EndsAreNamed'
    <2>1. ASSUME NEW k \in Ends
          PROVE  Named(ends'[k])
      BY DEF StreamInv, Names, EndsAreNamed, Named, SameName
    <2> QED
      BY <2>1 DEF EndsAreNamed, Named, Ends, Parity
  <1>2. ASSUME NEW f, f.of \in Ends
        PROVE  /\ ends'[f.of].at = ends[f.of].at /\ ends'[f.of].peer = ends[f.of].peer
    BY <1>2 DEF SameName
  <1>3. FramesAreRouted'
    <2> SUFFICES ASSUME NEW pq \in Paths, NEW f \in ChunksOn(pq)'
                 PROVE  ends'[f.of].at = pq[1] /\ ends'[f.of].peer = pq[2]
      BY DEF FramesAreRouted, Routed, Paths
    <2>1. f.of \in Ends /\ Routed(pq, f)
      <3>1. CASE f \in ChunksOn(pq)
        <4>1. f \in OnRelay
          BY <3>1 DEF ChunksOn, OnRelay, FramesOn
        <4> QED
          BY <3>1, <4>1 DEF StreamInv, ChunksAreWritten, Written, Names, FramesAreRouted
      <3> QED
        BY <3>1 DEF RoutesKeep
    <2> QED
      BY <1>2, <2>1 DEF Routed
  <1>4. ChunksAreAddressed'
    <2> SUFFICES ASSUME NEW k \in DOMAIN ends', NEW f \in ends'[k].buf \cup TakenBy(k)'
                 PROVE  f.id = ends'[k].id /\ ends'[f.of].peer = ends'[k].at
      BY DEF ChunksAreAddressed, Addressed, Ends
    <2>1. CASE k \in Ends /\ f \in ends[k].buf \cup TakenBy(k)
      <3>1. f.of \in Ends /\ Addressed(ends[k], f)
        BY <2>1 DEF StreamInv, ChunksAreWritten, Written, Names, ChunksAreAddressed
      <3>2. SameName(ends[k], ends'[k])
        BY <2>1
      <3> QED
        BY <1>2, <3>1, <3>2 DEF Addressed, SameName
    <2>2. CASE f.of \in Ends /\ Addressed(ends'[k], f)
      BY <1>2, <2>2 DEF Addressed
    <2> QED
      BY <2>1, <2>2 DEF ChunksKeep
  <1> QED
    BY <1>1, <1>3, <1>4 DEF Names

LEMMA NothingReadKeepsNames ==
  ASSUME StreamInv, NothingRead, RoutesKeep
  PROVE  Names'
  <1>1. ChunksKeep
    <2> SUFFICES ASSUME NEW k \in DOMAIN ends', NEW f \in ends'[k].buf \cup TakenBy(k)'
                 PROVE  k \in Ends /\ f \in ends[k].buf \cup TakenBy(k)
      BY DEF ChunksKeep
    <2>1. k \in Ends => ends'[k].buf = ends[k].buf /\ TakenBy(k)' = TakenBy(k)
      BY DEF NothingRead, TakenBy
    <2>2. k \notin Ends => ends'[k].buf = {} /\ TakenBy(k)' = {}
      BY DEF NothingRead, Fresh, TakenBy
    <2> QED
      BY <2>1, <2>2
  <1> QED
    BY <1>1, NamesKeep DEF NothingRead

LEMMA GivenKeepsNames ==
  ASSUME StreamInv, ends' \in Seq(End), NEW k, NEW e, NEW f, Given(k, e, f), RoutesKeep
  PROVE  Names'
  <1> DEFINE x == ends'[k]
  <1>1. /\ Reads(k, e, f) /\ f.of \in Ends /\ Addressed(e, f)
    BY DEF Given, ComesFrom, Written
  <1>2. /\ SameName(e, x) /\ x.buf \subseteq e.buf \cup {f}
        /\ x.got = e.got \/ x.got = Append(e.got, f)
        /\ e.got \in Seq(Data) /\ f \in Data
    <2>1. f \in Data
      BY <1>1 DEF Reads
    <2>2. /\ SameName(e, x) /\ x.buf \subseteq e.buf \cup {f}
          /\ x.got = e.got \/ x.got = Append(e.got, f)
          /\ e.got \in Seq(Data)
      BY <1>1, ReadEffect
    <2> QED
      BY <2>1, <2>2
  <1>3. /\ \A j \in DOMAIN ends' : j = k \/ (j \in Ends /\ ends'[j] = ends[j])
        /\ Ends \subseteq DOMAIN ends'
        /\ k \in Ends => e = ends[k]
        /\ k \notin Ends => Named(e) /\ e.buf = {} /\ e.got = <<>>
    BY <1>1 DEF Reads, Fresh
  <1> DEFINE old == {e.got[i] : i \in DOMAIN e.got}
  <1>4. TakenBy(k)' \subseteq old \cup {f}
    <2>1. CASE x.got = e.got
      BY <2>1 DEF TakenBy
    <2>2. CASE x.got = Append(e.got, f)
      <3>1. /\ DOMAIN e.got = 1..Len(e.got) /\ Len(e.got) \in Nat
            /\ DOMAIN x.got = 1..(Len(e.got) + 1)
            /\ \A i \in 1..Len(e.got) : x.got[i] = e.got[i]
            /\ x.got[Len(e.got) + 1] = f
        BY <1>2, <2>2, AppendProperties, LenProperties
      <3>2. ASSUME NEW i \in DOMAIN x.got
            PROVE  x.got[i] \in old \cup {f}
        BY <3>1
      <3> QED
        BY <3>2 DEF TakenBy
    <2> QED
      BY <1>2, <2>1, <2>2
  <1>5. old = IF k \in Ends THEN TakenBy(k) ELSE {}
    BY <1>3 DEF TakenBy
  <1> HIDE DEF x, old
  <1>6. Addressed(x, f)
    BY <1>1, <1>2 DEF Addressed, SameName
  <1>7. ChunksKeep
    <2> SUFFICES ASSUME NEW j \in DOMAIN ends', NEW g \in ends'[j].buf \cup TakenBy(j)'
                 PROVE  \/ j \in Ends /\ g \in ends[j].buf \cup TakenBy(j)
                        \/ g.of \in Ends /\ Addressed(ends'[j], g)
      BY DEF ChunksKeep
    <2>1. CASE j = k
      <3>1. g \in e.buf \cup old \cup {f}
        BY <1>2, <1>4, <2>1 DEF x
      <3>2. CASE g = f
        BY <1>1, <1>6, <2>1, <3>2 DEF x
      <3>3. CASE g \in e.buf \cup old
        BY <1>3, <1>5, <2>1, <3>3
      <3> QED
        BY <3>1, <3>2, <3>3
    <2>2. CASE j # k
      <3>1. TakenBy(j)' = TakenBy(j) /\ j \in Ends /\ ends'[j] = ends[j]
        BY <1>3, <2>2 DEF TakenBy
      <3> QED
        BY <3>1
    <2> QED
      BY <2>1, <2>2
  <1>8. \A j \in Ends : SameName(ends[j], ends'[j])
    <2> SUFFICES ASSUME NEW j \in Ends
                 PROVE  SameName(ends[j], ends'[j])
      OBVIOUS
    <2>1. CASE j = k
      BY <1>2, <1>3, <2>1 DEF x
    <2>2. CASE j # k
      BY <1>3, <2>2 DEF SameName
    <2> QED
      BY <2>1, <2>2
  <1>9. \A j \in DOMAIN ends' \ Ends : Named(ends'[j])
    <2>1. k \notin Ends => Named(x)
      BY <1>2, <1>3 DEF Named, SameName
    <2> QED
      BY <1>3, <2>1 DEF x
  <1> QED
    BY <1>3, <1>7, <1>8, <1>9, NamesKeep

\* What a path carries afterwards it carried before, but for a chunk that is sent.
LEMMA RoutesStay ==
  ASSUME \A pq \in Paths : \A i \in DOMAIN relay'[pq] :
            \E j \in DOMAIN relay[pq] : relay'[pq][i] = relay[pq][j]
  PROVE  RoutesKeep
  BY DEF RoutesKeep, ChunksOn, FramesOn

LEMMA TailRoutes ==
  ASSUME TypeOK, NEW pq \in Paths, relay[pq] # <<>>, relay' = [relay EXCEPT ![pq] = Tail(@)]
  PROVE  RoutesKeep
  <1> DEFINE s == relay[pq]
  <1>1. s \in Seq(Frame) /\ s # <<>>
    BY DEF TypeOK
  <1>2. /\ Tail(s) \in Seq(Frame) /\ Len(Tail(s)) = Len(s) - 1
        /\ \A i \in 1..Len(Tail(s)) : Tail(s)[i] = s[i + 1]
        /\ Len(s) \in Nat \ {0}
    BY <1>1, EmptySeq, LenProperties, HeadTailProperties
  <1>3. /\ relay'[pq] = Tail(s) /\ \A rs \in Paths \ {pq} : relay'[rs] = relay[rs]
        /\ DOMAIN s = 1..Len(s) /\ DOMAIN Tail(s) = 1..Len(Tail(s))
    BY <1>1, <1>2, LenProperties DEF TypeOK
  <1> HIDE DEF s
  <1>4. \A i \in DOMAIN Tail(s) : i + 1 \in DOMAIN s /\ Tail(s)[i] = s[i + 1]
    BY <1>2, <1>3
  <1>5. ASSUME NEW rs \in Paths, NEW i \in DOMAIN relay'[rs]
        PROVE  \E j \in DOMAIN relay[rs] : relay'[rs][i] = relay[rs][j]
    <2>1. CASE rs = pq
      BY <1>3, <1>4, <2>1 DEF s
    <2>2. CASE rs # pq
      BY <1>3, <2>2
    <2> QED
      BY <2>1, <2>2
  <1> QED
    BY <1>5, RoutesStay

LEMMA ClearedRoutes ==
  ASSUME NEW paths, relay' = Cleared(relay, paths)
  PROVE  RoutesKeep
  <1>1. DOMAIN <<>> = {}
    BY EmptySeq
  <1>2. \A pq \in Paths : relay'[pq] = <<>> \/ relay'[pq] = relay[pq]
    BY DEF Cleared
  <1> QED
    BY <1>1, <1>2, RoutesStay

LEMMA SentRoutes ==
  ASSUME TypeOK, NEW e, NEW f \in Frame, relay' = Sent(e, f),
         f.kind = "data" => f.of \in Ends /\ ends[f.of].at = e.at /\ ends[f.of].peer = e.peer
  PROVE  RoutesKeep
  <1> DEFINE pq == <<e.at, e.peer>>
  <1>1. CASE relay' = relay
    BY <1>1, RoutesStay
  <1>2. CASE pq \in Paths /\ relay' = [relay EXCEPT ![pq] = Append(@, f)]
    <2> DEFINE s == relay[pq]
    <2>1. s \in Seq(Frame)
      BY <1>2 DEF TypeOK
    <2>2. /\ DOMAIN Append(s, f) = 1..(Len(s) + 1)
          /\ \A i \in 1..Len(s) : Append(s, f)[i] = s[i]
          /\ Append(s, f)[Len(s) + 1] = f
          /\ Len(s) \in Nat /\ DOMAIN s = 1..Len(s)
      BY <2>1, AppendProperties, LenProperties
    <2>3. relay'[pq] = Append(s, f) /\ \A rs \in Paths \ {pq} : relay'[rs] = relay[rs]
      BY <1>2 DEF TypeOK
    <2>4. pq[1] = e.at /\ pq[2] = e.peer
      OBVIOUS
    <2> HIDE DEF s, pq
    <2>5. ASSUME NEW rs \in Paths, NEW g \in ChunksOn(rs)'
          PROVE  g \in ChunksOn(rs) \/ (g.of \in Ends /\ Routed(rs, g))
      <3>1. g.kind = "data" /\ \E i \in DOMAIN relay'[rs] : g = relay'[rs][i]
        BY DEF ChunksOn, FramesOn
      <3>2. PICK i \in DOMAIN relay'[rs] : g = relay'[rs][i]
        BY <3>1
      <3>3. CASE rs = pq
        <4>1. (i \in DOMAIN s /\ g = s[i]) \/ g = f
          BY <2>2, <2>3, <3>2, <3>3
        <4>2. CASE g = f
          BY <2>4, <3>1, <3>3, <4>2 DEF Routed
        <4>3. CASE i \in DOMAIN s /\ g = s[i]
          BY <3>1, <3>3, <4>3 DEF ChunksOn, FramesOn, s
        <4> QED
          BY <4>1, <4>2, <4>3
      <3>4. CASE rs # pq
        BY <2>3, <3>1, <3>2, <3>4 DEF ChunksOn, FramesOn
      <3> QED
        BY <3>3, <3>4
    <2> QED
      BY <2>5 DEF RoutesKeep
  <1>3. relay' = relay \/ (pq \in Paths /\ relay' = [relay EXCEPT ![pq] = Append(@, f)])
    BY DEF Sent, TypeOK
  <1> QED
    BY <1>1, <1>2, <1>3

LEMMA NextRoutes ==
  ASSUME StreamInv, Next
  PROVE  RoutesKeep
  <1>1. TypeOK
    BY DEF StreamInv
  <1>2. CASE UNCHANGED relay
    BY <1>2, RoutesStay
  <1>3. ASSUME NEW pq \in Paths, Receive(pq[1], pq[2]) \/ Dropped(pq[1], pq[2]), relay' # relay
        PROVE  RoutesKeep
    <2>1. pq = <<pq[1], pq[2]>>
      BY DEF Paths
    <2>2. relay[pq] # <<>> /\ relay' = [relay EXCEPT ![pq] = Tail(@)]
      BY <1>3, <2>1 DEF Receive, Dropped
    <2> QED
      BY <1>1, <2>2, TailRoutes
  <1>4. ASSUME NEW pq \in Paths, OnMemberLeft(pq[1], pq[2])
        PROVE  RoutesKeep
    BY <1>4, ClearedRoutes DEF OnMemberLeft
  <1>5. ASSUME NEW p \in Members, CloseClient(p)
        PROVE  RoutesKeep
    BY <1>5, ClearedRoutes DEF CloseClient
  <1>6. ASSUME NEW k \in Ends, Close(k) \/ Reset(k)
        PROVE  RoutesKeep
    <2>1. PICK kind \in {"close", "reset"} : relay' = Sent(ends[k], [kind |-> kind, id |-> ends[k].id])
      BY <1>6 DEF Close, Reset, Shut
    <2>2. ends[k].id \in Nat
      BY <1>1, EndsTyped, EndTyped DEF TypeOK
    <2>3. PICK f \in [kind : {"close", "reset"}, id : Nat] : relay' = Sent(ends[k], f) /\ f.kind # "data"
      BY <2>1, <2>2
    <2> QED
      BY <1>1, <2>3, SentRoutes DEF Frame
  <1>7. ASSUME NEW f \in writing, Send(f)
        PROVE  RoutesKeep
    <2>1. relay' = Sent(ends[f.of], f)
      BY <1>7 DEF Send
    <2>2. f \in Frame /\ f.of \in Ends
      BY <1>1, DataIsFrame DEF TypeOK, StreamInv, ChunksAreWritten, Written
    <2> QED
      BY <1>1, <2>1, <2>2, SentRoutes
  <1>8. \/ UNCHANGED relay
        \/ \E pq \in Paths : \/ Receive(pq[1], pq[2]) \/ Dropped(pq[1], pq[2])
                              \/ OnMemberLeft(pq[1], pq[2])
        \/ \E p \in Members : CloseClient(p)
        \/ \E k \in Ends : Close(k) \/ Reset(k)
        \/ \E f \in writing : Send(f)
    BY DEF Next, OpenStream, OnStreamOpen, Write, ReadMessage, ReadEnd, HandOn, SendFails
  <1> QED
    BY <1>2, <1>3, <1>4, <1>5, <1>6, <1>7, <1>8

LEMMA KindsKeepNames ==
  ASSUME StreamInv, TypeOK', StepKind, RoutesKeep
  PROVE  Names'
  <1>1. ends \in Seq(End) /\ ends' \in Seq(End)
    BY DEF StreamInv, TypeOK
  <1>2. CASE Quiet
    BY <1>1, <1>2, QuietReadsNothing, NothingReadKeepsNames DEF Quiet
  <1>3. ASSUME NEW k \in Ends, Draws(k)
        PROVE  Names'
    BY <1>1, <1>3, EndsDrawn, NothingReadKeepsNames DEF Draws
  <1>4. ASSUME NEW k, NEW e, NEW f, Given(k, e, f)
        PROVE  Names'
    BY <1>1, <1>4, GivenKeepsNames
  <1> QED
    BY <1>2, <1>3, <1>4 DEF StepKind

-----------------------------------------------------------------------------
\* The theorems.

LEMMA InitEstablishes == Init => StreamInv
  <1> SUFFICES ASSUME Init
               PROVE  StreamInv
    OBVIOUS
  <1>1. /\ \A S : <<>> \in Seq(S)
        /\ DOMAIN <<>> = {}
    BY EmptySeq
  <1>2. TypeOK
    <2>1. peers \in [Members -> SUBSET Members] /\ closedIds \in [Members -> SUBSET Nat]
      BY DEF Init
    <2>2. nextId \in [Members -> [{0, 1} -> Nat]]
      <3>1. [parity \in {0, 1} |-> parity] \in [{0, 1} -> Nat]
        OBVIOUS
      <3> QED
        BY <3>1 DEF Init
    <2>3. relay \in [Paths -> Seq(Frame)] /\ control \in [Paths -> Seq(Nat)] /\ ends \in Seq(End)
      BY <1>1 DEF Init
    <2> QED
      BY <2>1, <2>2, <2>3 DEF Init, TypeOK
  <1>3. Counters
    <2>1. \A b \in {0, 1} : b % 2 = b
      BY SMT
    <2>2. \A p \in Members, b \in {0, 1} : nextId[p][b] = b
      BY DEF Init
    <2> QED
      BY <2>1, <2>2 DEF Counters
  <1>4. Ends = {} /\ writing = {}
    BY <1>1 DEF Init, Ends
  <1>5. OnRelay = {} /\ RelayOnce
    BY <1>1 DEF Init, OnRelay, FramesOn, RelayOnce
  <1>6. Names
    BY <1>1, <1>4 DEF Init, Names, EndsAreNamed, FramesAreRouted, ChunksOn, FramesOn, ChunksAreAddressed
  <1> QED
    BY <1>2, <1>3, <1>4, <1>5, <1>6
    DEF StreamInv, Gapless, ChunksAreWritten, ChunksAreOnce, TakenInOrder

LEMMA StutterKeeps == StreamInv /\ UNCHANGED vars => StreamInv'
  <1> SUFFICES ASSUME StreamInv, UNCHANGED vars
               PROVE  StreamInv'
    OBVIOUS
  <1>1. /\ UNCHANGED <<left, peers, nextId, ends, closedIds, writing>>
        /\ UNCHANGED <<control, relay, calls, drops, lost, told>>
    BY DEF vars
  <1>2. Quiet
    BY <1>1, QuietTravel, RelayStays DEF Quiet, EndsStay, SameChunks, SameName, Ends
  <1>3. TypeOK' /\ Counters'
    BY <1>1 DEF StreamInv, TypeOK, Counters
  <1>4. Names'
    BY <1>1, <1>2, <1>3, RoutesStay, KindsKeepNames DEF StepKind
  <1> QED
    BY <1>2, <1>3, <1>4, KindsAreSafe DEF StepKind, StreamInv

LEMMA StepKeeps == StreamInv /\ [Next]_vars => StreamInv'
  <1> SUFFICES ASSUME StreamInv, [Next]_vars
               PROVE  StreamInv'
    OBVIOUS
  <1>1. CASE Next
    <2>1. TypeOK' /\ Counters' /\ StepKind
      BY <1>1, NextIsKind
    <2>2. Gapless' /\ ChunksAreWritten' /\ ChunksAreOnce' /\ TakenInOrder'
      BY <2>1, KindsAreSafe
    <2>3. Names'
      BY <1>1, <2>1, NextRoutes, KindsKeepNames
    <2> QED
      BY <2>1, <2>2, <2>3 DEF StreamInv
  <1>2. CASE UNCHANGED vars
    BY <1>2, StutterKeeps
  <1> QED
    BY <1>1, <1>2

LEMMA StreamInvHolds == Spec => []StreamInv
  BY InitEstablishes, StepKeeps, PTL DEF Spec

\* Every variable of the streams keeps its type: the queues hold frames, ids and
\* numbers stay natural, and allocStreamIDLocked always finds an id that is free
\* (loops.go:366-389).
THEOREM StreamsTypeCorrect == Spec => []TypeOK
  <1>1. StreamInv => TypeOK
    BY DEF StreamInv
  <1> QED
    BY <1>1, StreamInvHolds, PTL

\* A reader that misses a chunk before one it gets has an error on its stream,
\* whatever was lost, reordered or pushed out of a full buffer (stream.go:208-256).
THEOREM GapsAreReported == Spec => []GapsReported
  <1>1. StreamInv => GapsReported
    BY DEF StreamInv, Gapless, GapsReported
  <1> QED
    BY <1>1, StreamInvHolds, PTL

\* Between two members what a reader gets was written by its peer for it, and never
\* into a stream the peer had opened itself while this one was opened here: the ids
\* of the two sides differ in parity (loops.go:366-389).  With three members it is
\* false, as a run shows: the table knows no peers.
THEOREM PairsAreUntangled ==
  ASSUME \A p, q, o \in Members : p = q \/ q = o \/ p = o
  PROVE  Spec => []Untangled
  <1>1. ASSUME StreamInv
        PROVE  Untangled
    <2> SUFFICES ASSUME NEW k \in Ends, NEW i \in DOMAIN ends[k].got
                 PROVE  LET e == ends[k]
                            w == ends[e.got[i].of]
                        IN  w.at = e.peer /\ w.peer = e.at /\ ~(w.mine /\ e.mine)
      BY DEF Untangled
    <2>1. PICK f \in TakenBy(k) : f = ends[k].got[i]
      BY DEF TakenBy
    <2> DEFINE e == ends[k]
               w == ends[f.of]
    <2>2. f.of \in Ends /\ f.id = w.id /\ f.id = e.id /\ w.peer = e.at
      BY <1>1 DEF StreamInv, ChunksAreWritten, Written, Names, ChunksAreAddressed, Addressed
    <2>3. Named(e) /\ Named(w)
      BY <1>1, <2>2 DEF StreamInv, Names, EndsAreNamed
    <2>4. e \in End /\ w \in End
      BY <1>1, <2>2, EndsTyped DEF StreamInv, TypeOK
    <2>5. /\ e.at \in Members /\ e.peer \in Members /\ w.at \in Members
          /\ e.at \in Nat /\ e.peer \in Nat
      BY <2>4, EndTyped, StreamConstants
    <2> HIDE DEF e, w
    <2>6. w.at = e.peer
      BY <2>2, <2>3, <2>5 DEF Named
    <2>7. ASSUME w.mine, e.mine
          PROVE  FALSE
      <3>1. Parity(e.at, e.peer) = Parity(e.peer, e.at)
        BY <2>2, <2>3, <2>6, <2>7 DEF Named
      <3> QED
        BY <2>3, <2>5, <3>1 DEF Named, Parity
    <2> QED
      BY <2>1, <2>2, <2>6, <2>7 DEF e, w
  <1> QED
    BY <1>1, StreamInvHolds, PTL

-----------------------------------------------------------------------------
\* The promise of Pipes.

\* The variables of Pipes.
WrittenBar == [k \in Ends |-> ends[k].sent]
TakenBar   == [k \in Ends |->
                [i \in DOMAIN ends[k].got |->
                   [of |-> ends[k].got[i].of, seq |-> ends[k].got[i].seq]]]

\* The steps of Pipes.
LEMMA PipeOpens ==
  ASSUME WrittenBar' = Append(WrittenBar, 0), TakenBar' = Append(TakenBar, <<>>)
  PROVE  Promise!Next
  BY DEF WrittenBar, TakenBar, Promise!Next, Promise!Open

LEMMA PipeIsWritten ==
  ASSUME NEW w \in DOMAIN WrittenBar,
         WrittenBar' = [WrittenBar EXCEPT ![w] = @ + 1], TakenBar' = TakenBar
  PROVE  Promise!Next
  BY DEF WrittenBar, TakenBar, Promise!Next, Promise!Write

NewChunk(c) ==
    /\ c.of \in DOMAIN WrittenBar
    /\ c.seq < WrittenBar[c.of]
    /\ \A r \in DOMAIN TakenBar : \A i \in DOMAIN TakenBar[r] : TakenBar[r][i] # c

LEMMA ChunkIsAvailable ==
  ASSUME NEW r, NEW c, NewChunk(c), TakenBar'[r][Len(TakenBar'[r])] = c
  PROVE  Promise!Available(TakenBar'[r][Len(TakenBar'[r])])
  BY DEF NewChunk, WrittenBar, TakenBar, Promise!Available

LEMMA PipeIsRead ==
  ASSUME NEW r, r \in DOMAIN TakenBar, r \in DOMAIN TakenBar', NEW c, NewChunk(c),
         TakenBar[r] # <<>> => c.seq > TakenBar[r][Len(TakenBar[r])].seq,
         TakenBar' = [TakenBar EXCEPT ![r] = Append(@, c)], WrittenBar' = WrittenBar,
         TakenBar' # TakenBar, TakenBar'[r] # <<>>, TakenBar'[r][Len(TakenBar'[r])] = c
  PROVE  Promise!Next
  <1> DEFINE last == TakenBar'[r][Len(TakenBar'[r])]
  <1>1. Promise!Take(r, last)
    <2>1. Promise!Available(last)
      BY ChunkIsAvailable
    <2>2. TakenBar[r] # <<>> => last.seq > TakenBar[r][Len(TakenBar[r])].seq
      OBVIOUS
    <2>3. TakenBar' = [TakenBar EXCEPT ![r] = Append(@, last)]
      OBVIOUS
    <2> HIDE DEF last
    <2> QED
      BY <2>1, <2>2, <2>3 DEF WrittenBar, TakenBar, Promise!Take, Promise!Last
  <1> QED
    BY <1>1 DEF TakenBar, Promise!Next, Promise!Last

LEMMA PipeIsMadeAndRead ==
  ASSUME NEW r, r \notin DOMAIN TakenBar, r \in DOMAIN TakenBar', NEW c, NewChunk(c),
         TakenBar' = Append(TakenBar, <<c>>), WrittenBar' = Append(WrittenBar, 0),
         TakenBar' # TakenBar, TakenBar'[r] # <<>>, TakenBar'[r][Len(TakenBar'[r])] = c
  PROVE  Promise!Next
  <1> DEFINE last == TakenBar'[r][Len(TakenBar'[r])]
  <1>1. Promise!OpenAndTake(last)
    BY ChunkIsAvailable DEF WrittenBar, TakenBar, Promise!OpenAndTake
  <1> QED
    BY <1>1 DEF TakenBar, Promise!Next, Promise!Last

-----------------------------------------------------------------------------
\* What the steps of Streams are to Pipes.

Chunks == [of : Nat, seq : Nat]
ChunkOf(f) == [of |-> f.of, seq |-> f.seq]
Heard(s) == [i \in DOMAIN s |-> ChunkOf(s[i])]
Sents(es) == [k \in DOMAIN es |-> es[k].sent]
Gots(es)  == [k \in DOMAIN es |-> Heard(es[k].got)]

LEMMA BarsAre == WrittenBar = Sents(ends) /\ TakenBar = Gots(ends)
  BY DEF WrittenBar, TakenBar, Sents, Gots, Heard, ChunkOf, Ends

LEMMA HeardTyped ==
  ASSUME NEW s \in Seq(Data)
  PROVE  /\ Heard(s) \in Seq(Chunks) /\ Len(Heard(s)) = Len(s) /\ DOMAIN Heard(s) = DOMAIN s
         /\ \A i \in DOMAIN s : s[i] \in Data /\ Heard(s)[i] = ChunkOf(s[i])
         /\ Len(s) \in Nat /\ DOMAIN s = 1..Len(s)
  <1>1. Len(s) \in Nat /\ DOMAIN s = 1..Len(s)
    BY LenProperties
  <1>2. \A i \in DOMAIN s : s[i] \in Data
    BY <1>1, ElementOfSeq
  <1>3. \A f \in Data : ChunkOf(f) \in Chunks
    BY DEF Data, Chunks, ChunkOf
  <1>4. Heard(s) \in [1..Len(s) -> Chunks]
    BY <1>1, <1>2, <1>3 DEF Heard
  <1>5. Heard(s) \in Seq(Chunks)
    BY <1>1, <1>4, PlacesMakeSeq
  <1>6. Len(Heard(s)) = Len(s)
    BY <1>1, <1>4, <1>5, LenProperties
  <1> QED
    BY <1>1, <1>2, <1>4, <1>5, <1>6 DEF Heard

LEMMA HeardMore ==
  ASSUME NEW s \in Seq(Data), NEW f \in Data
  PROVE  Heard(Append(s, f)) = Append(Heard(s), ChunkOf(f))
  <1> DEFINE t == Append(s, f)
             c == ChunkOf(f)
             u == Append(Heard(s), c)
  <1>1. /\ t \in Seq(Data) /\ Len(t) = Len(s) + 1
        /\ \A i \in 1..Len(s) : t[i] = s[i]
        /\ t[Len(s) + 1] = f
    BY AppendProperties
  <1>2. c \in Chunks
    BY DEF Data, Chunks, ChunkOf
  <1>3. /\ Heard(s) \in Seq(Chunks) /\ Len(Heard(s)) = Len(s)
        /\ \A i \in 1..Len(s) : Heard(s)[i] = ChunkOf(s[i])
        /\ Len(s) \in Nat
    BY HeardTyped
  <1>4. /\ u \in Seq(Chunks) /\ Len(u) = Len(s) + 1
        /\ \A i \in 1..Len(s) : u[i] = Heard(s)[i]
        /\ u[Len(s) + 1] = c
    BY <1>2, <1>3, AppendProperties
  <1>5. /\ Heard(t) \in Seq(Chunks) /\ Len(Heard(t)) = Len(s) + 1
        /\ \A i \in 1..(Len(s) + 1) : Heard(t)[i] = ChunkOf(t[i])
    BY <1>1, HeardTyped
  <1> HIDE DEF t, u
  <1>6. ASSUME NEW i \in 1..(Len(s) + 1)
        PROVE  Heard(t)[i] = u[i]
    <2>1. i \in 1..Len(s) \/ i = Len(s) + 1
      BY <1>3
    <2> QED
      BY <1>1, <1>3, <1>4, <1>5, <2>1
  <1>7. Heard(t) = u
    BY <1>4, <1>5, <1>6, SeqEqual
  <1> QED
    BY <1>7 DEF t, u

LEMMA BarsTyped ==
  ASSUME NEW es \in Seq(End)
  PROVE  /\ Len(es) \in Nat /\ DOMAIN es = 1..Len(es)
         /\ Sents(es) \in Seq(Nat) /\ DOMAIN Sents(es) = DOMAIN es /\ Len(Sents(es)) = Len(es)
         /\ Gots(es) \in Seq(Seq(Chunks)) /\ DOMAIN Gots(es) = DOMAIN es /\ Len(Gots(es)) = Len(es)
         /\ \A k \in DOMAIN es : /\ es[k] \in End /\ Sents(es)[k] = es[k].sent
                                 /\ Gots(es)[k] = Heard(es[k].got)
  <1>1. Len(es) \in Nat /\ DOMAIN es = 1..Len(es)
    BY LenProperties
  <1>2. \A k \in DOMAIN es : es[k] \in End /\ es[k].sent \in Nat /\ es[k].got \in Seq(Data)
    BY <1>1, ElementOfSeq, EndTyped
  <1>3. Sents(es) \in [1..Len(es) -> Nat] /\ Gots(es) \in [1..Len(es) -> Seq(Chunks)]
    BY <1>1, <1>2, HeardTyped DEF Sents, Gots
  <1>4. Sents(es) \in Seq(Nat) /\ Gots(es) \in Seq(Seq(Chunks))
    BY <1>1, <1>3, PlacesMakeSeq
  <1>5. Len(Sents(es)) = Len(es) /\ Len(Gots(es)) = Len(es)
    BY <1>1, <1>3, <1>4, LenProperties
  <1> QED
    BY <1>1, <1>2, <1>3, <1>4, <1>5 DEF Sents, Gots

\* Ends as before, as far as Pipes sees.
LEMMA BarsSame ==
  ASSUME ends \in Seq(End), ends' \in Seq(End), DOMAIN ends' = Ends,
         \A k \in Ends : ends'[k].got = ends[k].got
  PROVE  /\ TakenBar' = TakenBar
         /\ (\A k \in Ends : ends'[k].sent = ends[k].sent) => WrittenBar' = WrittenBar
  BY DEF TakenBar, WrittenBar, Ends

\* One more end.
LEMMA BarsMore ==
  ASSUME ends \in Seq(End), ends' \in Seq(End), NEW n, n = Len(ends) + 1, DOMAIN ends' = 1..n,
         \A k \in Ends : ends'[k].got = ends[k].got /\ ends'[k].sent = ends[k].sent,
         ends'[n].sent = 0
  PROVE  /\ WrittenBar' = Append(WrittenBar, 0)
         /\ TakenBar' = Append(TakenBar, Heard(ends'[n].got))
  <1> DEFINE h == Heard(ends'[n].got)
  <1>1. /\ Len(ends) \in Nat /\ Ends = 1..Len(ends)
        /\ Sents(ends) \in Seq(Nat) /\ Len(Sents(ends)) = Len(ends)
        /\ Gots(ends) \in Seq(Seq(Chunks)) /\ Len(Gots(ends)) = Len(ends)
        /\ \A k \in Ends : Sents(ends)[k] = ends[k].sent /\ Gots(ends)[k] = Heard(ends[k].got)
    BY BarsTyped DEF Ends
  <1>2. /\ Len(ends') = n /\ n \in 1..n
        /\ Sents(ends') \in Seq(Nat) /\ Len(Sents(ends')) = n
        /\ Gots(ends') \in Seq(Seq(Chunks)) /\ Len(Gots(ends')) = n
        /\ \A k \in 1..n : Sents(ends')[k] = ends'[k].sent /\ Gots(ends')[k] = Heard(ends'[k].got)
        /\ ends'[n] \in End
    BY <1>1, BarsTyped, LenProperties
  <1>3. h \in Seq(Chunks)
    BY <1>2, EndTyped, HeardTyped
  <1> HIDE DEF h
  <1>4. /\ Append(Sents(ends), 0) \in Seq(Nat) /\ Len(Append(Sents(ends), 0)) = n
        /\ \A k \in Ends : Append(Sents(ends), 0)[k] = Sents(ends)[k]
        /\ Append(Sents(ends), 0)[n] = 0
    BY <1>1, AppendProperties
  <1>5. /\ Append(Gots(ends), h) \in Seq(Seq(Chunks)) /\ Len(Append(Gots(ends), h)) = n
        /\ \A k \in Ends : Append(Gots(ends), h)[k] = Gots(ends)[k]
        /\ Append(Gots(ends), h)[n] = h
    BY <1>1, <1>3, AppendProperties
  <1>6. \A k \in 1..n : k \in Ends \/ k = n
    BY <1>1
  <1>7. \A k \in 1..n : Sents(ends')[k] = Append(Sents(ends), 0)[k]
    BY <1>1, <1>2, <1>4, <1>6
  <1>8. \A k \in 1..n : Gots(ends')[k] = Append(Gots(ends), h)[k]
    BY <1>1, <1>2, <1>5, <1>6 DEF h
  <1>9. Sents(ends') = Append(Sents(ends), 0) /\ Gots(ends') = Append(Gots(ends), h)
    BY <1>2, <1>4, <1>5, <1>7, <1>8, SeqEqual
  <1>10. WrittenBar' = Sents(ends') /\ TakenBar' = Gots(ends')
    BY DEF WrittenBar, TakenBar, Sents, Gots, Heard, ChunkOf, Ends
  <1> QED
    BY <1>9, <1>10, BarsAre DEF h

LEMMA NothingHeard ==
  ASSUME NEW f \in Data
  PROVE  Heard(<<>>) = <<>> /\ Heard(Append(<<>>, f)) = <<ChunkOf(f)>>
  <1>1. <<>> \in Seq(Data) /\ Len(<<>>) = 0
    BY EmptySeq
  <1>2. Heard(<<>>) \in Seq(Chunks) /\ Len(Heard(<<>>)) = 0
    BY <1>1, HeardTyped
  <1>3. Heard(<<>>) = <<>>
    BY <1>2, EmptySeq
  <1>4. Heard(Append(<<>>, f)) = Append(Heard(<<>>), ChunkOf(f))
    BY <1>1, HeardMore
  <1>5. Append(<<>>, ChunkOf(f)) = <<ChunkOf(f)>>
    OBVIOUS
  <1> QED
    BY <1>3, <1>4, <1>5

LEMMA QuietIsPromised ==
  ASSUME ends \in Seq(End), ends' \in Seq(End), EndsStay
  PROVE  Promise!Next \/ (WrittenBar' = WrittenBar /\ TakenBar' = TakenBar)
  <1>1. \A k \in Ends : ends'[k].got = ends[k].got /\ ends'[k].sent = ends[k].sent
    BY DEF EndsStay, SameChunks, SameName
  <1>2. CASE DOMAIN ends' = Ends
    BY <1>1, <1>2, BarsSame
  <1>3. CASE DOMAIN ends' = 1..(Len(ends) + 1)
    <2> DEFINE n == Len(ends) + 1
    <2>1. n \in DOMAIN ends' \ Ends
      BY <1>3, EndsTyped
    <2>2. ends'[n].sent = 0 /\ ends'[n].got = <<>>
      BY <2>1 DEF EndsStay, Fresh
    <2>3. Heard(<<>>) = <<>>
      BY EmptySeq DEF Heard
    <2>4. WrittenBar' = Append(WrittenBar, 0) /\ TakenBar' = Append(TakenBar, Heard(ends'[n].got))
      BY <1>1, <1>3, <2>2, BarsMore
    <2> QED
      BY <2>2, <2>3, <2>4, PipeOpens
  <1> QED
    BY <1>2, <1>3 DEF EndsStay

LEMMA DrawIsPromised ==
  ASSUME ends \in Seq(End), ends' \in Seq(End), NEW k \in Ends,
         ends' = [ends EXCEPT ![k].sent = @ + 1]
  PROVE  Promise!Next
  <1>1. DOMAIN ends' = Ends /\ \A j \in Ends : ends'[j].got = ends[j].got
    BY EndsDrawn DEF NothingRead
  <1>2. TakenBar' = TakenBar
    BY <1>1, BarsSame
  <1>3. WrittenBar' = [WrittenBar EXCEPT ![k] = @ + 1] /\ k \in DOMAIN WrittenBar
    <2>1. \A j \in Ends : ends[j] \in End
      BY EndsTyped
    <2>2. ends'[k].sent = ends[k].sent + 1 /\ \A j \in Ends \ {k} : ends'[j].sent = ends[j].sent
      BY <2>1 DEF Ends, End
    <2>3. WrittenBar' = [j \in Ends |-> ends'[j].sent]
      BY <1>1 DEF WrittenBar, Ends
    <2>4. [j \in Ends |-> ends'[j].sent] = [WrittenBar EXCEPT ![k] = @ + 1]
      BY <2>2 DEF WrittenBar
    <2> QED
      BY <2>3, <2>4 DEF WrittenBar
  <1> QED
    BY <1>2, <1>3, PipeIsWritten

\* A chunk that was nowhere but here and on its way is new to all readers.
LEMMA ArrivalIsNew ==
  ASSUME StreamInv, NEW k, NEW f \in Data, ComesFrom(k, f)
  PROVE  NewChunk(ChunkOf(f))
  <1> DEFINE c == ChunkOf(f)
  <1>1. ends \in Seq(End)
    BY DEF StreamInv, TypeOK
  <1>2. /\ DOMAIN WrittenBar = Ends /\ DOMAIN TakenBar = Ends
        /\ \A l \in Ends : /\ WrittenBar[l] = ends[l].sent /\ ends[l] \in End
                           /\ TakenBar[l] = Heard(ends[l].got)
    BY <1>1, BarsTyped, BarsAre DEF Ends
  <1>3. c.of = f.of /\ c.seq = f.seq
    BY DEF ChunkOf
  <1>4. c.of \in DOMAIN WrittenBar /\ c.seq < WrittenBar[c.of]
    BY <1>2, <1>3 DEF ComesFrom, Written
  <1>5. ASSUME NEW l \in Ends, NEW i \in DOMAIN TakenBar[l], TakenBar[l][i] = c
        PROVE  FALSE
    <2> DEFINE g == ends[l].got[i]
    <2>1. i \in DOMAIN ends[l].got /\ g \in Data /\ ChunkOf(g) = ChunkOf(f)
      BY <1>2, <1>5, EndTyped, HeardTyped
    <2>2. g \in TakenBy(l) /\ Written(g)
      BY <2>1 DEF TakenBy, StreamInv, ChunksAreWritten
    <2>3. g.of = f.of /\ g.seq = f.seq /\ g.id = f.id
      <3>1. g.of = f.of /\ g.seq = f.seq
        BY <2>1 DEF ChunkOf
      <3> QED
        BY <2>2, <3>1 DEF Written, ComesFrom
    <2>4. g = f
      <3> HIDE DEF g
      <3> QED
        BY <2>1, <2>3 DEF Data
    <2> QED
      BY <2>2, <2>4 DEF ComesFrom
  <1> QED
    BY <1>2, <1>4, <1>5 DEF NewChunk

LEMMA GivenIsPromised ==
  ASSUME StreamInv, TypeOK', NEW k, NEW e, NEW f, Given(k, e, f)
  PROVE  Promise!Next \/ (WrittenBar' = WrittenBar /\ TakenBar' = TakenBar)
  <1> DEFINE x == ends'[k]
             c == ChunkOf(f)
  <1>1. ends \in Seq(End) /\ ends' \in Seq(End)
    BY DEF StreamInv, TypeOK
  <1>2. Reads(k, e, f) /\ ComesFrom(k, f) /\ f \in Data
    BY DEF Given, Reads
  <1>3. /\ x.sent = e.sent /\ e.got \in Seq(Data)
        /\ x.got = e.got \/ (x.got = Append(e.got, f) /\ f.seq = e.next)
        /\ \A i \in DOMAIN e.got : e.got[i].seq < e.next
    BY <1>1, <1>2, ReadEffect
  <1>4. /\ k \in DOMAIN ends' /\ Ends \subseteq DOMAIN ends' /\ DOMAIN ends' \subseteq Ends \cup {k}
        /\ \A j \in Ends \ {k} : ends'[j] = ends[j]
        /\ IF k \in Ends THEN e = ends[k] ELSE Fresh(e)
    BY <1>2 DEF Reads
  <1>5. NewChunk(c) /\ c.seq = f.seq
    BY <1>2, ArrivalIsNew DEF ChunkOf
  <1>6. CASE k \in Ends
    <2>1. DOMAIN ends' = Ends /\ e = ends[k]
      BY <1>4, <1>6
    <2>2. \A j \in Ends : ends'[j].sent = ends[j].sent
      BY <1>3, <1>4, <2>1
    <2>3. CASE x.got = e.got
      BY <1>1, <1>4, <2>1, <2>2, <2>3, BarsSame
    <2>4. CASE x.got = Append(e.got, f) /\ f.seq = e.next
      <3> DEFINE h == Heard(e.got)
      <3>1. WrittenBar' = WrittenBar
        BY <2>1, <2>2 DEF WrittenBar, Ends
      <3>2. Heard(x.got) = Append(h, c)
        BY <1>2, <1>3, <2>4, HeardMore
      <3>3. /\ h \in Seq(Chunks) /\ Len(h) = Len(e.got) /\ DOMAIN h = 1..Len(e.got)
            /\ \A i \in DOMAIN h : h[i].seq < e.next
            /\ c \in Chunks /\ Len(h) \in Nat
        <4>1. c \in Chunks
          BY <1>2 DEF Data, Chunks, ChunkOf
        <4>2. \A g : ChunkOf(g).seq = g.seq
          BY DEF ChunkOf
        <4> QED
          BY <1>3, <4>1, <4>2, HeardTyped
      <3>4. /\ DOMAIN TakenBar = Ends /\ DOMAIN TakenBar' = Ends
            /\ TakenBar[k] = h /\ TakenBar'[k] = Append(h, c)
            /\ TakenBar = [j \in Ends |-> TakenBar[j]]
            /\ TakenBar' = [j \in Ends |-> TakenBar'[j]]
            /\ \A j \in Ends \ {k} : TakenBar'[j] = TakenBar[j]
        <4>1. TakenBar = Gots(ends) /\ TakenBar' = Gots(ends')
          BY DEF TakenBar, Gots, Heard, ChunkOf, Ends
        <4>2. DOMAIN Gots(ends) = Ends /\ DOMAIN Gots(ends') = Ends
          BY <2>1 DEF Gots, Ends
        <4>3. \A j \in Ends : Gots(ends)[j] = Heard(ends[j].got) /\ Gots(ends')[j] = Heard(ends'[j].got)
          BY <2>1 DEF Gots, Ends
        <4>4. Gots(ends) = [j \in Ends |-> Gots(ends)[j]] /\ Gots(ends') = [j \in Ends |-> Gots(ends')[j]]
          BY <2>1 DEF Gots, Ends
        <4> QED
          BY <1>4, <1>6, <2>1, <3>2, <4>1, <4>2, <4>3, <4>4
      <3> HIDE DEF h, c, x
      <3>5. TakenBar' = [TakenBar EXCEPT ![k] = Append(@, c)]
        BY <3>4
      <3>6. /\ Append(h, c) # <<>> /\ Append(h, c) # h /\ Append(h, c)[Len(Append(h, c))] = c
        BY <3>3, AppendProperties
      <3>7. h # <<>> => c.seq > h[Len(h)].seq
        <4> SUFFICES ASSUME h # <<>>
                     PROVE  c.seq > h[Len(h)].seq
          OBVIOUS
        <4>1. Len(h) \in DOMAIN h /\ h[Len(h)] \in Chunks
          BY <3>3, EmptySeq, ElementOfSeq
        <4>2. h[Len(h)].seq < e.next /\ h[Len(h)].seq \in Nat
          BY <3>3, <4>1 DEF Chunks
        <4>3. c.seq = e.next /\ c.seq \in Nat
          BY <1>5, <2>4, <3>3 DEF Chunks
        <4> QED
          BY <4>2, <4>3
      <3>8. TakenBar' # TakenBar /\ TakenBar'[k] # <<>> /\ TakenBar'[k][Len(TakenBar'[k])] = c
        BY <3>4, <3>6
      <3>9. TakenBar[k] # <<>> => c.seq > TakenBar[k][Len(TakenBar[k])].seq
        BY <3>4, <3>7
      <3> QED
        BY <1>5, <1>6, <3>1, <3>4, <3>5, <3>8, <3>9, PipeIsRead
    <2> QED
      BY <1>3, <2>3, <2>4
  <1>7. CASE k \notin Ends
    <2>1. k = Len(ends) + 1 /\ DOMAIN ends' = 1..k
      <3>1. Len(ends) \in Nat /\ Ends = 1..Len(ends) /\ Len(ends') \in Nat /\ DOMAIN ends' = 1..Len(ends')
        BY <1>1, EndsTyped, LenProperties
      <3>2. 1..Len(ends') = 1..Len(ends) \cup {k} /\ k \notin 1..Len(ends)
        BY <1>4, <1>7, <3>1
      <3>3. Len(ends') > Len(ends)
        BY <3>1, <3>2
      <3>4. Len(ends) + 1 \in 1..Len(ends') /\ Len(ends') \in 1..Len(ends')
        BY <3>1, <3>3
      <3>5. Len(ends) + 1 = k /\ Len(ends') = k
        BY <3>1, <3>2, <3>3, <3>4
      <3> QED
        BY <3>1, <3>5
    <2>2. e.sent = 0 /\ e.got = <<>>
      BY <1>4, <1>7 DEF Fresh
    <2>3. /\ WrittenBar' = Append(WrittenBar, 0)
          /\ TakenBar' = Append(TakenBar, Heard(x.got))
      BY <1>1, <1>3, <1>4, <1>7, <2>1, <2>2, BarsMore
    <2>4. CASE x.got = e.got
      <3>1. Heard(x.got) = <<>>
        BY <1>2, <2>2, <2>4, NothingHeard
      <3> QED
        BY <2>3, <3>1, PipeOpens
    <2>5. CASE x.got = Append(e.got, f)
      <3>1. Heard(x.got) = <<c>>
        BY <1>2, <2>2, <2>5, NothingHeard
      <3>2. /\ DOMAIN TakenBar = Ends /\ DOMAIN TakenBar' = DOMAIN ends'
            /\ TakenBar'[k] = <<c>>
        <4>1. TakenBar = Gots(ends) /\ TakenBar' = Gots(ends')
          BY DEF TakenBar, Gots, Heard, ChunkOf, Ends
        <4>2. DOMAIN Gots(ends) = Ends /\ DOMAIN Gots(ends') = DOMAIN ends'
          BY DEF Gots, Ends
        <4>3. Gots(ends')[k] = Heard(ends'[k].got)
          BY <1>4 DEF Gots
        <4> QED
          BY <3>1, <4>1, <4>2, <4>3
      <3> HIDE DEF c, x
      <3>3. k \notin DOMAIN TakenBar /\ k \in DOMAIN TakenBar' /\ TakenBar' # TakenBar
        BY <1>4, <1>7, <3>2
      <3>4. TakenBar'[k] # <<>> /\ TakenBar'[k][Len(TakenBar'[k])] = c
        BY <3>2
      <3> QED
        BY <1>5, <2>3, <3>1, <3>3, <3>4, PipeIsMadeAndRead
    <2> QED
      BY <1>3, <2>4, <2>5
  <1> QED
    BY <1>6, <1>7

LEMMA InitIsPromised == Init => Promise!Init
  <1>1. DOMAIN <<>> = {}
    BY EmptySeq
  <1> QED
    BY <1>1 DEF Init, Promise!Init, Ends

LEMMA StepIsPromised ==
  ASSUME StreamInv, TypeOK', [Next]_vars
  PROVE  Promise!Next \/ (WrittenBar' = WrittenBar /\ TakenBar' = TakenBar)
  <1>1. ends \in Seq(End) /\ ends' \in Seq(End)
    BY DEF StreamInv, TypeOK
  <1>2. CASE Next
    <2>1. StepKind
      BY <1>2, NextIsKind
    <2>2. CASE Quiet
      BY <1>1, <2>2, QuietIsPromised DEF Quiet
    <2>3. ASSUME NEW k \in Ends, Draws(k)
          PROVE  Promise!Next
      BY <1>1, <2>3, DrawIsPromised DEF Draws
    <2>4. ASSUME NEW k, NEW e, NEW f, Given(k, e, f)
          PROVE  Promise!Next \/ (WrittenBar' = WrittenBar /\ TakenBar' = TakenBar)
      BY <2>4, GivenIsPromised
    <2> QED
      BY <2>1, <2>2, <2>3, <2>4 DEF StepKind
  <1>3. CASE UNCHANGED vars
    <2>1. ends' = ends
      BY <1>3 DEF vars
    <2> QED
      BY <2>1 DEF WrittenBar, TakenBar, Ends
  <1> QED
    BY <1>2, <1>3

\* The streams keep the promise of Pipes: whoever reads gets chunks that were
\* written, one after the other in the order of their numbers, none twice and none
\* that another reader got, whatever overtakes what (stream.go:15, 208-244).
THEOREM StreamsKeepPromise == Spec => KeepsPromise
  <1>1. StreamInv /\ TypeOK' /\ [Next]_vars =>
          [Promise!Next]_<<[k \in Ends |-> ends[k].sent],
                           [k \in Ends |-> [i \in DOMAIN ends[k].got |->
                              [of |-> ends[k].got[i].of, seq |-> ends[k].got[i].seq]]]>>
    BY StepIsPromised DEF WrittenBar, TakenBar
  <1>2. StreamInv => TypeOK
    BY DEF StreamInv
  <1> QED
    BY <1>1, <1>2, InitIsPromised, StreamInvHolds, PTL
    DEF Spec, KeepsPromise, Promise!Spec

-----------------------------------------------------------------------------
\* How streams end: the invariant.  A close frame travels behind the chunks of its
\* stream and nothing of that stream behind it, so who has heard it has everything
\* that was not lost.

Carried(pq) == {relay[pq][i] : i \in DOMAIN relay[pq]}
Opened(pq) == {control[pq][i] : i \in DOMAIN control[pq]}
Way(k) == <<ends[k].at, ends[k].peer>>

\* Nothing reaches who has left, and nothing is open there; who was removed has
\* left, and nothing of its frames is on the way any more.
WhoLeftIsDeaf ==
    \A p \in left :
        /\ \A pq \in Paths : pq[2] = p => relay[pq] = <<>> /\ control[pq] = <<>>
        /\ \A k \in Ends : ends[k].at = p => ends[k].state # "open"
WhoIsRemovedIsSilent ==
    \A pq \in Paths : pq[1] \notin peers[pq[2]] => pq[1] \in left /\ relay[pq] = <<>>

\* Why a stream is not open any more.
Departed(e) == e.at \in left \/ e.peer \notin peers[e.at]
AbandonedByDeparture == \A k \in Ends : ends[k].state = "left" => Departed(ends[k])
OverIsRemembered ==
    \A k \in Ends : ends[k].state \in {"closed", "cut", "ended"} =>
        ends[k].id \in closedIds[ends[k].at]
ClosedAt(p, q, id) ==
    \E y \in Ends : /\ ends[y].at = p /\ ends[y].peer = q /\ ends[y].id = id
                    /\ ends[y].state \in {"closed", "cut"}
ClosesAreMade ==
    \A pq \in Paths : \A f \in Carried(pq) : f.kind # "data" => ClosedAt(pq[1], pq[2], f.id)
EndedWasClosed ==
    \A x \in Ends : ends[x].state = "ended" =>
        \E p \in Members : ClosedAt(p, ends[x].at, ends[x].id)

\* What a stream closed in order had to write is sent; what has ended is handed on,
\* and read by whoever was told so.
ClosedIsWritten == \A k \in Ends : ends[k].state = "closed" => \A f \in writing : f.of # k
EndedIsRead == \A x \in Ends : ends[x].state = "ended" => Ready(x) = {}
ToldHasRead ==
    \A k \in told : /\ k \in Ends /\ ends[k].state # "open"
                    /\ ends[k].state = "ended" => ends[k].unread = 0

\* Where the ids come from.
OpensAreMine ==
    \A pq \in Paths : \A id \in Opened(pq) :
        \E y \in Ends : /\ ends[y].at = pq[1] /\ ends[y].peer = pq[2]
                        /\ ends[y].id = id /\ ends[y].mine
Drawn(p, q, id) == id % 2 = Parity(p, q) => id < nextId[p][Parity(p, q)]
IdsAreDrawn ==
    \A k \in Ends : /\ Drawn(ends[k].at, ends[k].peer, ends[k].id)
                    /\ Drawn(ends[k].peer, ends[k].at, ends[k].id)

\* Every chunk is somewhere, and what was handed on was taken or lost.
Everywhere == writing \cup OnRelay \cup lost \cup UNION {ends[l].buf \cup TakenBy(l) : l \in Ends}
NothingVanishes == \A k \in Ends : \A f \in ChunksOf(k) : f \in Everywhere
HandedFor(x, n) ==
    \E f \in Data : /\ f \in TakenBy(x) \cup lost /\ f.seq = n
                    /\ Written(f) /\ Addressed(ends[x], f)
HandedOn == \A x \in Ends : \A n \in Nat : n < ends[x].next => HandedFor(x, n)

\* Nothing of a stream is behind its close frame, or on the way after it.
IsEnd(f, k) == f.kind # "data" /\ f.id = ends[k].id
IsChunk(f, k) == f.kind = "data" /\ f.of = k
CloseIsLast ==
    \A k \in Ends : ends[k].state = "closed" /\ Only(k) =>
        \A i, j \in DOMAIN relay[Way(k)] :
            i < j /\ IsEnd(relay[Way(k)][i], k) => ~IsChunk(relay[Way(k)][j], k)

\* Nobody else has a stream of that id with the peer: with two members always so.
Private(k) ==
    \A y \in Ends :
        ends[y].id = ends[k].id /\ ends[k].peer \in {ends[y].at, ends[y].peer} =>
            ends[k].at \in {ends[y].at, ends[y].peer}

Closed(k) == ends[k].state = "closed" /\ Only(k) /\ Private(k)
EndedHasAll ==
    \A k \in Ends : Closed(k) /\ (\E x \in Other(k) : ends[x].state = "ended") =>
        \A f \in Carried(Way(k)) : ~IsChunk(f, k)

Arrived(k) ==
    /\ Closed(k)
    /\ \A f \in lost : f.id # ends[k].id
    /\ ~ends[k].mine \/ ends[k].sent > 0
    /\ ends[k].peer \notin left
    /\ \A f \in Carried(Way(k)) : ~IsEnd(f, k)
ArrivedIsOver ==
    \A k \in Ends : Arrived(k) =>
        /\ \A f \in Carried(Way(k)) : ~IsChunk(f, k)
        /\ \A x \in Other(k) : ends[x].state # "open"
        /\ ends[k].mine => ends[k].id \in closedIds[ends[k].peer]

EndInv ==
    /\ StreamInv
    /\ WhoLeftIsDeaf /\ WhoIsRemovedIsSilent
    /\ AbandonedByDeparture /\ OverIsRemembered /\ ClosesAreMade /\ EndedWasClosed
    /\ ClosedIsWritten /\ EndedIsRead /\ ToldHasRead
    /\ OpensAreMine /\ IdsAreDrawn
    /\ NothingVanishes /\ HandedOn
    /\ CloseIsLast /\ EndedHasAll /\ ArrivedIsOver

-----------------------------------------------------------------------------
\* What a step does to the members.

Grows ==
    /\ left \subseteq left' /\ lost \subseteq lost'
    /\ \A p \in Members : closedIds[p] \subseteq closedIds'[p] /\ peers'[p] \subseteq peers[p]
    /\ \A p \in Members, b \in {0, 1} : nextId[p][b] <= nextId'[p][b]

\* The id OpenStream takes.
LEMMA IdIsDrawn ==
  ASSUME StreamInv, NEW p \in Members, NEW q \in Members, OpenStream(p, q)
  PROVE  \E id \in Nat :
           /\ nextId[p][Parity(p, q)] <= id /\ id % 2 = Parity(p, q)
           /\ nextId' = [nextId EXCEPT ![p][Parity(p, q)] = id + 2]
           /\ ends' = Append(ends, NewEnd(p, q, id, TRUE))
           /\ control' = control \/ control' = [control EXCEPT ![<<p, q>>] = Append(@, id)]
           /\ q \in left => control' = control
  <1> DEFINE b == Parity(p, q)
             id == CHOOSE i \in FreeIds(p, q) : \A j \in FreeIds(p, q) : i <= j
  <1>1. TypeOK /\ Counters
    BY DEF StreamInv
  <1>2. b \in {0, 1} /\ nextId[p][b] \in Nat /\ nextId[p][b] % 2 = b
    BY <1>1 DEF TypeOK, Counters, Parity
  <1>3. id \in FreeIds(p, q) /\ id \in Nat
    <2>1. FreeIds(p, q) # {} /\ FreeIds(p, q) \subseteq Nat
      BY <1>1, <1>2, SomeIdIsFree DEF TypeOK
    <2>2. \E i \in FreeIds(p, q) : \A j \in FreeIds(p, q) : i <= j
      BY <2>1, LeastNumber
    <2> QED
      BY <2>1, <2>2
  <1>4. id % 2 = b /\ nextId[p][b] <= id
    <2> HIDE DEF id
    <2>1. Len(ends) \in Nat
      BY <1>1, EndsTyped DEF TypeOK
    <2>2. id % 2 = b /\ id \in nextId[p][b] .. nextId[p][b] + 2 * Len(ends)
      BY <1>3 DEF FreeIds
    <2> QED
      BY <1>2, <1>3, <2>1, <2>2
  <1>5. /\ nextId' = [nextId EXCEPT ![p][b] = id + 2]
        /\ ends' = Append(ends, NewEnd(p, q, id, TRUE))
        /\ control' = control \/ control' = [control EXCEPT ![<<p, q>>] = Append(@, id)]
        /\ q \in left => control' = control
    BY DEF OpenStream
  <1> HIDE DEF id
  <1> QED
    BY <1>3, <1>4, <1>5

LEMMA NextGrows ==
  ASSUME StreamInv, Next
  PROVE  Grows
  <1>1. TypeOK /\ Counters /\ \A p \in Members, b \in {0, 1} : nextId[p][b] \in Nat
    BY DEF StreamInv, TypeOK
  <1>2. left \subseteq left' /\ lost \subseteq lost'
    BY DEF Next, OpenStream, Receive, OnData, OnClose, OnStreamOpen, OnMemberLeft, Dropped,
           CloseClient, Write, Draw, ReadMessage, ReadEnd, Close, Reset, Shut, HandOn,
           Send, SendFails
  <1>3. ASSUME NEW p \in Members
        PROVE  closedIds[p] \subseteq closedIds'[p]
    <2>1. \/ closedIds' = closedIds
          \/ \E q, id : closedIds' = [closedIds EXCEPT ![q] = @ \cup {id}]
      BY DEF Next, OpenStream, Receive, OnData, OnClose, OnStreamOpen, OnMemberLeft, Dropped,
             CloseClient, Write, Draw, ReadMessage, ReadEnd, Close, Reset, Shut, HandOn,
             Send, SendFails,
             DropStream
    <2> QED
      BY <1>1, <2>1 DEF TypeOK
  <1>4. ASSUME NEW p \in Members
        PROVE  peers'[p] \subseteq peers[p]
    <2>1. \/ peers' = peers
          \/ \E q, o : peers' = [peers EXCEPT ![q] = @ \ {o}]
      BY DEF Next, OpenStream, Receive, OnData, OnClose, OnStreamOpen, OnMemberLeft, Dropped,
             CloseClient, Write, Draw, ReadMessage, ReadEnd, Close, Reset, Shut, HandOn,
             Send, SendFails
    <2> QED
      BY <1>1, <2>1 DEF TypeOK
  <1>5. ASSUME NEW p \in Members, NEW b \in {0, 1}
        PROVE  nextId[p][b] <= nextId'[p][b]
    <2>1. CASE nextId' = nextId
      BY <1>1, <2>1
    <2>2. ASSUME NEW q \in Members, NEW o \in Members, OpenStream(q, o)
          PROVE  nextId[p][b] <= nextId'[p][b]
      <3>1. PICK id \in Nat : /\ nextId[q][Parity(q, o)] <= id
                              /\ nextId' = [nextId EXCEPT ![q][Parity(q, o)] = id + 2]
        BY <2>2, IdIsDrawn
      <3>2. nextId[p] \in [{0, 1} -> Nat] /\ nextId[q] \in [{0, 1} -> Nat]
        BY <1>1 DEF TypeOK
      <3>3. nextId'[p][b] = IF p = q /\ b = Parity(q, o) THEN id + 2 ELSE nextId[p][b]
        BY <1>1, <3>1, <3>2 DEF TypeOK
      <3> QED
        BY <1>1, <3>1, <3>3
    <2>3. UNCHANGED nextId \/ \E q, o \in Members : OpenStream(q, o)
      BY DEF Paths, Next, Receive, OnData, OnClose, OnStreamOpen, OnMemberLeft, Dropped,
             CloseClient, Write, Draw, ReadMessage, ReadEnd, Close, Reset, Shut, HandOn,
             Send, SendFails
    <2> QED
      BY <2>1, <2>2, <2>3
  <1> QED
    BY <1>2, <1>3, <1>4, <1>5 DEF Grows

\* The ends only gain, and chunks stay in the order they have.
EndsGrow ==
    /\ Ends \subseteq DOMAIN ends'
    /\ \A k \in Ends : SameName(ends[k], ends'[k]) /\ ends[k].sent <= ends'[k].sent
    /\ \A k \in DOMAIN ends' \ Ends : ends'[k].sent = 0 /\ Named(ends'[k])

LEMMA KindsGrow ==
  ASSUME StreamInv, TypeOK', StepKind
  PROVE  EndsGrow
  <1>1. ends \in Seq(End) /\ ends' \in Seq(End)
    BY DEF StreamInv, TypeOK
  <1>2. CASE NothingRead
    BY <1>2 DEF EndsGrow, NothingRead, Fresh
  <1>3. CASE Quiet
    BY <1>1, <1>2, <1>3, QuietReadsNothing DEF Quiet
  <1>4. ASSUME NEW k \in Ends, Draws(k)
        PROVE  EndsGrow
    BY <1>1, <1>2, <1>4, EndsDrawn DEF Draws
  <1>5. ASSUME NEW k, NEW e, NEW f, Given(k, e, f)
        PROVE  EndsGrow
    <2>1. Reads(k, e, f) /\ SameName(e, ends'[k]) /\ ends'[k].sent = e.sent /\ e.sent \in Nat
      BY <1>1, <1>5, ReadEffect DEF Given
    <2>2. \A j \in DOMAIN ends' \ Ends : j = k /\ ends'[j].sent = 0 /\ Named(ends'[j])
      BY <2>1 DEF Reads, Fresh, Named, SameName
    <2>3. ASSUME NEW j \in Ends
          PROVE  SameName(ends[j], ends'[j]) /\ ends[j].sent <= ends'[j].sent
      <3>1. ends[j].sent \in Nat
        BY <1>1, EndsTyped, EndTyped
      <3> QED
        BY <2>1, <3>1 DEF Reads, SameName
    <2> QED
      BY <2>1, <2>2, <2>3 DEF EndsGrow, Reads
  <1> QED
    BY <1>3, <1>4, <1>5 DEF StepKind

-----------------------------------------------------------------------------
\* What a step does to the ends, seen from the invariant.

SameReading(k) ==
    ends'[k].next = ends[k].next /\ ends'[k].buf = ends[k].buf /\ ends'[k].got = ends[k].got

\* Nothing but an error, a number drawn or a chunk read by the application.
Rests(k) == ends'[k].state = ends[k].state /\ SameReading(k)

\* Why there is a new stream: it was opened, an open arrived, or a chunk did.
Opens(e) ==
    /\ e.mine /\ e.id % 2 = Parity(e.at, e.peer)
    /\ nextId[e.at][Parity(e.at, e.peer)] <= e.id
    /\ e.id < nextId'[e.at][Parity(e.at, e.peer)]
Announced(e) == e.id \in Opened(<<e.peer, e.at>>) /\ e.id \notin closedIds[e.at]
Overtaken(e) == \E f \in Carried(<<e.peer, e.at>>) : f.kind = "data" /\ f.id = e.id
Made(e) ==
    /\ e \in End /\ Fresh(e) /\ e.at # e.peer /\ e.at \notin left
    /\ UNCHANGED <<left, closedIds>>
    /\ Opens(e) \/ (~e.mine /\ (Announced(e) \/ Overtaken(e)))

\* Close and Reset, a close frame that arrives, the departure of either side.
Shuts(k) ==
    /\ ends[k].state = "open"
    /\ ends'[k].state = IF \E f \in writing : f.of = k THEN "cut" ELSE "closed"
    /\ DOMAIN ends' = Ends
    /\ \A j \in Ends : SameReading(j) /\ (j # k => Rests(j))
    /\ ends[k].id \in closedIds'[ends[k].at]
    /\ UNCHANGED <<left, peers, writing, lost>>
    /\ \E f \in Frame : f.kind # "data" /\ f.id = ends[k].id /\ relay' = Sent(ends[k], f)
Hears(p, q, id) ==
    /\ p \in Members /\ q \in Members /\ <<p, q>> \in Paths
    /\ relay[<<p, q>>] # <<>>
    /\ Head(relay[<<p, q>>]).kind # "data" /\ Head(relay[<<p, q>>]).id = id
    /\ relay' = [relay EXCEPT ![<<p, q>>] = Tail(@)]
    /\ DOMAIN ends' = Ends
    /\ \A k \in Ends : SameReading(k)
    /\ \A k \in Find(q, id) : ends'[k].state = "ended" /\ Ready(k) = {}
    /\ \A k \in Ends \ Find(q, id) : Rests(k)
    /\ Busy(q, id) => id \in closedIds'[q]
    /\ UNCHANGED <<left, lost>>
Abandons ==
    /\ DOMAIN ends' = Ends
    /\ \A k \in Ends :
         /\ SameReading(k)
         /\ \/ Rests(k)
            \/ ends[k].state = "open" /\ ends'[k].state = "left" /\ Departed(ends[k])'

EndsMove ==
    \/ DOMAIN ends' = Ends /\ \A k \in Ends : Rests(k)
    \/ \E e : Made(e) /\ ends' = Append(ends, e)
    \/ \E k \in Ends : Shuts(k)
    \/ \E p, q, id : Hears(p, q, id)
    \/ Abandons
    \/ \E k, e, f : Gets(k, e, f) /\ (k \notin Ends => Made(e) /\ Overtaken(e))

\* A chunk that is delivered stays in the stream, or something is lost for it.
LEMMA DeliveredKeeps ==
  ASSUME NEW e \in End, NEW f \in Data
  PROVE  LET x == Delivered(e, f) IN
         /\ x.state = e.state
         /\ e.buf \cup {f} \subseteq x.buf \cup {x.got[i] : i \in DOMAIN x.got} \cup LostBy(e, f)
         /\ {e.got[i] : i \in DOMAIN e.got} \subseteq {x.got[i] : i \in DOMAIN x.got}
  <1> DEFINE x == Delivered(e, f)
  <1>1. e.got \in Seq(Data)
    BY EndTyped
  <1>2. /\ DOMAIN e.got \subseteq DOMAIN Append(e.got, f)
        /\ \A i \in DOMAIN e.got : Append(e.got, f)[i] = e.got[i]
        /\ \E i \in DOMAIN Append(e.got, f) : Append(e.got, f)[i] = f
    <2>1. /\ DOMAIN e.got = 1..Len(e.got) /\ Len(e.got) \in Nat
          /\ DOMAIN Append(e.got, f) = 1..(Len(e.got) + 1)
          /\ \A i \in 1..Len(e.got) : Append(e.got, f)[i] = e.got[i]
          /\ Append(e.got, f)[Len(e.got) + 1] = f
      BY <1>1, AppendProperties, LenProperties
    <2>2. 1..Len(e.got) \subseteq 1..(Len(e.got) + 1) /\ Len(e.got) + 1 \in 1..(Len(e.got) + 1)
      BY <2>1
    <2> QED
      BY <2>1, <2>2
  <1>3. CASE Awaited(e, f)
    <2>1. x = Handed(e, f) /\ LostBy(e, f) = Overflown(e, f)
      BY <1>3 DEF Delivered, LostBy
    <2>2. x.state = e.state
      BY <2>1 DEF Handed, Push, End
    <2>3. /\ x.buf = e.buf \ {f}
          /\ \/ x.got = Append(e.got, f)
             \/ x.got = e.got /\ f \in Overflown(e, f)
      BY <2>1, HandedEffect DEF Overflown
    <2> HIDE DEF x
    <2> QED
      BY <1>2, <2>1, <2>2, <2>3 DEF x
  <1>4. CASE ~Awaited(e, f)
    <2>1. x = Kept(e, f) /\ LostBy(e, f) = Displaced(e, f)
      BY <1>4 DEF Delivered, LostBy
    <2>2. x.state = e.state /\ x.got = e.got /\ x.buf = (e.buf \ Displaced(e, f)) \cup {f}
      BY <2>1 DEF Kept, End
    <2> HIDE DEF x
    <2> QED
      BY <2>1, <2>2 DEF x
  <1> QED
    BY <1>3, <1>4

LEMMA HeadIsCarried ==
  ASSUME TypeOK, NEW pq \in Paths, relay[pq] # <<>>
  PROVE  /\ Head(relay[pq]) \in Carried(pq) /\ Head(relay[pq]) = relay[pq][1]
         /\ 1 \in DOMAIN relay[pq]
  <1>1. relay[pq] \in Seq(Frame)
    BY DEF TypeOK
  <1>2. Len(relay[pq]) \in Nat \ {0} /\ DOMAIN relay[pq] = 1..Len(relay[pq])
    BY <1>1, EmptySeq, LenProperties
  <1>3. 1 \in DOMAIN relay[pq] /\ Head(relay[pq]) = relay[pq][1]
    BY <1>1, <1>2, HeadTailProperties
  <1> QED
    BY <1>3 DEF Carried

LEMMA OpenIsMade ==
  ASSUME StreamInv, NEW p \in Members, NEW q \in Members, <<p, q>> \in Paths, OpenStream(p, q)
  PROVE  EndsMove
  <1>1. PICK id \in Nat :
           /\ nextId[p][Parity(p, q)] <= id /\ id % 2 = Parity(p, q)
           /\ nextId' = [nextId EXCEPT ![p][Parity(p, q)] = id + 2]
           /\ ends' = Append(ends, NewEnd(p, q, id, TRUE))
    BY IdIsDrawn
  <1>2. p \notin left /\ UNCHANGED <<left, closedIds>> /\ p # q
    BY DEF OpenStream, Paths
  <1>3. id < nextId'[p][Parity(p, q)]
    <2>1. nextId \in [Members -> [{0, 1} -> Nat]] /\ Parity(p, q) \in {0, 1}
      BY DEF StreamInv, TypeOK, Parity
    <2>2. nextId'[p][Parity(p, q)] = id + 2
      BY <1>1, <2>1
    <2> QED
      BY <2>2
  <1> DEFINE e == NewEnd(p, q, id, TRUE)
  <1>4. e \in End /\ Fresh(e) /\ e.at = p /\ e.peer = q /\ e.id = id /\ e.mine
    BY NewEndTyped DEF NewEnd, Fresh
  <1> HIDE DEF e
  <1>5. Opens(e)
    BY <1>1, <1>3, <1>4 DEF Opens
  <1>6. Made(e)
    BY <1>2, <1>4, <1>5 DEF Made
  <1> QED
    BY <1>1, <1>6 DEF EndsMove, e

LEMMA AnnouncementIsMade ==
  ASSUME StreamInv, WhoLeftIsDeaf, NEW p \in Members, NEW q \in Members, <<p, q>> \in Paths,
         OnStreamOpen(p, q)
  PROVE  EndsMove
  <1> DEFINE id == Head(control[<<p, q>>])
             e == NewEnd(q, p, id, FALSE)
  <1>1. /\ control[<<p, q>>] # <<>>
        /\ \/ ends' = ends
           \/ ends' = Append(ends, e) /\ id \notin closedIds[q]
        /\ UNCHANGED <<left, closedIds>>
    BY DEF OnStreamOpen, Late
  <1>2. control[<<p, q>>] \in Seq(Nat) /\ p # q
    BY DEF StreamInv, TypeOK, Paths
  <1>3. id \in Nat /\ id \in Opened(<<p, q>>)
    <2>1. Len(control[<<p, q>>]) \in Nat \ {0} /\ DOMAIN control[<<p, q>>] = 1..Len(control[<<p, q>>])
      BY <1>1, <1>2, EmptySeq, LenProperties
    <2>2. 1 \in DOMAIN control[<<p, q>>] /\ id = control[<<p, q>>][1] /\ id \in Nat
      BY <1>1, <1>2, <2>1, HeadTailProperties
    <2> QED
      BY <2>2 DEF Opened
  <1>4. q \notin left
    <2>1. <<p, q>>[2] = q
      OBVIOUS
    <2> QED
      BY <1>1, <2>1 DEF WhoLeftIsDeaf
  <1> HIDE DEF id
  <1>5. e \in End /\ Fresh(e) /\ e.at = q /\ e.peer = p /\ e.id = id /\ ~e.mine
    BY <1>3, NewEndTyped DEF NewEnd, Fresh
  <1> HIDE DEF e
  <1>6. CASE ends' = ends
    BY <1>6 DEF EndsMove, Rests, SameReading, Ends
  <1>7. CASE ends' = Append(ends, e) /\ id \notin closedIds[q]
    <2>1. Announced(e)
      BY <1>3, <1>5, <1>7 DEF Announced
    <2>2. Made(e)
      BY <1>1, <1>2, <1>4, <1>5, <2>1 DEF Made
    <2> QED
      BY <1>7, <2>2 DEF EndsMove
  <1> QED
    BY <1>1, <1>6, <1>7

LEMMA RestIsRest ==
  ASSUME StreamInv, NEW k \in Ends,
         \/ ends' = ends
         \/ ends' = [ends EXCEPT ![k].sent = @ + 1]
         \/ ends' = [ends EXCEPT ![k].unread = @ - 1]
  PROVE  EndsMove
  <1>1. ends \in Seq(End) /\ ends[k] \in End
    BY EndsTyped DEF StreamInv, TypeOK
  <1>2. DOMAIN ends' = Ends /\ \A j \in Ends \ {k} : ends'[j] = ends[j]
    BY DEF Ends
  <1>3. Rests(k)
    BY <1>1 DEF Rests, SameReading, Ends, End
  <1> QED
    BY <1>2, <1>3 DEF EndsMove, Rests, SameReading

LEMMA EndIsShut ==
  ASSUME StreamInv, NEW k \in Ends, Close(k) \/ Reset(k)
  PROVE  Shuts(k)
  <1>1. PICK kind \in {"close", "reset"}, err \in {"closed", "reset"} : Shut(k, kind, err)
    BY DEF Close, Reset
  <1> DEFINE e == ends[k]
             f == [kind |-> kind, id |-> e.id]
             s == IF \E g \in writing : g.of = k THEN "cut" ELSE "closed"
  <1>2. ends \in Seq(End) /\ e \in End /\ e.at \in Members /\ e.id \in Nat
        /\ closedIds \in [Members -> SUBSET Nat]
    BY EndsTyped, EndTyped DEF StreamInv, TypeOK
  <1>3. /\ e.state = "open"
        /\ ends' = [ends EXCEPT ![k].state = s, ![k].err = err]
        /\ relay' = Sent(e, f)
        /\ closedIds' = [closedIds EXCEPT ![e.at] = @ \cup {e.id}]
        /\ UNCHANGED <<left, peers, writing, lost>>
    BY <1>1 DEF Shut, DropStream
  <1>4. f \in Frame /\ f.kind # "data" /\ f.id = e.id
    <2>1. f \in [kind : {"close", "reset"}, id : Nat]
      BY <1>2
    <2> QED
      BY <2>1 DEF Frame
  <1>5. e.id \in closedIds'[e.at]
    BY <1>2, <1>3
  <1>6. /\ DOMAIN ends' = Ends
        /\ ends'[k] = [e EXCEPT !.state = s, !.err = err]
        /\ \A j \in Ends \ {k} : ends'[j] = ends[j]
    BY <1>3 DEF Ends
  <1>7. ends'[k].state = s /\ SameReading(k)
    <2> HIDE DEF s
    <2> QED
      BY <1>2, <1>6 DEF End, SameReading
  <1>8. \A j \in Ends : SameReading(j) /\ (j # k => Rests(j))
    BY <1>6, <1>7 DEF SameReading, Rests
  <1> HIDE DEF f
  <1>9. \E g \in Frame : g.kind # "data" /\ g.id = e.id /\ relay' = Sent(e, g)
    BY <1>3, <1>4
  <1> QED
    BY <1>3, <1>5, <1>6, <1>7, <1>8, <1>9 DEF Shuts

LEMMA CloseIsHeard ==
  ASSUME StreamInv, NEW p \in Members, NEW q \in Members, <<p, q>> \in Paths, Receive(p, q),
         Head(relay[<<p, q>>]).kind # "data"
  PROVE  Hears(p, q, Head(relay[<<p, q>>]).id)
  <1> DEFINE f == Head(relay[<<p, q>>])
  <1>1. TypeOK /\ relay[<<p, q>>] # <<>> /\ Reading(q)
    BY DEF StreamInv, Receive
  <1>2. f \in Frame
    <2>1. relay[<<p, q>>] \in Seq(Frame)
      BY <1>1 DEF TypeOK
    <2> QED
      BY <1>1, <2>1, TailTyped
  <1>3. /\ OnClose(q, f)
        /\ relay' = [relay EXCEPT ![<<p, q>>] = Tail(@)]
        /\ UNCHANGED left
    BY DEF Receive, OnData
  <1> HIDE DEF f
  <1>4. /\ ends' \in Seq(End) /\ EndsStay /\ UNCHANGED lost
    BY <1>2, <1>3, OnCloseStays
  <1>5. /\ DOMAIN ends' = Ends
        /\ \A k \in Find(q, f.id) : ends'[k] = Ended(ends[k], f.kind)
        /\ \A k \in Ends \ Find(q, f.id) : ends'[k] = ends[k]
    BY <1>3 DEF OnClose, Find
  <1>6. \A k \in Ends : SameReading(k)
    BY <1>4 DEF EndsStay, SameChunks, SameReading
  <1>7. ASSUME NEW k \in Find(q, f.id)
        PROVE  ends'[k].state = "ended" /\ Ready(k) = {}
    <2>1. k \in Ends /\ ends[k].at = q /\ ends[k] \in End
      BY <1>1, EndsTyped DEF Find, TypeOK
    <2>2. Ended(ends[k], f.kind).state = "ended"
      BY <2>1 DEF Ended, End
    <2> QED
      BY <1>1, <1>5, <2>1, <2>2 DEF Reading
  <1>8. \A k \in Ends \ Find(q, f.id) : Rests(k)
    BY <1>5, <1>6 DEF Rests
  <1>9. Busy(q, f.id) => f.id \in closedIds'[q]
    <2>1. closedIds \in [Members -> SUBSET Nat]
      BY <1>1 DEF TypeOK
    <2> QED
      BY <1>3, <2>1 DEF OnClose, DropStream
  <1>10. Head(relay[<<p, q>>]).kind # "data"
    OBVIOUS
  <1> QED
    BY <1>1, <1>3, <1>4, <1>5, <1>6, <1>7, <1>8, <1>9, <1>10 DEF Hears, f

LEMMA LeavingAbandons ==
  ASSUME StreamInv,
         \/ \E p \in Members : CloseClient(p)
         \/ \E p, q \in Members : OnMemberLeft(p, q)
  PROVE  Abandons
  <1>1. PICK ks \in SUBSET Ends : /\ ends' = Abandoned(ks)
                       /\ \A k \in ks : ends[k].at \in left' \/ ends[k].peer \notin peers'[ends[k].at]
    <2>1. peers \in [Members -> SUBSET Members]
      BY DEF StreamInv, TypeOK
    <2>2. ASSUME NEW p \in Members, CloseClient(p)
          PROVE  \E ks \in SUBSET Ends : /\ ends' = Abandoned(ks)
                          /\ \A k \in ks : ends[k].at \in left' \/ ends[k].peer \notin peers'[ends[k].at]
      <3> DEFINE ks == {k \in Ends : ends[k].at = p}
      <3>1. ks \in SUBSET Ends /\ ends' = Abandoned(ks) /\ \A k \in ks : ends[k].at \in left'
        BY <2>2 DEF CloseClient
      <3> HIDE DEF ks
      <3> QED
        BY <3>1
    <2>3. ASSUME NEW p \in Members, NEW q \in Members, OnMemberLeft(p, q)
          PROVE  \E ks \in SUBSET Ends : /\ ends' = Abandoned(ks)
                          /\ \A k \in ks : ends[k].at \in left' \/ ends[k].peer \notin peers'[ends[k].at]
      <3> DEFINE ks == {k \in Ends : ends[k].at = q /\ ends[k].peer = p}
      <3>1. peers'[q] = peers[q] \ {p}
        BY <2>1, <2>3 DEF OnMemberLeft
      <3>2. /\ ks \in SUBSET Ends /\ ends' = Abandoned(ks)
            /\ \A k \in ks : ends[k].peer \notin peers'[ends[k].at]
        BY <2>3, <3>1 DEF OnMemberLeft
      <3> HIDE DEF ks
      <3> QED
        BY <3>2
    <2> QED
      BY <2>2, <2>3
  <1>2. /\ DOMAIN ends' = Ends
        /\ \A k \in Ends : ends'[k] = IF k \in ks /\ ends[k].state = "open"
                                      THEN [ends[k] EXCEPT !.state = "left"] ELSE ends[k]
    BY <1>1 DEF Abandoned
  <1>3. ASSUME NEW k \in Ends
        PROVE  /\ SameReading(k)
               /\ \/ Rests(k)
                  \/ ends[k].state = "open" /\ ends'[k].state = "left" /\ Departed(ends[k])'
    <2>1. ends[k] \in End
      BY EndsTyped DEF StreamInv, TypeOK
    <2>2. CASE k \in ks /\ ends[k].state = "open"
      <3>1. ends'[k] = [ends[k] EXCEPT !.state = "left"]
        BY <1>2, <2>2
      <3>2. ends'[k].at = ends[k].at /\ ends'[k].peer = ends[k].peer /\ ends'[k].state = "left"
        BY <2>1, <3>1 DEF End
      <3>3. SameReading(k)
        BY <2>1, <3>1 DEF End, SameReading
      <3>4. Departed(ends[k])'
        BY <1>1, <2>2, <3>2 DEF Departed
      <3> QED
        BY <2>2, <3>2, <3>3, <3>4
    <2>3. CASE ends'[k] = ends[k]
      BY <2>3 DEF SameReading, Rests
    <2> QED
      BY <1>2, <2>2, <2>3
  <1> QED
    BY <1>2, <1>3 DEF Abandons

LEMMA DataIsMade ==
  ASSUME StreamInv, WhoLeftIsDeaf, NEW p \in Members, NEW q \in Members, <<p, q>> \in Paths,
         Receive(p, q), Head(relay[<<p, q>>]).kind = "data"
  PROVE  \E k, e : /\ Gets(k, e, Head(relay[<<p, q>>]))
                   /\ k \notin Ends => Made(e) /\ Overtaken(e)
  <1> DEFINE f == Head(relay[<<p, q>>])
  <1>1. TypeOK /\ RelayOnce
    BY DEF StreamInv, ChunksAreOnce
  <1>2. /\ relay[<<p, q>>] # <<>> /\ OnData(p, q, f)
        /\ relay' = [relay EXCEPT ![<<p, q>>] = Tail(@)]
        /\ UNCHANGED <<left, closedIds, writing>>
    BY DEF Receive, OnData, OnClose
  <1>3. RelayKeeps({}) /\ f \in Frame /\ f \in OnRelay /\ f \notin OnRelay'
    BY <1>1, <1>2, RelayTaken DEF TypeOK
  <1>4. f \in Carried(<<p, q>>)
    BY <1>1, <1>2, HeadIsCarried
  <1>5. f.kind = "data" /\ p # q /\ <<p, q>>[1] = p /\ <<p, q>>[2] = q
    BY DEF Paths
  <1> HIDE DEF f
  <1>6. f \in Data /\ f.id \in Nat
    BY <1>3, <1>5 DEF Frame, Data
  <1>7. ends[f.of].peer = q
    <2>1. f \in ChunksOn(<<p, q>>)
      BY <1>4, <1>5 DEF ChunksOn, FramesOn, Carried
    <2> QED
      BY <1>5, <2>1 DEF StreamInv, Names, FramesAreRouted, Routed
  <1>8. PICK k, e : Gets(k, e, f) /\ MadeFor(p, q, f, k, e)
    BY <1>2, <1>3, <1>5, <1>6, <1>7, OnDataGives
  <1>9. ASSUME k \notin Ends
        PROVE  Made(e) /\ Overtaken(e)
    <2>1. e = NewEnd(q, p, f.id, FALSE)
      BY <1>8, <1>9 DEF MadeFor
    <2>2. e \in End /\ Fresh(e) /\ e.at = q /\ e.peer = p /\ e.id = f.id /\ ~e.mine
      BY <1>6, <2>1, NewEndTyped DEF NewEnd, Fresh
    <2>3. Overtaken(e)
      BY <1>4, <1>5, <2>2 DEF Overtaken
    <2>4. q \notin left
      BY <1>2, <1>5 DEF WhoLeftIsDeaf
    <2> QED
      BY <1>2, <1>5, <2>2, <2>3, <2>4 DEF Made
  <1> QED
    BY <1>8, <1>9 DEF f

LEMMA NextMovesEnds ==
  ASSUME StreamInv, WhoLeftIsDeaf, Next
  PROVE  EndsMove
  <1>1. ASSUME NEW pq \in Paths,
               \/ OpenStream(pq[1], pq[2]) \/ Receive(pq[1], pq[2])
               \/ OnStreamOpen(pq[1], pq[2]) \/ OnMemberLeft(pq[1], pq[2])
               \/ Dropped(pq[1], pq[2])
        PROVE  EndsMove
    <2>1. PICK p \in Members, q \in Members : pq[1] = p /\ pq[2] = q /\ <<p, q>> \in Paths
      BY DEF Paths
    <2>2. CASE OpenStream(p, q)
      BY <2>1, <2>2, OpenIsMade
    <2>3. CASE Receive(p, q)
      <3>1. CASE Head(relay[<<p, q>>]).kind # "data"
        BY <2>1, <2>3, <3>1, CloseIsHeard DEF EndsMove
      <3>2. CASE Head(relay[<<p, q>>]).kind = "data"
        BY <2>1, <2>3, <3>2, DataIsMade DEF EndsMove
      <3> QED
        BY <3>1, <3>2
    <2>4. CASE OnStreamOpen(p, q)
      BY <2>1, <2>4, AnnouncementIsMade
    <2>5. CASE OnMemberLeft(p, q)
      BY <2>5, LeavingAbandons DEF EndsMove
    <2>6. CASE Dropped(p, q)
      BY <2>6 DEF Dropped, EndsMove, Rests, SameReading, Ends
    <2> QED
      BY <1>1, <2>1, <2>2, <2>3, <2>4, <2>5, <2>6
  <1>2. ASSUME NEW p \in Members, CloseClient(p)
        PROVE  EndsMove
    BY <1>2, LeavingAbandons DEF EndsMove
  <1>3. ASSUME NEW k \in Ends,
               \/ Write(k) \/ ReadMessage(k) \/ ReadEnd(k)
               \/ Close(k) \/ Reset(k) \/ HandOn(k)
        PROVE  EndsMove
    <2>1. CASE Write(k) \/ ReadMessage(k) \/ ReadEnd(k)
      BY <2>1, RestIsRest DEF Write, Draw, ReadMessage, ReadEnd
    <2>2. CASE Close(k) \/ Reset(k)
      BY <2>2, EndIsShut DEF EndsMove
    <2>3. CASE HandOn(k)
      <3>1. \E e, f : Gets(k, e, f)
        BY <2>3, HandOnGives
      <3> QED
        BY <3>1 DEF EndsMove
    <2> QED
      BY <1>3, <2>1, <2>2, <2>3
  <1>4. ASSUME NEW f \in writing, Send(f) \/ SendFails(f)
        PROVE  EndsMove
    <2>1. f.of \in Ends
      BY DEF StreamInv, ChunksAreWritten, Written
    <2> QED
      BY <1>4, <2>1, RestIsRest DEF Send, SendFails, Draw
  <1> QED
    BY <1>1, <1>2, <1>3, <1>4 DEF Next

\* What becomes of the ends that were there, and of a new one.
StatesMove ==
    \A k \in Ends :
        \/ ends'[k].state = ends[k].state
        \/ ends[k].state = "open" /\ ends'[k].state = "left" /\ Departed(ends[k])'
        \/ Shuts(k)
        \/ k \in Find(ends[k].at, ends[k].id) /\ \E p : Hears(p, ends[k].at, ends[k].id)

GrowsBy(k, e) ==
    /\ SameName(e, ends'[k]) /\ ends'[k].state = e.state
    /\ ends'[k] = e \/ \E f : Gets(k, e, f)
NewOnes == \A k \in DOMAIN ends' \ Ends : \E e : Made(e) /\ GrowsBy(k, e)

ReadsOn == \A k \in Ends : SameReading(k) \/ \E f : Gets(k, ends[k], f)

LEMMA GetsEffect ==
  ASSUME StreamInv, ends' \in Seq(End), NEW k, NEW e, NEW f, Gets(k, e, f)
  PROVE  /\ k \in DOMAIN ends' /\ DOMAIN ends' \subseteq Ends \cup {k} /\ Ends \subseteq DOMAIN ends'
         /\ \A j \in Ends \ {k} : ends'[j] = ends[j]
         /\ k \in Ends => e = ends[k]
         /\ GrowsBy(k, e) /\ e \in End /\ f \in Data
  <1>1. Reads(k, e, f) /\ ends'[k] = Delivered(e, f)
    BY DEF Gets, Given
  <1>2. SameName(e, ends'[k])
    BY <1>1, ReadEffect
  <1>3. e \in End /\ f \in Data
    BY <1>1 DEF Reads
  <1>4. ends'[k].state = e.state
    BY <1>1, <1>3, DeliveredKeeps
  <1>5. GrowsBy(k, e)
    BY <1>2, <1>4 DEF GrowsBy
  <1> QED
    BY <1>1, <1>3, <1>5 DEF Reads

LEMMA EndsMoved ==
  ASSUME StreamInv, TypeOK', EndsMove
  PROVE  StatesMove /\ NewOnes /\ ReadsOn
  <1>1. ends \in Seq(End) /\ ends' \in Seq(End)
    BY DEF StreamInv, TypeOK
  <1>2. CASE DOMAIN ends' = Ends /\ \A k \in Ends : Rests(k)
    BY <1>2 DEF StatesMove, NewOnes, ReadsOn, Rests
  <1>3. ASSUME NEW e, Made(e), ends' = Append(ends, e)
        PROVE  StatesMove /\ NewOnes /\ ReadsOn
    <2>1. e \in End
      BY <1>3 DEF Made
    <2>2. /\ Len(ends) \in Nat /\ Ends = 1..Len(ends) /\ DOMAIN ends' = 1..(Len(ends) + 1)
          /\ \A k \in 1..Len(ends) : ends'[k] = ends[k]
          /\ ends'[Len(ends) + 1] = e
      BY <1>1, <1>3, <2>1, EndsTyped, AppendProperties, LenProperties
    <2>3. \A k \in DOMAIN ends' \ Ends : k = Len(ends) + 1
      BY <2>2
    <2>4. \A k \in DOMAIN ends' \ Ends : Made(e) /\ GrowsBy(k, e)
      BY <1>3, <2>2, <2>3 DEF GrowsBy, SameName
    <2> QED
      BY <2>2, <2>4 DEF StatesMove, NewOnes, ReadsOn, SameReading
  <1>4. ASSUME NEW k \in Ends, Shuts(k)
        PROVE  StatesMove /\ NewOnes /\ ReadsOn
    BY <1>4 DEF StatesMove, NewOnes, ReadsOn, Shuts, Rests
  <1>5. ASSUME NEW p, NEW q, NEW id, Hears(p, q, id)
        PROVE  StatesMove /\ NewOnes /\ ReadsOn
    <2>1. /\ DOMAIN ends' = Ends
          /\ \A k \in Ends : SameReading(k)
          /\ \A k \in Ends \ Find(q, id) : Rests(k)
      BY <1>5 DEF Hears
    <2>2. \A k \in Find(q, id) : ends[k].at = q /\ ends[k].id = id
      BY DEF Find
    <2> QED
      BY <1>5, <2>1, <2>2 DEF StatesMove, NewOnes, ReadsOn, Rests
  <1>6. CASE Abandons
    BY <1>6 DEF StatesMove, NewOnes, ReadsOn, Abandons, Rests
  <1>7. ASSUME NEW k, NEW e, NEW f, Gets(k, e, f), k \notin Ends => Made(e) /\ Overtaken(e)
        PROVE  StatesMove /\ NewOnes /\ ReadsOn
    <2>1. /\ k \in DOMAIN ends' /\ DOMAIN ends' \subseteq Ends \cup {k} /\ Ends \subseteq DOMAIN ends'
          /\ \A j \in Ends \ {k} : ends'[j] = ends[j]
          /\ k \in Ends => e = ends[k]
          /\ GrowsBy(k, e)
      BY <1>1, <1>7, GetsEffect
    <2>2. StatesMove
      BY <2>1 DEF StatesMove, GrowsBy
    <2>3. NewOnes
      BY <1>7, <2>1 DEF NewOnes
    <2>4. ReadsOn
      BY <1>7, <2>1 DEF ReadsOn, SameReading
    <2> QED
      BY <2>2, <2>3, <2>4
  <1> QED
    BY <1>2, <1>3, <1>4, <1>5, <1>6, <1>7 DEF EndsMove

-----------------------------------------------------------------------------
\* What a step does to the paths.

Goes(pq, f) ==
    /\ pq[1] \notin left /\ pq[2] \notin left /\ UNCHANGED <<left, peers>>
    /\ \/ f \in writing /\ Routed(pq, f)
       \/ f.kind # "data" /\ \E k \in Ends : Way(k) = pq /\ ends[k].id = f.id /\ Shuts(k)
MovesOn(pq) ==
    \/ relay'[pq] = relay[pq]
    \/ relay'[pq] = <<>> /\ Carried(pq) \subseteq lost'
    \/ /\ relay[pq] # <<>> /\ relay'[pq] = Tail(relay[pq])
       /\ \/ Head(relay[pq]) \in lost'
          \/ \E k, e : Gets(k, e, Head(relay[pq]))
          \/ Hears(pq[1], pq[2], Head(relay[pq]).id)
    \/ \E f \in Frame : relay'[pq] = Append(relay[pq], f) /\ Goes(pq, f)
PathsMove == \A pq \in Paths : MovesOn(pq)

LEMMA TakenMoves ==
  ASSUME TypeOK, NEW pq \in Paths, relay[pq] # <<>>, relay' = [relay EXCEPT ![pq] = Tail(@)],
         \/ Head(relay[pq]) \in lost' \/ (\E k, e : Gets(k, e, Head(relay[pq])))
         \/ Hears(pq[1], pq[2], Head(relay[pq]).id)
  PROVE  PathsMove
  <1>1. relay'[pq] = Tail(relay[pq]) /\ \A rs \in Paths \ {pq} : relay'[rs] = relay[rs]
    BY DEF TypeOK
  <1>2. MovesOn(pq)
    BY <1>1 DEF MovesOn
  <1> QED
    BY <1>1, <1>2 DEF PathsMove, MovesOn

LEMMA ClearedMoves ==
  ASSUME NEW paths, relay' = Cleared(relay, paths), lost' = lost \cup FramesOn(paths)
  PROVE  PathsMove
  <1> SUFFICES ASSUME NEW pq \in Paths
               PROVE  MovesOn(pq)
    BY DEF PathsMove
  <1>1. CASE pq \in paths
    <2>1. relay'[pq] = <<>> /\ Carried(pq) \subseteq lost'
      BY <1>1 DEF Cleared, Carried, FramesOn
    <2> QED
      BY <2>1 DEF MovesOn
  <1>2. CASE pq \notin paths
    BY <1>2 DEF MovesOn, Cleared
  <1> QED
    BY <1>1, <1>2

LEMMA SentMoves ==
  ASSUME TypeOK, NEW k \in Ends, NEW f \in Frame, relay' = Sent(ends[k], f),
         ends[k].at # ends[k].peer,
         ends[k].peer \notin left => Goes(Way(k), f)
  PROVE  PathsMove
  <1>1. Way(k) \in Paths
    <2>1. ends[k].at \in Members /\ ends[k].peer \in Members
      BY EndsTyped, EndTyped DEF TypeOK
    <2> QED
      BY <2>1 DEF Way, Paths
  <1>2. CASE ends[k].peer \in left
    BY <1>2 DEF Sent, PathsMove, MovesOn
  <1>3. CASE ends[k].peer \notin left
    <2>1. relay' = [relay EXCEPT ![Way(k)] = Append(@, f)]
      BY <1>3 DEF Sent, Way
    <2>2. /\ relay'[Way(k)] = Append(relay[Way(k)], f)
          /\ \A rs \in Paths \ {Way(k)} : relay'[rs] = relay[rs]
      BY <1>1, <2>1 DEF TypeOK
    <2>3. Goes(Way(k), f)
      BY <1>3
    <2> HIDE DEF Way
    <2>4. MovesOn(Way(k))
      BY <2>2, <2>3 DEF MovesOn
    <2> QED
      BY <2>2, <2>4 DEF PathsMove, MovesOn
  <1> QED
    BY <1>2, <1>3

LEMMA NextMovesPaths ==
  ASSUME StreamInv, WhoLeftIsDeaf, Next
  PROVE  PathsMove
  <1>1. TypeOK
    BY DEF StreamInv
  <1>2. CASE UNCHANGED relay
    BY <1>2 DEF PathsMove, MovesOn
  <1>3. ASSUME NEW pq \in Paths, Receive(pq[1], pq[2])
        PROVE  PathsMove
    <2>1. PICK p \in Members, q \in Members : pq[1] = p /\ pq[2] = q /\ pq = <<p, q>>
      BY DEF Paths
    <2>2. relay[pq] # <<>> /\ relay' = [relay EXCEPT ![pq] = Tail(@)]
      BY <1>3, <2>1 DEF Receive
    <2>3. CASE Head(relay[pq]).kind # "data"
      <3>1. Hears(p, q, Head(relay[pq]).id)
        BY <1>3, <2>1, <2>3, CloseIsHeard
      <3> QED
        BY <1>1, <2>1, <2>2, <3>1, TakenMoves
    <2>4. CASE Head(relay[pq]).kind = "data"
      <3>1. \E k, e : Gets(k, e, Head(relay[pq]))
        BY <1>3, <2>1, <2>4, DataIsMade
      <3> QED
        BY <1>1, <2>1, <2>2, <3>1, TakenMoves
    <2> QED
      BY <2>3, <2>4
  <1>4. ASSUME NEW pq \in Paths, Dropped(pq[1], pq[2]), relay' # relay
        PROVE  PathsMove
    <2>1. pq = <<pq[1], pq[2]>>
      BY DEF Paths
    <2>2. /\ relay[pq] # <<>> /\ relay' = [relay EXCEPT ![pq] = Tail(@)]
          /\ Head(relay[pq]) \in lost'
      BY <1>4, <2>1 DEF Dropped
    <2> QED
      BY <1>1, <2>2, TakenMoves
  <1>5. ASSUME NEW pq \in Paths, OnMemberLeft(pq[1], pq[2])
        PROVE  PathsMove
    BY <1>5, ClearedMoves DEF OnMemberLeft
  <1>6. ASSUME NEW p \in Members, CloseClient(p)
        PROVE  PathsMove
    BY <1>6, ClearedMoves DEF CloseClient
  <1>7. ASSUME NEW k \in Ends, Close(k) \/ Reset(k)
        PROVE  PathsMove
    <2>1. Shuts(k)
      BY <1>7, EndIsShut
    <2>2. PICK f \in Frame : f.kind # "data" /\ f.id = ends[k].id /\ relay' = Sent(ends[k], f)
      BY <2>1 DEF Shuts
    <2>3. Way(k)[1] = ends[k].at /\ Way(k)[2] = ends[k].peer
      BY DEF Way
    <2>4. ends[k].at # ends[k].peer /\ ends[k].at \notin left /\ UNCHANGED <<left, peers>>
      BY <2>1 DEF Shuts, StreamInv, Names, EndsAreNamed, Named, WhoLeftIsDeaf
    <2>5. ends[k].peer \notin left => Goes(Way(k), f)
      BY <2>1, <2>2, <2>3, <2>4 DEF Goes
    <2> QED
      BY <1>1, <2>2, <2>4, <2>5, SentMoves
  <1>8. ASSUME NEW f \in writing, Send(f)
        PROVE  PathsMove
    <2>1. /\ relay' = Sent(ends[f.of], f) /\ ends[f.of].at \notin left /\ UNCHANGED <<left, peers>>
      BY <1>8 DEF Send, CanSend
    <2>2. f \in Frame /\ f.of \in Ends
      BY <1>1, DataIsFrame DEF TypeOK, StreamInv, ChunksAreWritten, Written
    <2>3. Way(f.of)[1] = ends[f.of].at /\ Way(f.of)[2] = ends[f.of].peer
      BY DEF Way
    <2>4. ends[f.of].at # ends[f.of].peer
      BY <2>2 DEF StreamInv, Names, EndsAreNamed, Named
    <2>5. ends[f.of].peer \notin left => Goes(Way(f.of), f)
      BY <2>1, <2>2, <2>3 DEF Goes, Routed
    <2> QED
      BY <1>1, <2>1, <2>2, <2>4, <2>5, SentMoves
  <1>9. \/ UNCHANGED relay
        \/ \E pq \in Paths : \/ Receive(pq[1], pq[2]) \/ (Dropped(pq[1], pq[2]) /\ relay' # relay)
                              \/ OnMemberLeft(pq[1], pq[2])
        \/ \E p \in Members : CloseClient(p)
        \/ \E k \in Ends : Close(k) \/ Reset(k)
        \/ \E f \in writing : Send(f)
    BY DEF Next, OpenStream, OnStreamOpen, Write, ReadMessage, ReadEnd, HandOn, SendFails
  <1> QED
    BY <1>2, <1>3, <1>4, <1>5, <1>6, <1>7, <1>8, <1>9

\* What a step does to the stream_opens on their way.
OpensMove ==
    \A pq \in Paths :
        /\ \A id \in Opened(pq)' :
             \/ id \in Opened(pq)
             \/ \E y \in DOMAIN ends' : /\ ends'[y].at = pq[1] /\ ends'[y].peer = pq[2]
                                        /\ ends'[y].id = id /\ ends'[y].mine
        /\ control[pq] = <<>> /\ control'[pq] # <<>> => pq[2] \notin left /\ UNCHANGED left

LEMMA NextMovesOpens ==
  ASSUME StreamInv, Next
  PROVE  OpensMove
  <1>1. TypeOK
    BY DEF StreamInv
  <1>2. CASE UNCHANGED control
    BY <1>2 DEF OpensMove, Opened
  <1>3. ASSUME NEW p \in Members, NEW q \in Members, <<p, q>> \in Paths,
               OpenStream(p, q), control' # control
        PROVE  OpensMove
    <2>1. PICK id \in Nat :
             /\ id % 2 = Parity(p, q)
             /\ ends' = Append(ends, NewEnd(p, q, id, TRUE))
             /\ control' = [control EXCEPT ![<<p, q>>] = Append(@, id)]
             /\ q \notin left
      BY <1>3, IdIsDrawn
    <2> DEFINE s == control[<<p, q>>]
    <2>2. /\ DOMAIN Append(s, id) = 1..(Len(s) + 1)
          /\ \A i \in 1..Len(s) : Append(s, id)[i] = s[i]
          /\ Append(s, id)[Len(s) + 1] = id
          /\ Len(s) \in Nat /\ DOMAIN s = 1..Len(s)
      <3>1. s \in Seq(Nat)
        BY <1>1, <1>3 DEF TypeOK
      <3> QED
        BY <3>1, AppendProperties, LenProperties
    <2>3. /\ control'[<<p, q>>] = Append(s, id)
          /\ \A rs \in Paths \ {<<p, q>>} : control'[rs] = control[rs]
      BY <1>1, <1>3, <2>1 DEF TypeOK
    <2>4. \E y \in DOMAIN ends' : /\ ends'[y].at = p /\ ends'[y].peer = q
                                  /\ ends'[y].id = id /\ ends'[y].mine
      <3> DEFINE e == NewEnd(p, q, id, TRUE)
      <3>1. e.at = p /\ e.peer = q /\ e.id = id /\ e.mine /\ e \in End
        BY NewEndTyped DEF NewEnd
      <3>2. ends' = Append(ends, e)
        BY <2>1
      <3> HIDE DEF e
      <3>3. Len(ends) + 1 \in DOMAIN ends' /\ ends'[Len(ends) + 1] = e
        <4>1. Len(ends) \in Nat /\ ends \in Seq(End)
          BY <1>1, EndsTyped DEF TypeOK
        <4>2. /\ ends' \in Seq(End) /\ Len(ends') = Len(ends) + 1
              /\ ends'[Len(ends) + 1] = e
          BY <3>1, <3>2, <4>1, AppendProperties
        <4> QED
          BY <4>1, <4>2, LenProperties
      <3> QED
        BY <3>1, <3>3
    <2> HIDE DEF s
    <2>5. \A i \in DOMAIN Append(s, id) :
            (i \in DOMAIN s /\ Append(s, id)[i] = s[i]) \/ Append(s, id)[i] = id
      BY <2>2
    <2>6. ASSUME NEW rs \in Paths, NEW i \in Opened(rs)'
          PROVE  i \in Opened(rs) \/ (rs = <<p, q>> /\ i = id)
      <3>1. CASE rs = <<p, q>>
        BY <2>3, <2>5, <3>1 DEF Opened, s
      <3>2. CASE rs # <<p, q>>
        BY <2>3, <3>2 DEF Opened
      <3> QED
        BY <3>1, <3>2
    <2>7. <<p, q>>[1] = p /\ <<p, q>>[2] = q
      OBVIOUS
    <2>8. UNCHANGED left
      BY <1>3 DEF OpenStream
    <2> QED
      BY <2>1, <2>3, <2>4, <2>6, <2>7, <2>8 DEF OpensMove
  <1>4. ASSUME NEW pq \in Paths, control[pq] # <<>>, control' = [control EXCEPT ![pq] = Tail(@)]
        PROVE  OpensMove
    <2> DEFINE s == control[pq]
    <2>1. /\ DOMAIN Tail(s) = 1..Len(Tail(s)) /\ Len(Tail(s)) = Len(s) - 1
          /\ \A i \in 1..Len(Tail(s)) : Tail(s)[i] = s[i + 1]
          /\ Len(s) \in Nat \ {0} /\ DOMAIN s = 1..Len(s)
      <3>1. s \in Seq(Nat) /\ s # <<>>
        BY <1>1, <1>4 DEF TypeOK
      <3>2. Tail(s) \in Seq(Nat) /\ Len(Tail(s)) = Len(s) - 1
            /\ \A i \in 1..Len(Tail(s)) : Tail(s)[i] = s[i + 1]
        BY <3>1, HeadTailProperties
      <3> QED
        BY <3>1, <3>2, EmptySeq, LenProperties
    <2>2. control'[pq] = Tail(s) /\ \A rs \in Paths \ {pq} : control'[rs] = control[rs]
      BY <1>1, <1>4 DEF TypeOK
    <2> HIDE DEF s
    <2>3. \A i \in DOMAIN Tail(s) : i + 1 \in DOMAIN s /\ Tail(s)[i] = s[i + 1]
      BY <2>1
    <2>4. \A rs \in Paths : Opened(rs)' \subseteq Opened(rs)
      BY <2>2, <2>3 DEF Opened, s
    <2> QED
      BY <1>4, <2>2, <2>4 DEF OpensMove
  <1>5. ASSUME NEW p \in Members, CloseClient(p)
        PROVE  OpensMove
    <2>1. DOMAIN <<>> = {}
      BY EmptySeq
    <2>2. \A rs \in Paths : control'[rs] = <<>> \/ control'[rs] = control[rs]
      BY <1>5 DEF CloseClient, Cleared
    <2> QED
      BY <2>1, <2>2 DEF OpensMove, Opened
  <1>6. \/ UNCHANGED control
        \/ \E p, q \in Members : <<p, q>> \in Paths /\ OpenStream(p, q) /\ control' # control
        \/ \E pq \in Paths : control[pq] # <<>> /\ control' = [control EXCEPT ![pq] = Tail(@)]
        \/ \E p \in Members : CloseClient(p)
    <2>1. \A pq \in Paths : pq[1] \in Members /\ pq[2] \in Members /\ <<pq[1], pq[2]>> = pq
      BY DEF Paths
    <2> QED
      BY <2>1 DEF Next, Receive, OnStreamOpen, OnMemberLeft, Dropped, Write, Draw, ReadMessage,
             ReadEnd, Close, Reset, Shut, HandOn, Send, SendFails
  <1> QED
    BY <1>2, <1>3, <1>4, <1>5, <1>6

\* What is left of a member that leaves or is removed.
LeavingMoves ==
    /\ \A p \in left' \ left :
         /\ \A pq \in Paths : pq[2] = p => relay'[pq] = <<>> /\ control'[pq] = <<>>
         /\ \A k \in DOMAIN ends' : ends'[k].at = p => ends'[k].state # "open"
    /\ \A pq \in Paths : pq[1] \in peers[pq[2]] \ peers'[pq[2]] =>
         pq[1] \in left /\ relay'[pq] = <<>>

LEMMA NextMovesLeavers ==
  ASSUME StreamInv, Next
  PROVE  LeavingMoves
  <1>1. TypeOK
    BY DEF StreamInv
  <1>2. CASE UNCHANGED <<left, peers>>
    BY <1>2 DEF LeavingMoves
  <1>3. ASSUME NEW p \in Members, CloseClient(p)
        PROVE  LeavingMoves
    <2>1. left' \ left = {p} /\ UNCHANGED peers
      BY <1>3 DEF CloseClient
    <2>2. \A pq \in Paths : pq[2] = p => relay'[pq] = <<>> /\ control'[pq] = <<>>
      BY <1>3 DEF CloseClient, Cleared
    <2>3. /\ DOMAIN ends' = Ends
          /\ \A k \in Ends : ends'[k] = IF ends[k].at = p /\ ends[k].state = "open"
                                        THEN [ends[k] EXCEPT !.state = "left"] ELSE ends[k]
      BY <1>3 DEF CloseClient, Abandoned
    <2>4. ASSUME NEW k \in Ends, ends'[k].at = p
          PROVE  ends'[k].state # "open"
      <3>1. ends[k] \in End
        BY <1>1, EndsTyped DEF TypeOK
      <3>2. CASE ends[k].at = p /\ ends[k].state = "open"
        BY <2>3, <3>1, <3>2 DEF End
      <3> QED
        BY <2>3, <2>4, <3>2
    <2> QED
      BY <2>1, <2>2, <2>3, <2>4 DEF LeavingMoves
  <1>4. ASSUME NEW p \in Members, NEW q \in Members, <<p, q>> \in Paths, OnMemberLeft(p, q)
        PROVE  LeavingMoves
    <2>1. p \in left /\ UNCHANGED left /\ relay'[<<p, q>>] = <<>>
      BY <1>4 DEF OnMemberLeft, Cleared
    <2>2. /\ peers'[q] = peers[q] \ {p}
          /\ \A o \in Members \ {q} : peers'[o] = peers[o]
      BY <1>1, <1>4 DEF OnMemberLeft, TypeOK
    <2>3. \A pq \in Paths : pq[1] \in Members /\ pq[2] \in Members /\ pq = <<pq[1], pq[2]>>
      BY DEF Paths
    <2>4. \A pq \in Paths : pq[1] \in peers[pq[2]] \ peers'[pq[2]] => pq = <<p, q>>
      BY <2>2, <2>3
    <2> QED
      BY <2>1, <2>4 DEF LeavingMoves
  <1>5. \/ UNCHANGED <<left, peers>>
        \/ \E p \in Members : CloseClient(p)
        \/ \E p, q \in Members : <<p, q>> \in Paths /\ OnMemberLeft(p, q)
    <2>1. \A pq \in Paths : pq[1] \in Members /\ pq[2] \in Members /\ <<pq[1], pq[2]>> = pq
      BY DEF Paths
    <2> QED
      BY <2>1 DEF Next, OpenStream, Receive, OnStreamOpen, Dropped, Write, Draw, ReadMessage,
             ReadEnd, Close, Reset, Shut, HandOn, Send, SendFails
  <1> QED
    BY <1>2, <1>3, <1>4, <1>5

\* What a step does to the chunks that are about to be sent.
WritingMoves ==
    /\ \A f \in writing' \ writing :
         f.of \in Ends /\ (ends[f.of].state = "open" \/ \E g \in writing : g.of = f.of)
    /\ \A f \in writing : f \in writing' \cup OnRelay' \cup lost'
    /\ \A k \in Ends : ends'[k].sent = ends[k].sent
                       \/ (ends'[k].sent = ends[k].sent + 1 /\ Chunk(k) \in writing')

LEMMA SameSent ==
  ASSUME \A k \in Ends : ends'[k].sent = ends[k].sent,
         \A f \in writing : f \in writing' \cup OnRelay' \cup lost', writing' \subseteq writing
  PROVE  WritingMoves
  BY DEF WritingMoves

LEMMA SentIsSomewhere ==
  ASSUME StreamInv, NEW f \in writing, Send(f)
  PROVE  f \in OnRelay' \cup lost'
  <1> DEFINE k == f.of
             s == relay[Way(k)]
  <1>1. TypeOK /\ f \in Frame /\ k \in Ends /\ f.kind = "data"
    BY DataIsFrame DEF TypeOK, StreamInv, ChunksAreWritten, Written, Data
  <1>2. Way(k) \in Paths /\ Way(k) = <<ends[k].at, ends[k].peer>>
    <2>1. ends[k].at \in Members /\ ends[k].peer \in Members /\ ends[k].at # ends[k].peer
      BY <1>1, EndsTyped, EndTyped DEF TypeOK, StreamInv, Names, EndsAreNamed, Named
    <2> QED
      BY <2>1 DEF Way, Paths
  <1>3. CASE ends[k].peer \in left
    BY <1>3 DEF Send
  <1>4. CASE ends[k].peer \notin left
    <2>1. relay' = [relay EXCEPT ![Way(k)] = Append(@, f)]
      BY <1>2, <1>4 DEF Send, Sent
    <2> HIDE DEF Way
    <2>2. relay'[Way(k)] = Append(s, f) /\ s \in Seq(Frame)
      BY <1>1, <1>2, <2>1 DEF TypeOK
    <2>3. \E i \in DOMAIN Append(s, f) : Append(s, f)[i] = f
      <3>1. /\ DOMAIN Append(s, f) = 1..(Len(s) + 1) /\ Append(s, f)[Len(s) + 1] = f
            /\ Len(s) \in Nat
        BY <1>1, <2>2, AppendProperties, LenProperties
      <3>2. Len(s) + 1 \in 1..(Len(s) + 1)
        BY <3>1
      <3> QED
        BY <3>1, <3>2
    <2>4. f \in OnRelay'
      BY <1>1, <1>2, <2>2, <2>3 DEF OnRelay, FramesOn
    <2> QED
      BY <2>4
  <1> QED
    BY <1>3, <1>4

SentStays == \A k \in Ends : ends'[k].sent = ends[k].sent

LEMMA GivenSends ==
  ASSUME StreamInv, ends' \in Seq(End), NEW k, NEW e, NEW f, Given(k, e, f)
  PROVE  SentStays
  <1>1. Reads(k, e, f) /\ ends'[k].sent = e.sent
    BY ReadEffect DEF Given
  <1> QED
    BY <1>1 DEF Reads, SentStays

LEMMA NextMovesWriting ==
  ASSUME StreamInv, WhoLeftIsDeaf, TypeOK', Next
  PROVE  WritingMoves
  <1>1. ends \in Seq(End) /\ ends' \in Seq(End)
    BY DEF StreamInv, TypeOK
  <1>2. ASSUME NEW k \in Ends, NEW rest, Draw(k, rest), rest \subseteq writing,
               ends[k].state = "open" \/ \E g \in writing : g.of = k,
               \A f \in writing \ rest : f \in OnRelay' \cup lost'
        PROVE  WritingMoves
    <2>1. writing' = rest \cup {Chunk(k)} /\ ends' = [ends EXCEPT ![k].sent = @ + 1]
      BY <1>2 DEF Draw
    <2>2. Chunk(k).of = k /\ Chunk(k) \in writing'
      BY <2>1 DEF Chunk
    <2>3. ends'[k].sent = ends[k].sent + 1 /\ \A j \in Ends \ {k} : ends'[j] = ends[j]
      <3>1. ends[k] \in End
        BY <1>1, EndsTyped
      <3> QED
        BY <2>1, <3>1 DEF Ends, End
    <2>4. \A j \in Ends : \/ ends'[j].sent = ends[j].sent
                          \/ (ends'[j].sent = ends[j].sent + 1 /\ Chunk(j) \in writing')
      BY <2>2, <2>3
    <2>5. \A f \in writing' \ writing : f = Chunk(k)
      BY <1>2, <2>1
    <2>6. \A f \in writing : f \in writing' \cup OnRelay' \cup lost'
      BY <1>2, <2>1
    <2> HIDE DEF Chunk
    <2> QED
      BY <1>2, <2>2, <2>4, <2>5, <2>6 DEF WritingMoves
  <1>3. ASSUME NEW k \in Ends, Write(k)
        PROVE  WritingMoves
    BY <1>2, <1>3 DEF Write
  <1>4. ASSUME NEW f \in writing, Send(f)
        PROVE  WritingMoves
    <2>1. f \in OnRelay' \cup lost' /\ f.of \in Ends
      BY <1>4, SentIsSomewhere DEF StreamInv, ChunksAreWritten, Written
    <2>2. CASE Draw(f.of, writing \ {f})
      BY <1>2, <2>1, <2>2
    <2>3. CASE writing' = writing \ {f} /\ UNCHANGED ends
      BY <2>1, <2>3, SameSent
    <2> QED
      BY <1>4, <2>2, <2>3 DEF Send
  <1>5. ASSUME NEW f \in writing, SendFails(f)
        PROVE  WritingMoves
    <2>1. writing' = writing \ {f} /\ f \in lost' /\ UNCHANGED ends
      BY <1>5 DEF SendFails
    <2> QED
      BY <2>1, SameSent
  <1>6. ASSUME NEW p \in Members, NEW q \in Members, <<p, q>> \in Paths,
               \/ OpenStream(p, q) \/ Receive(p, q) \/ OnStreamOpen(p, q)
               \/ OnMemberLeft(p, q) \/ Dropped(p, q)
        PROVE  SentStays
    <2>1. CASE Receive(p, q)
      <3>1. CASE Head(relay[<<p, q>>]).kind = "data"
        BY <1>1, <1>6, <2>1, <3>1, DataIsMade, GivenSends DEF Gets
      <3>2. CASE Head(relay[<<p, q>>]).kind # "data"
        <4>1. relay[<<p, q>>] \in Seq(Frame) /\ relay[<<p, q>>] # <<>>
          BY <1>6, <2>1 DEF StreamInv, TypeOK, Receive
        <4>2. OnClose(q, Head(relay[<<p, q>>])) /\ Head(relay[<<p, q>>]) \in Frame
          BY <2>1, <3>2, <4>1, TailTyped DEF Receive, OnData
        <4> QED
          BY <4>2, OnCloseStays DEF EndsStay, SameChunks, SentStays
      <3> QED
        BY <3>1, <3>2
    <2> QED
      BY <1>6, <2>1, OpenStreamIsQuiet, OnStreamOpenIsQuiet, OnMemberLeftIsQuiet, DroppedIsQuiet
      DEF Quiet, EndsStay, SameChunks, SentStays
  <1>7. ASSUME NEW p \in Members, CloseClient(p)
        PROVE  SentStays
    BY <1>7, CloseClientIsQuiet DEF Quiet, EndsStay, SameChunks, SentStays
  <1>8. ASSUME NEW k \in Ends,
               ReadMessage(k) \/ ReadEnd(k) \/ Close(k) \/ Reset(k) \/ HandOn(k)
        PROVE  SentStays
    <2>1. CASE HandOn(k)
      BY <1>1, <2>1, HandOnGives, GivenSends DEF Gets
    <2> QED
      BY <1>8, <2>1, ReadMessageIsQuiet, ReadEndIsQuiet, ShutIsQuiet
      DEF Quiet, EndsStay, SameChunks, SentStays
  <1>9. \/ \E k \in Ends : Write(k)
        \/ \E f \in writing : Send(f) \/ SendFails(f)
        \/ UNCHANGED writing /\ SentStays
    <2>1. \A pq \in Paths : pq[1] \in Members /\ pq[2] \in Members /\ <<pq[1], pq[2]>> \in Paths
      BY DEF Paths
    <2>2. \/ \E k \in Ends : Write(k)
          \/ \E f \in writing : Send(f) \/ SendFails(f)
          \/ UNCHANGED writing
      BY DEF Next, OpenStream, Receive, OnStreamOpen, OnMemberLeft, Dropped, CloseClient,
             ReadMessage, ReadEnd, Close, Reset, Shut, HandOn
    <2>3. \/ \E k \in Ends : Write(k)
          \/ \E f \in writing : Send(f) \/ SendFails(f)
          \/ SentStays
      BY <1>6, <1>7, <1>8, <2>1 DEF Next
    <2> QED
      BY <2>2, <2>3
  <1>10. CASE UNCHANGED writing /\ SentStays
    BY <1>10, SameSent DEF SentStays
  <1> QED
    BY <1>3, <1>4, <1>5, <1>9, <1>10

\* All of it.
StepMoves ==
    /\ Grows /\ EndsGrow /\ StatesMove /\ NewOnes /\ ReadsOn
    /\ PathsMove /\ OpensMove /\ LeavingMoves /\ WritingMoves

LEMMA NextMoves ==
  ASSUME StreamInv, WhoLeftIsDeaf, Next
  PROVE  StreamInv' /\ StepMoves
  <1>1. TypeOK' /\ StepKind
    BY NextIsKind
  <1>2. StreamInv'
    BY StepKeeps
  <1>3. Grows /\ EndsGrow /\ EndsMove /\ PathsMove /\ OpensMove /\ LeavingMoves /\ WritingMoves
    BY <1>1, NextGrows, KindsGrow, NextMovesEnds, NextMovesPaths, NextMovesOpens,
       NextMovesLeavers, NextMovesWriting
  <1>4. StatesMove /\ NewOnes /\ ReadsOn
    BY <1>1, <1>3, EndsMoved
  <1> QED
    BY <1>2, <1>3, <1>4 DEF StepMoves

-----------------------------------------------------------------------------
\* The parts of the invariant, one after the other.

LEMMA MembersNumbered == \A p \in Members : p \in Nat
  BY StreamConstants

\* Facts on ends.
LEMMA EndFacts ==
  ASSUME StreamInv, NEW k \in Ends
  PROVE  /\ ends[k] \in End /\ ends[k].at \in Members /\ ends[k].peer \in Members
         /\ ends[k].at # ends[k].peer /\ ends[k].id \in Nat /\ ends[k].sent \in Nat
         /\ ends[k].next \in Nat
         /\ Way(k) \in Paths /\ Way(k)[1] = ends[k].at /\ Way(k)[2] = ends[k].peer
         /\ <<ends[k].peer, ends[k].at>> \in Paths
  <1>1. ends[k] \in End
    BY EndsTyped DEF StreamInv, TypeOK
  <1>2. ends[k].at # ends[k].peer
    BY DEF StreamInv, Names, EndsAreNamed, Named
  <1> QED
    BY <1>1, <1>2, EndTyped DEF Way, Paths

\* A path that was empty and is not any more.
LEMMA WhereSomethingGoes ==
  ASSUME StreamInv, PathsMove, NEW pq \in Paths, relay[pq] = <<>>, relay'[pq] # <<>>
  PROVE  pq[1] \notin left /\ pq[2] \notin left /\ UNCHANGED <<left, peers>>
  BY DEF PathsMove, MovesOn, Goes

LEMMA DeafStayDeaf ==
  ASSUME StreamInv, WhoLeftIsDeaf, StepMoves
  PROVE  WhoLeftIsDeaf'
  <1> SUFFICES ASSUME NEW p \in left'
               PROVE  /\ \A pq \in Paths : pq[2] = p => relay'[pq] = <<>> /\ control'[pq] = <<>>
                      /\ \A k \in DOMAIN ends' : ends'[k].at = p => ends'[k].state # "open"
    BY DEF WhoLeftIsDeaf, Ends, Paths
  <1>1. CASE p \notin left
    BY <1>1 DEF StepMoves, LeavingMoves
  <1>2. CASE p \in left
    <2>1. ASSUME NEW pq \in Paths, pq[2] = p
          PROVE  relay'[pq] = <<>> /\ control'[pq] = <<>>
      <3>1. relay[pq] = <<>> /\ control[pq] = <<>>
        BY <1>2, <2>1 DEF WhoLeftIsDeaf
      <3>2. relay'[pq] = <<>>
        BY <1>2, <2>1, <3>1, WhereSomethingGoes DEF StepMoves
      <3> QED
        BY <1>2, <2>1, <3>1, <3>2 DEF StepMoves, OpensMove
    <2>2. ASSUME NEW k \in Ends, ends'[k].at = p
          PROVE  ends'[k].state # "open"
      <3>1. ends[k].state # "open"
        BY <1>2, <2>2 DEF WhoLeftIsDeaf, StepMoves, EndsGrow, SameName
      <3> QED
        BY <3>1 DEF StepMoves, StatesMove, Shuts, Find
    <2>3. ASSUME NEW k \in DOMAIN ends' \ Ends
          PROVE  ends'[k].at # p
      <3>1. PICK e : Made(e) /\ GrowsBy(k, e)
        BY DEF StepMoves, NewOnes
      <3> QED
        BY <1>2, <3>1 DEF Made, GrowsBy, SameName
    <2> QED
      BY <2>1, <2>2, <2>3
  <1> QED
    BY <1>1, <1>2

LEMMA SilentStaySilent ==
  ASSUME StreamInv, WhoIsRemovedIsSilent, StepMoves
  PROVE  WhoIsRemovedIsSilent'
  <1> SUFFICES ASSUME NEW pq \in Paths, pq[1] \notin peers'[pq[2]]
               PROVE  pq[1] \in left' /\ relay'[pq] = <<>>
    BY DEF WhoIsRemovedIsSilent, Paths
  <1>1. left \subseteq left'
    BY DEF StepMoves, Grows
  <1>2. CASE pq[1] \in peers[pq[2]]
    BY <1>1, <1>2 DEF StepMoves, LeavingMoves
  <1>3. CASE pq[1] \notin peers[pq[2]]
    <2>1. pq[1] \in left /\ relay[pq] = <<>>
      BY <1>3 DEF WhoIsRemovedIsSilent
    <2> QED
      BY <1>1, <2>1, WhereSomethingGoes DEF StepMoves
  <1> QED
    BY <1>2, <1>3

\* Only Shuts makes an end closed or cut, only Hears makes it ended, and none of
\* these is ever undone.
LEMMA StatesAre ==
  ASSUME StepMoves, NEW k \in Ends
  PROVE  /\ ends[k].state # "open" => ends'[k].state = ends[k].state
         /\ ends'[k].state = "open" => ends[k].state = "open"
         /\ ends'[k].state \in {"closed", "cut"} => ends[k].state = ends'[k].state \/ Shuts(k)
         /\ ends'[k].state = "ended" =>
              \/ ends[k].state = "ended"
              \/ /\ k \in Find(ends[k].at, ends[k].id)
                 /\ \E p : Hears(p, ends[k].at, ends[k].id)
         /\ ends'[k].state = "left" => ends[k].state = "left" \/ Departed(ends[k])'
  <1>1. Shuts(k) => ends[k].state = "open" /\ ends'[k].state \in {"closed", "cut"}
    BY DEF Shuts
  <1>2. k \in Find(ends[k].at, ends[k].id) => ends[k].state = "open"
    BY DEF Find
  <1>3. ASSUME NEW p, Hears(p, ends[k].at, ends[k].id), k \in Find(ends[k].at, ends[k].id)
        PROVE  ends'[k].state = "ended"
    BY <1>3 DEF Hears
  <1>4. \/ ends'[k].state = ends[k].state
        \/ ends[k].state = "open" /\ ends'[k].state = "left" /\ Departed(ends[k])'
        \/ Shuts(k)
        \/ k \in Find(ends[k].at, ends[k].id) /\ \E p : Hears(p, ends[k].at, ends[k].id)
    BY DEF StepMoves, StatesMove
  <1> QED
    BY <1>1, <1>2, <1>3, <1>4

LEMMA NewIsOpen ==
  ASSUME StepMoves, NEW k \in DOMAIN ends' \ Ends
  PROVE  ends'[k].state = "open"
  BY DEF StepMoves, NewOnes, Made, GrowsBy, Fresh

LEMMA TailPlaces ==
  ASSUME NEW S, NEW s \in Seq(S), s # <<>>
  PROVE  /\ \A i \in DOMAIN Tail(s) : i + 1 \in DOMAIN s /\ Tail(s)[i] = s[i + 1]
         /\ DOMAIN Tail(s) \subseteq Nat \ {0}
  <1>1. /\ Tail(s) \in Seq(S) /\ Len(Tail(s)) = Len(s) - 1
        /\ \A i \in 1..Len(Tail(s)) : Tail(s)[i] = s[i + 1]
    BY HeadTailProperties
  <1>2. /\ Len(s) \in Nat \ {0} /\ DOMAIN s = 1..Len(s) /\ DOMAIN Tail(s) = 1..Len(Tail(s))
    BY <1>1, EmptySeq, LenProperties
  <1> QED
    BY <1>1, <1>2

LEMMA AppendPlaces ==
  ASSUME NEW S, NEW s \in Seq(S), NEW f \in S
  PROVE  /\ \A i \in DOMAIN Append(s, f) :
              \/ i \in DOMAIN s /\ Append(s, f)[i] = s[i]
              \/ i = Len(s) + 1 /\ Append(s, f)[i] = f
         /\ \A i \in DOMAIN s : i < Len(s) + 1
         /\ Len(s) + 1 \in DOMAIN Append(s, f) /\ DOMAIN s \subseteq DOMAIN Append(s, f)
         /\ Len(s) \in Nat /\ DOMAIN s \subseteq Nat
  <1>1. /\ Append(s, f) \in Seq(S) /\ Len(Append(s, f)) = Len(s) + 1
        /\ \A i \in 1..Len(s) : Append(s, f)[i] = s[i]
        /\ Append(s, f)[Len(s) + 1] = f
    BY AppendProperties
  <1>2. Len(s) \in Nat /\ DOMAIN s = 1..Len(s) /\ DOMAIN Append(s, f) = 1..(Len(s) + 1)
    BY <1>1, LenProperties
  <1> QED
    BY <1>1, <1>2

LEMMA NamesStay ==
  ASSUME StepMoves, NEW k \in Ends
  PROVE  /\ k \in DOMAIN ends'
         /\ ends'[k].at = ends[k].at /\ ends'[k].peer = ends[k].peer
         /\ ends'[k].id = ends[k].id /\ ends'[k].mine = ends[k].mine
         /\ Way(k)' = Way(k)
  BY DEF StepMoves, EndsGrow, SameName, Way

LEMMA DepartureStays ==
  ASSUME StreamInv, AbandonedByDeparture, StepMoves
  PROVE  AbandonedByDeparture'
  <1> SUFFICES ASSUME NEW k \in DOMAIN ends', ends'[k].state = "left"
               PROVE  Departed(ends[k])'
    BY DEF AbandonedByDeparture, Ends
  <1>1. k \in Ends
    BY NewIsOpen
  <1>2. CASE ends[k].state = "left"
    <2>1. ends[k].at \in left \/ ends[k].peer \notin peers[ends[k].at]
      BY <1>1, <1>2 DEF AbandonedByDeparture, Departed
    <2>2. left \subseteq left' /\ peers'[ends[k].at] \subseteq peers[ends[k].at]
      BY <1>1, EndFacts DEF StepMoves, Grows
    <2> QED
      BY <1>1, <2>1, <2>2, NamesStay DEF Departed
  <1> QED
    BY <1>1, <1>2, StatesAre

LEMMA OverStaysRemembered ==
  ASSUME StreamInv, OverIsRemembered, StepMoves
  PROVE  OverIsRemembered'
  <1> SUFFICES ASSUME NEW k \in DOMAIN ends', ends'[k].state \in {"closed", "cut", "ended"}
               PROVE  ends'[k].id \in closedIds'[ends'[k].at]
    BY DEF OverIsRemembered, Ends
  <1>1. k \in Ends
    BY NewIsOpen
  <1>2. closedIds[ends[k].at] \subseteq closedIds'[ends[k].at]
    BY <1>1, EndFacts DEF StepMoves, Grows
  <1>3. ends[k].id \in closedIds'[ends[k].at]
    <2>1. CASE ends[k].state \in {"closed", "cut", "ended"}
      BY <1>1, <1>2, <2>1 DEF OverIsRemembered
    <2>2. CASE Shuts(k)
      BY <2>2 DEF Shuts
    <2>3. ASSUME NEW p, Hears(p, ends[k].at, ends[k].id), k \in Find(ends[k].at, ends[k].id)
          PROVE  ends[k].id \in closedIds'[ends[k].at]
      BY <2>3 DEF Hears, Busy
    <2> QED
      BY <1>1, <2>1, <2>2, <2>3, StatesAre
  <1> QED
    BY <1>1, <1>3, NamesStay

\* What was closed stays so.
LEMMA ClosedAtStays ==
  ASSUME StreamInv, StepMoves, NEW p, NEW q, NEW id, ClosedAt(p, q, id)
  PROVE  ClosedAt(p, q, id)'
  <1>1. PICK y \in Ends : /\ ends[y].at = p /\ ends[y].peer = q /\ ends[y].id = id
                          /\ ends[y].state \in {"closed", "cut"}
    BY DEF ClosedAt
  <1>2. ends'[y].state = ends[y].state
    BY <1>1, StatesAre
  <1> QED
    BY <1>1, <1>2, NamesStay DEF ClosedAt, Ends

\* What a path carries afterwards.
LEMMA CarriedAfter ==
  ASSUME StreamInv, PathsMove, NEW pq \in Paths, NEW f \in Carried(pq)'
  PROVE  \/ f \in Carried(pq)
         \/ f \in Frame /\ Goes(pq, f)
  <1>1. relay[pq] \in Seq(Frame)
    BY DEF StreamInv, TypeOK
  <1>2. MovesOn(pq)
    BY DEF PathsMove
  <1>3. CASE relay'[pq] = relay[pq]
    BY <1>3 DEF Carried
  <1>4. CASE relay'[pq] = <<>>
    BY <1>4, EmptySeq DEF Carried
  <1>5. CASE relay[pq] # <<>> /\ relay'[pq] = Tail(relay[pq])
    <2>1. \A i \in DOMAIN Tail(relay[pq]) : i + 1 \in DOMAIN relay[pq]
                                            /\ Tail(relay[pq])[i] = relay[pq][i + 1]
      BY <1>1, <1>5, TailPlaces
    <2> QED
      BY <1>5, <2>1 DEF Carried
  <1>6. ASSUME NEW g \in Frame, relay'[pq] = Append(relay[pq], g), Goes(pq, g)
        PROVE  f \in Carried(pq) \/ (f \in Frame /\ Goes(pq, f))
    <2>1. \A i \in DOMAIN Append(relay[pq], g) :
             \/ i \in DOMAIN relay[pq] /\ Append(relay[pq], g)[i] = relay[pq][i]
             \/ Append(relay[pq], g)[i] = g
      BY <1>1, AppendPlaces
    <2> QED
      BY <1>6, <2>1 DEF Carried
  <1> QED
    BY <1>2, <1>3, <1>4, <1>5, <1>6 DEF MovesOn

LEMMA ClosesStayMade ==
  ASSUME StreamInv, ClosesAreMade, StepMoves
  PROVE  ClosesAreMade'
  <1> SUFFICES ASSUME NEW pq \in Paths, NEW f \in Carried(pq)', f.kind # "data"
               PROVE  ClosedAt(pq[1], pq[2], f.id)'
    BY DEF ClosesAreMade, Paths
  <1>1. CASE f \in Carried(pq)
    BY <1>1, ClosedAtStays DEF ClosesAreMade
  <1>2. CASE Goes(pq, f)
    <2>1. f \notin writing
      BY DEF StreamInv, TypeOK, Data
    <2>2. PICK k \in Ends : Way(k) = pq /\ ends[k].id = f.id /\ Shuts(k)
      BY <1>2, <2>1 DEF Goes
    <2>3. ends'[k].state \in {"closed", "cut"}
      BY <2>2 DEF Shuts
    <2>4. pq[1] = ends[k].at /\ pq[2] = ends[k].peer
      BY <2>2, EndFacts
    <2> QED
      BY <2>2, <2>3, <2>4, NamesStay DEF ClosedAt, Ends
  <1> QED
    BY <1>1, <1>2, CarriedAfter DEF StepMoves

\* The close frame that is heard.
LEMMA HeardWasClosed ==
  ASSUME StreamInv, ClosesAreMade, NEW p, NEW q, NEW id, Hears(p, q, id)
  PROVE  ClosedAt(p, q, id) /\ p \in Members /\ q \in Members
  <1>1. <<p, q>> \in Paths /\ relay[<<p, q>>] # <<>> /\ p \in Members /\ q \in Members
    BY DEF Hears
  <1>2. /\ Head(relay[<<p, q>>]) \in Carried(<<p, q>>)
        /\ Head(relay[<<p, q>>]).kind # "data" /\ Head(relay[<<p, q>>]).id = id
    BY <1>1, HeadIsCarried DEF StreamInv, Hears
  <1>3. <<p, q>>[1] = p /\ <<p, q>>[2] = q
    OBVIOUS
  <1> QED
    BY <1>1, <1>2, <1>3 DEF ClosesAreMade

LEMMA EndedStaysClosed ==
  ASSUME StreamInv, ClosesAreMade, EndedWasClosed, StepMoves
  PROVE  EndedWasClosed'
  <1> SUFFICES ASSUME NEW x \in DOMAIN ends', ends'[x].state = "ended"
               PROVE  \E p \in Members : ClosedAt(p, ends[x].at, ends[x].id)'
    BY DEF EndedWasClosed, Ends, ClosedAt
  <1>1. x \in Ends
    BY NewIsOpen
  <1>2. \E p \in Members : ClosedAt(p, ends[x].at, ends[x].id)
    <2>1. CASE ends[x].state = "ended"
      BY <1>1, <2>1 DEF EndedWasClosed
    <2>2. CASE \E p : Hears(p, ends[x].at, ends[x].id)
      BY <2>2, HeardWasClosed
    <2> QED
      BY <1>1, <2>1, <2>2, StatesAre
  <1>3. PICK p \in Members : ClosedAt(p, ends[x].at, ends[x].id)
    BY <1>2
  <1>4. PICK q, id : q = ends[x].at /\ id = ends[x].id
    OBVIOUS
  <1>5. ClosedAt(p, q, id)'
    BY <1>3, <1>4, ClosedAtStays
  <1>6. ends'[x].at = q /\ ends'[x].id = id
    BY <1>1, <1>4, NamesStay
  <1> QED
    BY <1>5, <1>6 DEF ClosedAt

LEMMA ClosedStaysWritten ==
  ASSUME StreamInv, ClosedIsWritten, StepMoves
  PROVE  ClosedIsWritten'
  <1> SUFFICES ASSUME NEW k \in DOMAIN ends', ends'[k].state = "closed", NEW f \in writing',
                      f.of = k
               PROVE  FALSE
    BY DEF ClosedIsWritten, Ends
  <1>1. k \in Ends
    BY NewIsOpen
  <1>2. CASE ends[k].state = "closed"
    <2>1. \A g \in writing : g.of # k
      BY <1>1, <1>2 DEF ClosedIsWritten
    <2>2. f \in writing' \ writing
      BY <2>1
    <2> QED
      BY <1>2, <2>1, <2>2 DEF StepMoves, WritingMoves
  <1>3. CASE Shuts(k)
    BY <1>3 DEF Shuts
  <1> QED
    BY <1>1, <1>2, <1>3, StatesAre

LEMMA EndedStaysRead ==
  ASSUME StreamInv, TypeOK', EndedIsRead, StepMoves
  PROVE  EndedIsRead'
  <1> SUFFICES ASSUME NEW x \in DOMAIN ends', ends'[x].state = "ended"
               PROVE  Ready(x)' = {}
    BY DEF EndedIsRead, Ends
  <1>1. x \in Ends
    BY NewIsOpen
  <1>2. Ready(x) = {}
    <2>1. CASE ends[x].state = "ended"
      BY <1>1, <2>1 DEF EndedIsRead
    <2>2. ASSUME NEW p, Hears(p, ends[x].at, ends[x].id), x \in Find(ends[x].at, ends[x].id)
          PROVE  Ready(x) = {}
      BY <2>2 DEF Hears
    <2> QED
      BY <1>1, <2>1, <2>2, StatesAre
  <1>3. SameReading(x)
    <2>1. ASSUME NEW f, Gets(x, ends[x], f)
          PROVE  FALSE
      <3>1. ends[x].state = "open"
        BY <1>1, <1>2, <2>1 DEF Gets
      <3>2. ends'[x].state = "open"
        <4>1. ends' \in Seq(End)
          BY DEF TypeOK
        <4> QED
          BY <1>1, <2>1, <3>1, <4>1, GetsEffect DEF GrowsBy
      <3> QED
        BY <3>2
    <2> QED
      BY <1>1, <2>1 DEF StepMoves, ReadsOn
  <1> QED
    BY <1>2, <1>3 DEF Ready, SameReading

\* Nothing is put into the queue of an ended stream.
LEMMA NothingIsAdded ==
  ASSUME StreamInv, WhoLeftIsDeaf, EndedIsRead, Next,
         NEW x \in Ends, ends[x].state = "ended", ends[x].unread = 0
  PROVE  ends'[x].unread = 0
  <1>1. ends \in Seq(End) /\ Ready(x) = {}
    BY DEF StreamInv, TypeOK, EndedIsRead
  <1>2. CASE ends'[x] = ends[x]
    BY <1>2
  <1>3. ASSUME NEW e, e \in End, ends' = Append(ends, e)
        PROVE  ends'[x] = ends[x]
    BY <1>1, <1>3, EndsTyped, AppendProperties
  <1>4. ASSUME NEW k, NEW e, NEW f, Gets(k, e, f)
        PROVE  ends'[x] = ends[x]
    BY <1>1, <1>4 DEF Gets, Given, Reads
  <1>5. ASSUME NEW ks, ends' = Abandoned(ks)
        PROVE  ends'[x] = ends[x]
    BY <1>5 DEF Abandoned
  <1>6. ASSUME NEW p \in Members, NEW q \in Members, <<p, q>> \in Paths,
               \/ OpenStream(p, q) \/ Receive(p, q) \/ OnStreamOpen(p, q)
               \/ OnMemberLeft(p, q) \/ Dropped(p, q)
        PROVE  ends'[x] = ends[x]
    <2>1. CASE OpenStream(p, q)
      <3>1. PICK id \in Nat : ends' = Append(ends, NewEnd(p, q, id, TRUE))
        BY <2>1, IdIsDrawn
      <3>2. NewEnd(p, q, id, TRUE) \in End
        BY <3>1, NewEndTyped
      <3> QED
        BY <1>3, <3>1, <3>2
    <2>2. CASE Receive(p, q)
      <3>1. CASE Head(relay[<<p, q>>]).kind = "data"
        BY <1>4, <1>6, <2>2, <3>1, DataIsMade
      <3>2. CASE Head(relay[<<p, q>>]).kind # "data"
        <4>1. OnClose(q, Head(relay[<<p, q>>]))
          BY <2>2, <3>2 DEF Receive, OnData
        <4> QED
          BY <4>1 DEF OnClose, Find
      <3> QED
        BY <3>1, <3>2
    <2>3. CASE OnStreamOpen(p, q)
      <3>1. Head(control[<<p, q>>]) \in Nat
        BY <1>6, <2>3, TailTyped DEF OnStreamOpen, StreamInv, TypeOK
      <3>2. NewEnd(q, p, Head(control[<<p, q>>]), FALSE) \in End
        BY <3>1, NewEndTyped
      <3> QED
        BY <1>3, <2>3, <3>2 DEF OnStreamOpen
    <2>4. CASE OnMemberLeft(p, q)
      BY <1>5, <2>4 DEF OnMemberLeft
    <2>5. CASE Dropped(p, q)
      BY <2>5 DEF Dropped
    <2> QED
      BY <1>6, <2>1, <2>2, <2>3, <2>4, <2>5
  <1>7. ASSUME NEW p \in Members, CloseClient(p)
        PROVE  ends'[x] = ends[x]
    BY <1>5, <1>7 DEF CloseClient
  <1>8. ASSUME NEW k \in Ends,
               \/ Write(k) \/ ReadMessage(k) \/ ReadEnd(k)
               \/ Close(k) \/ Reset(k) \/ HandOn(k)
        PROVE  ends'[x] = ends[x]
    <2>1. CASE Write(k)
      BY <2>1 DEF Write, Draw, Ends
    <2>2. CASE ReadMessage(k)
      BY <2>2 DEF ReadMessage, Ends
    <2>3. CASE ReadEnd(k)
      BY <2>3 DEF ReadEnd
    <2>4. CASE Close(k) \/ Reset(k)
      BY <2>4 DEF Close, Reset, Shut, Ends
    <2>5. CASE HandOn(k)
      BY <1>4, <2>5, HandOnGives
    <2> QED
      BY <1>8, <2>1, <2>2, <2>3, <2>4, <2>5
  <1>9. ASSUME NEW f \in writing, Send(f) \/ SendFails(f)
        PROVE  ends'[x].unread = 0
    <2>1. f.of \in Ends /\ ends[x] \in End
      BY <1>1, EndsTyped DEF StreamInv, ChunksAreWritten, Written
    <2>2. ends' = ends \/ ends' = [ends EXCEPT ![f.of].sent = @ + 1]
      BY <1>9 DEF Send, SendFails, Draw
    <2> QED
      BY <2>1, <2>2 DEF Ends, End
  <1>10. \A pq \in Paths : pq[1] \in Members /\ pq[2] \in Members /\ <<pq[1], pq[2]>> \in Paths
    BY DEF Paths
  <1> QED
    BY <1>2, <1>6, <1>7, <1>8, <1>9, <1>10 DEF Next

LEMMA ToldHaveStillRead ==
  ASSUME EndInv, Next, StepMoves
  PROVE  ToldHasRead'
  <1> SUFFICES ASSUME NEW k \in told'
               PROVE  /\ k \in DOMAIN ends' /\ ends'[k].state # "open"
                      /\ ends'[k].state = "ended" => ends'[k].unread = 0
    BY DEF ToldHasRead, Ends
  <1>1. CASE k \in told
    <2>1. k \in Ends /\ ends[k].state # "open" /\ ends'[k].state = ends[k].state
      BY <1>1, StatesAre DEF EndInv, ToldHasRead
    <2>2. k \in DOMAIN ends'
      BY <2>1 DEF StepMoves, EndsGrow
    <2>3. CASE ends[k].state = "ended"
      <3>1. ends[k].unread = 0
        BY <1>1, <2>3 DEF EndInv, ToldHasRead
      <3> QED
        BY <2>1, <2>2, <2>3, <3>1, NothingIsAdded DEF EndInv
    <2> QED
      BY <2>1, <2>2, <2>3
  <1>2. CASE k \notin told
    <2>1. \E l \in Ends : ReadEnd(l)
      BY <1>2 DEF Next, OpenStream, Receive, OnStreamOpen, OnMemberLeft, Dropped, CloseClient,
             Write, ReadMessage, Close, Reset, Shut, HandOn, Send, SendFails
    <2>2. k \in Ends /\ Drained(ends[k]) /\ ends' = ends
      BY <1>2, <2>1 DEF ReadEnd
    <2> QED
      BY <2>2 DEF Drained, Ends
  <1> QED
    BY <1>1, <1>2

LEMMA PlacesOfTail ==
  ASSUME NEW S, NEW s \in Seq(S), s # <<>>, NEW i \in DOMAIN s, i # 1
  PROVE  \E j \in DOMAIN Tail(s) : i = j + 1 /\ Tail(s)[j] = s[i]
  <1>1. /\ Tail(s) \in Seq(S) /\ Len(Tail(s)) = Len(s) - 1
        /\ \A j \in 1..Len(Tail(s)) : Tail(s)[j] = s[j + 1]
    BY HeadTailProperties
  <1>2. /\ Len(s) \in Nat \ {0} /\ DOMAIN s = 1..Len(s) /\ DOMAIN Tail(s) = 1..Len(Tail(s))
    BY <1>1, EmptySeq, LenProperties
  <1>3. i - 1 \in 1..Len(Tail(s)) /\ i = (i - 1) + 1
    BY <1>1, <1>2
  <1> QED
    BY <1>1, <1>2, <1>3

LEMMA PlacesOfAppend ==
  ASSUME NEW S, NEW s \in Seq(S), NEW f \in S, NEW i \in DOMAIN s
  PROVE  i \in DOMAIN Append(s, f) /\ Append(s, f)[i] = s[i]
  <1>1. /\ Append(s, f) \in Seq(S) /\ Len(Append(s, f)) = Len(s) + 1
        /\ \A j \in 1..Len(s) : Append(s, f)[j] = s[j]
    BY AppendProperties
  <1>2. Len(s) \in Nat /\ DOMAIN s = 1..Len(s) /\ DOMAIN Append(s, f) = 1..(Len(s) + 1)
    BY <1>1, LenProperties
  <1> QED
    BY <1>1, <1>2

LEMMA OpensStayMine ==
  ASSUME StreamInv, OpensAreMine, StepMoves
  PROVE  OpensAreMine'
  <1> SUFFICES ASSUME NEW pq \in Paths, NEW id \in Opened(pq)'
               PROVE  \E y \in DOMAIN ends' : /\ ends'[y].at = pq[1] /\ ends'[y].peer = pq[2]
                                              /\ ends'[y].id = id /\ ends'[y].mine
    BY DEF OpensAreMine, Ends, Paths
  <1>1. CASE id \in Opened(pq)
    <2>1. PICK y \in Ends : /\ ends[y].at = pq[1] /\ ends[y].peer = pq[2]
                            /\ ends[y].id = id /\ ends[y].mine
      BY <1>1 DEF OpensAreMine
    <2> QED
      BY <2>1, NamesStay
  <1> QED
    BY <1>1 DEF StepMoves, OpensMove

\* Who opened a stream that an open announces, and who wrote a chunk that overtook it.
LEMMA AnnouncedBy ==
  ASSUME OpensAreMine, NEW e \in End, e.at # e.peer, Announced(e)
  PROVE  \E y \in Ends : /\ ends[y].at = e.peer /\ ends[y].peer = e.at
                         /\ ends[y].id = e.id /\ ends[y].mine
  <1>1. <<e.peer, e.at>> \in Paths /\ <<e.peer, e.at>>[1] = e.peer /\ <<e.peer, e.at>>[2] = e.at
    BY EndTyped DEF Paths
  <1> QED
    BY <1>1 DEF OpensAreMine, Announced

\* A chunk on its way is one of the end that goes that way.
LEMMA ChunkOnItsWay ==
  ASSUME StreamInv, NEW pq \in Paths, NEW f \in Carried(pq), f.kind = "data"
  PROVE  /\ f \in Data /\ f \in OnRelay /\ f.of \in Ends /\ f.id = ends[f.of].id
         /\ ends[f.of].at = pq[1] /\ ends[f.of].peer = pq[2] /\ Way(f.of) = pq
         /\ IsChunk(f, f.of)
  <1>1. f \in OnRelay /\ f \in ChunksOn(pq)
    BY DEF OnRelay, ChunksOn, FramesOn, Carried
  <1>2. f.of \in Ends /\ f.id = ends[f.of].id
    BY <1>1 DEF StreamInv, ChunksAreWritten, Written
  <1>3. ends[f.of].at = pq[1] /\ ends[f.of].peer = pq[2]
    BY <1>1 DEF StreamInv, Names, FramesAreRouted, Routed
  <1>4. Way(f.of) = pq
    BY <1>3 DEF Way, Paths
  <1>5. f \in Data
    BY <1>1, OnRelayMeans DEF StreamInv, TypeOK
  <1> QED
    BY <1>1, <1>2, <1>3, <1>4, <1>5 DEF IsChunk

LEMMA OvertakenBy ==
  ASSUME StreamInv, NEW e \in End, e.at # e.peer, Overtaken(e)
  PROVE  \E y \in Ends : /\ ends[y].at = e.peer /\ ends[y].peer = e.at /\ ends[y].id = e.id
                         /\ \E f \in Carried(Way(y)) : IsChunk(f, y)
  <1>1. <<e.peer, e.at>> \in Paths /\ <<e.peer, e.at>>[1] = e.peer /\ <<e.peer, e.at>>[2] = e.at
    BY EndTyped DEF Paths
  <1>2. PICK f \in Carried(<<e.peer, e.at>>) : f.kind = "data" /\ f.id = e.id
    BY DEF Overtaken
  <1> QED
    BY <1>1, <1>2, ChunkOnItsWay

LEMMA ParitiesDiffer ==
  ASSUME NEW p \in Members, NEW q \in Members, p # q
  PROVE  Parity(p, q) # Parity(q, p) /\ Parity(p, q) \in {0, 1} /\ Parity(q, p) \in {0, 1}
  BY MembersNumbered DEF Parity

LEMMA DrawnStays ==
  ASSUME StreamInv, TypeOK', Grows, NEW p \in Members, NEW q \in Members, NEW id \in Nat,
         Drawn(p, q, id)
  PROVE  Drawn(p, q, id)'
  <1>1. Parity(p, q) \in {0, 1}
    BY DEF Parity
  <1>2. nextId[p][Parity(p, q)] \in Nat /\ nextId'[p][Parity(p, q)] \in Nat
    BY <1>1 DEF StreamInv, TypeOK
  <1>3. nextId[p][Parity(p, q)] <= nextId'[p][Parity(p, q)]
    BY <1>1 DEF Grows
  <1> QED
    BY <1>2, <1>3 DEF Drawn, Parity

LEMMA IdsStayDrawn ==
  ASSUME StreamInv, TypeOK', IdsAreDrawn, OpensAreMine, StepMoves
  PROVE  IdsAreDrawn'
  <1> SUFFICES ASSUME NEW k \in DOMAIN ends'
               PROVE  /\ Drawn(ends[k].at, ends[k].peer, ends[k].id)'
                      /\ Drawn(ends[k].peer, ends[k].at, ends[k].id)'
    BY DEF IdsAreDrawn, Ends
  <1>1. ASSUME NEW y \in Ends
        PROVE  /\ Drawn(ends[y].at, ends[y].peer, ends[y].id)'
               /\ Drawn(ends[y].peer, ends[y].at, ends[y].id)'
    <2>1. PICK p \in Members, q \in Members, id \in Nat :
            p = ends[y].at /\ q = ends[y].peer /\ id = ends[y].id
      BY EndFacts
    <2>2. Drawn(p, q, id)' /\ Drawn(q, p, id)'
      BY <2>1, DrawnStays DEF IdsAreDrawn, StepMoves
    <2>3. ends'[y].at = p /\ ends'[y].peer = q /\ ends'[y].id = id
      BY <2>1, NamesStay
    <2> QED
      BY <2>2, <2>3 DEF Drawn, Parity
  <1>2. ASSUME k \notin Ends
        PROVE  /\ Drawn(ends[k].at, ends[k].peer, ends[k].id)'
               /\ Drawn(ends[k].peer, ends[k].at, ends[k].id)'
    <2>1. PICK e : Made(e) /\ SameName(e, ends'[k])
      BY <1>2 DEF StepMoves, NewOnes, GrowsBy
    <2>2. /\ e \in End /\ e.at # e.peer /\ e.at \in Members /\ e.peer \in Members /\ e.id \in Nat
          /\ ends'[k].at = e.at /\ ends'[k].peer = e.peer /\ ends'[k].id = e.id
      BY <2>1, EndTyped DEF Made, SameName
    <2>3. CASE Opens(e)
      <3>1. e.id % 2 = Parity(e.at, e.peer) /\ e.id < nextId'[e.at][Parity(e.at, e.peer)]
        BY <2>3 DEF Opens
      <3>2. Parity(e.at, e.peer) # Parity(e.peer, e.at)
        BY <2>2, ParitiesDiffer
      <3> QED
        BY <2>2, <3>1, <3>2 DEF Drawn, Parity
    <2>4. CASE Announced(e) \/ Overtaken(e)
      <3>1. PICK y \in Ends : ends[y].at = e.peer /\ ends[y].peer = e.at /\ ends[y].id = e.id
        BY <2>2, <2>4, AnnouncedBy, OvertakenBy
      <3>2. ends'[y].at = e.peer /\ ends'[y].peer = e.at /\ ends'[y].id = e.id
        BY <3>1, NamesStay
      <3> QED
        BY <1>1, <2>2, <3>1, <3>2 DEF Drawn, Parity
    <2> QED
      BY <2>1, <2>3, <2>4 DEF Made
  <1> QED
    BY <1>1, <1>2

\* Nothing is mislaid.
LEMMA GetsKeeps ==
  ASSUME StreamInv, TypeOK', NEW k, NEW e, NEW f, Gets(k, e, f)
  PROVE  /\ f \in Everywhere'
         /\ \A g \in e.buf \cup {e.got[i] : i \in DOMAIN e.got} : g \in Everywhere'
         /\ {e.got[i] : i \in DOMAIN e.got} \subseteq TakenBy(k)'
         /\ f.seq = e.next => f \in TakenBy(k)' \cup lost'
  <1> DEFINE x == Delivered(e, f)
             taken == {x.got[i] : i \in DOMAIN x.got}
  <1>1. /\ e \in End /\ f \in Data /\ k \in DOMAIN ends'
        /\ ends'[k] = x /\ lost' = lost \cup LostBy(e, f)
    BY DEF Gets, Given, Reads
  <1>2. taken = TakenBy(k)'
    BY <1>1 DEF TakenBy
  <1>3. /\ e.buf \cup {f} \subseteq x.buf \cup taken \cup LostBy(e, f)
        /\ {e.got[i] : i \in DOMAIN e.got} \subseteq taken
    BY <1>1, DeliveredKeeps
  <1>4. f.seq = e.next => f \notin x.buf
    <2>1. f.seq = e.next => x = Handed(e, f)
      BY DEF Delivered, Awaited
    <2> QED
      BY <1>1, <2>1, HandedEffect
  <1> HIDE DEF x, taken
  <1>5. x.buf \cup taken \cup LostBy(e, f) \subseteq Everywhere'
    <2>1. x.buf \cup taken \subseteq Everywhere'
      BY <1>1, <1>2 DEF Everywhere, Ends
    <2>2. LostBy(e, f) \subseteq Everywhere'
      BY <1>1 DEF Everywhere
    <2> QED
      BY <2>1, <2>2
  <1> QED
    BY <1>1, <1>2, <1>3, <1>4, <1>5

LEMMA NothingIsMislaid ==
  ASSUME StreamInv, TypeOK', StepMoves, NEW f \in Data, f \in Everywhere
  PROVE  f \in Everywhere'
  <1>1. CASE f \in writing
    BY <1>1 DEF StepMoves, WritingMoves, Everywhere
  <1>2. CASE f \in OnRelay
    <2>1. PICK pq \in Paths : \E j \in DOMAIN relay[pq] : f = relay[pq][j] /\ f.kind = "data"
      BY <1>2 DEF OnRelay, FramesOn
    <2>2. PICK i \in DOMAIN relay[pq] : f = relay[pq][i] /\ f.kind = "data"
      BY <2>1
    <2>3. relay[pq] \in Seq(Frame) /\ MovesOn(pq)
      BY DEF StreamInv, TypeOK, StepMoves, PathsMove
    <2>4. ASSUME NEW j \in DOMAIN relay'[pq], f = relay'[pq][j]
          PROVE  f \in Everywhere'
      BY <2>2, <2>4 DEF Everywhere, OnRelay, FramesOn
    <2>5. CASE relay'[pq] = relay[pq]
      BY <2>2, <2>4, <2>5
    <2>6. CASE Carried(pq) \subseteq lost'
      BY <2>2, <2>6 DEF Carried, Everywhere
    <2>7. CASE /\ relay[pq] # <<>> /\ relay'[pq] = Tail(relay[pq])
               /\ \/ Head(relay[pq]) \in lost'
                  \/ \E k, e : Gets(k, e, Head(relay[pq]))
                  \/ Hears(pq[1], pq[2], Head(relay[pq]).id)
      <3>1. Head(relay[pq]) = relay[pq][1]
        BY <2>7, HeadIsCarried DEF StreamInv
      <3>2. CASE i = 1
        <4>1. f = Head(relay[pq])
          BY <2>2, <3>1, <3>2
        <4>2. CASE f \in lost'
          BY <4>2 DEF Everywhere
        <4>3. CASE \E k, e : Gets(k, e, f)
          BY <4>3, GetsKeeps
        <4>4. CASE Hears(pq[1], pq[2], Head(relay[pq]).id)
          <5>1. <<pq[1], pq[2]>> = pq
            BY DEF Paths
          <5> QED
            BY <2>2, <4>1, <4>4, <5>1 DEF Hears
        <4> QED
          BY <2>7, <4>1, <4>2, <4>3, <4>4
      <3>3. CASE i # 1
        <4>1. \E j \in DOMAIN Tail(relay[pq]) : i = j + 1 /\ Tail(relay[pq])[j] = relay[pq][i]
          BY <2>2, <2>3, <2>7, <3>3, PlacesOfTail
        <4> QED
          BY <2>2, <2>4, <2>7, <4>1
      <3> QED
        BY <3>2, <3>3
    <2>8. ASSUME NEW g \in Frame, relay'[pq] = Append(relay[pq], g)
          PROVE  f \in Everywhere'
      <3>1. i \in DOMAIN Append(relay[pq], g) /\ Append(relay[pq], g)[i] = relay[pq][i]
        BY <2>2, <2>3, PlacesOfAppend
      <3> QED
        BY <2>2, <2>4, <2>8, <3>1
    <2> QED
      BY <2>3, <2>5, <2>6, <2>7, <2>8 DEF MovesOn
  <1>3. CASE f \in lost
    BY <1>3 DEF StepMoves, Grows, Everywhere
  <1>4. ASSUME NEW l \in Ends, f \in ends[l].buf \cup TakenBy(l)
        PROVE  f \in Everywhere'
    <2>1. l \in DOMAIN ends'
      BY NamesStay
    <2>2. CASE SameReading(l)
      <3>1. f \in ends'[l].buf \cup TakenBy(l)'
        BY <1>4, <2>2 DEF SameReading, TakenBy
      <3> QED
        BY <2>1, <3>1 DEF Everywhere, Ends
    <2>3. ASSUME NEW g, Gets(l, ends[l], g)
          PROVE  f \in Everywhere'
      <3>1. f \in ends[l].buf \cup {ends[l].got[i] : i \in DOMAIN ends[l].got}
        BY <1>4 DEF TakenBy
      <3> QED
        BY <2>3, <3>1, GetsKeeps
    <2> QED
      BY <2>2, <2>3 DEF StepMoves, ReadsOn
  <1> QED
    BY <1>1, <1>2, <1>3, <1>4 DEF Everywhere

LEMMA ChunksAre ==
  ASSUME NEW k, ends[k].id \in Nat, ends[k].sent \in Nat, k \in Nat
  PROVE  ChunksOf(k) = {f \in Data : f.of = k /\ f.id = ends[k].id /\ f.seq < ends[k].sent}
  <1>1. ASSUME NEW f \in ChunksOf(k)
        PROVE  f \in Data /\ f.of = k /\ f.id = ends[k].id /\ f.seq < ends[k].sent
    <2>1. f.seq \in 0..(ends[k].sent - 1) /\ f.of = k /\ f.id = ends[k].id
      BY DEF ChunksOf
    <2>2. f.seq \in Nat /\ f.seq < ends[k].sent
      BY <2>1
    <2> QED
      BY <2>1, <2>2 DEF ChunksOf, Data
  <1>2. ASSUME NEW f \in Data, f.of = k, f.id = ends[k].id, f.seq < ends[k].sent
        PROVE  f \in ChunksOf(k)
    <2>1. f.seq \in Nat
      BY DEF Data
    <2>2. f.seq \in 0..(ends[k].sent - 1)
      BY <1>2, <2>1
    <2> QED
      BY <1>2, <2>2 DEF ChunksOf, Data
  <1> QED
    BY <1>1, <1>2

LEMMA NothingStillVanishes ==
  ASSUME StreamInv, StreamInv', NothingVanishes, StepMoves
  PROVE  NothingVanishes'
  <1> SUFFICES ASSUME NEW k \in DOMAIN ends', NEW f \in ChunksOf(k)'
               PROVE  f \in Everywhere'
    BY DEF NothingVanishes, Ends
  <1>1. /\ ends'[k] \in End /\ k \in Nat
    <2>1. ends' \in Seq(End)
      BY DEF StreamInv, TypeOK
    <2>2. DOMAIN ends' = 1..Len(ends') /\ Len(ends') \in Nat
      BY <2>1, LenProperties
    <2> QED
      BY <2>1, <2>2, ElementOfSeq
  <1>2. f \in Data /\ f.kind = "data" /\ f.of = k /\ f.id = ends'[k].id /\ f.seq < ends'[k].sent
    BY <1>1, EndTyped DEF ChunksOf, Data
  <1>3. f.seq \in Nat
    BY <1>2 DEF Data
  <1>4. k \in Ends
    <2>1. k \notin Ends => ends'[k].sent = 0
      BY DEF StepMoves, EndsGrow
    <2> QED
      BY <1>2, <1>3, <2>1
  <1>5. ends[k].id \in Nat /\ ends[k].sent \in Nat /\ ends'[k].id = ends[k].id
    BY <1>4, EndFacts, NamesStay
  <1>6. CASE f.seq < ends[k].sent
    <2>1. f \in ChunksOf(k)
      BY <1>1, <1>2, <1>5, <1>6, ChunksAre
    <2> QED
      BY <1>2, <1>4, <2>1, NothingIsMislaid DEF NothingVanishes, StreamInv
  <1>7. CASE ~(f.seq < ends[k].sent)
    <2>1. ends'[k].sent = ends[k].sent + 1 /\ Chunk(k) \in writing'
      BY <1>2, <1>4, <1>7 DEF StepMoves, WritingMoves
    <2>2. f.seq = ends[k].sent
      BY <1>2, <1>3, <1>5, <1>7, <2>1
    <2>3. f = Chunk(k)
      <3>1. Chunk(k) \in Data
        BY <1>1, <1>5 DEF Chunk, Data
      <3>2. Chunk(k).kind = "data" /\ Chunk(k).id = ends[k].id /\ Chunk(k).seq = ends[k].sent /\ Chunk(k).of = k
        BY DEF Chunk
      <3> QED
        BY <1>2, <1>5, <2>2, <3>1, <3>2 DEF Data
    <2> QED
      BY <2>1, <2>3 DEF Everywhere
  <1> QED
    BY <1>6, <1>7

LEMMA WrittenStays ==
  ASSUME StreamInv, TypeOK', StepMoves, NEW f \in Data, Written(f)
  PROVE  /\ Written(f)' /\ f.of \in Ends
         /\ ends'[f.of].at = ends[f.of].at /\ ends'[f.of].peer = ends[f.of].peer
  <1>1. f.of \in Ends /\ f.seq < ends[f.of].sent /\ f.id = ends[f.of].id /\ f.seq \in Nat
    BY DEF Written, Data
  <1>2. ends[f.of].sent <= ends'[f.of].sent /\ ends[f.of].sent \in Nat /\ ends'[f.of].sent \in Nat
    <2>1. ends' \in Seq(End)
      BY DEF TypeOK
    <2>2. ends'[f.of] \in End
      <3>1. DOMAIN ends' = 1..Len(ends')
        BY <2>1, LenProperties
      <3> QED
        BY <1>1, <2>1, <3>1, NamesStay, ElementOfSeq
    <2> QED
      BY <1>1, <2>2, EndFacts, EndTyped DEF StepMoves, EndsGrow
  <1>3. f.seq < ends'[f.of].sent
    BY <1>1, <1>2
  <1> QED
    BY <1>1, <1>3, NamesStay DEF Written, Ends

\* The number awaited afterwards.
LEMMA GetsNext ==
  ASSUME NEW k, NEW e, NEW f, Gets(k, e, f)
  PROVE  /\ e \in End /\ f \in Data
         /\ ends'[k].next = e.next \/ (f.seq = e.next /\ ends'[k].next = e.next + 1)
  <1>1. e \in End /\ f \in Data /\ ends'[k] = Delivered(e, f)
    BY DEF Gets, Given, Reads
  <1>2. CASE Awaited(e, f)
    BY <1>1, <1>2, HandedEffect DEF Delivered, Awaited
  <1>3. CASE ~Awaited(e, f)
    BY <1>1, <1>3, KeptEffect DEF Delivered
  <1> QED
    BY <1>1, <1>2, <1>3

LEMMA HandedStaysOn ==
  ASSUME StreamInv, StreamInv', HandedOn, StepMoves
  PROVE  HandedOn'
  <1> SUFFICES ASSUME NEW x \in DOMAIN ends', NEW n \in Nat, n < ends'[x].next
               PROVE  HandedFor(x, n)'
    BY DEF HandedOn, Ends
  <1>1. ASSUME x \in Ends, n < ends[x].next
        PROVE  HandedFor(x, n)'
    <2>1. PICK f \in Data : /\ f \in TakenBy(x) \cup lost /\ f.seq = n
                            /\ Written(f) /\ Addressed(ends[x], f)
      BY <1>1 DEF HandedOn, HandedFor
    <2>2. TakenBy(x) \subseteq TakenBy(x)'
      <3>1. CASE SameReading(x)
        BY <3>1 DEF SameReading, TakenBy
      <3>2. ASSUME NEW g, Gets(x, ends[x], g)
            PROVE  TakenBy(x) \subseteq TakenBy(x)'
        BY <3>2, GetsKeeps DEF TakenBy, StreamInv
      <3> QED
        BY <1>1, <3>1, <3>2 DEF StepMoves, ReadsOn
    <2>3. f \in TakenBy(x)' \cup lost'
      BY <2>1, <2>2 DEF StepMoves, Grows
    <2>4. Written(f)' /\ ends'[f.of].peer = ends[f.of].peer
      BY <2>1, WrittenStays DEF StreamInv
    <2>5. ends'[x].id = ends[x].id /\ ends'[x].at = ends[x].at
      BY <1>1, NamesStay
    <2>6. Addressed(ends[x], f)'
      BY <2>1, <2>4, <2>5 DEF Addressed
    <2> QED
      BY <2>1, <2>3, <2>4, <2>6 DEF HandedFor
  <1>2. ASSUME NEW e, NEW f, Gets(x, e, f), n = e.next, f.seq = e.next
        PROVE  HandedFor(x, n)'
    <2>1. f \in TakenBy(x)' \cup lost' /\ f \in Data
      BY <1>2, GetsKeeps, GetsNext DEF StreamInv
    <2>2. Written(f)' /\ ends'[f.of].peer = ends[f.of].peer
      BY <1>2, <2>1, WrittenStays DEF StreamInv, Gets, Given, ComesFrom
    <2>3. SameName(e, ends'[x])
      BY <1>2, GetsEffect DEF GrowsBy, StreamInv, TypeOK
    <2>4. Addressed(ends[x], f)'
      BY <1>2, <2>2, <2>3 DEF Gets, Given, Addressed, SameName
    <2> QED
      BY <1>2, <2>1, <2>2, <2>4 DEF HandedFor
  <1>3. CASE x \in Ends
    <2>1. ends[x].next \in Nat
      BY <1>3, EndFacts
    <2>2. CASE SameReading(x)
      BY <1>1, <1>3, <2>2 DEF SameReading
    <2>3. ASSUME NEW f, Gets(x, ends[x], f)
          PROVE  HandedFor(x, n)'
      <3>1. ends'[x].next = ends[x].next \/ (f.seq = ends[x].next /\ ends'[x].next = ends[x].next + 1)
        BY <2>3, GetsNext
      <3>2. n < ends[x].next \/ (n = ends[x].next /\ f.seq = ends[x].next)
        BY <2>1, <3>1
      <3> QED
        BY <1>1, <1>2, <1>3, <2>3, <3>2
    <2> QED
      BY <1>3, <2>2, <2>3 DEF StepMoves, ReadsOn
  <1>4. CASE x \notin Ends
    <2>1. PICK e : Made(e) /\ GrowsBy(x, e)
      BY <1>4 DEF StepMoves, NewOnes
    <2>2. e.next = 0
      BY <2>1 DEF Made, Fresh
    <2>3. PICK f : Gets(x, e, f)
      BY <2>1, <2>2 DEF GrowsBy
    <2>4. ends'[x].next = e.next \/ (f.seq = e.next /\ ends'[x].next = e.next + 1)
      BY <2>3, GetsNext
    <2>5. n = e.next /\ f.seq = e.next
      BY <2>2, <2>4
    <2> QED
      BY <1>2, <2>3, <2>5
  <1> QED
    BY <1>3, <1>4

-----------------------------------------------------------------------------
\* Nothing follows a close frame, and who has heard it has everything.

LEMMA OnlyBefore ==
  ASSUME StepMoves, NEW k \in Ends, Only(k)'
  PROVE  Only(k)
  <1> SUFFICES ASSUME NEW x \in Ends, ends[x].at = ends[k].at, ends[x].id = ends[k].id
               PROVE  x = k
    BY DEF Only
  <1>1. x \in DOMAIN ends' /\ ends'[x].at = ends'[k].at /\ ends'[x].id = ends'[k].id
    BY NamesStay
  <1> QED
    BY <1>1 DEF Only, Ends

LEMMA PrivateBefore ==
  ASSUME StepMoves, NEW k \in Ends, Private(k)'
  PROVE  Private(k)
  <1> SUFFICES ASSUME NEW y \in Ends, ends[y].id = ends[k].id,
                      ends[k].peer \in {ends[y].at, ends[y].peer}
               PROVE  ends[k].at \in {ends[y].at, ends[y].peer}
    BY DEF Private
  <1>1. /\ y \in DOMAIN ends' /\ ends'[y].id = ends'[k].id
        /\ ends'[k].peer \in {ends'[y].at, ends'[y].peer}
    BY NamesStay
  <1>2. ends'[k].at \in {ends'[y].at, ends'[y].peer}
    BY <1>1 DEF Private, Ends
  <1> QED
    BY <1>2, NamesStay

\* What goes onto the way of a closed end is not of its stream.
LEMMA NothingFollows ==
  ASSUME StreamInv, ClosedIsWritten, NEW k \in Ends, ends[k].state = "closed", Only(k),
         NEW f, Goes(Way(k), f)
  PROVE  ~IsChunk(f, k) /\ ~IsEnd(f, k)
  <1>1. CASE f \in writing
    BY <1>1 DEF StreamInv, TypeOK, Data, ClosedIsWritten, IsChunk, IsEnd
  <1>2. ASSUME f.kind # "data", NEW y \in Ends, Way(y) = Way(k), ends[y].id = f.id, Shuts(y)
        PROVE  ~IsChunk(f, k) /\ ~IsEnd(f, k)
    <2>1. ends[y].state = "open" /\ ends[y].at = ends[k].at
      BY <1>2, EndFacts DEF Shuts
    <2>2. ends[y].id # ends[k].id
      BY <2>1 DEF Only
    <2> QED
      BY <1>2, <2>2 DEF IsChunk, IsEnd
  <1> QED
    BY <1>1, <1>2 DEF Goes

\* The close frame goes behind what is on the way.
LEMMA ShutGoes ==
  ASSUME StreamInv, WhoLeftIsDeaf, NEW k \in Ends, Shuts(k)
  PROVE  \/ ends[k].peer \in left /\ relay' = relay /\ relay[Way(k)] = <<>>
         \/ \E f \in Frame : /\ f.kind # "data" /\ f.id = ends[k].id
                             /\ relay'[Way(k)] = Append(relay[Way(k)], f)
  <1>1. PICK f \in Frame : f.kind # "data" /\ f.id = ends[k].id /\ relay' = Sent(ends[k], f)
    BY DEF Shuts
  <1>2. Way(k) \in Paths /\ Way(k)[2] = ends[k].peer /\ relay \in [Paths -> Seq(Frame)]
    BY EndFacts DEF StreamInv, TypeOK
  <1>3. CASE ends[k].peer \in left
    BY <1>1, <1>2, <1>3 DEF Sent, WhoLeftIsDeaf
  <1>4. CASE ends[k].peer \notin left
    <2>1. relay' = [relay EXCEPT ![Way(k)] = Append(@, f)]
      BY <1>1, <1>4 DEF Sent, Way
    <2> QED
      BY <1>1, <1>2, <2>1
  <1> QED
    BY <1>3, <1>4

LEMMA CloseStaysLast ==
  ASSUME StreamInv, WhoLeftIsDeaf, ClosesAreMade, ClosedIsWritten, CloseIsLast, StepMoves
  PROVE  CloseIsLast'
  <1> SUFFICES ASSUME NEW k \in DOMAIN ends', ends'[k].state = "closed", Only(k)',
                      NEW i \in DOMAIN relay'[Way(k)'], NEW j \in DOMAIN relay'[Way(k)'], i < j,
                      IsEnd(relay[Way(k)][i], k)', IsChunk(relay[Way(k)][j], k)'
               PROVE  FALSE
    BY DEF CloseIsLast, Ends
  <1>1. k \in Ends
    BY NewIsOpen
  <1>2. PICK pq \in Paths : pq = Way(k)
    BY <1>1, EndFacts
  <1>3. Way(k)' = pq /\ Only(k)
    BY <1>1, <1>2, NamesStay, OnlyBefore
  <1>4. /\ i \in DOMAIN relay'[pq] /\ j \in DOMAIN relay'[pq]
        /\ IsEnd(relay'[pq][i], k) /\ IsChunk(relay'[pq][j], k)
    <2>1. ends'[k].id = ends[k].id
      BY <1>1, NamesStay
    <2> QED
      BY <1>3, <2>1 DEF IsEnd, IsChunk
  <1>5. relay[pq] \in Seq(Frame)
    BY DEF StreamInv, TypeOK
  <1>6. ASSUME i \in DOMAIN relay[pq], j \in DOMAIN relay[pq],
               IsEnd(relay[pq][i], k), IsChunk(relay[pq][j], k), ends[k].state = "closed"
        PROVE  FALSE
    BY <1>1, <1>2, <1>3, <1>6 DEF CloseIsLast
  \* What is appended comes last.
  <1>7. ASSUME NEW f \in Frame, relay'[pq] = Append(relay[pq], f), ~IsChunk(f, k)
        PROVE  /\ i \in DOMAIN relay[pq] /\ j \in DOMAIN relay[pq]
               /\ relay'[pq][i] = relay[pq][i] /\ relay'[pq][j] = relay[pq][j]
    <2>1. j \in DOMAIN relay[pq] /\ relay'[pq][j] = relay[pq][j]
      BY <1>4, <1>5, <1>7, AppendPlaces
    <2>2. i # Len(relay[pq]) + 1
      BY <1>5, <2>1, AppendPlaces
    <2> QED
      BY <1>4, <1>5, <1>7, <2>1, <2>2, AppendPlaces
  <1>8. CASE ends[k].state = "closed"
    <2>1. MovesOn(pq)
      BY DEF StepMoves, PathsMove
    <2>2. CASE relay'[pq] = relay[pq]
      BY <1>4, <1>6, <1>8, <2>2
    <2>3. CASE relay'[pq] = <<>>
      <3>1. DOMAIN relay'[pq] = {}
        BY <2>3
      <3> QED
        BY <1>4, <3>1
    <2>4. CASE relay[pq] # <<>> /\ relay'[pq] = Tail(relay[pq])
      <3>1. /\ i + 1 \in DOMAIN relay[pq] /\ relay'[pq][i] = relay[pq][i + 1]
            /\ j + 1 \in DOMAIN relay[pq] /\ relay'[pq][j] = relay[pq][j + 1]
            /\ i \in Nat /\ j \in Nat
        BY <1>4, <1>5, <2>4, TailPlaces
      <3>2. i + 1 < j + 1
        BY <3>1
      <3> QED
        BY <1>1, <1>2, <1>3, <1>4, <1>8, <3>1, <3>2 DEF CloseIsLast
    <2>5. ASSUME NEW f \in Frame, relay'[pq] = Append(relay[pq], f), Goes(pq, f)
          PROVE  FALSE
      <3>1. ~IsChunk(f, k)
        BY <1>1, <1>2, <1>3, <1>8, <2>5, NothingFollows
      <3> QED
        BY <1>4, <1>6, <1>7, <1>8, <2>5, <3>1
    <2> QED
      BY <2>1, <2>2, <2>3, <2>4, <2>5 DEF MovesOn
  <1>9. CASE Shuts(k)
    <2>1. CASE relay' = relay /\ relay[pq] = <<>>
      <3>1. DOMAIN relay'[pq] = {}
        BY <2>1
      <3> QED
        BY <1>4, <3>1
    <2>2. ASSUME NEW f \in Frame, f.kind # "data", relay'[pq] = Append(relay[pq], f)
          PROVE  FALSE
      <3>1. i \in DOMAIN relay[pq] /\ IsEnd(relay[pq][i], k)
        BY <1>4, <1>7, <2>2 DEF IsChunk
      <3>2. ClosedAt(pq[1], pq[2], ends[k].id)
        BY <3>1 DEF ClosesAreMade, Carried, IsEnd
      <3> QED
        BY <1>1, <1>2, <1>3, <1>9, <3>2, EndFacts DEF ClosedAt, Only, Shuts
    <2> QED
      BY <1>1, <1>2, <1>9, <2>1, <2>2, ShutGoes
  <1> QED
    BY <1>1, <1>8, <1>9, StatesAre

\* A close frame heard at the other side is the one of this side.
LEMMA ClosedOverThere ==
  ASSUME StreamInv, NEW k \in Ends, Only(k), Private(k), NEW x \in Other(k), NEW p,
         ClosedAt(p, ends[x].at, ends[x].id)
  PROVE  p = ends[k].at /\ ends[k].state \in {"closed", "cut"}
  <1>1. ends[x].at = ends[k].peer /\ ends[x].id = ends[k].id
    BY DEF Other
  <1>2. PICK y \in Ends : /\ ends[y].at = p /\ ends[y].peer = ends[k].peer
                          /\ ends[y].id = ends[k].id /\ ends[y].state \in {"closed", "cut"}
    BY <1>1 DEF ClosedAt
  <1>3. ends[k].at \in {p, ends[k].peer} /\ ends[k].at # ends[k].peer
    BY <1>2, EndFacts DEF Private
  <1> QED
    BY <1>2, <1>3 DEF Only

\* Behind the close frame at the head there is no chunk.
LEMMA NothingBehindHead ==
  ASSUME StreamInv, CloseIsLast, NEW k \in Ends, ends[k].state = "closed", Only(k),
         relay[Way(k)] # <<>>, IsEnd(Head(relay[Way(k)]), k), NEW f \in Carried(Way(k))
  PROVE  ~IsChunk(f, k)
  <1>1. Way(k) \in Paths
    BY EndFacts
  <1>2. 1 \in DOMAIN relay[Way(k)] /\ Head(relay[Way(k)]) = relay[Way(k)][1]
    BY <1>1, HeadIsCarried DEF StreamInv
  <1>3. PICK j \in DOMAIN relay[Way(k)] : f = relay[Way(k)][j]
    BY DEF Carried
  <1>4. CASE j = 1
    BY <1>2, <1>3, <1>4 DEF IsEnd, IsChunk
  <1>5. CASE j # 1
    <2>1. relay[Way(k)] \in Seq(Frame)
      BY <1>1 DEF StreamInv, TypeOK
    <2>2. DOMAIN relay[Way(k)] = 1..Len(relay[Way(k)]) /\ Len(relay[Way(k)]) \in Nat
      BY <2>1, LenProperties
    <2>3. 1 < j
      BY <1>3, <1>5, <2>2
    <2> QED
      BY <1>2, <1>3, <2>3 DEF CloseIsLast
  <1> QED
    BY <1>4, <1>5

LEMMA EndedStillHasAll ==
  ASSUME StreamInv, ClosesAreMade, EndedWasClosed, ClosedIsWritten, CloseIsLast, EndedHasAll,
         StepMoves
  PROVE  EndedHasAll'
  <1> SUFFICES ASSUME NEW k \in DOMAIN ends', Closed(k)',
                      NEW x \in Other(k)', ends'[x].state = "ended",
                      NEW f \in Carried(Way(k))', IsChunk(f, k)'
               PROVE  FALSE
    BY DEF EndedHasAll, Ends
  <1>1. k \in Ends /\ x \in Ends
    <2>1. x \in DOMAIN ends'
      BY DEF Other, Ends
    <2> QED
      BY <2>1, NewIsOpen DEF Closed
  <1>2. Only(k) /\ Private(k)
    BY <1>1, OnlyBefore, PrivateBefore DEF Closed
  <1>3. x \in Other(k)
    BY <1>1, NamesStay DEF Other
  <1>4. PICK pq \in Paths : pq = Way(k)
    BY <1>1, EndFacts
  <1>5. f \in Carried(pq)' /\ IsChunk(f, k)
    <2>1. Way(k)' = pq
      BY <1>1, <1>4, NamesStay
    <2> QED
      BY <2>1 DEF Carried, IsChunk
  <1>6. \/ ends[x].state = "ended"
        \/ \E p : Hears(p, ends[x].at, ends[x].id)
    BY <1>1, StatesAre
  <1>7. \E p : ClosedAt(p, ends[x].at, ends[x].id)
    <2>1. CASE ends[x].state = "ended"
      BY <1>1, <2>1 DEF EndedWasClosed
    <2>2. CASE \E p : Hears(p, ends[x].at, ends[x].id)
      BY <2>2, HeardWasClosed
    <2> QED
      BY <1>6, <2>1, <2>2
  <1>8. ends[k].state = "closed"
    <2>1. ends[k].state # "open"
      BY <1>1, <1>2, <1>3, <1>7, ClosedOverThere
    <2> QED
      BY <1>1, <2>1, StatesAre DEF Closed
  <1>9. f \in Carried(pq)
    BY <1>1, <1>2, <1>4, <1>5, <1>8, CarriedAfter, NothingFollows DEF StepMoves
  <1>10. CASE ends[x].state = "ended"
    BY <1>1, <1>2, <1>3, <1>4, <1>5, <1>8, <1>9, <1>10 DEF EndedHasAll, Closed
  <1>11. ASSUME NEW p, Hears(p, ends[x].at, ends[x].id)
         PROVE  FALSE
    <2>1. ends[x].at = ends[k].peer /\ ends[x].id = ends[k].id
      BY <1>3 DEF Other
    <2>2. p = ends[k].at
      BY <1>1, <1>2, <1>3, <1>11, HeardWasClosed, ClosedOverThere
    <2>3. pq = <<p, ends[x].at>>
      BY <1>4, <2>1, <2>2 DEF Way
    <2>4. relay[pq] # <<>> /\ IsEnd(Head(relay[pq]), k)
      BY <1>11, <2>1, <2>3 DEF Hears, IsEnd
    <2> QED
      BY <1>1, <1>2, <1>4, <1>5, <1>8, <1>9, <2>4, NothingBehindHead
  <1> QED
    BY <1>6, <1>10, <1>11

-----------------------------------------------------------------------------
\* What arrived is over.

LEMMA ArrivedBefore ==
  ASSUME StreamInv, WhoLeftIsDeaf, ClosedIsWritten, StepMoves,
         NEW k \in DOMAIN ends', Arrived(k)'
  PROVE  /\ k \in Ends /\ Closed(k) /\ (ends[k].mine => ends[k].sent > 0)
         /\ ends[k].peer \notin left /\ \A f \in lost' : f.id # ends[k].id
         /\ \A f \in Carried(Way(k))' : ~IsEnd(f, k)
  <1>1. k \in Ends
    BY NewIsOpen DEF Arrived, Closed
  <1>2. Only(k) /\ Private(k)
    BY <1>1, OnlyBefore, PrivateBefore DEF Arrived, Closed
  <1>3. ends[k].peer \notin left' /\ \A f \in lost' : f.id # ends[k].id
    BY <1>1, NamesStay DEF Arrived
  <1>4. \A f \in Carried(Way(k))' : ~IsEnd(f, k)
    BY <1>1, NamesStay DEF Arrived, IsEnd
  <1>5. PICK pq \in Paths : pq = Way(k) /\ Way(k)' = pq
    BY <1>1, EndFacts, NamesStay
  <1>6. ends[k].state = "closed"
    <2>1. ASSUME Shuts(k), NEW f \in Frame, f.kind # "data", f.id = ends[k].id,
                 relay'[pq] = Append(relay[pq], f)
          PROVE  FALSE
      <3>1. relay[pq] \in Seq(Frame)
        BY DEF StreamInv, TypeOK
      <3>2. \E i \in DOMAIN relay'[pq] : relay'[pq][i] = f
        <4>1. /\ Append(relay[pq], f)[Len(relay[pq]) + 1] = f
              /\ Len(relay[pq]) + 1 \in DOMAIN Append(relay[pq], f)
          BY <3>1, AppendPlaces, AppendProperties
        <4> QED
          BY <2>1, <4>1
      <3>3. f \in Carried(Way(k))'
        BY <1>5, <3>2 DEF Carried
      <3> QED
        BY <1>4, <2>1, <3>3 DEF IsEnd
    <2>2. ends[k].peer \notin left
      BY <1>3 DEF StepMoves, Grows
    <2>3. ~Shuts(k)
      BY <1>1, <1>5, <2>1, <2>2, ShutGoes
    <2> QED
      BY <1>1, <2>3, StatesAre DEF Arrived, Closed
  <1>7. ends[k].mine => ends[k].sent > 0
    <2>1. ClosedIsWritten' /\ ends'[k].state = "closed"
      BY ClosedStaysWritten DEF Arrived, Closed
    <2>2. Chunk(k) \notin writing'
      BY <1>1, <2>1, NamesStay DEF ClosedIsWritten, Chunk, Ends
    <2>3. ends'[k].sent = ends[k].sent /\ ends'[k].mine = ends[k].mine
      BY <1>1, <2>2, NamesStay DEF StepMoves, WritingMoves
    <2> QED
      BY <2>3 DEF Arrived
  <1>8. ends[k].peer \notin left
    BY <1>3 DEF StepMoves, Grows
  <1> QED
    BY <1>1, <1>2, <1>3, <1>4, <1>6, <1>7, <1>8 DEF Closed

\* What is over has no new stream.
LEMMA NothingReturns ==
  ASSUME StreamInv, IdsAreDrawn, OpensAreMine, StepMoves, NEW k \in Ends, Only(k),
         \A f \in Carried(Way(k)) : ~IsChunk(f, k),
         ends[k].mine => ends[k].id \in closedIds[ends[k].peer],
         NEW e, Made(e), e.at = ends[k].peer, e.peer = ends[k].at, e.id = ends[k].id
  PROVE  FALSE
  <1>1. e \in End /\ e.at # e.peer
    BY DEF Made
  <1>2. CASE Opens(e)
    <2>1. nextId[e.at][Parity(e.at, e.peer)] <= e.id /\ e.id % 2 = Parity(e.at, e.peer)
      BY <1>2 DEF Opens
    <2>2. e.id < nextId[e.at][Parity(e.at, e.peer)]
      BY <2>1 DEF IdsAreDrawn, Drawn
    <2>3. nextId[e.at][Parity(e.at, e.peer)] \in Nat /\ e.id \in Nat
      <3>1. e.at \in Members /\ e.id \in Nat /\ Parity(e.at, e.peer) \in {0, 1}
        BY <1>1, EndTyped DEF Parity
      <3> QED
        BY <3>1 DEF StreamInv, TypeOK
    <2> QED
      BY <2>1, <2>2, <2>3
  <1>3. CASE Announced(e)
    <2>1. PICK y \in Ends : /\ ends[y].at = e.peer /\ ends[y].peer = e.at
                            /\ ends[y].id = e.id /\ ends[y].mine
      BY <1>1, <1>3, AnnouncedBy
    <2>2. y = k
      BY <2>1 DEF Only
    <2> QED
      BY <1>3, <2>1, <2>2 DEF Announced
  <1>4. CASE Overtaken(e)
    <2>1. PICK y \in Ends : /\ ends[y].at = e.peer /\ ends[y].peer = e.at /\ ends[y].id = e.id
                            /\ \E f \in Carried(Way(y)) : IsChunk(f, y)
      BY <1>1, <1>4, OvertakenBy
    <2>2. y = k
      BY <2>1 DEF Only
    <2> QED
      BY <2>1, <2>2
  <1> QED
    BY <1>2, <1>3, <1>4 DEF Made

\* The close frame that was on the way and is not lost was heard.
LEMMA EndWasHeard ==
  ASSUME StreamInv, StepMoves, NEW k \in Ends, NEW f \in Carried(Way(k)), IsEnd(f, k),
         f \notin Carried(Way(k))', f \notin lost'
  PROVE  /\ Hears(ends[k].at, ends[k].peer, ends[k].id)
         /\ relay[Way(k)] # <<>> /\ IsEnd(Head(relay[Way(k)]), k)
  <1>1. PICK pq \in Paths : pq = Way(k) /\ Way(k)' = pq
    BY EndFacts, NamesStay
  <1>2. PICK i \in DOMAIN relay[pq] : f = relay[pq][i]
    BY <1>1 DEF Carried
  <1>3. relay[pq] \in Seq(Frame) /\ MovesOn(pq)
    BY DEF StreamInv, TypeOK, StepMoves, PathsMove
  <1>4. ASSUME NEW j \in DOMAIN relay'[pq], f = relay'[pq][j]
        PROVE  FALSE
    BY <1>1, <1>4 DEF Carried
  <1>5. relay'[pq] # relay[pq]
    BY <1>2, <1>4
  <1>6. ~(Carried(pq) \subseteq lost')
    BY <1>1
  <1>7. ASSUME NEW g \in Frame, relay'[pq] = Append(relay[pq], g)
        PROVE  FALSE
    <2>1. i \in DOMAIN Append(relay[pq], g) /\ Append(relay[pq], g)[i] = relay[pq][i]
      BY <1>2, <1>3, PlacesOfAppend
    <2> QED
      BY <1>2, <1>4, <1>7, <2>1
  <1>8. /\ relay[pq] # <<>> /\ relay'[pq] = Tail(relay[pq])
        /\ \/ Head(relay[pq]) \in lost'
           \/ \E l, e : Gets(l, e, Head(relay[pq]))
           \/ Hears(pq[1], pq[2], Head(relay[pq]).id)
    BY <1>3, <1>5, <1>6, <1>7 DEF MovesOn
  <1>9. f = Head(relay[pq])
    <2>1. CASE i = 1
      BY <1>2, <1>8, <2>1, HeadIsCarried DEF StreamInv
    <2>2. CASE i # 1
      <3>1. \E j \in DOMAIN Tail(relay[pq]) : i = j + 1 /\ Tail(relay[pq])[j] = relay[pq][i]
        BY <1>2, <1>3, <1>8, <2>2, PlacesOfTail
      <3> QED
        BY <1>2, <1>4, <1>8, <3>1
    <2> QED
      BY <2>1, <2>2
  <1>10. ~\E l, e : Gets(l, e, f)
    BY DEF Gets, Given, Reads, Data, IsEnd
  <1>11. Hears(pq[1], pq[2], ends[k].id)
    BY <1>8, <1>9, <1>10 DEF IsEnd
  <1> QED
    BY <1>1, <1>8, <1>9, <1>11, EndFacts

\* Who hears a close frame and has no stream for it knows it to be over.
LEMMA HeardIsRemembered ==
  ASSUME StreamInv, WhoIsRemovedIsSilent, AbandonedByDeparture, OverIsRemembered,
         ClosedIsWritten, NothingVanishes, CloseIsLast,
         NEW k \in Ends, Closed(k), ends[k].sent > 0, ends[k].peer \notin left,
         \A f \in lost : f.id # ends[k].id,
         relay[Way(k)] # <<>>, IsEnd(Head(relay[Way(k)]), k), ~Busy(ends[k].peer, ends[k].id)
  PROVE  ends[k].id \in closedIds[ends[k].peer]
  <1> DEFINE f == [kind |-> "data", id |-> ends[k].id, seq |-> 0, of |-> k]
  <1>1. f \in Everywhere
    <2>1. ends[k].sent \in Nat
      BY EndFacts
    <2>2. 0 \in 0..(ends[k].sent - 1)
      BY <2>1
    <2>3. f \in ChunksOf(k)
      BY <2>2 DEF ChunksOf
    <2> QED
      BY <2>3 DEF NothingVanishes
  <1>2. f.kind = "data" /\ f.of = k /\ f.id = ends[k].id
    OBVIOUS
  <1> HIDE DEF f
  <1>3. f \notin writing
    BY <1>2 DEF ClosedIsWritten, Closed
  <1>4. f \notin OnRelay
    <2>1. ASSUME NEW pq \in Paths, f \in Carried(pq)
          PROVE  FALSE
      <3>1. Way(k) = pq /\ IsChunk(f, k)
        BY <1>2, <2>1, ChunkOnItsWay
      <3> QED
        BY <2>1, <3>1, NothingBehindHead DEF Closed
    <2> QED
      BY <2>1 DEF OnRelay, FramesOn, Carried
  <1>5. PICK l \in Ends : f \in ends[l].buf \cup TakenBy(l)
    BY <1>1, <1>2, <1>3, <1>4 DEF Everywhere
  <1>6. ends[l].id = ends[k].id /\ ends[l].at = ends[k].peer
    BY <1>2, <1>5 DEF StreamInv, Names, ChunksAreAddressed, Addressed
  <1>7. ends[l].state # "open"
    BY <1>6 DEF Busy, Find
  <1>8. ends[l].state # "left"
    <2>1. SUFFICES ASSUME Departed(ends[l])
                   PROVE  FALSE
      BY DEF AbandonedByDeparture
    <2>2. ends[l].peer \notin peers[ends[l].at]
      BY <1>6, <2>1 DEF Departed
    <2>3. ends[k].at = ends[l].peer
      BY <1>6, EndFacts DEF Closed, Private
    <2>4. Way(k) \in Paths /\ Way(k)[1] \notin peers[Way(k)[2]]
      BY <1>6, <2>2, <2>3, EndFacts
    <2> QED
      BY <2>4 DEF WhoIsRemovedIsSilent
  <1>9. ends[l].state \in States
    BY EndFacts DEF End
  <1>10. ends[l].state \in {"closed", "cut", "ended"}
    BY <1>7, <1>8, <1>9 DEF States
  <1> QED
    BY <1>6, <1>10 DEF OverIsRemembered

LEMMA ArrivedIsStillOver ==
  ASSUME EndInv, StepMoves
  PROVE  ArrivedIsOver'
  <1> USE DEF EndInv
  <1> SUFFICES ASSUME NEW k \in DOMAIN ends', Arrived(k)'
               PROVE  /\ \A f \in Carried(Way(k))' : ~IsChunk(f, k)'
                      /\ \A x \in Other(k)' : ends'[x].state # "open"
                      /\ ends'[k].mine => ends'[k].id \in closedIds'[ends'[k].peer]
    BY DEF ArrivedIsOver, Ends
  <1>1. /\ k \in Ends /\ Closed(k) /\ (ends[k].mine => ends[k].sent > 0)
        /\ ends[k].peer \notin left /\ \A f \in lost' : f.id # ends[k].id
        /\ \A f \in Carried(Way(k))' : ~IsEnd(f, k)
    BY ArrivedBefore
  <1>2. ends[k].state = "closed" /\ Only(k) /\ lost \subseteq lost'
    BY <1>1 DEF Closed, StepMoves, Grows
  <1>3. Way(k)' = Way(k) /\ Way(k) \in Paths
    BY <1>1, EndFacts, NamesStay
  <1>4. \A id \in closedIds[ends[k].peer] : id \in closedIds'[ends[k].peer]
    BY <1>1, EndFacts DEF StepMoves, Grows
  \* Nothing is added to the way.
  <1>5. ASSUME NEW f \in Carried(Way(k))', IsChunk(f, k)'
        PROVE  f \in Carried(Way(k)) /\ IsChunk(f, k)
    <2>1. IsChunk(f, k)
      BY <1>5 DEF IsChunk
    <2>2. PICK pq \in Paths : pq = Way(k)
      BY <1>3
    <2>3. f \in Carried(pq)'
      BY <1>3, <1>5, <2>2 DEF Carried
    <2>4. f \in Carried(pq)
      BY <1>1, <1>2, <2>1, <2>2, <2>3, CarriedAfter, NothingFollows DEF StepMoves
    <2> QED
      BY <2>1, <2>2, <2>4
  <1>6. CASE \A f \in Carried(Way(k)) : ~IsEnd(f, k)
    <2>1. Arrived(k)
      BY <1>1, <1>2, <1>6 DEF Arrived
    <2>2. /\ \A f \in Carried(Way(k)) : ~IsChunk(f, k)
          /\ \A x \in Other(k) : ends[x].state # "open"
          /\ ends[k].mine => ends[k].id \in closedIds[ends[k].peer]
      BY <1>1, <2>1 DEF ArrivedIsOver
    <2>3. \A f \in Carried(Way(k))' : ~IsChunk(f, k)'
      BY <1>5, <2>2
    <2>4. ASSUME NEW x \in Other(k)'
          PROVE  ends'[x].state # "open"
      <3>1. CASE x \in Ends
        <4>1. x \in Other(k)
          BY <1>1, <3>1, NamesStay DEF Other
        <4> QED
          BY <2>2, <3>1, <4>1, StatesAre
      <3>2. CASE x \notin Ends
        <4>1. x \in DOMAIN ends' /\ ends'[x].at = ends[k].peer /\ ends'[x].peer = ends[k].at
              /\ ends'[x].id = ends[k].id
          BY <1>1, NamesStay DEF Other, Ends
        <4>2. PICK e : Made(e) /\ SameName(e, ends'[x])
          BY <3>2, <4>1 DEF StepMoves, NewOnes, GrowsBy
        <4>3. e.at = ends[k].peer /\ e.peer = ends[k].at /\ e.id = ends[k].id
          BY <4>1, <4>2 DEF SameName
        <4> QED
          BY <1>1, <1>2, <2>2, <4>2, <4>3, NothingReturns
      <3> QED
        BY <3>1, <3>2
    <2>5. ends'[k].mine => ends'[k].id \in closedIds'[ends'[k].peer]
      BY <1>1, <1>4, <2>2, NamesStay
    <2> QED
      BY <2>3, <2>4, <2>5
  <1>7. ASSUME NEW f \in Carried(Way(k)), IsEnd(f, k)
        PROVE  /\ \A g \in Carried(Way(k))' : ~IsChunk(g, k)'
               /\ \A x \in Other(k)' : ends'[x].state # "open"
               /\ ends'[k].mine => ends'[k].id \in closedIds'[ends'[k].peer]
    <2>1. f \notin lost' /\ f \notin Carried(Way(k))'
      BY <1>1, <1>7 DEF IsEnd
    <2>2. /\ Hears(ends[k].at, ends[k].peer, ends[k].id)
          /\ relay[Way(k)] # <<>> /\ IsEnd(Head(relay[Way(k)]), k)
      BY <1>1, <1>7, <2>1, EndWasHeard
    <2>3. \A g \in Carried(Way(k))' : ~IsChunk(g, k)'
      BY <1>1, <1>2, <1>5, <2>2, NothingBehindHead
    <2>4. ASSUME NEW x \in Other(k)'
          PROVE  ends'[x].state # "open"
      <3>1. x \in Ends
        BY <2>2 DEF Hears, Other, Ends
      <3>2. ends[x].at = ends[k].peer /\ ends[x].id = ends[k].id
        BY <1>1, <3>1, NamesStay DEF Other
      <3>3. CASE ends[x].state = "open"
        <4>1. x \in Find(ends[k].peer, ends[k].id)
          BY <3>1, <3>2, <3>3 DEF Find
        <4> QED
          BY <2>2, <4>1 DEF Hears
      <3> QED
        BY <3>1, <3>3, StatesAre
    <2>5. ends[k].mine => ends[k].id \in closedIds'[ends[k].peer]
      <3>1. CASE Busy(ends[k].peer, ends[k].id)
        BY <2>2, <3>1 DEF Hears
      <3>2. CASE ends[k].mine /\ ~Busy(ends[k].peer, ends[k].id)
        BY <1>1, <1>2, <1>4, <2>2, <3>2, HeardIsRemembered
      <3> QED
        BY <3>1, <3>2
    <2> QED
      BY <1>1, <2>3, <2>4, <2>5, NamesStay
  <1> QED
    BY <1>6, <1>7

-----------------------------------------------------------------------------
\* The invariant holds.

LEMMA InitEnds == Init => EndInv
  <1> SUFFICES ASSUME Init
               PROVE  EndInv
    OBVIOUS
  <1>1. StreamInv
    BY InitEstablishes
  <1>2. /\ left = {} /\ Ends = {} /\ writing = {} /\ lost = {}
        /\ \A pq \in Paths : relay[pq] = <<>> /\ control[pq] = <<>>
    BY DEF Init, Ends
  <1>3. \A pq \in Paths : pq[1] \in peers[pq[2]]
    BY DEF Init, Paths
  <1>4. \A pq \in Paths : Carried(pq) = {} /\ Opened(pq) = {}
    <2>1. DOMAIN <<>> = {}
      OBVIOUS
    <2> QED
      BY <1>2, <2>1 DEF Carried, Opened
  <1>5. WhoLeftIsDeaf /\ WhoIsRemovedIsSilent /\ AbandonedByDeparture /\ OverIsRemembered
    BY <1>2, <1>3 DEF WhoLeftIsDeaf, WhoIsRemovedIsSilent, AbandonedByDeparture,
                      OverIsRemembered
  <1>6. ClosesAreMade /\ EndedWasClosed /\ OpensAreMine /\ IdsAreDrawn
    BY <1>2, <1>4 DEF ClosesAreMade, EndedWasClosed, OpensAreMine, IdsAreDrawn
  <1>7. ClosedIsWritten /\ EndedIsRead /\ ToldHasRead /\ NothingVanishes /\ HandedOn
    BY <1>2 DEF Init, ClosedIsWritten, EndedIsRead, ToldHasRead, NothingVanishes, HandedOn
  <1>8. CloseIsLast /\ EndedHasAll /\ ArrivedIsOver
    BY <1>2 DEF CloseIsLast, EndedHasAll, ArrivedIsOver
  <1> QED
    BY <1>1, <1>5, <1>6, <1>7, <1>8 DEF EndInv

LEMMA NextKeepsEnds == EndInv /\ Next => EndInv'
  <1> SUFFICES ASSUME EndInv, Next
               PROVE  EndInv'
    OBVIOUS
  <1>1. StreamInv' /\ StepMoves
    BY NextMoves DEF EndInv
  <1>2. TypeOK'
    BY <1>1 DEF StreamInv
  <1>3. WhoLeftIsDeaf' /\ WhoIsRemovedIsSilent'
    BY <1>1, DeafStayDeaf, SilentStaySilent DEF EndInv
  <1>4. AbandonedByDeparture' /\ OverIsRemembered'
    BY <1>1, DepartureStays, OverStaysRemembered DEF EndInv
  <1>5. ClosesAreMade' /\ EndedWasClosed'
    BY <1>1, ClosesStayMade, EndedStaysClosed DEF EndInv
  <1>6. ClosedIsWritten' /\ EndedIsRead' /\ ToldHasRead'
    BY <1>1, <1>2, ClosedStaysWritten, EndedStaysRead, ToldHaveStillRead DEF EndInv
  <1>7. OpensAreMine' /\ IdsAreDrawn'
    BY <1>1, <1>2, OpensStayMine, IdsStayDrawn DEF EndInv
  <1>8. NothingVanishes' /\ HandedOn'
    BY <1>1, NothingStillVanishes, HandedStaysOn DEF EndInv
  <1>9. CloseIsLast' /\ EndedHasAll'
    BY <1>1, CloseStaysLast, EndedStillHasAll DEF EndInv
  <1>10. ArrivedIsOver'
    BY <1>1, ArrivedIsStillOver
  <1> QED
    BY <1>1, <1>3, <1>4, <1>5, <1>6, <1>7, <1>8, <1>9, <1>10 DEF EndInv

LEMMA StutterKeepsEnds == EndInv /\ UNCHANGED vars => EndInv'
  <1> SUFFICES ASSUME EndInv, UNCHANGED vars
               PROVE  EndInv'
    OBVIOUS
  <1>1. StreamInv'
    BY StutterKeeps DEF EndInv
  <1> USE DEF vars, Ends, Carried, Opened, Way, Other, Only
  <1>2. WhoLeftIsDeaf' /\ WhoIsRemovedIsSilent'
    BY DEF EndInv, WhoLeftIsDeaf, WhoIsRemovedIsSilent
  <1>3. AbandonedByDeparture' /\ OverIsRemembered'
    BY DEF EndInv, AbandonedByDeparture, OverIsRemembered, Departed
  <1>4. ClosesAreMade' /\ EndedWasClosed'
    BY DEF EndInv, ClosesAreMade, EndedWasClosed, ClosedAt
  <1>5. ClosedIsWritten' /\ EndedIsRead' /\ ToldHasRead'
    BY DEF EndInv, ClosedIsWritten, EndedIsRead, ToldHasRead, Ready
  <1>6. OpensAreMine' /\ IdsAreDrawn'
    BY DEF EndInv, OpensAreMine, IdsAreDrawn, Drawn
  <1>7. NothingVanishes'
    BY DEF EndInv, NothingVanishes, ChunksOf, Everywhere, OnRelay, FramesOn, TakenBy
  <1>8. HandedOn'
    BY DEF EndInv, HandedOn, HandedFor, TakenBy, Written, Addressed
  <1>9. CloseIsLast'
    BY DEF EndInv, CloseIsLast, IsEnd, IsChunk
  <1>10. EndedHasAll'
    BY DEF EndInv, EndedHasAll, Closed, Private, IsChunk
  <1>11. ArrivedIsOver'
    BY DEF EndInv, ArrivedIsOver, Arrived, Closed, Private, IsEnd, IsChunk
  <1> QED
    BY <1>1, <1>2, <1>3, <1>4, <1>5, <1>6, <1>7, <1>8, <1>9, <1>10, <1>11 DEF EndInv

LEMMA EndInvHolds == Spec => []EndInv
  <1>1. EndInv /\ [Next]_vars => EndInv'
    BY NextKeepsEnds, StutterKeepsEnds
  <1> QED
    BY <1>1, InitEnds, PTL DEF Spec

-----------------------------------------------------------------------------
\* What the invariant says of a stream whose id nobody else uses with the peer.

LEMMA WhatIsHandedOn ==
  ASSUME EndInv, NEW k \in Ends, Private(k), Only(k), NEW x \in Other(k), NEW f \in ChunksOf(k),
         f.seq < ends[x].next
  PROVE  f \in TakenBy(x) \cup lost
  <1>1. k \in Nat /\ ends[k].id \in Nat /\ ends[k].sent \in Nat /\ ends[k].at # ends[k].peer
    <2>1. Ends = 1..Len(ends) /\ Len(ends) \in Nat
      BY EndsTyped DEF EndInv, StreamInv, TypeOK
    <2>2. k \in Nat
      BY <2>1
    <2> QED
      BY <2>2, EndFacts DEF EndInv
  <1>2. f \in Data /\ f.of = k /\ f.id = ends[k].id
    BY <1>1, ChunksAre
  <1>3. f.seq \in Nat /\ f.kind = "data"
    BY <1>2 DEF Data
  <1>4. /\ x \in Ends /\ ends[x].at = ends[k].peer /\ ends[x].id = ends[k].id
    BY DEF Other
  <1>5. PICK h \in Data : /\ h \in TakenBy(x) \cup lost /\ h.seq = f.seq
                          /\ Written(h) /\ Addressed(ends[x], h)
    BY <1>3, <1>4 DEF EndInv, HandedOn, HandedFor
  <1>6. h.of \in Ends /\ ends[h.of].id = ends[k].id /\ ends[h.of].peer = ends[k].peer
    BY <1>4, <1>5 DEF Written, Addressed
  <1>7. h.of = k
    <2>1. ends[h.of].at = ends[k].at
      BY <1>1, <1>6 DEF Private
    <2> QED
      BY <1>6, <2>1 DEF Only
  <1>8. h = f
    <2>1. h.kind = "data" /\ h.id = f.id
      BY <1>2, <1>4, <1>5 DEF Data, Addressed
    <2> QED
      BY <1>2, <1>3, <1>5, <1>7, <2>1 DEF Data
  <1> QED
    BY <1>5, <1>8

LEMMA PrivateEndsAreComplete ==
  ASSUME EndInv, NEW k \in Ends, Private(k)
  PROVE  Complete(k)
  <1> SUFFICES ASSUME NEW x \in Other(k), ends[k].state = "closed", ends[x].state = "ended",
                      Only(k), Only(x), NEW f \in ChunksOf(k),
                      \A g \in ChunksOf(k) : g.seq <= f.seq => g \notin lost
               PROVE  \E i \in DOMAIN ends[x].got :
                        /\ ends[x].got[i] = f
                        /\ x \in told => i <= Len(ends[x].got) - ends[x].unread
    BY DEF Complete
  <1>1. StreamInv /\ TypeOK
    BY DEF EndInv, StreamInv
  <1>2. /\ x \in Ends /\ ends[x].at = ends[k].peer /\ ends[x].id = ends[k].id
        /\ ends[x].next \in Nat /\ ends[k].sent \in Nat
    BY <1>1, EndFacts DEF Other
  <1>3. f.seq \in 0..(ends[k].sent - 1)
    BY DEF ChunksOf
  <1>4. f.seq \in Nat /\ f.seq < ends[k].sent
    BY <1>2, <1>3
  <1>5. f \notin lost
    BY <1>4
  <1>6. f.seq < ends[x].next => f \in TakenBy(x)
    BY <1>5, WhatIsHandedOn
  \* The chunk awaited would be in nobody's hands.
  <1>7. ASSUME ~(f.seq < ends[x].next)
        PROVE  FALSE
    <2> DEFINE c == [kind |-> "data", id |-> ends[k].id, seq |-> ends[x].next, of |-> k]
    <2>1. ends[x].next <= f.seq /\ ends[x].next \in 0..(ends[k].sent - 1)
      BY <1>2, <1>4, <1>7
    <2>2. c \in ChunksOf(k)
      BY <2>1 DEF ChunksOf
    <2>3. c.kind = "data" /\ c.of = k /\ c.id = ends[k].id /\ c.seq = ends[x].next
      OBVIOUS
    <2> HIDE DEF c
    <2>4. c \notin lost
      BY <2>1, <2>2, <2>3
    <2>5. c \notin writing
      BY <2>3 DEF EndInv, ClosedIsWritten
    <2>6. c \notin OnRelay
      <3>1. ASSUME NEW pq \in Paths, c \in Carried(pq)
            PROVE  FALSE
        <4>1. Way(k) = pq /\ IsChunk(c, k)
          BY <1>1, <2>3, <3>1, ChunkOnItsWay
        <4> QED
          BY <3>1, <4>1 DEF EndInv, EndedHasAll, Closed
      <3> QED
        BY <3>1 DEF OnRelay, FramesOn, Carried
    <2>7. PICK l \in Ends : c \in ends[l].buf \cup TakenBy(l)
      BY <2>2, <2>4, <2>5, <2>6 DEF EndInv, NothingVanishes, Everywhere
    <2>8. ends[l].id = ends[k].id /\ ends[l].at = ends[k].peer
      BY <1>1, <2>3, <2>7 DEF StreamInv, Names, ChunksAreAddressed, Addressed
    <2>9. l = x
      BY <1>2, <2>8 DEF Only
    <2>10. c \notin TakenBy(x)
      BY <1>1, <1>2, <2>3 DEF StreamInv, TakenInOrder
    <2>11. c \in Ready(x)
      BY <2>3, <2>7, <2>9, <2>10 DEF Ready
    <2> QED
      BY <1>2, <2>11 DEF EndInv, EndedIsRead
  <1>8. f \in TakenBy(x)
    BY <1>6, <1>7
  <1> QED
    <2>1. x \in Ends /\ ends[x] \in End
      BY EndFacts DEF EndInv, Other
    <2>2. \A i \in DOMAIN ends[x].got : i <= Len(ends[x].got)
      BY <2>1, EndTyped, LenProperties DEF End
    <2>3. Len(ends[x].got) \in Nat /\ \A i \in DOMAIN ends[x].got : i \in Nat
      BY <2>1, EndTyped, LenProperties DEF End
    <2>4. x \in told => ends[x].unread = 0
      BY DEF EndInv, ToldHasRead
    <2>5. PICK i \in DOMAIN ends[x].got : ends[x].got[i] = f
      BY <1>8 DEF TakenBy
    <2>6. x \in told => i <= Len(ends[x].got) - ends[x].unread
      BY <2>2, <2>3, <2>4
    <2> QED
      BY <2>5, <2>6

LEMMA PrivateEndsHaveNoGhosts ==
  ASSUME EndInv, NEW k \in Ends, Private(k)
  PROVE  GhostFree(k)
  <1> SUFFICES ASSUME ends[k].state = "closed", Only(k), ~ends[k].mine \/ ends[k].sent > 0,
                      \A f \in lost : f.id # ends[k].id,
                      \A i \in DOMAIN relay[Way(k)] : relay[Way(k)][i].id # ends[k].id,
                      NEW x \in Other(k)
               PROVE  ends[x].state # "open"
    BY DEF GhostFree, Way
  <1>1. CASE ends[k].peer \in left
    BY <1>1 DEF EndInv, WhoLeftIsDeaf, Other
  <1>2. CASE ends[k].peer \notin left
    <2>1. Arrived(k)
      BY <1>2 DEF Arrived, Closed, Carried, IsEnd
    <2> QED
      BY <2>1 DEF EndInv, ArrivedIsOver
  <1> QED
    BY <1>1, <1>2

LEMMA PairsArePrivate ==
  ASSUME EndInv, \A p, q, o \in Members : p = q \/ q = o \/ p = o, NEW k \in Ends
  PROVE  Private(k)
  <1> SUFFICES ASSUME NEW y \in Ends
               PROVE  ends[k].at \in {ends[y].at, ends[y].peer}
    BY DEF Private
  <1>1. ends[y].at \in Members /\ ends[y].peer \in Members /\ ends[y].at # ends[y].peer
    BY EndFacts DEF EndInv
  <1>2. ends[k].at \in Members
    BY EndFacts DEF EndInv
  <1> QED
    BY <1>1, <1>2

-----------------------------------------------------------------------------
\* Among any number of members: whoever closes a stream after its last Write, and
\* shares its id with nobody else who has a stream of that id with the peer, loses
\* nothing, and no reader is told of the end before it has read all; and once the peer has got what was sent, nothing of the stream is left
\* open there (stream.go:95-98, loops.go:444-451).
PrivateStreams == \A k \in Ends : Private(k) => Complete(k) /\ GhostFree(k)

\* Close frames travel behind the data, so a stream that ended has all its chunks
\* but those behind a lost one, and an end that data or a late stream_open makes
\* is ended in turn: for every stream whose id no third member uses with the peer,
\* however many members, calls and losses (stream.go:95-98, loops.go:444-451).
THEOREM PrivateStreamsEndWell == Spec => []PrivateStreams
  <1>1. EndInv => PrivateStreams
    BY PrivateEndsAreComplete, PrivateEndsHaveNoGhosts DEF PrivateStreams
  <1> QED
    BY <1>1, EndInvHolds, PTL

\* Between two members closing after the last Write loses nothing: Close sends its
\* frame behind the chunks, and onDataFrame hands on all that were kept before the
\* loop reads the close frame; Read and ReadMessage drain the queue before they say
\* that the stream is over (stream.go:95-98, 125-137, 158-163, 208-244).
THEOREM PairsSwallowNothing ==
  ASSUME \A p, q, o \in Members : p = q \/ q = o \/ p = o
  PROVE  Spec => []NothingSwallowed
  <1>1. EndInv => NothingSwallowed
    BY PairsArePrivate, PrivateEndsAreComplete DEF NothingSwallowed
  <1> QED
    BY <1>1, EndInvHolds, PTL

\* Between two members no stream stays behind: closedStreams keeps a late
\* stream_open from making an end that nobody closes (loops.go:444-451).
THEOREM PairsHaveNoGhosts ==
  ASSUME \A p, q, o \in Members : p = q \/ q = o \/ p = o
  PROVE  Spec => []NoGhosts
  <1>1. EndInv => NoGhosts
    BY PairsArePrivate, PrivateEndsHaveNoGhosts DEF NoGhosts
  <1> QED
    BY <1>1, EndInvHolds, PTL

=============================================================================
