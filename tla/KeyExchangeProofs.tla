-------------------------- MODULE KeyExchangeProofs --------------------------
(***************************************************************************)
(* Theorems about KeyExchange, for every set of nodes and any number of    *)
(* processes: types, and that keys are forgotten.                          *)
(***************************************************************************)
EXTENDS KeyExchange, FiniteSetTheorems, SequenceTheorems, TLAPS

LOCAL INSTANCE SequencesExt

-----------------------------------------------------------------------------
\* The inductive invariant.

Born(p) == proc[p] # Unborn

\* Processes are started in their order, and draw at most one id each.
BornInOrder ==
    \E n \in 0..MaxProcesses :
        /\ issued <= n
        /\ \A p \in Processes : Born(p) <=> p <= n

TypeInv == TypeOK /\ BornInOrder

\* Ids belong to a node each, and a node runs one process at a time.
IdsAreNodes ==
    /\ \A m \in members : m.id <= issued
    /\ \A p \in Processes : Born(p) => proc[p].id <= issued
    /\ \A m \in members, p \in Processes :
         Born(p) /\ m.id = proc[p].id => m.node = proc[p].node
    /\ \A m, o \in members : m.id = o.id => m.node = o.node
    /\ \A p, r \in Processes :
         Born(p) /\ Born(r) /\ proc[p].id = proc[r].id => proc[p].node = proc[r].node
    /\ \A p, r \in Processes : Alive(p) /\ Alive(r) /\ proc[p].node = proc[r].node => p = r

\* A client that reads is the one attached, or will be.
Inside(p) == link[p].pc \in {"read", "send", "serve"}
ReadersAreAttached ==
    /\ \A a \in room : /\ Born(a.process) /\ a.id = proc[a.process].id
                       /\ Inside(a.process)
    /\ \A p \in Processes : Reads(p) =>
         link[p].pc = "attach" \/ \E a \in room : a.process = p

\* A handler works for a client that has dialled.
HandlersFit ==
    \A p \in Processes :
        /\ link[p].pc # "none" => Born(p) /\ (Reads(p) \/ ~Alive(p))
        /\ link[p].pc = "attach" /\ ~approval => link[p].approved

\* Nothing is written before Dial, and nothing after a leave.
LeaveIsLast ==
    \A p \in Processes :
        /\ Reads(p) \/ (Born(p) /\ ~Alive(p)) \/ up[p] = <<>>
        /\ \A i \in DOMAIN up[p] : up[p][i] = Leave => i = Len(up[p]) /\ ~Alive(p)

\* Without approvals everybody is active.
EverybodyIsIn ==
    ~approval => /\ \A m \in members : m.active
                 /\ \A a \in room : a.approved

\* The member of a process that was the only one of its id goes after it.
GoneIsOver ==
    \A q \in Processes : First(q) /\ ~Present(q) =>
        ~Alive(q) /\ up[q] = <<>>

\* What the client c with the messages s before it hears of the process q with
\* the member id id.
Tells(m, id)    == \/ m.type = "list" /\ id \in m.ids
                   \/ m.type = "member_joined" /\ m.id = id
Retracts(m, id) == m.type = "member_left" /\ m.id = id
Brings(m, q)    == m.type = "key_exchange" /\ m.pub = q

Knows(c, s, id) == id \in c.peers \/ \E i \in DOMAIN s : Tells(s[i], id)
HearsNoEnd(s, id) == \A i \in DOMAIN s : ~Retracts(s[i], id)

\* It knows the peer before it hears once that it has left, and gets no key after.
WillForget(c, s, id, q) ==
    \E k \in DOMAIN s :
        /\ \A i \in DOMAIN s : (Retracts(s[i], id) <=> i = k) /\ (Brings(s[i], q) => i < k)
        /\ id \in c.peers \/ \E i \in DOMAIN s : i < k /\ Tells(s[i], id)

HasForgotten(c, s, id, q) ==
    c.keys[id] # q /\ HearsNoEnd(s, id) /\ \A i \in DOMAIN s : ~Brings(s[i], q)

Stages == {"new", "member", "gone"}
Informed(c, s, id, q, stage) ==
    /\ stage # "gone" => HearsNoEnd(s, id)
    /\ stage = "member" => Knows(c, s, id)
    /\ stage = "gone" => WillForget(c, s, id, q) \/ HasForgotten(c, s, id, q)

\* A member that is announced is known to the others, until it is forgotten:
\* from the announcement, or from a list that p is still to get.
Stage(q) ==
    IF proc[q].pc = "announce" THEN "new" ELSE IF Present(q) THEN "member" ELSE "gone"
ToBeListed(p, id) ==
    link[p].pc \in {"attach", "read"} \/ (link[p].pc = "send" /\ id \in link[p].list)
StageFor(p, q) ==
    IF Stage(q) = "member" /\ ToBeListed(p, proc[q].id) THEN "new" ELSE Stage(q)
News(p, q) ==
    proc[q].id \in link[p].missed \/ Informed(proc[p], down[p], proc[q].id, q, StageFor(p, q))
NewsArrives ==
    ~approval => \A p, q \in Processes : p # q /\ Reads(p) /\ First(q) => News(p, q)

\* Members and departures come of processes.
MembersWereBorn ==
    \A m \in members : \E p \in Processes : Born(p) /\ proc[p].id = m.id
EndsAreOld ==
    \A p \in Processes : \A i \in DOMAIN down[p] :
        down[p][i].type = "member_left" => down[p][i].id <= issued

\* A client that does not read, or is not attached yet, has heard nothing.
KeysAreFresh ==
    \A p \in Processes : ~Reads(p) \/ link[p].pc = "attach" =>
        down[p] = <<>> /\ (Born(p) => proc[p].keys = NoKeys)

KeyInv ==
    /\ TypeInv /\ IdsAreNodes /\ ReadersAreAttached /\ LeaveIsLast
    /\ EverybodyIsIn /\ GoneIsOver /\ NewsArrives /\ KeysAreFresh
    /\ MembersWereBorn /\ EndsAreOld /\ HandlersFit

-----------------------------------------------------------------------------
\* What a message does to what a client hears.

LEMMA Appended ==
  ASSUME NEW S, NEW s \in Seq(S), NEW m \in S
  PROVE  /\ Append(s, m) \in Seq(S) /\ Len(s) \in Nat /\ DOMAIN s = 1..Len(s)
         /\ DOMAIN Append(s, m) = 1..(Len(s) + 1) /\ Len(Append(s, m)) = Len(s) + 1
         /\ \A i \in DOMAIN s : i \in DOMAIN Append(s, m) /\ Append(s, m)[i] = s[i]
         /\ Append(s, m)[Len(s) + 1] = m
         /\ \A i \in DOMAIN Append(s, m) : i \in DOMAIN s \/ i = Len(s) + 1
  <1>1. Len(s) \in Nat /\ DOMAIN s = 1..Len(s)
    BY LenProperties
  <1>2. /\ Append(s, m) \in Seq(S) /\ Len(Append(s, m)) = Len(s) + 1
        /\ \A i \in 1..Len(s) : Append(s, m)[i] = s[i]
        /\ Append(s, m)[Len(s) + 1] = m
    BY AppendProperties
  <1>3. DOMAIN Append(s, m) = 1..(Len(s) + 1)
    BY <1>2, LenProperties
  <1> QED
    BY <1>1, <1>2, <1>3

LEMMA Shortened ==
  ASSUME NEW S, NEW s \in Seq(S), s # <<>>
  PROVE  /\ Head(s) \in S /\ Tail(s) \in Seq(S) /\ Len(s) \in Nat /\ DOMAIN s = 1..Len(s)
         /\ 1 \in DOMAIN s /\ s[1] = Head(s) /\ Len(Tail(s)) = Len(s) - 1
         /\ \A i \in DOMAIN Tail(s) : i \in Nat \ {0} /\ i + 1 \in DOMAIN s /\ Tail(s)[i] = s[i + 1]
         /\ \A i \in DOMAIN s : i # 1 => i - 1 \in DOMAIN Tail(s) /\ Tail(s)[i - 1] = s[i]
  <1>1. /\ Head(s) \in S /\ Tail(s) \in Seq(S) /\ Len(Tail(s)) = Len(s) - 1
        /\ \A i \in 1..Len(Tail(s)) : Tail(s)[i] = s[i + 1]
    BY HeadTailProperties
  <1>2. Len(s) \in Nat \ {0} /\ DOMAIN s = 1..Len(s) /\ Head(s) = s[1]
    BY EmptySeq, LenProperties
  <1>3. DOMAIN Tail(s) = 1..(Len(s) - 1)
    BY <1>1, LenProperties
  <1> QED
    BY <1>1, <1>2, <1>3

\* A message that is not the peer's end leaves the client informed.
LEMMA OneMore ==
  ASSUME NEW c, NEW s \in Seq(Messages), NEW m \in Messages, NEW id, NEW q, NEW stage \in Stages,
         Informed(c, s, id, q, stage), ~Retracts(m, id), stage = "gone" => ~Brings(m, q)
  PROVE  Informed(c, Append(s, m), id, q, stage)
  <1> DEFINE t == Append(s, m)
  <1>1. /\ DOMAIN s = 1..Len(s) /\ Len(s) \in Nat
        /\ \A i \in DOMAIN s : i \in DOMAIN t /\ t[i] = s[i]
        /\ t[Len(s) + 1] = m
        /\ \A i \in DOMAIN t : i \in DOMAIN s \/ i = Len(s) + 1
    BY Appended
  <1> HIDE DEF t
  <1>2. HearsNoEnd(s, id) => HearsNoEnd(t, id)
    BY <1>1 DEF HearsNoEnd
  <1>3. CASE stage # "gone"
    BY <1>1, <1>2, <1>3 DEF Informed, Knows, t
  <1>4. CASE stage = "gone" /\ HasForgotten(c, s, id, q)
    <2>1. HasForgotten(c, t, id, q)
      BY <1>1, <1>2, <1>4 DEF HasForgotten
    <2> QED
      BY <1>4, <2>1 DEF Informed, t
  <1>5. CASE stage = "gone" /\ WillForget(c, s, id, q)
    <2>1. PICK k \in DOMAIN s :
            /\ \A i \in DOMAIN s : (Retracts(s[i], id) <=> i = k) /\ (Brings(s[i], q) => i < k)
            /\ id \in c.peers \/ \E i \in DOMAIN s : i < k /\ Tells(s[i], id)
      BY <1>5 DEF WillForget
    <2>2. \A i \in DOMAIN t : (Retracts(t[i], id) <=> i = k) /\ (Brings(t[i], q) => i < k)
      BY <1>1, <1>5, <2>1
    <2>3. k \in DOMAIN t /\ (id \in c.peers \/ \E i \in DOMAIN t : i < k /\ Tells(t[i], id))
      BY <1>1, <2>1
    <2>4. WillForget(c, t, id, q)
      BY <2>2, <2>3 DEF WillForget
    <2> QED
      BY <1>5, <2>4 DEF Informed, t
  <1> QED
    BY <1>3, <1>4, <1>5 DEF Informed

\* The peer leaves: its end is queued behind all it sent.
LEMMA EndQueued ==
  ASSUME NEW c, NEW s \in Seq(Messages), NEW m \in Messages, NEW id, NEW q,
         Informed(c, s, id, q, "member"), Retracts(m, id)
  PROVE  Informed(c, Append(s, m), id, q, "gone")
  <1> DEFINE t == Append(s, m)
             k == Len(s) + 1
  <1>1. /\ DOMAIN s = 1..Len(s) /\ Len(s) \in Nat /\ k \in DOMAIN t
        /\ \A i \in DOMAIN s : i \in DOMAIN t /\ t[i] = s[i] /\ i < k
        /\ t[k] = m
        /\ \A i \in DOMAIN t : i \in DOMAIN s \/ i = k
    BY Appended
  <1> HIDE DEF t, k
  <1>2. Knows(c, s, id) /\ HearsNoEnd(s, id)
    BY DEF Informed
  <1>3. ~Brings(m, q)
    BY DEF Retracts, Brings
  <1>4. \A i \in DOMAIN t : (Retracts(t[i], id) <=> i = k) /\ (Brings(t[i], q) => i < k)
    BY <1>1, <1>2, <1>3 DEF HearsNoEnd
  <1>5. id \in c.peers \/ \E i \in DOMAIN t : i < k /\ Tells(t[i], id)
    BY <1>1, <1>2 DEF Knows
  <1>6. WillForget(c, t, id, q)
    BY <1>1, <1>4, <1>5 DEF WillForget
  <1> QED
    BY <1>6 DEF Informed, t

\* What c makes of a message, as far as the peer is concerned: d is c afterwards.
Heeds(c, m, d, id, q) ==
    /\ ~Retracts(m, id) /\ id \in c.peers => id \in d.peers
    /\ Tells(m, id) => id \in d.peers
    /\ ~Brings(m, q) /\ c.keys[id] # q => d.keys[id] # q
    /\ Retracts(m, id) /\ id \in c.peers => d.keys[id] # q

LEMMA OneRead ==
  ASSUME NEW c, NEW s \in Seq(Messages), s # <<>>, NEW d, NEW id, NEW q, NEW stage \in Stages,
         Informed(c, s, id, q, stage), Heeds(c, Head(s), d, id, q)
  PROVE  Informed(d, Tail(s), id, q, stage)
  <1> DEFINE t == Tail(s)
             m == Head(s)
  <1>1. /\ 1 \in DOMAIN s /\ s[1] = m /\ DOMAIN s = 1..Len(s) /\ Len(s) \in Nat
        /\ \A i \in DOMAIN t : i \in Nat \ {0} /\ i + 1 \in DOMAIN s /\ t[i] = s[i + 1]
        /\ \A i \in DOMAIN s : i # 1 => i - 1 \in DOMAIN t /\ t[i - 1] = s[i]
    BY Shortened
  <1>2. Heeds(c, m, d, id, q)
    OBVIOUS
  <1> HIDE DEF t, m
  <1>3. HearsNoEnd(s, id) => HearsNoEnd(t, id)
    BY <1>1 DEF HearsNoEnd
  <1>4. CASE stage = "member"
    <2>1. Knows(c, s, id) /\ HearsNoEnd(s, id) /\ ~Retracts(m, id)
      BY <1>1, <1>4 DEF Informed, HearsNoEnd
    <2>2. CASE id \in c.peers
      BY <1>2, <1>3, <1>4, <2>1, <2>2 DEF Heeds, Informed, Knows, t
    <2>3. ASSUME NEW i \in DOMAIN s, Tells(s[i], id)
          PROVE  Knows(d, t, id)
      <3>1. CASE i = 1
        BY <1>1, <1>2, <2>3, <3>1 DEF Heeds, Knows
      <3>2. CASE i # 1
        BY <1>1, <2>3, <3>2 DEF Knows
      <3> QED
        BY <3>1, <3>2
    <2> QED
      BY <1>3, <1>4, <2>1, <2>2, <2>3 DEF Informed, Knows, t
  <1>5. CASE stage = "gone" /\ HasForgotten(c, s, id, q)
    <2>1. d.keys[id] # q
      BY <1>1, <1>2, <1>5 DEF HasForgotten, Heeds
    <2>2. HasForgotten(d, t, id, q)
      BY <1>1, <1>3, <1>5, <2>1 DEF HasForgotten
    <2> QED
      BY <1>5, <2>2 DEF Informed, t
  <1>6. CASE stage = "gone" /\ WillForget(c, s, id, q)
    <2>1. PICK k \in DOMAIN s :
            /\ \A i \in DOMAIN s : (Retracts(s[i], id) <=> i = k) /\ (Brings(s[i], q) => i < k)
            /\ id \in c.peers \/ \E i \in DOMAIN s : i < k /\ Tells(s[i], id)
      BY <1>6 DEF WillForget
    <2>2. k \in Nat /\ k >= 1
      BY <1>1
    <2>3. CASE k = 1
      <3>1. Retracts(m, id) /\ id \in c.peers
        BY <1>1, <2>1, <2>3
      <3>2. d.keys[id] # q
        BY <1>2, <3>1 DEF Heeds
      <3>3. \A i \in DOMAIN t : ~Retracts(t[i], id) /\ ~Brings(t[i], q)
        BY <1>1, <2>1, <2>3
      <3>4. HasForgotten(d, t, id, q)
        BY <3>2, <3>3 DEF HasForgotten, HearsNoEnd
      <3> QED
        BY <1>6, <3>4 DEF Informed, t
    <2>4. CASE k # 1
      <3>1. k - 1 \in DOMAIN t
        BY <1>1, <2>4
      <3>2. \A i \in DOMAIN t : (Retracts(t[i], id) <=> i = k - 1) /\ (Brings(t[i], q) => i < k - 1)
        BY <1>1, <2>1, <2>2
      <3>3. ~Retracts(m, id)
        BY <1>1, <2>1, <2>4
      <3>4. id \in c.peers => id \in d.peers
        BY <1>2, <3>3 DEF Heeds
      <3>5. ASSUME NEW i \in DOMAIN s, i < k, Tells(s[i], id)
            PROVE  id \in d.peers \/ \E j \in DOMAIN t : j < k - 1 /\ Tells(t[j], id)
        <4>1. CASE i = 1
          BY <1>1, <1>2, <3>5, <4>1 DEF Heeds
        <4>2. CASE i # 1
          <5>1. i - 1 \in DOMAIN t /\ t[i - 1] = s[i] /\ i - 1 < k - 1
            BY <1>1, <2>2, <3>5, <4>2
          <5> QED
            BY <3>5, <5>1
        <4> QED
          BY <4>1, <4>2
      <3>6. id \in d.peers \/ \E j \in DOMAIN t : j < k - 1 /\ Tells(t[j], id)
        BY <2>1, <3>4, <3>5
      <3>7. WillForget(d, t, id, q)
        BY <3>1, <3>2, <3>6 DEF WillForget
      <3> QED
        BY <1>6, <3>7 DEF Informed, t
    <2> QED
      BY <2>3, <2>4
  <1>7. CASE stage = "new"
    BY <1>3, <1>7 DEF Informed, t
  <1> QED
    BY <1>4, <1>5, <1>6, <1>7 DEF Informed, Stages

-----------------------------------------------------------------------------
\* Types.

LEMMA ClientOrUnborn ==
  ASSUME TypeOK, NEW p \in Processes
  PROVE  /\ Born(p) => proc[p] \in Client
         /\ Alive(p) => Born(p)
         /\ Reads(p) => Alive(p)
         /\ Born(p) /\ ~Alive(p) => proc[p].pc = "gone"
         /\ ~Born(p) => proc[p].pc = "unborn"
  BY DEF TypeOK, Born, Client, Alive, Reads, Unborn

LEMMA ClientTyped ==
  ASSUME NEW c \in Client
  PROVE  /\ c.node \in Nodes /\ c.id \in Ids /\ c.relay \in BOOLEAN /\ c.peers \in SUBSET Ids
         /\ c.sent \in SUBSET Ids /\ c.replied \in SUBSET Ids
         /\ c.keys \in [Ids -> Processes \cup {NoKey}] /\ c.pc # "unborn" /\ c # Unborn
         /\ Ended(c) \in Client /\ Ended(c).id = c.id /\ Ended(c).node = c.node
         /\ Ended(c).pc = "gone" /\ Ended(c).keys = NoKeys
  <1>1. /\ c.node \in Nodes /\ c.id \in Ids /\ c.relay \in BOOLEAN /\ c.peers \in SUBSET Ids
        /\ c.sent \in SUBSET Ids /\ c.replied \in SUBSET Ids
        /\ c.keys \in [Ids -> Processes \cup {NoKey}] /\ c.pc # "unborn"
    BY DEF Client
  <1>2. c # Unborn
    BY <1>1 DEF Unborn
  <1>3. NoKeys \in [Ids -> Processes \cup {NoKey}]
    BY DEF NoKeys
  <1>4. /\ Ended(c) \in Client /\ Ended(c).id = c.id /\ Ended(c).node = c.node
        /\ Ended(c).pc = "gone" /\ Ended(c).keys = NoKeys
    BY <1>3 DEF Client, Ended
  <1> QED
    BY <1>1, <1>2, <1>4

\* What Greet, a departure and a key make of a client.
LEMMA ClientCalls ==
  ASSUME NEW c \in Client, NEW ids \in SUBSET Ids, NEW id \in Ids, NEW pub \in Processes
  PROVE  /\ \A pc \in {"announce", "dial", "hail", "run", "gone"} : [c EXCEPT !.pc = pc] \in Client
         /\ [c EXCEPT !.sent = @ \cup ids] \in Client
         /\ [c EXCEPT !.peers = @ \cup ids] \in Client
         /\ [c EXCEPT !.relay = TRUE] \in Client
         /\ Without(c, id) \in Client
         /\ [c EXCEPT !.keys[id] = pub, !.replied = @ \cup {id}] \in Client
  <1>1. /\ \A pc \in {"announce", "dial", "hail", "run", "gone"} : [c EXCEPT !.pc = pc] \in Client
        /\ [c EXCEPT !.sent = @ \cup ids] \in Client
        /\ [c EXCEPT !.peers = @ \cup ids] \in Client
        /\ [c EXCEPT !.relay = TRUE] \in Client
    BY DEF Client
  <1>2. \A keys \in [Ids -> Processes \cup {NoKey}], P, R \in SUBSET Ids :
          /\ [c EXCEPT !.peers = P, !.keys = keys] \in Client
          /\ [c EXCEPT !.keys = keys, !.replied = R] \in Client
    BY DEF Client
  <1>3. /\ [c.keys EXCEPT ![id] = IF id \in c.peers THEN NoKey ELSE @] \in [Ids -> Processes \cup {NoKey}]
        /\ [c.keys EXCEPT ![id] = pub] \in [Ids -> Processes \cup {NoKey}]
    BY ClientTyped
  <1>4. c.peers \ {id} \in SUBSET Ids /\ c.replied \cup {id} \in SUBSET Ids
    BY ClientTyped
  <1>5. Without(c, id) \in Client
    <2> DEFINE keys == [c.keys EXCEPT ![id] = IF id \in c.peers THEN NoKey ELSE @]
    <2>1. Without(c, id) = [c EXCEPT !.peers = c.peers \ {id}, !.keys = keys]
      BY DEF Without, Client
    <2>2. keys \in [Ids -> Processes \cup {NoKey}]
      BY <1>3
    <2> HIDE DEF keys
    <2> QED
      BY <1>2, <1>4, <2>1, <2>2
  <1>6. [c EXCEPT !.keys[id] = pub, !.replied = @ \cup {id}] \in Client
    BY <1>2, <1>3, <1>4
  <1> QED
    BY <1>1, <1>5, <1>6

LEMMA HellosTyped ==
  ASSUME NEW S \in SUBSET Ids, MaxProcesses \in Nat, NEW hellos \in SetToSeqs(S)
  PROVE  hellos \in Seq(Ids) /\ \A i \in DOMAIN hellos : hellos[i] \in S
  <1>1. IsFiniteSet(Ids)
    BY FS_Interval DEF Ids
  <1>2. IsFiniteSet(S)
    BY <1>1, FS_Subset
  <1>3. Cardinality(S) \in Nat
    BY <1>2, FS_CardinalityType
  <1>4. hellos \in [1..Cardinality(S) -> S]
    BY DEF SetToSeqs
  <1> QED
    BY <1>3, <1>4, SeqDef

-----------------------------------------------------------------------------
\* All steps but Join leave ids and nodes alone and start no process.

Settled ==
    /\ UNCHANGED issued
    /\ \A p \in Processes :
         /\ Born(p)' <=> Born(p)
         /\ Born(p) => proc'[p].id = proc[p].id /\ proc'[p].node = proc[p].node
         /\ Alive(p)' => Alive(p)
    /\ \A m \in members' : \E o \in members : o.id = m.id /\ o.node = m.node

LEMMA SettledKeeps ==
  ASSUME TypeInv, IdsAreNodes, Settled
  PROVE  /\ BornInOrder' /\ IdsAreNodes'
         /\ \A q \in Processes : First(q)' <=> First(q)
         /\ \A q \in Processes : Born(q) /\ Present(q)' => Present(q)
  <1>1. BornInOrder'
    <2>1. PICK n \in 0..MaxProcesses : issued <= n /\ \A p \in Processes : Born(p) <=> p <= n
      BY DEF TypeInv, BornInOrder
    <2>2. issued' <= n /\ \A p \in Processes : Born(p)' <=> p <= n
      BY <2>1 DEF Settled
    <2> QED
      BY <2>2 DEF BornInOrder
  <1>2. \A p \in Processes : Alive(p) => Born(p)
    BY ClientOrUnborn DEF TypeInv
  <1>3. IdsAreNodes'
    <2>1. /\ \A m \in members' : m.id <= issued'
          /\ \A p \in Processes : Born(p)' => proc'[p].id <= issued'
      BY DEF Settled, IdsAreNodes
    <2>2. \A m \in members', p \in Processes :
            Born(p)' /\ m.id = proc'[p].id => m.node = proc'[p].node
      BY DEF Settled, IdsAreNodes
    <2>3. \A m, o \in members' : m.id = o.id => m.node = o.node
      BY DEF Settled, IdsAreNodes
    <2>4. \A p, r \in Processes :
            Born(p)' /\ Born(r)' /\ proc'[p].id = proc'[r].id => proc'[p].node = proc'[r].node
      BY DEF Settled, IdsAreNodes
    <2>5. \A p, r \in Processes :
            Alive(p)' /\ Alive(r)' /\ proc'[p].node = proc'[r].node => p = r
      BY <1>2 DEF Settled, IdsAreNodes
    <2> QED
      BY <2>1, <2>2, <2>3, <2>4, <2>5 DEF IdsAreNodes
  <1>4. \A q \in Processes : First(q)' <=> First(q)
    BY DEF Settled, First, Born
  <1>5. \A q \in Processes : Born(q) /\ Present(q)' => Present(q)
    BY DEF Settled, Present
  <1> QED
    BY <1>1, <1>3, <1>4, <1>5

-----------------------------------------------------------------------------
\* What a client does by itself: it turns into c, has u written and d to read.

ClientStep(p, c, u, d) ==
    /\ UNCHANGED <<approval, members, issued, room, link>>
    /\ Reads(p)
    /\ c \in Client /\ c.id = proc[p].id /\ c.node = proc[p].node
    /\ u \in Seq(Ids \cup {Leave}) /\ d \in Seq(Messages)
    /\ proc' = [proc EXCEPT ![p] = c]
    /\ up' = [up EXCEPT ![p] = u]
    /\ down' = [down EXCEPT ![p] = d]
    /\ \A i \in DOMAIN d : \E j \in DOMAIN down[p] : d[i] = down[p][j]
    /\ down[p] = <<>> => d = <<>> /\ (c.keys = proc[p].keys \/ c.keys = NoKeys)
    /\ \/ /\ c.pc \in {"hail", "run"}
          /\ \A i \in DOMAIN u : u[i] # Leave
          /\ \A id \in Ids, q \in Processes, stage \in Stages :
               id # c.id /\ Informed(proc[p], down[p], id, q, stage) => Informed(c, d, id, q, stage)
       \/ /\ c.pc = "gone" /\ c.keys = NoKeys /\ d = <<>>
          /\ \A i \in DOMAIN u : u[i] = Leave => i = Len(u)

LEMMA ClientStepKeeps ==
  ASSUME KeyInv, NEW p \in Processes, NEW c, NEW u, NEW d, ClientStep(p, c, u, d)
  PROVE  KeyInv'
  <1>1. TypeOK /\ TypeInv /\ IdsAreNodes /\ Reads(p) /\ c \in Client
    BY DEF KeyInv, TypeInv, ClientStep
  <1>2. /\ proc'[p] = c /\ up'[p] = u /\ down'[p] = d
        /\ \A r \in Processes \ {p} : proc'[r] = proc[r] /\ up'[r] = up[r] /\ down'[r] = down[r]
        /\ UNCHANGED <<approval, members, issued, room, link>>
    BY <1>1 DEF ClientStep, TypeOK
  <1>3. TypeOK'
    <2>1. proc' \in [Processes -> Client \cup {Unborn}]
      BY <1>1 DEF ClientStep, TypeOK
    <2>2. up' \in [Processes -> Seq(Ids \cup {Leave})]
      BY <1>1 DEF ClientStep, TypeOK
    <2>3. down' \in [Processes -> Seq(Messages)]
      BY <1>1 DEF ClientStep, TypeOK
    <2> QED
      BY <1>1, <1>2, <2>1, <2>2, <2>3 DEF TypeOK
  <1>4. /\ Born(p) /\ Alive(p) /\ Born(p)'
        /\ \A r \in Processes \ {p} : /\ Born(r)' <=> Born(r)
                                      /\ Alive(r)' <=> Alive(r)
                                      /\ Reads(r)' <=> Reads(r)
        /\ Reads(p)' <=> c.pc \in {"hail", "run"}
        /\ Alive(p)' <=> c.pc \in {"hail", "run"}
    <2>1. Born(p) /\ Alive(p)
      BY <1>1, ClientOrUnborn
    <2>2. c # Unborn /\ c.pc \in {"hail", "run", "gone"}
      BY <1>1, ClientTyped DEF ClientStep
    <2>3. Born(p)'
      BY <1>2, <2>2 DEF Born
    <2>4. \A r \in Processes \ {p} : /\ Born(r)' <=> Born(r)
                                     /\ Alive(r)' <=> Alive(r)
                                     /\ Reads(r)' <=> Reads(r)
      BY <1>2 DEF Born, Alive, Reads
    <2>5. /\ Reads(p)' <=> c.pc \in {"hail", "run"}
          /\ Alive(p)' <=> c.pc \in {"hail", "run"}
      BY <1>2, <2>2 DEF Alive, Reads
    <2> QED
      BY <2>1, <2>3, <2>4, <2>5
  <1>5. Settled
    <2>1. c.id = proc[p].id /\ c.node = proc[p].node
      BY DEF ClientStep
    <2> QED
      BY <1>2, <1>4, <2>1 DEF Settled
  <1>6. /\ BornInOrder' /\ IdsAreNodes'
        /\ \A q \in Processes : First(q)' <=> First(q)
    BY <1>1, <1>5, SettledKeeps
  <1>7. /\ \A r \in Processes : Reads(r)' => Reads(r)
        /\ \A r \in Processes : proc'[r].id = proc[r].id /\ (Present(r)' <=> Present(r))
    <2>1. \A r \in Processes : proc'[r].id = proc[r].id
      BY <1>2 DEF ClientStep
    <2> QED
      BY <1>1, <1>2, <1>4, <2>1 DEF Present
  <1>8. ReadersAreAttached' /\ HandlersFit'
    <2>1. \A a \in room' : Born(a.process)' /\ a.id = proc'[a.process].id /\ Inside(a.process)'
      <3>1. \A a \in room : a.process \in Processes
        BY <1>1 DEF TypeOK, Attached
      <3> QED
        BY <1>2, <1>4, <1>7, <3>1 DEF KeyInv, ReadersAreAttached, Inside
    <2>2. \A r \in Processes : Reads(r)' => link'[r].pc = "attach" \/ \E a \in room' : a.process = r
      BY <1>2, <1>7 DEF KeyInv, ReadersAreAttached
    <2>3. HandlersFit'
      BY <1>2, <1>4 DEF KeyInv, HandlersFit
    <2> QED
      BY <2>1, <2>2, <2>3 DEF ReadersAreAttached
  <1>9. LeaveIsLast'
    <2>1. /\ Reads(p)' \/ ~Alive(p)'
          /\ \A i \in DOMAIN u : u[i] = Leave => i = Len(u) /\ ~Alive(p)'
      BY <1>4 DEF ClientStep
    <2>2. \A r \in Processes \ {p} :
            /\ Reads(r)' \/ (Born(r)' /\ ~Alive(r)') \/ up[r] = <<>>
            /\ \A i \in DOMAIN up[r] : up[r][i] = Leave => i = Len(up[r]) /\ ~Alive(r)'
      BY <1>4 DEF KeyInv, LeaveIsLast
    <2> QED
      BY <1>2, <1>4, <2>1, <2>2 DEF LeaveIsLast
  <1>10. EverybodyIsIn'
    BY <1>2 DEF KeyInv, EverybodyIsIn
  <1>11. GoneIsOver'
    <2> SUFFICES ASSUME NEW q \in Processes, First(q)', ~Present(q)'
                 PROVE  ~Alive(q)' /\ up'[q] = <<>>
      BY DEF GoneIsOver
    <2>1. First(q) /\ ~Present(q)
      BY <1>6, <1>7
    <2>2. ~Alive(q) /\ up[q] = <<>>
      BY <2>1 DEF KeyInv, GoneIsOver
    <2> QED
      BY <1>2, <1>4, <2>2
  <1>12. KeysAreFresh'
    <2>1. ~Reads(p)' \/ link[p].pc = "attach" => d = <<>> /\ c.keys = NoKeys
      <3>1. link[p].pc = "attach" => down[p] = <<>> /\ proc[p].keys = NoKeys
        BY <1>4 DEF KeyInv, KeysAreFresh
      <3> QED
        BY <1>4, <3>1 DEF ClientStep
    <2> QED
      BY <1>2, <1>4, <2>1 DEF KeyInv, KeysAreFresh
  <1>13. NewsArrives'
    <2> SUFFICES ASSUME ~approval', NEW r \in Processes, NEW q \in Processes,
                        r # q, Reads(r)', First(q)'
                 PROVE  News(r, q)'
      BY DEF NewsArrives
    <2>1. First(q) /\ Born(q) /\ Reads(r)
      BY <1>6, <1>7 DEF First, Born
    <2>2. News(r, q) /\ StageFor(r, q) \in Stages
      BY <1>2, <2>1 DEF KeyInv, NewsArrives, Stage, StageFor, Stages
    <2>3. StageFor(r, q)' = StageFor(r, q) /\ link' = link
      <3>1. Stage(q)' = Stage(q)
        BY <1>1, <1>2, <1>7 DEF Stage, Reads, ClientStep
      <3> QED
        BY <1>2, <1>7, <3>1 DEF StageFor, ToBeListed
    <2>4. CASE r # p
      BY <1>2, <1>7, <2>2, <2>3, <2>4 DEF News
    <2>5. CASE r = p
      <3>1. proc[q].id \in Ids /\ proc[q].id # c.id
        <4>1. proc[q] \in Client
          BY <1>1, <2>1, ClientOrUnborn
        <4>2. proc[q].id # proc[p].id
          BY <1>4, <2>1, <2>5 DEF First, Born
        <4> QED
          BY <4>1, <4>2, ClientTyped DEF ClientStep
      <3>2. c.pc \in {"hail", "run"}
        BY <1>4, <2>5
      <3>3. \A stage \in Stages : Informed(proc[p], down[p], proc[q].id, q, stage)
                                     => Informed(c, d, proc[q].id, q, stage)
        BY <3>1, <3>2 DEF ClientStep
      <3> QED
        BY <1>2, <1>7, <2>2, <2>3, <2>5, <3>3 DEF News
    <2> QED
      BY <2>4, <2>5
  <1>14. MembersWereBorn'
    BY <1>2, <1>4, <1>7 DEF KeyInv, MembersWereBorn
  <1>15. EndsAreOld'
    BY <1>2 DEF KeyInv, EndsAreOld, ClientStep
  <1> QED
    BY <1>3, <1>6, <1>8, <1>9, <1>10, <1>11, <1>12, <1>13, <1>14, <1>15 DEF KeyInv, TypeInv

LEMMA SameKnown ==
  ASSUME NEW c, NEW e, NEW s, NEW id, NEW q, NEW stage \in Stages,
         e.peers = c.peers, e.keys = c.keys, Informed(c, s, id, q, stage)
  PROVE  Informed(e, s, id, q, stage)
  BY DEF Informed, Knows, WillForget, HasForgotten

\* A client that reads has no leave on its way.
LEMMA NoLeaveYet ==
  ASSUME KeyInv, NEW p \in Processes, Reads(p)
  PROVE  /\ up[p] \in Seq(Ids \cup {Leave}) /\ down[p] \in Seq(Messages) /\ proc[p] \in Client
         /\ \A i \in DOMAIN up[p] : up[p][i] # Leave
         /\ Ids \subseteq Nat \ {Leave} /\ MaxProcesses \in Nat
  <1>1. TypeOK /\ Alive(p) /\ proc[p] \in Client
    BY ClientOrUnborn DEF KeyInv, TypeInv
  <1>2. \A i \in DOMAIN up[p] : up[p][i] # Leave
    BY <1>1 DEF KeyInv, LeaveIsLast
  <1>3. Ids \subseteq Nat \ {Leave} /\ MaxProcesses \in Nat
    BY KeyExchangeConstants DEF Ids, Leave
  <1> QED
    BY <1>1, <1>2, <1>3 DEF TypeOK

LEMMA Greeted ==
  ASSUME KeyInv, NEW p \in Processes, Reads(p), NEW c \in Client, NEW ids \in SUBSET Ids,
         Greet(p, c, ids)
  PROVE  \E e \in Client, u \in Seq(Ids \cup {Leave}) :
           /\ proc' = [proc EXCEPT ![p] = e] /\ up' = [up EXCEPT ![p] = u]
           /\ e.pc = c.pc /\ e.id = c.id /\ e.node = c.node /\ e.peers = c.peers /\ e.keys = c.keys
           /\ \A i \in DOMAIN u : u[i] # Leave
  <1> DEFINE e == [c EXCEPT !.sent = @ \cup ids]
  <1>1. /\ e \in Client /\ proc' = [proc EXCEPT ![p] = e]
        /\ e.pc = c.pc /\ e.id = c.id /\ e.node = c.node /\ e.peers = c.peers /\ e.keys = c.keys
    BY DEF Client, Greet
  <1>2. PICK hellos \in SetToSeqs(Fresh(c, ids)) : up' = [up EXCEPT ![p] = @ \o hellos]
    BY DEF Greet
  <1>3. Fresh(c, ids) \in SUBSET Ids /\ MaxProcesses \in Nat
    BY NoLeaveYet DEF Fresh
  <1>4. hellos \in Seq(Ids)
    BY <1>2, <1>3, HellosTyped
  <1> DEFINE u == up[p] \o hellos
  <1>5. /\ up[p] \in Seq(Ids \cup {Leave}) /\ hellos \in Seq(Ids \cup {Leave})
        /\ \A i \in 1..Len(up[p]) : up[p][i] # Leave
        /\ \A i \in 1..Len(hellos) : hellos[i] # Leave
    <2>1. hellos \in Seq(Ids \cup {Leave})
      BY <1>4
    <2>2. \A i \in 1..Len(hellos) : hellos[i] \in Ids
      BY <1>4, ElementOfSeq
    <2> QED
      BY <2>1, <2>2, NoLeaveYet, LenProperties
  <1>6. /\ u \in Seq(Ids \cup {Leave}) /\ Len(u) = Len(up[p]) + Len(hellos)
        /\ \A i \in 1..(Len(up[p]) + Len(hellos)) :
             u[i] = IF i <= Len(up[p]) THEN up[p][i] ELSE hellos[i - Len(up[p])]
    BY <1>5, ConcatProperties
  <1>7. Len(up[p]) \in Nat /\ Len(hellos) \in Nat /\ DOMAIN u = 1..(Len(up[p]) + Len(hellos))
    BY <1>5, <1>6, LenProperties
  <1>8. \A i \in DOMAIN u : u[i] # Leave
    <2> HIDE DEF u
    <2> SUFFICES ASSUME NEW i \in 1..(Len(up[p]) + Len(hellos))
                 PROVE  u[i] # Leave
      BY <1>7
    <2>1. CASE i <= Len(up[p])
      BY <1>5, <1>6, <1>7, <2>1
    <2>2. CASE ~(i <= Len(up[p]))
      <3>1. i - Len(up[p]) \in 1..Len(hellos)
        BY <1>7, <2>2
      <3> QED
        BY <1>5, <1>6, <2>2, <3>1
    <2> QED
      BY <2>1, <2>2
  <1>9. up' = [up EXCEPT ![p] = u]
    BY <1>2
  <1> HIDE DEF e, u
  <1> QED
    BY <1>1, <1>6, <1>8, <1>9

LEMMA HailSteps ==
  ASSUME KeyInv, NEW p \in Processes, Hail(p)
  PROVE  \E c, u, d : ClientStep(p, c, u, d)
  <1>1. Reads(p)
    BY DEF Hail, Reads
  <1> DEFINE b == [proc[p] EXCEPT !.pc = "run"]
  <1>2. proc[p] \in Client /\ down[p] \in Seq(Messages)
    BY <1>1, NoLeaveYet
  <1>3. /\ b \in Client /\ b.pc = "run" /\ b.id = proc[p].id /\ b.node = proc[p].node
        /\ b.peers = proc[p].peers /\ b.keys = proc[p].keys /\ proc[p].peers \in SUBSET Ids
    BY <1>2 DEF Client
  <1>4. Greet(p, b, proc[p].peers) /\ UNCHANGED <<approval, members, issued, room, link, down>>
    BY DEF Hail
  <1> HIDE DEF b
  <1>5. PICK e \in Client, u \in Seq(Ids \cup {Leave}) :
           /\ proc' = [proc EXCEPT ![p] = e] /\ up' = [up EXCEPT ![p] = u]
           /\ e.pc = b.pc /\ e.id = b.id /\ e.node = b.node /\ e.peers = b.peers /\ e.keys = b.keys
           /\ \A i \in DOMAIN u : u[i] # Leave
    BY <1>1, <1>3, <1>4, Greeted
  <1>6. \A id \in Ids, q \in Processes, stage \in Stages :
           Informed(proc[p], down[p], id, q, stage) => Informed(e, down[p], id, q, stage)
    BY <1>3, <1>5, SameKnown
  <1>7. down' = [down EXCEPT ![p] = down[p]]
    BY <1>4 DEF KeyInv, TypeInv, TypeOK
  <1>8. ClientStep(p, e, u, down[p])
    BY <1>1, <1>2, <1>3, <1>4, <1>5, <1>6, <1>7 DEF ClientStep
  <1> QED
    BY <1>8

LEMMA Ends ==
  ASSUME KeyInv, NEW p \in Processes, Close(p) \/ Lost(p)
  PROVE  \E c, u, d : ClientStep(p, c, u, d)
  <1>1. /\ Reads(p) /\ proc' = [proc EXCEPT ![p] = Ended(@)] /\ down' = [down EXCEPT ![p] = <<>>]
        /\ UNCHANGED <<approval, members, issued, room, link>>
    BY DEF Close, Lost, MayEnd
  <1> DEFINE c == Ended(proc[p])
  <1>2. /\ c \in Client /\ c.id = proc[p].id /\ c.node = proc[p].node
        /\ c.pc = "gone" /\ c.keys = NoKeys
    BY <1>1, NoLeaveYet, ClientTyped
  <1>3. PICK u \in Seq(Ids \cup {Leave}) :
          /\ up' = [up EXCEPT ![p] = u]
          /\ \A i \in DOMAIN u : u[i] = Leave => i = Len(u)
    <2>1. CASE Close(p)
      <3> DEFINE u == Append(up[p], Leave)
      <3>1. up' = [up EXCEPT ![p] = u]
        BY <2>1 DEF Close
      <3>2. /\ up[p] \in Seq(Ids \cup {Leave}) /\ Leave \in Ids \cup {Leave}
            /\ \A i \in DOMAIN up[p] : up[p][i] # Leave
        BY <1>1, NoLeaveYet
      <3>3. /\ u \in Seq(Ids \cup {Leave}) /\ Len(u) = Len(up[p]) + 1
            /\ \A i \in DOMAIN up[p] : u[i] = up[p][i]
            /\ \A i \in DOMAIN u : i \in DOMAIN up[p] \/ i = Len(up[p]) + 1
        BY <3>2, Appended
      <3> HIDE DEF u
      <3> QED
        BY <3>1, <3>2, <3>3
    <2>2. CASE Lost(p)
      <3>1. PICK k \in 0..Len(up[p]) : up' = [up EXCEPT ![p] = SubSeq(@, 1, k)]
        BY <2>2 DEF Lost
      <3>2. /\ up[p] \in Seq(Ids \cup {Leave}) /\ Len(up[p]) \in Nat /\ DOMAIN up[p] = 1..Len(up[p])
            /\ \A i \in DOMAIN up[p] : up[p][i] # Leave
        BY <1>1, NoLeaveYet, LenProperties
      <3>3. /\ SubSeq(up[p], 1, k) \in Seq(Ids \cup {Leave})
            /\ DOMAIN SubSeq(up[p], 1, k) = 1..k
            /\ \A i \in 1..k : SubSeq(up[p], 1, k)[i] = up[p][i]
        <4>1. k \in Int /\ 1 \in Int /\ \A i \in 1..k : up[p][i] \in Ids \cup {Leave}
          BY <3>1, <3>2, ElementOfSeq
        <4>2. /\ SubSeq(up[p], 1, k) \in Seq(Ids \cup {Leave})
              /\ Len(SubSeq(up[p], 1, k)) = IF 1 <= k THEN k - 1 + 1 ELSE 0
              /\ \A i \in 1..(k - 1 + 1) : SubSeq(up[p], 1, k)[i] = up[p][1 + i - 1]
          BY <4>1, SubSeqProperties
        <4>3. Len(SubSeq(up[p], 1, k)) = k
          BY <3>1, <3>2, <4>2
        <4>4. DOMAIN SubSeq(up[p], 1, k) = 1..k
          BY <4>2, <4>3, LenProperties
        <4>5. \A i \in 1..k : SubSeq(up[p], 1, k)[i] = up[p][i]
          BY <3>1, <3>2, <4>2
        <4> QED
          BY <4>2, <4>4, <4>5
      <3>4. \A i \in DOMAIN SubSeq(up[p], 1, k) : SubSeq(up[p], 1, k)[i] # Leave
        BY <3>1, <3>2, <3>3
      <3> DEFINE u == SubSeq(up[p], 1, k)
      <3>5. u \in Seq(Ids \cup {Leave}) /\ up' = [up EXCEPT ![p] = u]
        BY <3>1, <3>3
      <3> HIDE DEF u
      <3> QED
        BY <3>4, <3>5 DEF u
    <2> QED
      BY <2>1, <2>2
  <1>4. proc' = [proc EXCEPT ![p] = c] /\ <<>> \in Seq(Messages) /\ DOMAIN <<>> = {}
    BY <1>1
  <1> HIDE DEF c
  <1>5. ClientStep(p, c, u, <<>>)
    BY <1>1, <1>2, <1>3, <1>4 DEF ClientStep
  <1> QED
    BY <1>5

\* What a client does with each message, its queues apart.
Handles(p, m, e, u) ==
    /\ e \in Client /\ u \in Seq(Ids \cup {Leave})
    /\ proc' = [proc EXCEPT ![p] = e] /\ up' = [up EXCEPT ![p] = u]
    /\ e.pc = proc[p].pc /\ e.id = proc[p].id /\ e.node = proc[p].node
    /\ \A i \in DOMAIN u : u[i] # Leave
    /\ \A id \in Ids, q \in Processes : id # e.id => Heeds(proc[p], m, e, id, q)

\* The messages that say hello: they add peers and leave the keys alone.
LEMMA HelloHandled ==
  ASSUME KeyInv, NEW p \in Processes, Reads(p), NEW m \in Messages, NEW c \in Client,
         NEW ids \in SUBSET Ids, Greet(p, c, ids),
         c.pc = proc[p].pc, c.id = proc[p].id, c.node = proc[p].node, c.keys = proc[p].keys,
         proc[p].peers \subseteq c.peers,
         \A id \in Ids : id # c.id /\ Tells(m, id) => id \in c.peers,
         \A id \in Ids : ~Retracts(m, id)
  PROVE  \E e, u : Handles(p, m, e, u)
  <1>1. PICK e \in Client, u \in Seq(Ids \cup {Leave}) :
           /\ proc' = [proc EXCEPT ![p] = e] /\ up' = [up EXCEPT ![p] = u]
           /\ e.pc = c.pc /\ e.id = c.id /\ e.node = c.node /\ e.peers = c.peers /\ e.keys = c.keys
           /\ \A i \in DOMAIN u : u[i] # Leave
    BY Greeted
  <1>2. \A id \in Ids, q \in Processes : id # e.id => Heeds(proc[p], m, e, id, q)
    BY <1>1 DEF Heeds
  <1>3. Handles(p, m, e, u)
    BY <1>1, <1>2 DEF Handles
  <1> QED
    BY <1>3

LEMMA MessageHandled ==
  ASSUME KeyInv, NEW p \in Processes, Reads(p), NEW m \in Messages,
         \/ OnList(p, m) \/ OnMemberJoined(p, m) \/ OnJoined(p, m)
         \/ OnMemberLeft(p, m) \/ OnKeyExchange(p, m)
  PROVE  \E e, u : Handles(p, m, e, u)
  <1> DEFINE b == proc[p]
  <1>1. /\ b \in Client /\ up[p] \in Seq(Ids \cup {Leave}) /\ b.peers \in SUBSET Ids /\ b.id \in Ids
        /\ b.keys \in [Ids -> Processes \cup {NoKey}]
        /\ \A i \in DOMAIN up[p] : up[p][i] # Leave
        /\ Ids \subseteq Nat \ {Leave} /\ MaxProcesses \in Nat
    BY NoLeaveYet, ClientTyped
  <1>2. /\ m.type = "list" => m.ids \in SUBSET Ids
        /\ m.type \in {"member_joined", "member_left"} => m.id \in Ids
        /\ m.type = "key_exchange" => m.from \in Ids /\ m.pub \in Processes
    BY DEF Messages
  <1>3. CASE OnList(p, m)
    <2> DEFINE c == [b EXCEPT !.peers = @ \cup (m.ids \ {b.id})]
    <2>1. m.type = "list" /\ Greet(p, c, c.peers)
      BY <1>3 DEF OnList
    <2>2. /\ c \in Client /\ c.pc = b.pc /\ c.id = b.id /\ c.node = b.node /\ c.keys = b.keys
          /\ c.peers = b.peers \cup (m.ids \ {b.id})
      BY <1>1, <1>2, <2>1 DEF Client
    <2> HIDE DEF c
    <2>3. c.peers \in SUBSET Ids
      BY <1>1, <1>2, <2>1, <2>2
    <2>4. /\ \A id \in Ids : id # c.id /\ Tells(m, id) => id \in c.peers
          /\ \A id \in Ids : ~Retracts(m, id)
      BY <2>1, <2>2 DEF Tells, Retracts
    <2> QED
      BY <2>1, <2>2, <2>3, <2>4, HelloHandled
  <1>4. CASE OnMemberJoined(p, m)
    <2> DEFINE c == [b EXCEPT !.peers = @ \cup {m.id}]
    <2>1. m.type = "member_joined" /\ Greet(p, c, {m.id})
      BY <1>4 DEF OnMemberJoined
    <2>2. /\ c \in Client /\ c.pc = b.pc /\ c.id = b.id /\ c.node = b.node /\ c.keys = b.keys
          /\ c.peers = b.peers \cup {m.id}
      BY <1>1, <1>2, <2>1 DEF Client
    <2> HIDE DEF c
    <2>3. {m.id} \in SUBSET Ids
      BY <1>2, <2>1
    <2>4. /\ \A id \in Ids : id # c.id /\ Tells(m, id) => id \in c.peers
          /\ \A id \in Ids : ~Retracts(m, id)
      BY <2>1, <2>2 DEF Tells, Retracts
    <2> QED
      BY <2>1, <2>2, <2>3, <2>4, HelloHandled
  <1>5. CASE OnJoined(p, m)
    <2>1. PICK opened \in {TRUE, b.relay} : Greet(p, [b EXCEPT !.relay = opened], b.peers)
      BY <1>5 DEF OnJoined
    <2> DEFINE c == [b EXCEPT !.relay = opened]
    <2>2. m.type = "joined" /\ Greet(p, c, b.peers)
      BY <1>5, <2>1 DEF OnJoined
    <2>3. /\ c \in Client /\ c.pc = b.pc /\ c.id = b.id /\ c.node = b.node /\ c.keys = b.keys
          /\ c.peers = b.peers
      BY <1>1 DEF Client
    <2> HIDE DEF c
    <2>4. /\ \A id \in Ids : id # c.id /\ Tells(m, id) => id \in c.peers
          /\ \A id \in Ids : ~Retracts(m, id)
      BY <2>2 DEF Tells, Retracts
    <2> QED
      BY <1>1, <2>2, <2>3, <2>4, HelloHandled
  <1>6. CASE OnMemberLeft(p, m)
    <2> DEFINE e == Without(b, m.id)
    <2>1. m.type = "member_left" /\ proc' = [proc EXCEPT ![p] = e] /\ UNCHANGED up
      BY <1>6 DEF OnMemberLeft
    <2>2. /\ e \in Client /\ m.id \in Ids
      BY <1>1, <1>2, <2>1, ClientCalls
    <2>3. /\ e.pc = b.pc /\ e.id = b.id /\ e.node = b.node /\ e.peers = b.peers \ {m.id}
          /\ \A id \in Ids : e.keys[id] = IF id = m.id /\ id \in b.peers THEN NoKey ELSE b.keys[id]
      BY <1>1, <2>2 DEF Client, Without
    <2> HIDE DEF e
    <2>4. \A q \in Processes : q # NoKey
      BY DEF Processes, NoKey
    <2>5. \A id \in Ids, q \in Processes : id # e.id => Heeds(b, m, e, id, q)
      BY <2>1, <2>3, <2>4 DEF Heeds, Tells, Retracts, Brings
    <2>6. up' = [up EXCEPT ![p] = up[p]]
      BY <2>1 DEF KeyInv, TypeInv, TypeOK
    <2>7. Handles(p, m, e, up[p])
      BY <1>1, <2>1, <2>2, <2>3, <2>5, <2>6 DEF Handles
    <2> QED
      BY <2>7
  <1>7. CASE OnKeyExchange(p, m)
    <2> DEFINE e == [b EXCEPT !.keys[m.from] = m.pub, !.replied = @ \cup {m.from}]
    <2>1. m.type = "key_exchange" /\ m.from \in Ids /\ m.pub \in Processes
      BY <1>2, <1>7 DEF OnKeyExchange
    <2>2. proc' = [proc EXCEPT ![p] = e]
      BY <1>7 DEF OnKeyExchange, KeyInv, TypeInv, TypeOK
    <2>3. /\ e \in Client
          /\ e.pc = b.pc /\ e.id = b.id /\ e.node = b.node /\ e.peers = b.peers
          /\ \A id \in Ids : e.keys[id] = IF id = m.from THEN m.pub ELSE b.keys[id]
      <3>1. e \in Client
        BY <1>1, <2>1, ClientCalls
      <3>2. e.pc = b.pc /\ e.id = b.id /\ e.node = b.node /\ e.peers = b.peers
        BY <1>1 DEF Client
      <3>3. e.keys = [b.keys EXCEPT ![m.from] = m.pub]
        BY <1>1 DEF Client
      <3> HIDE DEF e
      <3> QED
        BY <1>1, <3>1, <3>2, <3>3
    <2>4. PICK u \in Seq(Ids \cup {Leave}) :
            up' = [up EXCEPT ![p] = u] /\ \A i \in DOMAIN u : u[i] # Leave
      <3>1. CASE up' = [up EXCEPT ![p] = Append(@, m.from)]
        <4>1. /\ Append(up[p], m.from) \in Seq(Ids \cup {Leave})
              /\ \A i \in DOMAIN up[p] : Append(up[p], m.from)[i] = up[p][i]
              /\ Append(up[p], m.from)[Len(up[p]) + 1] = m.from
              /\ \A i \in DOMAIN Append(up[p], m.from) : i \in DOMAIN up[p] \/ i = Len(up[p]) + 1
          BY <1>1, <2>1, Appended
        <4>2. m.from # Leave
          BY <1>1, <2>1
        <4> QED
          BY <1>1, <3>1, <4>1, <4>2
      <3>2. CASE up' = up
        BY <1>1, <3>2 DEF KeyInv, TypeInv, TypeOK
      <3> QED
        BY <1>7, <3>1, <3>2 DEF OnKeyExchange
    <2> HIDE DEF e
    <2>5. \A id \in Ids, q \in Processes : id # e.id => Heeds(b, m, e, id, q)
      BY <2>1, <2>3 DEF Heeds, Tells, Retracts, Brings
    <2>6. Handles(p, m, e, u)
      BY <2>2, <2>3, <2>4, <2>5 DEF Handles
    <2> QED
      BY <2>6
  <1> QED
    BY <1>3, <1>4, <1>5, <1>6, <1>7

LEMMA ReadSteps ==
  ASSUME KeyInv, NEW p \in Processes, Read(p)
  PROVE  \E c, u, d : ClientStep(p, c, u, d)
  <1> DEFINE m == Head(down[p])
  <1>1. /\ Reads(p) /\ down[p] # <<>>
        /\ \/ OnList(p, m) \/ OnMemberJoined(p, m) \/ OnJoined(p, m)
           \/ OnMemberLeft(p, m) \/ OnKeyExchange(p, m)
        /\ down' = [down EXCEPT ![p] = Tail(@)]
        /\ UNCHANGED <<approval, members, issued, room, link>>
    BY DEF Read
  <1>2. down[p] \in Seq(Messages)
    BY <1>1, NoLeaveYet
  <1>3. m \in Messages /\ Tail(down[p]) \in Seq(Messages)
    BY <1>1, <1>2, Shortened
  <1> HIDE DEF m
  <1>4. PICK e, u : Handles(p, m, e, u)
    BY <1>1, <1>3, MessageHandled
  <1>5. ASSUME NEW id \in Ids, NEW q \in Processes, NEW stage \in Stages,
               id # e.id, Informed(proc[p], down[p], id, q, stage)
        PROVE  Informed(e, Tail(down[p]), id, q, stage)
    <2>1. Heeds(proc[p], Head(down[p]), e, id, q)
      BY <1>4, <1>5 DEF Handles, m
    <2> QED
      BY <1>1, <1>2, <1>5, <2>1, OneRead
  <1>6. e.pc \in {"hail", "run"}
    BY <1>1, <1>4 DEF Handles, Reads
  <1>7. \A i \in DOMAIN Tail(down[p]) : \E j \in DOMAIN down[p] : Tail(down[p])[i] = down[p][j]
    BY <1>1, <1>2, Shortened
  <1>8. ClientStep(p, e, u, Tail(down[p]))
    BY <1>1, <1>3, <1>4, <1>5, <1>6, <1>7 DEF ClientStep, Handles
  <1> QED
    BY <1>8

-----------------------------------------------------------------------------
\* The server's steps.

\* What every step finds.
LEMMA Found ==
  ASSUME KeyInv
  PROVE  /\ TypeOK /\ TypeInv /\ IdsAreNodes /\ MaxProcesses \in Nat
         /\ \A p \in Processes :
              /\ up[p] \in Seq(Ids \cup {Leave}) /\ down[p] \in Seq(Messages)
              /\ Stage(p) \in Stages
              /\ Born(p) => proc[p] \in Client /\ proc[p].id \in Ids
              /\ Alive(p) => Born(p)
              /\ Reads(p) => Alive(p) /\ proc[p].pc # "announce"
              /\ First(p) => Born(p)
              /\ First(p) => \A r \in Processes : Born(r) /\ r # p => proc[r].id # proc[p].id
              /\ link[p] \in Handler
              /\ link[p].pc = "attach" => \A a \in room : a.process # p
              /\ \A q \in Processes : StageFor(q, p) \in Stages
  <1>1. TypeOK /\ TypeInv /\ IdsAreNodes /\ MaxProcesses \in Nat
    BY KeyExchangeConstants DEF KeyInv, TypeInv
  <1>2. ASSUME NEW p \in Processes
        PROVE  /\ up[p] \in Seq(Ids \cup {Leave}) /\ down[p] \in Seq(Messages)
               /\ Stage(p) \in Stages
               /\ Born(p) => proc[p] \in Client /\ proc[p].id \in Ids
               /\ Alive(p) => Born(p)
               /\ Reads(p) => Alive(p) /\ proc[p].pc # "announce"
               /\ First(p) => Born(p)
               /\ First(p) => \A r \in Processes : Born(r) /\ r # p => proc[r].id # proc[p].id
               /\ link[p] \in Handler
               /\ link[p].pc = "attach" => \A a \in room : a.process # p
               /\ \A q \in Processes : StageFor(q, p) \in Stages
    <2>1. up[p] \in Seq(Ids \cup {Leave}) /\ down[p] \in Seq(Messages) /\ Stage(p) \in Stages
      BY <1>1 DEF TypeOK, Stage, Stages
    <2>2. Born(p) => proc[p] \in Client /\ proc[p].id \in Ids
      BY <1>1, ClientOrUnborn, ClientTyped
    <2>3. /\ Alive(p) => Born(p)
          /\ Reads(p) => Alive(p) /\ proc[p].pc # "announce"
      BY <1>1, ClientOrUnborn DEF Reads
    <2>4. /\ First(p) => Born(p)
          /\ First(p) => \A r \in Processes : Born(r) /\ r # p => proc[r].id # proc[p].id
      BY DEF First, Born
    <2>5. /\ link[p] \in Handler
          /\ link[p].pc = "attach" => \A a \in room : a.process # p
          /\ \A q \in Processes : StageFor(q, p) \in Stages
      BY <1>1, <2>1 DEF TypeOK, KeyInv, ReadersAreAttached, Inside, StageFor, Stages
    <2> QED
      BY <2>1, <2>2, <2>3, <2>4, <2>5
  <1> QED
    BY <1>1, <1>2

\* A message m reaches the processes in to: types, and no departure is new.
LEMMA Reaches ==
  ASSUME KeyInv, NEW to, NEW m \in Messages, Sent(to, m), UNCHANGED issued,
         m.type = "member_left" => m.id <= issued
  PROVE  down' \in [Processes -> Seq(Messages)] /\ EndsAreOld'
  <1>1. \A q \in Processes : down[q] \in Seq(Messages)
    BY Found
  <1>2. /\ DOMAIN down' = Processes
        /\ \A q \in Processes : down'[q] = IF q \in to /\ Reads(q) THEN Append(down[q], m) ELSE down[q]
    BY DEF Sent
  <1>3. \A q \in Processes : Append(down[q], m) \in Seq(Messages)
    BY <1>1, Appended
  <1>4. down' \in [Processes -> Seq(Messages)]
    BY <1>1, <1>2, <1>3 DEF Sent
  <1>5. ASSUME NEW q \in Processes, NEW i \in DOMAIN down'[q], down'[q][i].type = "member_left"
        PROVE  down'[q][i].id <= issued'
    <2>1. CASE down'[q] = down[q]
      BY <1>5, <2>1 DEF KeyInv, EndsAreOld
    <2>2. CASE down'[q] = Append(down[q], m)
      <3>1. /\ \A j \in DOMAIN down[q] : Append(down[q], m)[j] = down[q][j]
            /\ Append(down[q], m)[Len(down[q]) + 1] = m
            /\ \A j \in DOMAIN Append(down[q], m) : j \in DOMAIN down[q] \/ j = Len(down[q]) + 1
        BY <1>1, Appended
      <3>2. CASE i \in DOMAIN down[q]
        BY <1>5, <2>2, <3>1, <3>2 DEF KeyInv, EndsAreOld
      <3>3. CASE i = Len(down[q]) + 1
        BY <1>5, <2>2, <3>1, <3>3
      <3> QED
        BY <2>2, <3>1, <3>2, <3>3
    <2> QED
      BY <1>2, <2>1, <2>2
  <1>6. EndsAreOld'
    BY <1>5 DEF EndsAreOld
  <1> QED
    BY <1>4, <1>6

LEMMA DetachKeeps ==
  ASSUME KeyInv, NEW p \in Processes, Detach(p)
  PROVE  KeyInv'
  <1>1. /\ ~Alive(p) /\ link[p].pc = "serve" /\ room' = {a \in room : a.process # p}
        /\ link' = [link EXCEPT ![p] = NoHandler]
        /\ up' = [up EXCEPT ![p] = <<>>]
        /\ UNCHANGED <<approval, members, issued, proc, down>>
    BY DEF Detach
  <1>2. /\ link'[p] = NoHandler /\ NoHandler.pc = "none" /\ NoHandler \in Handler
        /\ up'[p] = <<>>
        /\ \A r \in Processes \ {p} : link'[r] = link[r] /\ up'[r] = up[r]
    BY <1>1, Found DEF TypeOK, NoHandler, Handler
  <1>3. /\ \A r \in Processes : /\ Born(r)' <=> Born(r)
                                /\ Alive(r)' <=> Alive(r)
                                /\ Reads(r)' <=> Reads(r)
                                /\ Present(r)' <=> Present(r)
                                /\ First(r)' <=> First(r)
        /\ Born(p) /\ ~Reads(p)
    BY <1>1, Found DEF Born, Alive, Reads, Present, First, KeyInv, HandlersFit
  <1>4. TypeInv'
    <2>1. link' \in [Processes -> Handler] /\ up' \in [Processes -> Seq(Ids \cup {Leave})]
      BY <1>1, <1>2, Found DEF TypeOK
    <2>2. room' \subseteq Attached
      BY <1>1, Found DEF TypeOK
    <2>3. TypeOK'
      BY <1>1, <2>1, <2>2, Found DEF TypeOK
    <2>4. BornInOrder'
      BY <1>1, Found DEF TypeInv, BornInOrder, Born
    <2> QED
      BY <2>3, <2>4 DEF TypeInv
  <1>5. IdsAreNodes'
    BY <1>1, Found DEF IdsAreNodes, Born, Alive
  <1>6. ReadersAreAttached' /\ HandlersFit'
    <2>1. \A a \in room' : Born(a.process)' /\ a.id = proc'[a.process].id /\ Inside(a.process)'
      <3>1. \A a \in room : a.process \in Processes
        BY Found DEF TypeOK, Attached
      <3> QED
        BY <1>1, <1>2, <1>3, <3>1 DEF KeyInv, ReadersAreAttached, Inside
    <2>2. \A r \in Processes : Reads(r)' => link'[r].pc = "attach" \/ \E a \in room' : a.process = r
      <3> SUFFICES ASSUME NEW r \in Processes, Reads(r)
                   PROVE  link'[r].pc = "attach" \/ \E a \in room' : a.process = r
        BY <1>3
      <3>1. r # p
        BY <1>3
      <3>2. link[r].pc = "attach" \/ \E a \in room : a.process = r
        BY DEF KeyInv, ReadersAreAttached
      <3> QED
        BY <1>1, <1>2, <3>1, <3>2
    <2>3. HandlersFit'
      BY <1>1, <1>2, <1>3 DEF KeyInv, HandlersFit
    <2> QED
      BY <2>1, <2>2, <2>3 DEF ReadersAreAttached
  <1>7. LeaveIsLast' /\ EverybodyIsIn' /\ KeysAreFresh'
    <2>1. LeaveIsLast'
      <3>1. DOMAIN <<>> = {}
        OBVIOUS
      <3> QED
        BY <1>2, <1>3, <3>1 DEF KeyInv, LeaveIsLast
    <2>2. EverybodyIsIn'
      BY <1>1 DEF KeyInv, EverybodyIsIn
    <2>3. KeysAreFresh'
      BY <1>1, <1>2, <1>3 DEF KeyInv, KeysAreFresh
    <2> QED
      BY <2>1, <2>2, <2>3
  <1>8. GoneIsOver'
    BY <1>2, <1>3 DEF KeyInv, GoneIsOver
  <1>9. NewsArrives'
    <2> SUFFICES ASSUME ~approval, NEW r \in Processes, NEW q \in Processes,
                        r # q, Reads(r), First(q)
                 PROVE  News(r, q)'
      BY <1>1, <1>3 DEF NewsArrives
    <2>1. News(r, q) /\ r # p /\ link'[r] = link[r]
      BY <1>2, <1>3 DEF KeyInv, NewsArrives
    <2>2. StageFor(r, q)' = StageFor(r, q)
      BY <1>1, <1>3, <2>1 DEF StageFor, Stage, ToBeListed
    <2> QED
      BY <1>1, <2>1, <2>2 DEF News
  <1>10. MembersWereBorn' /\ EndsAreOld'
    BY <1>1 DEF KeyInv, MembersWereBorn, EndsAreOld, Born
  <1> QED
    BY <1>4, <1>5, <1>6, <1>7, <1>8, <1>9, <1>10 DEF KeyInv

LEMMA AnnounceKeeps ==
  ASSUME KeyInv, NEW p \in Processes, Announce(p)
  PROVE  KeyInv'
  <1> DEFINE id == proc[p].id
             m  == [type |-> "member_joined", id |-> id]
             to == Audience \ ProcessOf(id)
             c  == [proc[p] EXCEPT !.pc = "dial"]
  <1>1. /\ proc[p].pc = "announce" /\ Sent(to, m) /\ proc' = [proc EXCEPT ![p] = c]
        /\ UNCHANGED <<approval, members, issued, room, link, up>>
    BY DEF Announce
  <1>2. Alive(p) /\ ~Reads(p) /\ Born(p) /\ proc[p] \in Client /\ id \in Ids
    BY <1>1, Found DEF Alive, Reads
  <1>3. /\ c \in Client /\ c.pc = "dial" /\ c.id = id /\ c.node = proc[p].node /\ c.keys = proc[p].keys
        /\ m \in Messages /\ m.type = "member_joined" /\ m.id = id
    BY <1>2 DEF Client, Messages
  <1> HIDE DEF c, m, to, id
  <1>4. /\ proc'[p] = c
        /\ \A r \in Processes \ {p} : proc'[r] = proc[r]
        /\ \A r \in Processes : proc'[r].id = proc[r].id /\ proc'[r].node = proc[r].node
    BY <1>1, <1>3, Found DEF TypeOK, id
  <1>5. \A r \in Processes : /\ Born(r)' <=> Born(r)
                             /\ Alive(r)' <=> Alive(r)
                             /\ Reads(r)' <=> Reads(r)
                             /\ Present(r)' <=> Present(r)
    <2>1. Born(p)' /\ Alive(p)' /\ ~Reads(p)'
      BY <1>3, <1>4, ClientTyped DEF Born, Alive, Reads
    <2>2. \A r \in Processes \ {p} : /\ Born(r)' <=> Born(r)
                                     /\ Alive(r)' <=> Alive(r)
                                     /\ Reads(r)' <=> Reads(r)
      BY <1>4 DEF Born, Alive, Reads
    <2>3. \A r \in Processes : Present(r)' <=> Present(r)
      BY <1>1, <1>4 DEF Present
    <2> QED
      BY <1>2, <2>1, <2>2, <2>3
  <1>6. Settled
    BY <1>1, <1>4, <1>5 DEF Settled
  <1>7. /\ BornInOrder' /\ IdsAreNodes'
        /\ \A q \in Processes : First(q)' <=> First(q)
    BY <1>6, Found, SettledKeeps
  <1>8. down' \in [Processes -> Seq(Messages)] /\ EndsAreOld'
    BY <1>1, <1>3, Reaches
  <1>9. TypeOK'
    <2>1. proc' \in [Processes -> Client \cup {Unborn}]
      BY <1>1, <1>3, Found DEF TypeOK
    <2> QED
      BY <1>1, <1>8, <2>1, Found DEF TypeOK
  <1>10. ReadersAreAttached' /\ HandlersFit'
    <2>1. \A a \in room : a.process \in Processes
      BY Found DEF TypeOK, Attached
    <2>2. ReadersAreAttached'
      BY <1>1, <1>4, <1>5, <2>1 DEF KeyInv, ReadersAreAttached, Inside
    <2>3. HandlersFit'
      BY <1>1, <1>5 DEF KeyInv, HandlersFit
    <2> QED
      BY <2>2, <2>3
  <1>11. LeaveIsLast' /\ EverybodyIsIn' /\ GoneIsOver' /\ KeysAreFresh' /\ MembersWereBorn'
    <2>1. LeaveIsLast' /\ EverybodyIsIn'
      BY <1>1, <1>5 DEF KeyInv, LeaveIsLast, EverybodyIsIn
    <2>2. GoneIsOver'
      BY <1>1, <1>5, <1>7 DEF KeyInv, GoneIsOver
    <2>3. KeysAreFresh'
      <3>1. \A r \in Processes : ~Reads(r) \/ link[r].pc = "attach" => down'[r] = down[r]
        <4>1. \A r \in Processes : link[r].pc = "attach" => r \notin to
          BY Found DEF to, Audience
        <4> QED
          BY <1>1, <4>1 DEF Sent
      <3>2. \A r \in Processes : proc'[r].keys = proc[r].keys
        BY <1>3, <1>4
      <3> QED
        BY <1>1, <1>5, <3>1, <3>2 DEF KeyInv, KeysAreFresh
    <2>4. MembersWereBorn'
      BY <1>1, <1>4, <1>5 DEF KeyInv, MembersWereBorn
    <2> QED
      BY <2>1, <2>2, <2>3, <2>4
  <1>12. NewsArrives'
    <2> SUFFICES ASSUME ~approval, NEW r \in Processes, NEW q \in Processes,
                        r # q, Reads(r), First(q)
                 PROVE  News(r, q)'
      BY <1>1, <1>5, <1>7 DEF NewsArrives
    <2>1. News(r, q) /\ r # p /\ proc'[r] = proc[r] /\ proc'[q].id = proc[q].id
          /\ StageFor(r, q) \in Stages /\ link' = link
      BY <1>1, <1>2, <1>4, Found DEF KeyInv, NewsArrives
    <2>2. down[r] \in Seq(Messages) /\ ~Retracts(m, proc[q].id) /\ ~Brings(m, q)
      BY <1>3, Found DEF Retracts, Brings
    <2>3. down'[r] = down[r] \/ down'[r] = Append(down[r], m)
      BY <1>1 DEF Sent
    <2>4. CASE proc[q].id \in link[r].missed
      BY <2>1, <2>4 DEF News
    <2>5. CASE StageFor(r, q)' = StageFor(r, q) /\ proc[q].id \notin link[r].missed
      <3>1. Informed(proc[r], Append(down[r], m), proc[q].id, q, StageFor(r, q))
        BY <1>3, <2>1, <2>2, <2>5, OneMore DEF News
      <3> QED
        BY <2>1, <2>3, <2>5, <3>1 DEF News
    <2>6. CASE q # p
      <3>1. Stage(q)' = Stage(q)
        BY <1>4, <1>5, <2>6 DEF Stage
      <3>2. StageFor(r, q)' = StageFor(r, q)
        BY <2>1, <3>1 DEF StageFor, ToBeListed
      <3> QED
        BY <2>4, <2>5, <3>2
    <2>7. CASE q = p /\ ToBeListed(r, proc[q].id)
      <3>1. Stage(p) = "new"
        BY <1>1 DEF Stage
      <3>2. Stage(p)' \in {"new", "member"}
        <4>1. Present(p)
          BY <1>2, <2>7 DEF KeyInv, GoneIsOver
        <4> QED
          BY <1>5, <4>1 DEF Stage
      <3>3. ToBeListed(r, proc[q].id)'
        BY <2>1, <2>7 DEF ToBeListed
      <3>4. StageFor(r, q)' = StageFor(r, q)
        BY <2>7, <3>1, <3>2, <3>3 DEF StageFor
      <3> QED
        BY <2>4, <2>5, <3>4
    <2>8. CASE q = p /\ ~ToBeListed(r, proc[q].id) /\ proc[q].id \notin link[r].missed
      <3>1. Stage(p) = "new" /\ Stage(p)' = "member"
        <4>1. Present(p)
          BY <1>2, <2>8 DEF KeyInv, GoneIsOver
        <4> QED
          BY <1>1, <1>3, <1>4, <1>5, <4>1 DEF Stage
      <3>2. r \in to
        <4>1. PICK a \in room : a.process = r
          BY <2>8 DEF KeyInv, ReadersAreAttached, ToBeListed
        <4>2. a.approved
          BY <4>1 DEF KeyInv, EverybodyIsIn
        <4>3. \A b \in room : b.process = r => b.id # id
          BY <2>1, <2>8, Found DEF KeyInv, ReadersAreAttached, id
        <4> QED
          BY <4>1, <4>2, <4>3 DEF to, Audience, ProcessOf
      <3>3. down'[r] = Append(down[r], m)
        BY <1>1, <3>2 DEF Sent
      <3>4. HearsNoEnd(down[r], id)
        BY <2>1, <2>8, <3>1 DEF News, StageFor, Informed, id
      <3>5. /\ \A i \in DOMAIN down[r] : down'[r][i] = down[r][i]
            /\ \A i \in DOMAIN down'[r] : i \in DOMAIN down[r] \/ i = Len(down[r]) + 1
            /\ Len(down[r]) + 1 \in DOMAIN down'[r] /\ down'[r][Len(down[r]) + 1] = m
        BY <1>3, <2>2, <3>3, Appended
      <3>6. HearsNoEnd(down'[r], id)
        BY <1>3, <3>4, <3>5 DEF HearsNoEnd, Retracts
      <3>7. Knows(proc[r], down'[r], id)
        BY <1>3, <3>5 DEF Knows, Tells
      <3>8. Informed(proc[r], down'[r], id, p, "member")
        BY <3>6, <3>7 DEF Informed
      <3>9. StageFor(r, p)' = "member"
        BY <2>1, <2>8, <3>1 DEF StageFor, ToBeListed
      <3> QED
        BY <2>1, <2>8, <3>8, <3>9 DEF News, id
    <2> QED
      BY <2>4, <2>6, <2>7, <2>8
  <1> QED
    BY <1>7, <1>8, <1>9, <1>10, <1>11, <1>12 DEF KeyInv, TypeInv

LEMMA DialKeeps ==
  ASSUME KeyInv, NEW p \in Processes, Dial(p)
  PROVE  KeyInv'
  <1> DEFINE id   == proc[p].id
             mine == {m \in members : m.id = id}
             c    == IF mine = {} THEN Ended(proc[p]) ELSE [proc[p] EXCEPT !.pc = "hail"]
             h    == IF mine = {} THEN link[p]
                     ELSE [link[p] EXCEPT !.pc = "attach", !.approved = \E m \in mine : m.active]
  <1>1. /\ proc[p].pc = "dial"
        /\ UNCHANGED <<approval, members, issued, room, up, down>>
    BY DEF Dial
  <1>2. /\ Alive(p) /\ ~Reads(p) /\ Born(p) /\ proc[p] \in Client /\ id \in Ids
        /\ down[p] = <<>> /\ up[p] = <<>> /\ proc[p].keys = NoKeys
        /\ link[p] \in Handler /\ link[p].pc = "none" /\ \A a \in room : a.process # p
    <2>1. /\ Alive(p) /\ ~Reads(p) /\ Born(p) /\ proc[p] \in Client /\ id \in Ids
          /\ link[p] \in Handler
      BY <1>1, Found DEF Alive, Reads
    <2>2. down[p] = <<>> /\ up[p] = <<>> /\ proc[p].keys = NoKeys /\ link[p].pc = "none"
      BY <2>1 DEF KeyInv, LeaveIsLast, KeysAreFresh, HandlersFit
    <2>3. \A a \in room : a.process # p
      BY <2>2 DEF KeyInv, ReadersAreAttached, Inside
    <2> QED
      BY <2>1, <2>2, <2>3
  <1>3. proc' = [proc EXCEPT ![p] = c] /\ link' = [link EXCEPT ![p] = h]
    <2>1. mine = {} => proc' = [proc EXCEPT ![p] = Ended(@)] /\ link' = link
      BY DEF Dial
    <2>2. mine # {} => /\ proc' = [proc EXCEPT ![p] = [@ EXCEPT !.pc = "hail"]]
                       /\ link' = [link EXCEPT ![p].pc = "attach",
                                               ![p].approved = \E m \in mine : m.active]
      BY DEF Dial
    <2>3. link \in [Processes -> Handler]
      BY Found DEF TypeOK
    <2> QED
      BY <2>1, <2>2, <2>3
  <1>4. mine = {} <=> ~Present(p)
    BY DEF Present
  <1>5. /\ c \in Client /\ c.id = id /\ c.node = proc[p].node /\ c.keys = NoKeys
        /\ ~Present(p) => c.pc = "gone"
        /\ Present(p) => c.pc = "hail"
    <2>1. /\ Ended(proc[p]) \in Client /\ Ended(proc[p]).id = id
          /\ Ended(proc[p]).node = proc[p].node /\ Ended(proc[p]).pc = "gone"
          /\ Ended(proc[p]).keys = NoKeys
      BY <1>2, ClientTyped
    <2>2. /\ [proc[p] EXCEPT !.pc = "hail"] \in Client
          /\ [proc[p] EXCEPT !.pc = "hail"].id = id
          /\ [proc[p] EXCEPT !.pc = "hail"].node = proc[p].node
          /\ [proc[p] EXCEPT !.pc = "hail"].pc = "hail"
          /\ [proc[p] EXCEPT !.pc = "hail"].keys = proc[p].keys
      BY <1>2 DEF Client
    <2> QED
      BY <1>2, <1>4, <2>1, <2>2
  <1>6. /\ h \in Handler
        /\ ~Present(p) => h = link[p]
        /\ Present(p) => h.pc = "attach" /\ (~approval => h.approved)
    <2>1. ~approval /\ mine # {} => \E m \in mine : m.active
      BY DEF KeyInv, EverybodyIsIn
    <2>2. (\E m \in mine : m.active) \in BOOLEAN
      OBVIOUS
    <2> DEFINE A == \E m \in mine : m.active
    <2>3. A \in BOOLEAN /\ (~approval /\ mine # {} => A)
      BY <2>1, <2>2
    <2> HIDE DEF A
    <2>4. /\ [link[p] EXCEPT !.pc = "attach", !.approved = A] \in Handler
          /\ [link[p] EXCEPT !.pc = "attach", !.approved = A].pc = "attach"
          /\ [link[p] EXCEPT !.pc = "attach", !.approved = A].approved = A
      BY <1>2, <2>3 DEF Handler
    <2> QED
      BY <1>2, <1>4, <2>3, <2>4 DEF A
  <1> HIDE DEF c, h, mine, id
  <1>7. /\ proc'[p] = c /\ link'[p] = h
        /\ \A r \in Processes \ {p} : proc'[r] = proc[r] /\ link'[r] = link[r]
        /\ \A r \in Processes : proc'[r].id = proc[r].id /\ proc'[r].node = proc[r].node
    BY <1>3, <1>5, Found DEF TypeOK, id
  <1>8. /\ \A r \in Processes : Born(r)' <=> Born(r)
        /\ \A r \in Processes : Present(r)' <=> Present(r)
        /\ \A r \in Processes \ {p} : (Alive(r)' <=> Alive(r)) /\ (Reads(r)' <=> Reads(r))
        /\ Alive(p)' <=> Present(p)
        /\ Reads(p)' <=> Present(p)
    <2>1. Born(p)' /\ (Alive(p)' <=> Present(p)) /\ (Reads(p)' <=> Present(p))
      BY <1>5, <1>7, ClientTyped DEF Born, Alive, Reads
    <2>2. \A r \in Processes \ {p} : /\ Born(r)' <=> Born(r)
                                     /\ Alive(r)' <=> Alive(r)
                                     /\ Reads(r)' <=> Reads(r)
      BY <1>7 DEF Born, Alive, Reads
    <2>3. \A r \in Processes : Present(r)' <=> Present(r)
      BY <1>1, <1>7 DEF Present
    <2> QED
      BY <1>2, <2>1, <2>2, <2>3
  <1>9. Settled
    BY <1>1, <1>2, <1>7, <1>8 DEF Settled
  <1>10. /\ BornInOrder' /\ IdsAreNodes'
         /\ \A q \in Processes : First(q)' <=> First(q)
    BY <1>9, Found, SettledKeeps
  <1>11. TypeOK'
    <2>1. proc' \in [Processes -> Client \cup {Unborn}] /\ link' \in [Processes -> Handler]
      BY <1>3, <1>5, <1>6, Found DEF TypeOK
    <2> QED
      BY <1>1, <2>1, Found DEF TypeOK
  <1>12. ReadersAreAttached' /\ HandlersFit'
    <2>1. \A a \in room' : Born(a.process)' /\ a.id = proc'[a.process].id /\ Inside(a.process)'
      <3>1. \A a \in room : a.process \in Processes \ {p}
        BY <1>2, Found DEF TypeOK, Attached
      <3> QED
        BY <1>1, <1>7, <1>8, <3>1 DEF KeyInv, ReadersAreAttached, Inside
    <2>2. \A r \in Processes : Reads(r)' => link'[r].pc = "attach" \/ \E a \in room' : a.process = r
      BY <1>1, <1>6, <1>7, <1>8 DEF KeyInv, ReadersAreAttached
    <2>3. HandlersFit'
      BY <1>1, <1>2, <1>6, <1>7, <1>8 DEF KeyInv, HandlersFit
    <2> QED
      BY <2>1, <2>2, <2>3 DEF ReadersAreAttached
  <1>13. LeaveIsLast'
    <2>1. \A r \in Processes \ {p} :
            /\ Reads(r)' \/ (Born(r)' /\ ~Alive(r)') \/ up'[r] = <<>>
            /\ \A i \in DOMAIN up'[r] : up'[r][i] = Leave => i = Len(up'[r]) /\ ~Alive(r)'
      BY <1>1, <1>8 DEF KeyInv, LeaveIsLast
    <2>2. up'[p] = <<>> /\ DOMAIN <<>> = {}
      BY <1>1, <1>2
    <2> QED
      BY <2>1, <2>2 DEF LeaveIsLast
  <1>14. EverybodyIsIn' /\ GoneIsOver' /\ EndsAreOld'
    <2>1. EverybodyIsIn' /\ EndsAreOld'
      BY <1>1 DEF KeyInv, EverybodyIsIn, EndsAreOld
    <2>2. GoneIsOver'
      BY <1>1, <1>8, <1>10 DEF KeyInv, GoneIsOver
    <2> QED
      BY <2>1, <2>2
  <1>15. KeysAreFresh' /\ MembersWereBorn'
    <2>1. KeysAreFresh'
      BY <1>1, <1>2, <1>5, <1>7, <1>8 DEF KeyInv, KeysAreFresh
    <2>2. MembersWereBorn'
      BY <1>1, <1>7, <1>8 DEF KeyInv, MembersWereBorn
    <2> QED
      BY <2>1, <2>2
  <1>16. NewsArrives'
    <2> SUFFICES ASSUME ~approval, NEW r \in Processes, NEW q \in Processes,
                        r # q, Reads(r)', First(q)
                 PROVE  News(r, q)'
      BY <1>1, <1>10 DEF NewsArrives
    <2>1. Stage(q)' = Stage(q)
      <3>1. c.pc # "announce"
        BY <1>5
      <3> QED
        BY <1>1, <1>7, <1>8, <3>1 DEF Stage
    <2>2. CASE r # p
      <3>1. News(r, q) /\ link'[r] = link[r] /\ proc'[r] = proc[r]
        BY <1>7, <1>8, <2>2 DEF KeyInv, NewsArrives
      <3>2. StageFor(r, q)' = StageFor(r, q)
        BY <1>7, <2>1, <3>1 DEF StageFor, ToBeListed
      <3> QED
        BY <1>1, <1>7, <3>1, <3>2 DEF News
    <2>3. CASE r = p
      <3>1. h.pc = "attach"
        BY <1>6, <1>8, <2>3
      <3>2. StageFor(p, q)' # "member"
        BY <1>7, <3>1 DEF StageFor, ToBeListed
      <3>3. c.keys[proc[q].id] # q
        <4>1. proc[q].id \in Ids /\ q # NoKey
          BY Found DEF Processes, NoKey
        <4> QED
          BY <1>5, <4>1 DEF NoKeys
      <3>4. DOMAIN <<>> = {}
        OBVIOUS
      <3>5. Informed(c, <<>>, proc[q].id, q, StageFor(p, q)')
        BY <3>2, <3>3, <3>4 DEF Informed, HearsNoEnd, HasForgotten
      <3> QED
        BY <1>1, <1>2, <1>7, <2>3, <3>5 DEF News
    <2> QED
      BY <2>2, <2>3
  <1> QED
    BY <1>10, <1>11, <1>12, <1>13, <1>14, <1>15, <1>16 DEF KeyInv, TypeInv

LEMMA AttachControlKeeps ==
  ASSUME KeyInv, NEW p \in Processes, AttachControl(p)
  PROVE  KeyInv'
  <1> DEFINE id       == proc[p].id
             replaced == ProcessOf(id)
             fresh    == [id |-> id, process |-> p, approved |-> link[p].approved]
             h        == [link[p] EXCEPT !.pc = "read", !.approved = FALSE]
  <1>1. /\ link[p].pc = "attach"
        /\ room' = {a \in room : a.id # id} \cup {fresh}
        /\ proc' = [q \in Processes |->
                      IF q \in replaced /\ Alive(q) THEN Ended(proc[q]) ELSE proc[q]]
        /\ down' = [q \in Processes |-> IF q \in replaced THEN <<>> ELSE down[q]]
        /\ UNCHANGED <<approval, members, issued, up>>
    BY DEF AttachControl
  <1>2. /\ Born(p) /\ proc[p] \in Client /\ id \in Ids /\ link[p] \in Handler
        /\ p \notin replaced
        /\ ~approval => link[p].approved
    <2>1. Born(p) /\ (~approval => link[p].approved)
      BY <1>1 DEF KeyInv, HandlersFit
    <2>2. p \notin replaced
      BY <1>1, Found DEF ProcessOf
    <2> QED
      BY <2>1, <2>2, Found
  <1>3. /\ h \in Handler /\ h.pc = "read" /\ h.list = link[p].list /\ h.missed = link[p].missed
        /\ link' = [link EXCEPT ![p] = h]
    <2>1. h \in Handler /\ h.pc = "read" /\ h.list = link[p].list /\ h.missed = link[p].missed
      BY <1>2 DEF Handler
    <2>2. link' = [link EXCEPT ![p] = h]
      BY Found DEF AttachControl, TypeOK
    <2> QED
      BY <2>1, <2>2
  <1>4. fresh \in Attached /\ fresh.id = id /\ fresh.process = p /\ fresh.approved = link[p].approved
    <2>1. link[p].approved \in BOOLEAN
      BY <1>2 DEF Handler
    <2> QED
      BY <1>2, <2>1 DEF Attached
  <1>5. /\ \A a \in room : a.id = id => a.process \in replaced
        /\ \A a \in room : /\ a.process \in Processes /\ Born(a.process)
                           /\ a.id = proc[a.process].id /\ Inside(a.process)
        /\ \A q \in replaced : q \in Processes /\ Born(q)
    <2>1. \A a \in room : /\ a.process \in Processes /\ Born(a.process)
                          /\ a.id = proc[a.process].id /\ Inside(a.process)
      BY Found DEF TypeOK, Attached, KeyInv, ReadersAreAttached
    <2> QED
      BY <2>1 DEF ProcessOf
  <1>6. \A q \in Processes : Born(q) =>
          /\ Ended(proc[q]) \in Client /\ Ended(proc[q]).id = proc[q].id
          /\ Ended(proc[q]).node = proc[q].node
          /\ Ended(proc[q]).pc = "gone" /\ Ended(proc[q]).keys = NoKeys
    BY Found, ClientTyped
  <1> HIDE DEF id, replaced, fresh, h
  <1>7. /\ \A q \in Processes :
             /\ proc'[q] = proc[q] \/ (q \in replaced /\ Alive(q) /\ Born(q) /\ proc'[q] = Ended(proc[q]))
             /\ proc'[q].id = proc[q].id /\ proc'[q].node = proc[q].node
             /\ down'[q] = IF q \in replaced THEN <<>> ELSE down[q]
        /\ proc'[p] = proc[p] /\ down'[p] = down[p] /\ link'[p] = h
        /\ \A q \in Processes \ {p} : link'[q] = link[q]
    BY <1>1, <1>2, <1>3, <1>5, <1>6, Found DEF TypeOK
  <1>8. \A q \in Processes :
          /\ Born(q)' <=> Born(q)
          /\ Alive(q)' <=> Alive(q) /\ q \notin replaced
          /\ Reads(q)' <=> Reads(q) /\ q \notin replaced
          /\ Present(q)' <=> Present(q)
    <2> SUFFICES ASSUME NEW q \in Processes
                 PROVE  /\ Born(q)' <=> Born(q)
                        /\ Alive(q)' <=> Alive(q) /\ q \notin replaced
                        /\ Reads(q)' <=> Reads(q) /\ q \notin replaced
                        /\ Present(q)' <=> Present(q)
      OBVIOUS
    <2>1. CASE q \in replaced /\ Alive(q)
      <3>1. proc'[q] = Ended(proc[q]) /\ Born(q)
        BY <1>1, <1>5, <2>1
      <3>2. proc'[q].pc = "gone" /\ proc'[q] \in Client
        BY <1>6, <3>1
      <3>3. proc'[q] # Unborn
        BY <3>2, ClientTyped
      <3> QED
        BY <1>1, <1>7, <2>1, <3>1, <3>2, <3>3 DEF Born, Alive, Reads, Present
    <2>2. CASE ~(q \in replaced /\ Alive(q))
      <3>1. proc'[q] = proc[q]
        BY <1>1, <2>2
      <3> QED
        BY <1>1, <2>2, <3>1, Found DEF Born, Alive, Reads, Present
    <2> QED
      BY <2>1, <2>2
  <1>9. Settled
    BY <1>1, <1>7, <1>8 DEF Settled
  <1>10. /\ BornInOrder' /\ IdsAreNodes'
         /\ \A q \in Processes : First(q)' <=> First(q)
    BY <1>9, Found, SettledKeeps
  <1>11. TypeOK'
    <2>1. proc' \in [Processes -> Client \cup {Unborn}]
      <3>1. \A q \in Processes : proc'[q] \in Client \cup {Unborn}
        BY <1>6, <1>7, Found DEF TypeOK
      <3> QED
        BY <1>1, <3>1
    <2>2. down' \in [Processes -> Seq(Messages)]
      <3>1. \A q \in Processes : down[q] \in Seq(Messages)
        BY Found
      <3>2. <<>> \in Seq(Messages)
        OBVIOUS
      <3>3. \A q \in Processes : down'[q] \in Seq(Messages)
        BY <1>7, <3>1, <3>2
      <3> QED
        BY <1>1, <3>3
    <2>3. room' \subseteq Attached
      BY <1>1, <1>4, Found DEF TypeOK
    <2>4. link' \in [Processes -> Handler]
      BY <1>3, Found DEF TypeOK
    <2> QED
      BY <1>1, <2>1, <2>2, <2>3, <2>4, Found DEF TypeOK
  <1>12. ReadersAreAttached' /\ HandlersFit'
    <2>1. \A a \in room' : Born(a.process)' /\ a.id = proc'[a.process].id /\ Inside(a.process)'
      <3> SUFFICES ASSUME NEW a \in room'
                   PROVE  Born(a.process)' /\ a.id = proc'[a.process].id /\ Inside(a.process)'
        OBVIOUS
      <3>1. CASE a = fresh
        BY <1>2, <1>3, <1>4, <1>7, <1>8, <3>1 DEF Inside, id
      <3>2. CASE a \in room
        <4>1. a.process # p
          BY <1>1, <3>2, Found
        <4> QED
          BY <1>5, <1>7, <1>8, <3>2, <4>1 DEF Inside
      <3> QED
        BY <1>1, <3>1, <3>2
    <2>2. ASSUME NEW r \in Processes, Reads(r)', link'[r].pc # "attach"
          PROVE  \E a \in room' : a.process = r
      <3>1. CASE r = p
        BY <1>1, <1>4, <3>1
      <3>2. CASE r # p
        <4>1. Reads(r) /\ r \notin replaced /\ link[r].pc # "attach"
          BY <1>7, <1>8, <2>2, <3>2
        <4>2. PICK a \in room : a.process = r
          BY <4>1 DEF KeyInv, ReadersAreAttached
        <4>3. a.id # id
          BY <1>5, <4>1, <4>2
        <4> QED
          BY <1>1, <4>2, <4>3
      <3> QED
        BY <3>1, <3>2
    <2>3. HandlersFit'
      <3>1. \A r \in Processes :
              link[r].pc # "none" => Born(r) /\ (Reads(r) \/ ~Alive(r))
        BY DEF KeyInv, HandlersFit
      <3>2. \A r \in Processes : link[r].pc = "attach" /\ ~approval => link[r].approved
        BY DEF KeyInv, HandlersFit
      <3>3. \A r \in Processes : link'[r].pc # "none" => Born(r)' /\ (Reads(r)' \/ ~Alive(r)')
        BY <1>1, <1>7, <1>8, <3>1
      <3>4. \A r \in Processes : link'[r].pc = "attach" /\ ~approval => link'[r].approved
        BY <1>3, <1>7, <3>2
      <3> QED
        BY <1>1, <3>3, <3>4 DEF HandlersFit
    <2> QED
      BY <2>1, <2>2, <2>3 DEF ReadersAreAttached
  <1>13. LeaveIsLast'
    <2> SUFFICES ASSUME NEW r \in Processes
                 PROVE  /\ Reads(r)' \/ (Born(r)' /\ ~Alive(r)') \/ up'[r] = <<>>
                        /\ \A i \in DOMAIN up'[r] : up'[r][i] = Leave => i = Len(up'[r]) /\ ~Alive(r)'
      BY DEF LeaveIsLast
    <2> QED
      BY <1>1, <1>5, <1>8 DEF KeyInv, LeaveIsLast
  <1>14. EverybodyIsIn' /\ GoneIsOver' /\ MembersWereBorn'
    <2>1. EverybodyIsIn'
      BY <1>1, <1>2, <1>4 DEF KeyInv, EverybodyIsIn
    <2>2. GoneIsOver'
      BY <1>1, <1>8, <1>10 DEF KeyInv, GoneIsOver
    <2>3. MembersWereBorn'
      BY <1>1, <1>7, <1>8 DEF KeyInv, MembersWereBorn
    <2> QED
      BY <2>1, <2>2, <2>3
  <1>15. EndsAreOld'
    <2>1. DOMAIN <<>> = {}
      OBVIOUS
    <2> QED
      BY <1>1, <1>7, <2>1 DEF KeyInv, EndsAreOld
  <1>16. KeysAreFresh'
    <2> SUFFICES ASSUME NEW q \in Processes, ~Reads(q)' \/ link'[q].pc = "attach"
                 PROVE  down'[q] = <<>> /\ (Born(q)' => proc'[q].keys = NoKeys)
      BY DEF KeysAreFresh
    <2>1. CASE q \in replaced
      <3>1. down'[q] = <<>>
        BY <1>7, <2>1
      <3>2. CASE Reads(q)
        <4>1. proc'[q] = Ended(proc[q]) /\ Born(q)
          BY <1>1, <2>1, <3>2, Found
        <4> QED
          BY <1>6, <3>1, <4>1
      <3>3. CASE ~Reads(q)
        <4>1. Born(q) => proc[q].keys = NoKeys
          BY <3>3 DEF KeyInv, KeysAreFresh
        <4> QED
          BY <1>6, <1>7, <1>8, <3>1, <4>1
      <3> QED
        BY <3>2, <3>3
    <2>2. CASE q \notin replaced
      <3>1. ~Reads(q) \/ link[q].pc = "attach"
        BY <1>1, <1>7, <1>8, <2>2
      <3>2. down'[q] = down[q] /\ proc'[q] = proc[q]
        BY <1>7, <2>2
      <3> QED
        BY <1>8, <3>1, <3>2 DEF KeyInv, KeysAreFresh
    <2> QED
      BY <2>1, <2>2
  <1>17. NewsArrives'
    <2> SUFFICES ASSUME ~approval, NEW r \in Processes, NEW q \in Processes,
                        r # q, Reads(r)', First(q)
                 PROVE  News(r, q)'
      BY <1>1, <1>10 DEF NewsArrives
    <2>1. /\ News(r, q) /\ proc'[r] = proc[r] /\ down'[r] = down[r]
          /\ link'[r].missed = link[r].missed
      <3>1. Reads(r) /\ r \notin replaced
        BY <1>8
      <3> QED
        BY <1>3, <1>7, <3>1 DEF KeyInv, NewsArrives
    <2>2. Stage(q)' = Stage(q)
      <3>1. proc[q].pc = "announce" <=> proc'[q].pc = "announce"
        <4>1. CASE proc'[q] = proc[q]
          BY <4>1
        <4>2. CASE q \in replaced /\ proc'[q] = Ended(proc[q])
          <5>1. PICK a \in room : a.process = q
            BY <4>2 DEF replaced, ProcessOf
          <5>2. Inside(q) /\ Born(q)
            BY <1>5, <5>1
          <5>3. proc[q].pc # "announce"
            BY <5>2, Found DEF KeyInv, HandlersFit, Inside, Reads, Alive
          <5> QED
            BY <1>6, <4>2, <5>2, <5>3
        <4> QED
          BY <1>7, <4>1, <4>2
      <3> QED
        BY <1>8, <3>1 DEF Stage
    <2>3. ToBeListed(r, proc[q].id)' <=> ToBeListed(r, proc[q].id)
      BY <1>1, <1>3, <1>7 DEF ToBeListed
    <2>4. StageFor(r, q)' = StageFor(r, q)
      BY <1>7, <2>2, <2>3 DEF StageFor, ToBeListed
    <2> QED
      BY <1>7, <2>1, <2>4 DEF News
  <1> QED
    BY <1>10, <1>11, <1>12, <1>13, <1>14, <1>15, <1>16, <1>17 DEF KeyInv, TypeInv

\* The handler alone moves on, with h; what p hears is d.
HandlerStep(p, h, d) ==
    /\ UNCHANGED <<approval, members, issued, room, proc, up>>
    /\ h \in Handler /\ h.pc \in {"send", "serve"} /\ h.missed = link[p].missed
    /\ Inside(p)
    /\ d \in Seq(Messages)
    /\ link' = [link EXCEPT ![p] = h]
    /\ down' = [down EXCEPT ![p] = d]
    /\ ~Reads(p) => d = down[p]
    /\ \A i \in DOMAIN d : d[i].type = "member_left" => \E j \in DOMAIN down[p] : d[i] = down[p][j]
    /\ ~approval => \A q \in Processes : p # q /\ Reads(p) /\ First(q) /\ News(p, q) => News(p, q)'

LEMMA HandlerStepKeeps ==
  ASSUME KeyInv, NEW p \in Processes, NEW h, NEW d, HandlerStep(p, h, d)
  PROVE  KeyInv'
  <1>1. /\ UNCHANGED <<approval, members, issued, room, proc, up>>
        /\ link'[p] = h /\ down'[p] = d /\ h.pc \in {"send", "serve"}
        /\ \A r \in Processes \ {p} : link'[r] = link[r] /\ down'[r] = down[r]
        /\ Inside(p)
    BY Found DEF HandlerStep, TypeOK
  <1>2. \A r \in Processes : /\ Born(r)' <=> Born(r)
                             /\ Alive(r)' <=> Alive(r)
                             /\ Reads(r)' <=> Reads(r)
                             /\ Present(r)' <=> Present(r)
                             /\ First(r)' <=> First(r)
                             /\ Stage(r)' = Stage(r)
    BY <1>1 DEF Born, Alive, Reads, Present, First, Stage
  <1>3. TypeOK'
    <2>1. link' \in [Processes -> Handler] /\ down' \in [Processes -> Seq(Messages)]
      BY Found DEF HandlerStep, TypeOK
    <2> QED
      BY <1>1, <2>1, Found DEF TypeOK
  <1>4. BornInOrder' /\ IdsAreNodes'
    BY <1>1, Found DEF TypeInv, BornInOrder, IdsAreNodes, Born, Alive
  <1>5. ReadersAreAttached' /\ HandlersFit'
    <2>1. \A a \in room' : Born(a.process)' /\ a.id = proc'[a.process].id /\ Inside(a.process)'
      <3>1. \A a \in room : a.process \in Processes
        BY Found DEF TypeOK, Attached
      <3> QED
        BY <1>1, <1>2, <3>1 DEF KeyInv, ReadersAreAttached, Inside
    <2>2. \A r \in Processes : Reads(r)' => link'[r].pc = "attach" \/ \E a \in room' : a.process = r
      BY <1>1, <1>2 DEF KeyInv, ReadersAreAttached, Inside
    <2>3. HandlersFit'
      BY <1>1, <1>2 DEF KeyInv, HandlersFit, Inside
    <2> QED
      BY <2>1, <2>2, <2>3 DEF ReadersAreAttached
  <1>6. LeaveIsLast' /\ EverybodyIsIn' /\ GoneIsOver' /\ MembersWereBorn'
    BY <1>1, <1>2 DEF KeyInv, LeaveIsLast, EverybodyIsIn, GoneIsOver, MembersWereBorn
  <1>7. KeysAreFresh'
    BY <1>1, <1>2 DEF KeyInv, KeysAreFresh, Inside, HandlerStep
  <1>8. EndsAreOld'
    BY <1>1 DEF KeyInv, EndsAreOld, HandlerStep
  <1>9. NewsArrives'
    <2> SUFFICES ASSUME ~approval, NEW r \in Processes, NEW q \in Processes,
                        r # q, Reads(r), First(q)
                 PROVE  News(r, q)'
      BY <1>1, <1>2 DEF NewsArrives
    <2>1. News(r, q)
      BY DEF KeyInv, NewsArrives
    <2>2. CASE r = p
      BY <2>1, <2>2 DEF HandlerStep
    <2>3. CASE r # p
      BY <1>1, <1>2, <2>1, <2>3 DEF News, StageFor, ToBeListed
    <2> QED
      BY <2>2, <2>3
  <1> QED
    BY <1>3, <1>4, <1>5, <1>6, <1>7, <1>8, <1>9 DEF KeyInv, TypeInv

LEMMA ReadListSteps ==
  ASSUME KeyInv, NEW p \in Processes, ReadList(p)
  PROVE  \E h, d : HandlerStep(p, h, d)
  <1> DEFINE h == [link[p] EXCEPT !.pc = "send", !.list = ActiveIds]
  <1>1. /\ link[p].pc = "read" /\ link' = [link EXCEPT ![p] = h]
        /\ UNCHANGED <<approval, members, issued, room, proc, up, down>>
    BY Found DEF ReadList, TypeOK
  <1>2. /\ h \in Handler /\ h.pc = "send" /\ h.list = ActiveIds /\ h.missed = link[p].missed
        /\ link'[p] = h
    <2>1. ActiveIds \in SUBSET Ids /\ link[p] \in Handler
      BY Found DEF TypeOK, Members, ActiveIds
    <2>2. h \in Handler /\ h.pc = "send" /\ h.list = ActiveIds /\ h.missed = link[p].missed
      BY <2>1 DEF Handler
    <2> QED
      BY <1>1, <2>2, Found DEF TypeOK
  <1> HIDE DEF h
  <1>3. ASSUME ~approval, NEW q \in Processes, First(q), News(p, q)
        PROVE  News(p, q)'
    <2>1. Stage(q)' = Stage(q)
      BY <1>1 DEF Stage, Present
    <2>2. Stage(q) = "member" => proc[q].id \in ActiveIds
      BY <1>3 DEF Stage, Present, ActiveIds, KeyInv, EverybodyIsIn
    <2>3. StageFor(p, q)' = StageFor(p, q)
      BY <1>1, <1>2, <2>1, <2>2 DEF StageFor, ToBeListed
    <2> QED
      BY <1>1, <1>2, <1>3, <2>3 DEF News
  <1>4. down' = [down EXCEPT ![p] = down[p]] /\ down[p] \in Seq(Messages)
    BY <1>1, Found DEF TypeOK
  <1>5. HandlerStep(p, h, down[p])
    BY <1>1, <1>2, <1>3, <1>4 DEF HandlerStep, Inside
  <1> QED
    BY <1>5

LEMMA SendListSteps ==
  ASSUME KeyInv, NEW p \in Processes, SendList(p)
  PROVE  \E h, d : HandlerStep(p, h, d)
  <1> DEFINE h == [link[p] EXCEPT !.pc = "serve", !.list = {}]
             m == [type |-> "list", ids |-> link[p].list]
             d == IF Reads(p) THEN Append(down[p], m) ELSE down[p]
  <1>1. /\ link[p].pc = "send" /\ link' = [link EXCEPT ![p] = h]
        /\ Sent({p}, m)
        /\ UNCHANGED <<approval, members, issued, room, proc, up>>
    BY Found DEF SendList, TypeOK
  <1>2. /\ h \in Handler /\ h.pc = "serve" /\ h.missed = link[p].missed
        /\ link'[p] = h /\ link[p].list \in SUBSET Ids
    <2>1. link[p] \in Handler /\ {} \in SUBSET Ids
      BY Found
    <2>2. h \in Handler /\ h.pc = "serve" /\ h.missed = link[p].missed /\ link[p].list \in SUBSET Ids
      BY <2>1 DEF Handler
    <2> QED
      BY <1>1, <2>2, Found DEF TypeOK
  <1>3. /\ m \in Messages /\ m.type = "list" /\ m.ids = link[p].list
        /\ \A id : ~Retracts(m, id) /\ \A q : ~Brings(m, q)
    BY <1>2 DEF Messages, Retracts, Brings
  <1>4. down' = [down EXCEPT ![p] = d]
    BY <1>1, Found DEF Sent, TypeOK
  <1> HIDE DEF h, m
  <1>5. /\ down[p] \in Seq(Messages) /\ Append(down[p], m) \in Seq(Messages)
        /\ \A i \in DOMAIN down[p] :
             i \in DOMAIN Append(down[p], m) /\ Append(down[p], m)[i] = down[p][i]
        /\ Len(down[p]) + 1 \in DOMAIN Append(down[p], m)
        /\ Append(down[p], m)[Len(down[p]) + 1] = m
        /\ \A i \in DOMAIN Append(down[p], m) : i \in DOMAIN down[p] \/ i = Len(down[p]) + 1
    <2>1. down[p] \in Seq(Messages)
      BY Found
    <2> QED
      BY <1>3, <2>1, Appended
  <1>6. /\ d \in Seq(Messages)
        /\ ~Reads(p) => d = down[p]
        /\ \A i \in DOMAIN d : d[i].type = "member_left" => \E j \in DOMAIN down[p] : d[i] = down[p][j]
    <2>1. CASE Reads(p)
      <3>1. m.type # "member_left"
        BY <1>3
      <3> QED
        BY <1>5, <2>1, <3>1
    <2>2. CASE ~Reads(p)
      BY <1>5, <2>2
    <2> QED
      BY <2>1, <2>2
  <1>7. ASSUME ~approval, NEW q \in Processes, First(q), Reads(p), News(p, q)
        PROVE  News(p, q)'
    <2>1. Stage(q)' = Stage(q) /\ StageFor(p, q)' = Stage(q)
      <3>1. Stage(q)' = Stage(q)
        BY <1>1 DEF Stage, Present
      <3> QED
        BY <1>2, <3>1 DEF StageFor, ToBeListed
    <2>2. down'[p] = Append(down[p], m)
      BY <1>4, <1>7, Found DEF TypeOK
    <2>3. CASE proc[q].id \in link[p].missed
      BY <1>1, <1>2, <2>3 DEF News
    <2>4. CASE proc[q].id \notin link[p].missed
      <3>1. Informed(proc[p], Append(down[p], m), proc[q].id, q, StageFor(p, q))
        BY <1>3, <1>5, <1>7, <2>4, Found, OneMore DEF News
      <3>2. Stage(q) = "member" => Knows(proc[p], Append(down[p], m), proc[q].id)
        <4>1. CASE proc[q].id \in link[p].list
          BY <1>3, <1>5, <4>1 DEF Knows, Tells
        <4>2. CASE proc[q].id \notin link[p].list
          <5>1. StageFor(p, q) = Stage(q)
            BY <1>1, <4>2 DEF StageFor, ToBeListed
          <5> QED
            BY <3>1, <5>1 DEF Informed
        <4> QED
          BY <4>1, <4>2
      <3>3. Informed(proc[p], Append(down[p], m), proc[q].id, q, Stage(q))
        BY <3>1, <3>2 DEF Informed, StageFor
      <3> QED
        BY <1>1, <2>1, <2>2, <3>3 DEF News
    <2> QED
      BY <2>3, <2>4
  <1> HIDE DEF d
  <1>8. HandlerStep(p, h, d)
    BY <1>1, <1>2, <1>4, <1>6, <1>7 DEF HandlerStep, Inside
  <1> QED
    BY <1>8

LEMMA ForwardKeeps ==
  ASSUME KeyInv, NEW p \in Processes, up[p] # <<>>, Forward(p, Head(up[p])),
         up' = [up EXCEPT ![p] = Tail(@)]
  PROVE  KeyInv'
  <1> DEFINE m  == [type |-> "key_exchange", from |-> proc[p].id, pub |-> p]
             to == IF Head(up[p]) \in ActiveIds THEN ProcessOf(Head(up[p])) ELSE {}
  <1>1. /\ Sent(to, m)
        /\ UNCHANGED <<approval, members, issued, room, proc, link>>
    BY DEF Forward
  <1>2. Born(p) /\ proc[p].id \in Ids /\ up[p] \in Seq(Ids \cup {Leave})
    BY Found DEF KeyInv, LeaveIsLast
  <1>3. m \in Messages /\ m.type = "key_exchange" /\ m.pub = p
    BY <1>2 DEF Messages
  <1> HIDE DEF m, to
  <1>4. down' \in [Processes -> Seq(Messages)] /\ EndsAreOld'
    BY <1>1, <1>3, Reaches
  <1>5. TypeInv'
    <2>1. up' \in [Processes -> Seq(Ids \cup {Leave})]
      <3>1. Tail(up[p]) \in Seq(Ids \cup {Leave})
        BY <1>2, Shortened
      <3> QED
        BY <3>1, Found DEF TypeOK
    <2>2. TypeOK'
      BY <1>1, <1>4, <2>1, Found DEF TypeOK
    <2>3. BornInOrder'
      BY <1>1, Found DEF TypeInv, BornInOrder, Born
    <2> QED
      BY <2>2, <2>3 DEF TypeInv
  <1>6. IdsAreNodes' /\ ReadersAreAttached' /\ HandlersFit' /\ EverybodyIsIn' /\ KeysAreFresh'
        /\ MembersWereBorn'
    <2>1. IdsAreNodes'
      BY <1>1, Found DEF IdsAreNodes, Born, Alive
    <2>2. ReadersAreAttached' /\ HandlersFit' /\ EverybodyIsIn'
      BY <1>1 DEF KeyInv, ReadersAreAttached, HandlersFit, EverybodyIsIn, Born, Reads, Alive, Inside
    <2>3. KeysAreFresh'
      <3>1. \A r \in Processes : ~Reads(r) \/ link[r].pc = "attach" => down'[r] = down[r]
        <4>1. \A r \in Processes : link[r].pc = "attach" => r \notin to
          BY Found DEF to, ProcessOf
        <4> QED
          BY <1>1, <4>1 DEF Sent
      <3> QED
        BY <1>1, <3>1 DEF KeyInv, KeysAreFresh, Born, Reads
    <2>4. MembersWereBorn'
      BY <1>1 DEF KeyInv, MembersWereBorn, Born
    <2> QED
      BY <2>1, <2>2, <2>3, <2>4
  <1>7. /\ up'[p] = Tail(up[p])
        /\ \A r \in Processes \ {p} : up'[r] = up[r]
    BY Found DEF TypeOK
  <1>8. LeaveIsLast'
    <2>1. \A r \in Processes \ {p} :
            /\ Reads(r)' \/ (Born(r)' /\ ~Alive(r)') \/ up'[r] = <<>>
            /\ \A i \in DOMAIN up'[r] : up'[r][i] = Leave => i = Len(up'[r]) /\ ~Alive(r)'
      BY <1>1, <1>7 DEF KeyInv, LeaveIsLast, Reads, Born, Alive
    <2>2. Reads(p)' \/ (Born(p)' /\ ~Alive(p)')
      BY <1>1 DEF KeyInv, LeaveIsLast, Reads, Born, Alive
    <2>3. ASSUME NEW i \in DOMAIN Tail(up[p]), Tail(up[p])[i] = Leave
          PROVE  i = Len(Tail(up[p])) /\ ~Alive(p)'
      <3>1. /\ i \in Nat /\ i + 1 \in DOMAIN up[p] /\ Tail(up[p])[i] = up[p][i + 1]
            /\ Len(Tail(up[p])) = Len(up[p]) - 1 /\ Len(up[p]) \in Nat
        BY <1>2, <2>3, Shortened
      <3>2. i + 1 = Len(up[p]) /\ ~Alive(p)
        BY <2>3, <3>1 DEF KeyInv, LeaveIsLast
      <3> QED
        BY <1>1, <3>1, <3>2 DEF Alive
    <2> QED
      BY <1>7, <2>1, <2>2, <2>3 DEF LeaveIsLast
  <1>9. GoneIsOver'
    BY <1>1, <1>7 DEF KeyInv, GoneIsOver, First, Present, Alive
  <1>10. NewsArrives'
    <2> SUFFICES ASSUME ~approval, NEW r \in Processes, NEW q \in Processes,
                        r # q, Reads(r), First(q)
                 PROVE  News(r, q)'
      BY <1>1 DEF NewsArrives, Reads, First
    <2>1. News(r, q) /\ StageFor(r, q) \in Stages /\ down[r] \in Seq(Messages)
      BY Found DEF KeyInv, NewsArrives
    <2>2. ~Retracts(m, proc[q].id)
      BY <1>3 DEF Retracts
    <2>3. StageFor(r, q) = "gone" => ~Brings(m, q)
      <3>1. StageFor(r, q) = "gone" => ~Present(q)
        BY DEF StageFor, Stage
      <3>2. StageFor(r, q) = "gone" => q # p
        BY <3>1 DEF KeyInv, GoneIsOver
      <3> QED
        BY <1>3, <3>2 DEF Brings
    <2>4. CASE proc[q].id \in link[r].missed
      BY <1>1, <2>4 DEF News
    <2>5. CASE proc[q].id \notin link[r].missed
      <3>1. Informed(proc[r], Append(down[r], m), proc[q].id, q, StageFor(r, q))
        BY <1>3, <2>1, <2>2, <2>3, <2>5, OneMore DEF News
      <3>2. down'[r] = down[r] \/ down'[r] = Append(down[r], m)
        BY <1>1 DEF Sent
      <3>3. StageFor(r, q)' = StageFor(r, q)
        BY <1>1 DEF StageFor, Stage, Present, ToBeListed
      <3> QED
        BY <1>1, <2>1, <3>1, <3>2, <3>3 DEF News
    <2> QED
      BY <2>4, <2>5
  <1> QED
    BY <1>4, <1>5, <1>6, <1>8, <1>9, <1>10 DEF KeyInv

LEMMA GoodbyeKeeps ==
  ASSUME KeyInv, NEW p \in Processes, up[p] # <<>>, Goodbye(p, Head(up[p])),
         up' = [up EXCEPT ![p] = Tail(@)]
  PROVE  KeyInv'
  <1> DEFINE id     == proc[p].id
             kicked == ProcessOf(id)
             m      == [type |-> "member_left", id |-> id]
  <1>1. /\ Head(up[p]) = Leave
        /\ members' = {o \in members : o.id # id}
        /\ room' = {a \in room : a.id # id}
        /\ proc' = [q \in Processes |->
                      IF q \in kicked /\ Alive(q) THEN Ended(proc[q]) ELSE proc[q]]
        /\ down' = [q \in Processes |->
                      IF q \in kicked THEN <<>>
                      ELSE IF q \in Audience /\ Reads(q) THEN Append(down[q], m)
                      ELSE down[q]]
        /\ link' = [q \in Processes |->
                      IF link[q].pc \in {"read", "send"}
                      THEN [link[q] EXCEPT !.missed = @ \cup {id}] ELSE link[q]]
        /\ UNCHANGED <<approval, issued>>
    BY DEF Goodbye
  <1>2. up[p] \in Seq(Ids \cup {Leave}) /\ Born(p) /\ id \in Ids /\ id <= issued
    BY Found DEF KeyInv, LeaveIsLast, IdsAreNodes
  <1>3. ~Alive(p) /\ up'[p] = <<>> /\ \A r \in Processes \ {p} : up'[r] = up[r]
    <2>1. 1 \in DOMAIN up[p] /\ up[p][1] = Leave /\ Len(Tail(up[p])) = Len(up[p]) - 1
          /\ Tail(up[p]) \in Seq(Ids \cup {Leave})
      BY <1>1, <1>2, Shortened
    <2>2. 1 = Len(up[p]) /\ ~Alive(p)
      BY <2>1 DEF KeyInv, LeaveIsLast
    <2>3. Tail(up[p]) = <<>>
      <3>1. Len(Tail(up[p])) = 0
        BY <2>1, <2>2
      <3> QED
        BY <2>1, <3>1, EmptySeq
    <2> QED
      BY <2>2, <2>3, Found DEF TypeOK
  <1>4. m \in Messages /\ m.type = "member_left" /\ m.id = id
    BY <1>2 DEF Messages
  <1>5. /\ \A q \in kicked : q \in Processes /\ Born(q) /\ proc[q].id = id
        /\ \A a \in room : a.id = id => a.process \in kicked
        /\ \A a \in room : a.process \in Processes /\ Born(a.process) /\ a.id = proc[a.process].id
        /\ \A q \in Processes : link[q].pc = "attach" => q \notin kicked /\ q \notin Audience
    <2>1. \A a \in room : a.process \in Processes /\ Born(a.process) /\ a.id = proc[a.process].id
      BY Found DEF TypeOK, Attached, KeyInv, ReadersAreAttached
    <2>2. \A q \in Processes : link[q].pc = "attach" => q \notin kicked /\ q \notin Audience
      BY Found DEF ProcessOf, Audience
    <2> QED
      BY <2>1, <2>2 DEF ProcessOf
  <1>6. \A q \in Processes : Born(q) =>
          /\ Ended(proc[q]) \in Client /\ Ended(proc[q]).id = proc[q].id
          /\ Ended(proc[q]).node = proc[q].node
          /\ Ended(proc[q]).pc = "gone" /\ Ended(proc[q]).keys = NoKeys
    BY Found, ClientTyped
  <1>7. \A q \in Processes :
          /\ link'[q] \in Handler
          /\ link'[q].pc = link[q].pc /\ link'[q].list = link[q].list
          /\ link'[q].approved = link[q].approved
          /\ link[q].missed \subseteq link'[q].missed
          /\ link[q].pc \in {"read", "send"} => id \in link'[q].missed
    <2> SUFFICES ASSUME NEW q \in Processes
                 PROVE  LET l == IF link[q].pc \in {"read", "send"}
                                 THEN [link[q] EXCEPT !.missed = @ \cup {id}] ELSE link[q]
                        IN  /\ l \in Handler
                            /\ l.pc = link[q].pc /\ l.list = link[q].list
                            /\ l.approved = link[q].approved
                            /\ link[q].missed \subseteq l.missed
                            /\ link[q].pc \in {"read", "send"} => id \in l.missed
      BY <1>1
    <2>1. link[q] \in Handler /\ id \in Ids
      BY <1>2, Found
    <2> HIDE DEF id
    <2> QED
      BY <2>1 DEF Handler
  <1> HIDE DEF m, kicked, id
  <1>8. \A q \in Processes :
          /\ proc'[q] = proc[q] \/ (q \in kicked /\ Alive(q) /\ Born(q) /\ proc'[q] = Ended(proc[q]))
          /\ proc'[q].id = proc[q].id /\ proc'[q].node = proc[q].node
    BY <1>1, <1>5, <1>6
  <1>9. \A q \in Processes :
          /\ Born(q)' <=> Born(q)
          /\ Alive(q)' <=> Alive(q) /\ q \notin kicked
          /\ Reads(q)' <=> Reads(q) /\ q \notin kicked
    <2> SUFFICES ASSUME NEW q \in Processes
                 PROVE  /\ Born(q)' <=> Born(q)
                        /\ Alive(q)' <=> Alive(q) /\ q \notin kicked
                        /\ Reads(q)' <=> Reads(q) /\ q \notin kicked
      OBVIOUS
    <2>1. CASE q \in kicked /\ Alive(q)
      <3>1. proc'[q] = Ended(proc[q]) /\ Born(q)
        BY <1>1, <1>5, <2>1
      <3>2. proc'[q].pc = "gone" /\ proc'[q] \in Client
        BY <1>6, <3>1
      <3>3. proc'[q] # Unborn
        BY <3>2, ClientTyped
      <3> QED
        BY <2>1, <3>1, <3>2, <3>3 DEF Born, Alive, Reads
    <2>2. CASE ~(q \in kicked /\ Alive(q))
      <3>1. proc'[q] = proc[q]
        BY <1>1, <2>2
      <3> QED
        BY <2>2, <3>1, Found DEF Born, Alive, Reads
    <2> QED
      BY <2>1, <2>2
  <1>10. Settled
    BY <1>1, <1>8, <1>9 DEF Settled
  <1>11. /\ BornInOrder' /\ IdsAreNodes'
         /\ \A q \in Processes : First(q)' <=> First(q)
    BY <1>10, Found, SettledKeeps
  <1>12. \A q \in Processes : Present(q)' <=> Present(q) /\ proc[q].id # id
    BY <1>1, <1>8 DEF Present
  <1>13. \A q \in Processes :
           /\ down'[q] = IF q \in kicked THEN <<>>
                         ELSE IF q \in Audience /\ Reads(q) THEN Append(down[q], m)
                         ELSE down[q]
           /\ Append(down[q], m) \in Seq(Messages)
           /\ \A i \in DOMAIN Append(down[q], m) :
                (i \in DOMAIN down[q] /\ Append(down[q], m)[i] = down[q][i])
                \/ Append(down[q], m)[i] = m
    BY <1>1, <1>4, Found, Appended
  <1>14. TypeOK'
    <2>1. proc' \in [Processes -> Client \cup {Unborn}]
      <3>1. \A q \in Processes : proc'[q] \in Client \cup {Unborn}
        BY <1>6, <1>8, Found DEF TypeOK
      <3> QED
        BY <1>1, <3>1
    <2>2. down' \in [Processes -> Seq(Messages)]
      <3>1. \A q \in Processes : down'[q] \in Seq(Messages)
        <4>1. <<>> \in Seq(Messages)
          OBVIOUS
        <4> QED
          BY <1>13, <4>1, Found
      <3> QED
        BY <1>1, <3>1
    <2>3. up' \in [Processes -> Seq(Ids \cup {Leave})]
      <3>1. \A q \in Processes : up'[q] \in Seq(Ids \cup {Leave})
        BY <1>3, Found
      <3> QED
        BY <3>1, Found DEF TypeOK
    <2>4. link' \in [Processes -> Handler]
      BY <1>1, <1>7
    <2> QED
      BY <1>1, <2>1, <2>2, <2>3, <2>4, Found DEF TypeOK
  <1>15. EndsAreOld'
    <2> SUFFICES ASSUME NEW q \in Processes, NEW i \in DOMAIN down'[q],
                        down'[q][i].type = "member_left"
                 PROVE  down'[q][i].id <= issued
      BY <1>1 DEF EndsAreOld
    <2>1. (i \in DOMAIN down[q] /\ down'[q][i] = down[q][i]) \/ down'[q][i] = m
      <3>1. DOMAIN <<>> = {}
        OBVIOUS
      <3> QED
        BY <1>13, <3>1
    <2> QED
      BY <1>2, <1>4, <2>1 DEF KeyInv, EndsAreOld
  <1>16. ReadersAreAttached' /\ HandlersFit'
    <2>1. \A a \in room' : Born(a.process)' /\ a.id = proc'[a.process].id /\ Inside(a.process)'
      BY <1>1, <1>5, <1>7, <1>8, <1>9 DEF KeyInv, ReadersAreAttached, Inside
    <2>2. ASSUME NEW r \in Processes, Reads(r)', link'[r].pc # "attach"
          PROVE  \E a \in room' : a.process = r
      <3>1. Reads(r) /\ r \notin kicked /\ link[r].pc # "attach"
        BY <1>7, <1>9, <2>2
      <3>2. PICK a \in room : a.process = r
        BY <3>1 DEF KeyInv, ReadersAreAttached
      <3>3. a.id # id
        BY <1>5, <3>1, <3>2
      <3> QED
        BY <1>1, <3>2, <3>3
    <2>3. HandlersFit'
      <3> SUFFICES ASSUME NEW r \in Processes
                   PROVE  /\ link'[r].pc # "none" => Born(r)' /\ (Reads(r)' \/ ~Alive(r)')
                          /\ link'[r].pc = "attach" /\ ~approval' => link'[r].approved
        BY DEF HandlersFit
      <3> QED
        BY <1>1, <1>7, <1>9 DEF KeyInv, HandlersFit
    <2> QED
      BY <2>1, <2>2, <2>3 DEF ReadersAreAttached
  <1>17. LeaveIsLast'
    <2> SUFFICES ASSUME NEW r \in Processes
                 PROVE  /\ Reads(r)' \/ (Born(r)' /\ ~Alive(r)') \/ up'[r] = <<>>
                        /\ \A i \in DOMAIN up'[r] : up'[r][i] = Leave => i = Len(up'[r]) /\ ~Alive(r)'
      BY DEF LeaveIsLast
    <2>1. CASE r = p
      <3>1. DOMAIN <<>> = {}
        OBVIOUS
      <3> QED
        BY <1>3, <2>1, <3>1
    <2>2. CASE r # p
      BY <1>3, <1>5, <1>9, <2>2 DEF KeyInv, LeaveIsLast
    <2> QED
      BY <2>1, <2>2
  <1>18. EverybodyIsIn' /\ MembersWereBorn'
    <2>1. EverybodyIsIn'
      BY <1>1 DEF KeyInv, EverybodyIsIn
    <2>2. MembersWereBorn'
      BY <1>1, <1>8, <1>9 DEF KeyInv, MembersWereBorn
    <2> QED
      BY <2>1, <2>2
  <1>19. GoneIsOver'
    <2> SUFFICES ASSUME NEW q \in Processes, First(q), ~Present(q)'
                 PROVE  ~Alive(q)' /\ up'[q] = <<>>
      BY <1>11 DEF GoneIsOver
    <2>1. CASE q = p
      BY <1>3, <1>9, <2>1
    <2>2. CASE q # p
      <3>1. ~Present(q)
        BY <1>2, <1>12, <2>2, Found DEF id
      <3>2. ~Alive(q) /\ up[q] = <<>>
        BY <3>1 DEF KeyInv, GoneIsOver
      <3> QED
        BY <1>3, <1>9, <2>2, <3>2
    <2> QED
      BY <2>1, <2>2
  <1>20. KeysAreFresh'
    <2> SUFFICES ASSUME NEW q \in Processes, ~Reads(q)' \/ link'[q].pc = "attach"
                 PROVE  down'[q] = <<>> /\ (Born(q)' => proc'[q].keys = NoKeys)
      BY DEF KeysAreFresh
    <2>1. CASE q \in kicked
      <3>1. down'[q] = <<>>
        BY <1>13, <2>1
      <3>2. CASE Reads(q)
        <4>1. proc'[q] = Ended(proc[q]) /\ Born(q)
          BY <1>1, <2>1, <3>2, Found
        <4> QED
          BY <1>6, <3>1, <4>1
      <3>3. CASE ~Reads(q)
        <4>1. Born(q) => proc[q].keys = NoKeys
          BY <3>3 DEF KeyInv, KeysAreFresh
        <4> QED
          BY <1>6, <1>8, <1>9, <3>1, <4>1
      <3> QED
        BY <3>2, <3>3
    <2>2. CASE q \notin kicked
      <3>1. ~Reads(q) \/ link[q].pc = "attach"
        BY <1>7, <1>9, <2>2
      <3>2. down'[q] = down[q] /\ proc'[q] = proc[q]
        BY <1>5, <1>8, <1>13, <2>2, <3>1
      <3> QED
        BY <1>9, <3>1, <3>2 DEF KeyInv, KeysAreFresh
    <2> QED
      BY <2>1, <2>2
  <1>21. NewsArrives'
    <2> SUFFICES ASSUME ~approval, NEW r \in Processes, NEW q \in Processes,
                        r # q, Reads(r)', First(q)
                 PROVE  News(r, q)'
      BY <1>1, <1>11 DEF NewsArrives
    <2>1. Reads(r) /\ r \notin kicked /\ proc'[r] = proc[r]
      BY <1>8, <1>9
    <2>2. News(r, q) /\ StageFor(r, q) \in Stages /\ down[r] \in Seq(Messages)
      BY <2>1, Found DEF KeyInv, NewsArrives
    <2>3. down'[r] = down[r] \/ down'[r] = Append(down[r], m)
      BY <1>13, <2>1
    <2>4. CASE proc[q].id \in link'[r].missed
      BY <1>8, <2>4 DEF News
    <2>5. ASSUME link[r].pc # "attach"
          PROVE  down'[r] = Append(down[r], m)
      <3>1. PICK a \in room : a.process = r
        BY <2>1, <2>5 DEF KeyInv, ReadersAreAttached
      <3>2. a.approved
        BY <3>1 DEF KeyInv, EverybodyIsIn
      <3>3. r \in Audience
        BY <3>1, <3>2 DEF Audience
      <3> QED
        BY <1>13, <2>1, <3>3
    <2>6. CASE q = p /\ proc[q].id \notin link'[r].missed
      <3>1. Present(p)
        BY <2>6 DEF KeyInv, GoneIsOver
      <3>2. proc[p].pc # "announce" /\ proc'[p] = proc[p]
        BY <1>3, <1>8 DEF Alive
      <3>3. Stage(p) = "member" /\ StageFor(r, p)' = "gone"
        BY <1>12, <3>1, <3>2 DEF Stage, StageFor, id
      <3>4. CASE link[r].pc = "attach"
        <4>1. down'[r] = <<>> /\ proc'[r].keys = NoKeys
          BY <1>5, <1>13, <2>1, <3>4, Found DEF KeyInv, KeysAreFresh
        <4>2. id \in Ids /\ p # NoKey
          BY <1>2 DEF Processes, NoKey
        <4>3. DOMAIN <<>> = {} /\ NoKeys[id] # p
          BY <4>2 DEF NoKeys
        <4>4. Informed(proc'[r], down'[r], id, p, "gone")
          BY <4>1, <4>3 DEF Informed, HasForgotten, HearsNoEnd
        <4> QED
          BY <1>8, <2>6, <3>3, <4>4 DEF News, id
      <3>5. CASE link[r].pc # "attach"
        <4>1. link[r].pc \notin {"read", "send"} /\ proc[q].id \notin link[r].missed
          BY <1>7, <2>6 DEF id
        <4>2. StageFor(r, p) = "member"
          BY <3>3, <3>5, <4>1 DEF StageFor, ToBeListed
        <4>3. Retracts(m, id)
          BY <1>4 DEF Retracts
        <4>4. Informed(proc[r], Append(down[r], m), id, p, "gone")
          BY <1>4, <2>2, <2>6, <4>1, <4>2, <4>3, EndQueued DEF News, id
        <4> QED
          BY <2>1, <2>5, <2>6, <3>2, <3>3, <3>5, <4>4 DEF News, id
      <3> QED
        BY <3>4, <3>5
    <2>7. CASE q # p /\ proc[q].id \notin link'[r].missed
      <3>1. proc[q].id # id
        BY <1>2, <2>7, Found DEF id
      <3>2. proc'[q] = proc[q]
        BY <1>5, <1>8, <3>1
      <3>3. StageFor(r, q)' = StageFor(r, q)
        <4>1. Stage(q)' = Stage(q)
          BY <1>12, <3>1, <3>2 DEF Stage
        <4>2. ToBeListed(r, proc[q].id)' <=> ToBeListed(r, proc[q].id)
          BY <1>7, <3>2 DEF ToBeListed
        <4> QED
          BY <3>2, <4>1, <4>2 DEF StageFor
      <3>4. ~Retracts(m, proc[q].id) /\ ~Brings(m, q)
        BY <1>4, <3>1 DEF Retracts, Brings
      <3>5. Informed(proc[r], down[r], proc[q].id, q, StageFor(r, q))
        BY <1>7, <2>2, <2>7 DEF News
      <3>6. Informed(proc[r], Append(down[r], m), proc[q].id, q, StageFor(r, q))
        BY <1>4, <2>2, <3>4, <3>5, OneMore
      <3> QED
        BY <2>1, <2>3, <3>2, <3>3, <3>5, <3>6 DEF News
    <2> QED
      BY <2>4, <2>6, <2>7
  <1> QED
    BY <1>11, <1>14, <1>15, <1>16, <1>17, <1>18, <1>19, <1>20, <1>21 DEF KeyInv, TypeInv

LEMMA Single ==
  ASSUME NEW S, NEW e \in S
  PROVE  <<e>> \in Seq(S) /\ \A j \in DOMAIN <<e>> : <<e>>[j] = e
  <1>1. DOMAIN <<e>> = {1} /\ <<e>>[1] = e
    OBVIOUS
  <1>2. <<e>> \in Seq(S)
    OBVIOUS
  <1> QED
    BY <1>1, <1>2

LEMMA Concatenated ==
  ASSUME NEW S, NEW s \in Seq(S), NEW t \in Seq(S)
  PROVE  /\ s \o t \in Seq(S)
         /\ \A i \in DOMAIN (s \o t) : \/ \E j \in DOMAIN s : (s \o t)[i] = s[j]
                                       \/ \E j \in DOMAIN t : (s \o t)[i] = t[j]
  <1>1. /\ s \o t \in Seq(S) /\ Len(s \o t) = Len(s) + Len(t)
        /\ \A i \in 1..(Len(s) + Len(t)) :
             (s \o t)[i] = IF i <= Len(s) THEN s[i] ELSE t[i - Len(s)]
    BY ConcatProperties
  <1>2. /\ Len(s) \in Nat /\ Len(t) \in Nat /\ DOMAIN s = 1..Len(s) /\ DOMAIN t = 1..Len(t)
        /\ DOMAIN (s \o t) = 1..(Len(s) + Len(t))
    BY <1>1, LenProperties
  <1>3. ASSUME NEW i \in DOMAIN (s \o t)
        PROVE  \/ \E j \in DOMAIN s : (s \o t)[i] = s[j]
               \/ \E j \in DOMAIN t : (s \o t)[i] = t[j]
    <2>1. CASE i <= Len(s)
      <3>1. i \in DOMAIN s /\ (s \o t)[i] = s[i]
        BY <1>1, <1>2, <1>3, <2>1
      <3> QED
        BY <3>1
    <2>2. CASE ~(i <= Len(s))
      <3>1. i - Len(s) \in DOMAIN t /\ (s \o t)[i] = t[i - Len(s)]
        BY <1>1, <1>2, <1>3, <2>2
      <3> QED
        BY <3>1
    <2> QED
      BY <2>1, <2>2
  <1> QED
    BY <1>1, <1>3

LEMMA ApproveKeeps ==
  ASSUME KeyInv, NEW m \in members, Approve(m)
  PROVE  KeyInv'
  <1> DEFINE after == [m EXCEPT !.active = TRUE]
             news  == [type |-> "member_joined", id |-> m.id]
             said  == [type |-> "joined"]
  <1>1. /\ ~m.active
        /\ members' = (members \ {m}) \cup {after}
        /\ room' = {IF a.id = m.id THEN [a EXCEPT !.approved = TRUE] ELSE a : a \in room}
        /\ UNCHANGED <<approval, issued, proc, link, up>>
    BY DEF Approve
  <1>2. approval
    BY <1>1 DEF KeyInv, EverybodyIsIn
  <1>3. /\ m \in Members /\ after \in Members /\ after.id = m.id /\ after.node = m.node
        /\ news \in Messages /\ news.type # "member_left"
        /\ said \in Messages /\ said.type # "member_left"
    <2>1. m \in Members
      BY Found DEF TypeOK
    <2> QED
      BY <2>1 DEF Members, Messages
  <1>4. \A q \in Processes :
          /\ down'[q] \in Seq(Messages)
          /\ \A i \in DOMAIN down'[q] : \/ \E j \in DOMAIN down[q] : down'[q][i] = down[q][j]
                                        \/ down'[q][i] \in {news, said}
    <2> SUFFICES ASSUME NEW q \in Processes
                 PROVE  /\ down'[q] \in Seq(Messages)
                        /\ \A i \in DOMAIN down'[q] :
                             \/ \E j \in DOMAIN down[q] : down'[q][i] = down[q][j]
                             \/ down'[q][i] \in {news, said}
      OBVIOUS
    <2>1. down[q] \in Seq(Messages)
      BY Found
    <2>2. \/ down'[q] = down[q]
          \/ down'[q] = down[q] \o <<news>>
          \/ down'[q] = down[q] \o <<news>> \o <<said>>
      BY DEF Approve
    <2> HIDE DEF news, said
    <2>3. /\ <<news>> \in Seq(Messages) /\ \A j \in DOMAIN <<news>> : <<news>>[j] = news
          /\ <<said>> \in Seq(Messages) /\ \A j \in DOMAIN <<said>> : <<said>>[j] = said
      BY <1>3, Single
    <2>4. /\ down[q] \o <<news>> \in Seq(Messages)
          /\ \A i \in DOMAIN (down[q] \o <<news>>) :
               \/ \E j \in DOMAIN down[q] : (down[q] \o <<news>>)[i] = down[q][j]
               \/ (down[q] \o <<news>>)[i] = news
      <3> DEFINE n == <<news>>
      <3>1. n \in Seq(Messages) /\ \A j \in DOMAIN n : n[j] = news
        BY <2>3
      <3> HIDE DEF n
      <3>2. /\ down[q] \o n \in Seq(Messages)
            /\ \A i \in DOMAIN (down[q] \o n) : \/ \E j \in DOMAIN down[q] : (down[q] \o n)[i] = down[q][j]
                                                \/ \E j \in DOMAIN n : (down[q] \o n)[i] = n[j]
        BY <2>1, <3>1, Concatenated
      <3>3. \A i \in DOMAIN (down[q] \o n) :
               \/ \E j \in DOMAIN down[q] : (down[q] \o n)[i] = down[q][j]
               \/ (down[q] \o n)[i] = news
        BY <3>1, <3>2
      <3> QED
        BY <3>2, <3>3 DEF n
    <2> DEFINE t == down[q] \o <<news>>
    <2>5. t \in Seq(Messages)
      BY <2>4
    <2> HIDE DEF t
    <2>6. /\ t \o <<said>> \in Seq(Messages)
          /\ \A i \in DOMAIN (t \o <<said>>) :
               \/ \E j \in DOMAIN t : (t \o <<said>>)[i] = t[j]
               \/ (t \o <<said>>)[i] = said
      BY <2>3, <2>5, Concatenated
    <2>7. CASE down'[q] = t \o <<said>>
      BY <2>4, <2>6, <2>7 DEF t
    <2> QED
      BY <2>1, <2>2, <2>4, <2>7 DEF t
  <1> HIDE DEF after, news, said
  <1>5. \A r \in Processes : /\ Born(r)' <=> Born(r)
                             /\ Alive(r)' <=> Alive(r)
                             /\ Reads(r)' <=> Reads(r)
                             /\ Present(r)' <=> Present(r)
                             /\ First(r)' <=> First(r)
    BY <1>1, <1>3 DEF Born, Alive, Reads, Present, First
  <1>6. Settled
    BY <1>1, <1>3, <1>5 DEF Settled
  <1>7. BornInOrder' /\ IdsAreNodes'
    BY <1>6, Found, SettledKeeps
  <1>8. \A b \in room' : \E a \in room : b.id = a.id /\ b.process = a.process /\ b \in Attached
    <2> SUFFICES ASSUME NEW a \in room
                 PROVE  LET b == IF a.id = m.id THEN [a EXCEPT !.approved = TRUE] ELSE a
                        IN  b.id = a.id /\ b.process = a.process /\ b \in Attached
      BY <1>1
    <2>1. a \in Attached
      BY Found DEF TypeOK
    <2> QED
      BY <2>1 DEF Attached
  <1>9. \A a \in room : \E b \in room' : b.process = a.process
    <2> SUFFICES ASSUME NEW a \in room
                 PROVE  \E b \in room' : b.process = a.process
      OBVIOUS
    <2> DEFINE b == IF a.id = m.id THEN [a EXCEPT !.approved = TRUE] ELSE a
    <2>1. b \in room'
      BY <1>1
    <2>2. a \in Attached
      BY Found DEF TypeOK
    <2>3. b.process = a.process
      BY <2>2 DEF Attached
    <2> QED
      BY <2>1, <2>3
  <1>10. TypeOK'
    <2>1. down' \in [Processes -> Seq(Messages)]
      <3>1. DOMAIN down' = Processes /\ down' = [q \in Processes |-> down'[q]]
        BY DEF Approve
      <3> QED
        BY <1>4, <3>1
    <2>2. room' \subseteq Attached
      BY <1>8
    <2>3. members' \subseteq Members
      BY <1>1, <1>3, Found DEF TypeOK
    <2> QED
      BY <1>1, <2>1, <2>2, <2>3, Found DEF TypeOK
  <1>11. ReadersAreAttached' /\ HandlersFit'
    <2>1. \A b \in room' : Born(b.process)' /\ b.id = proc'[b.process].id /\ Inside(b.process)'
      BY <1>1, <1>8 DEF KeyInv, ReadersAreAttached, Born, Inside
    <2>2. \A r \in Processes : Reads(r)' => link'[r].pc = "attach" \/ \E b \in room' : b.process = r
      <3> SUFFICES ASSUME NEW r \in Processes, Reads(r)'
                   PROVE  link'[r].pc = "attach" \/ \E b \in room' : b.process = r
        OBVIOUS
      <3>1. Reads(r) /\ link' = link
        BY <1>1, <1>5
      <3>2. link[r].pc = "attach" \/ \E a \in room : a.process = r
        BY <3>1 DEF KeyInv, ReadersAreAttached
      <3> QED
        BY <1>9, <3>1, <3>2
    <2>3. HandlersFit'
      BY <1>1, <1>5 DEF KeyInv, HandlersFit
    <2> QED
      BY <2>1, <2>2, <2>3 DEF ReadersAreAttached
  <1>12. LeaveIsLast' /\ EverybodyIsIn' /\ GoneIsOver' /\ KeysAreFresh'
    <2>1. LeaveIsLast' /\ EverybodyIsIn'
      BY <1>1, <1>2, <1>5 DEF KeyInv, LeaveIsLast, EverybodyIsIn
    <2>2. GoneIsOver'
      BY <1>1, <1>5 DEF KeyInv, GoneIsOver
    <2>3. KeysAreFresh'
      <3>1. \A r \in Processes : ~Reads(r) \/ link[r].pc = "attach" => down'[r] = down[r]
        <4>1. \A r \in Processes : link[r].pc = "attach" => r \notin ProcessOf(m.id) /\ r \notin Audience
          BY Found DEF ProcessOf, Audience
        <4> QED
          BY <4>1 DEF Approve
      <3> QED
        BY <1>1, <1>5, <3>1 DEF KeyInv, KeysAreFresh
    <2> QED
      BY <2>1, <2>2, <2>3
  <1>13. NewsArrives'
    BY <1>1, <1>2 DEF NewsArrives
  <1>14. MembersWereBorn' /\ EndsAreOld'
    <2>1. MembersWereBorn'
      BY <1>1, <1>3, <1>5 DEF KeyInv, MembersWereBorn
    <2>2. EndsAreOld'
      BY <1>1, <1>3, <1>4 DEF KeyInv, EndsAreOld
    <2> QED
      BY <2>1, <2>2
  <1> QED
    BY <1>7, <1>10, <1>11, <1>12, <1>13, <1>14 DEF KeyInv, TypeInv

-----------------------------------------------------------------------------
\* Joining.

\* Who p joins as: a member of its node, or a new one.
Joins(p, n, me, c) ==
    /\ proc[p] = Unborn
    /\ \A q \in Processes : q < p => Born(q)
    /\ \A q \in Processes : Alive(q) => proc[q].node # n
    /\ me \in Members /\ me.node = n
    /\ \/ me \in members /\ issued' = issued
       \/ /\ me.id = issued + 1 /\ (~approval => me.active)
          /\ \A m \in members : m.node # n
          /\ issued' = issued + 1 /\ issued' <= p
    /\ members' = members \cup {me}
    /\ c \in Client /\ c.id = me.id /\ c.node = n /\ c.keys = NoKeys
    /\ c.pc = IF me.active THEN "announce" ELSE "dial"
    /\ proc' = [proc EXCEPT ![p] = c]
    /\ UNCHANGED <<approval, room, link, up, down>>

LEMMA JoinSteps ==
  ASSUME KeyInv, NEW p \in Processes, NEW n \in Nodes, Join(p, n)
  PROVE  \E me, c : Joins(p, n, me, c)
  <1> DEFINE mine == {m \in members : m.node = n}
             new  == [id |-> NewId, node |-> n, active |-> ~approval \/ issued = 0]
             me   == IF mine = {} THEN new ELSE CHOOSE m \in mine : TRUE
             c    == [pc |-> IF me.active THEN "announce" ELSE "dial", node |-> n,
                      id |-> me.id, relay |-> me.active, peers |-> ActiveIds \ {me.id}, sent |-> {},
                      replied |-> {}, keys |-> NoKeys]
  <1>1. /\ proc[p] = Unborn
        /\ \A q \in Processes : q < p => proc[q] # Unborn
        /\ \A q \in Processes : Alive(q) => proc[q].node # n
        /\ members' = members \cup {me}
        /\ issued' = IF mine = {} THEN NewId ELSE issued
        /\ proc' = [proc EXCEPT ![p] = c]
        /\ UNCHANGED <<approval, room, link, up, down>>
    BY DEF Join
  <1>2. issued \in Nat /\ issued + 1 <= p /\ p \in 1..MaxProcesses
    <2>1. PICK k \in 0..MaxProcesses : issued <= k /\ \A q \in Processes : Born(q) <=> q <= k
      BY Found DEF TypeInv, BornInOrder
    <2>2. ~(p <= k)
      BY <1>1, <2>1 DEF Born
    <2> QED
      BY <2>1, <2>2, Found DEF Processes, TypeOK
  <1>3. CASE mine = {}
    <2>1. me = new /\ issued' = issued + 1
      BY <1>1, <1>3 DEF NewId
    <2>2. new \in Members /\ new.node = n
      BY <1>2, Found DEF Members, Ids, NewId, TypeOK
    <2> QED
      <3> HIDE DEF new
      <3>1. me \in Members /\ me.node = n
        BY <2>1, <2>2
      <3> HIDE DEF me
      <3>2. me.id \in Ids /\ me.active \in BOOLEAN
        BY <3>1 DEF Members
      <3>3. c \in Client /\ c.id = me.id /\ c.node = n /\ c.keys = NoKeys
            /\ c.pc = IF me.active THEN "announce" ELSE "dial"
        <4>1. ActiveIds \ {me.id} \in SUBSET Ids /\ NoKeys \in [Ids -> Processes \cup {NoKey}]
          BY Found DEF TypeOK, Members, ActiveIds, NoKeys
        <4> QED
          BY <3>2, <4>1 DEF Client
      <3> HIDE DEF c
      <3>4. \A m \in members : m.node # n
        BY <1>3
      <3>5. me.id = issued + 1 /\ (~approval => me.active)
        BY <2>1 DEF new, NewId
      <3>6. Joins(p, n, me, c)
        BY <1>1, <1>2, <2>1, <3>1, <3>3, <3>4, <3>5 DEF Joins, Born
      <3> QED
        BY <3>6
  <1>4. CASE mine # {}
    <2>1. me \in mine /\ issued' = issued
      BY <1>1, <1>4
    <2>2. me \in Members /\ me.node = n /\ me \in members
      BY <2>1, Found DEF TypeOK
    <2> HIDE DEF me
    <2>3. me.id \in Ids /\ me.active \in BOOLEAN
      BY <2>2 DEF Members
    <2>4. c \in Client /\ c.id = me.id /\ c.node = n /\ c.keys = NoKeys
          /\ c.pc = IF me.active THEN "announce" ELSE "dial"
      <3>1. ActiveIds \ {me.id} \in SUBSET Ids /\ NoKeys \in [Ids -> Processes \cup {NoKey}]
        BY Found DEF TypeOK, Members, ActiveIds, NoKeys
      <3> QED
        BY <2>3, <3>1 DEF Client
    <2> HIDE DEF c
    <2>5. Joins(p, n, me, c)
      BY <1>1, <2>1, <2>2, <2>4 DEF Joins, Born
    <2> QED
      BY <2>5
  <1> QED
    BY <1>3, <1>4

LEMMA JoinKeeps ==
  ASSUME KeyInv, NEW p \in Processes, NEW n \in Nodes, NEW me, NEW c, Joins(p, n, me, c)
  PROVE  KeyInv'
  <1>1. /\ ~Born(p) /\ me \in Members /\ me.node = n /\ members' = members \cup {me}
        /\ c \in Client /\ c.id = me.id /\ c.node = n /\ c.keys = NoKeys
        /\ c.pc = IF me.active THEN "announce" ELSE "dial"
        /\ UNCHANGED <<approval, room, link, up, down>>
    BY DEF Joins, Born
  <1>2. /\ proc'[p] = c
        /\ \A r \in Processes \ {p} : proc'[r] = proc[r]
    BY Found DEF TypeOK, Joins
  <1>3. /\ Born(p)' /\ Alive(p)' /\ ~Reads(p)' /\ ~Alive(p) /\ ~Reads(p)
        /\ \A r \in Processes \ {p} : /\ Born(r)' <=> Born(r)
                                      /\ Alive(r)' <=> Alive(r)
                                      /\ Reads(r)' <=> Reads(r)
    <2>1. Born(p)' /\ Alive(p)' /\ ~Reads(p)'
      BY <1>1, <1>2, ClientTyped DEF Born, Alive, Reads
    <2>2. ~Alive(p) /\ ~Reads(p)
      BY <1>1, Found
    <2>3. \A r \in Processes \ {p} : /\ Born(r)' <=> Born(r)
                                     /\ Alive(r)' <=> Alive(r)
                                     /\ Reads(r)' <=> Reads(r)
      BY <1>2 DEF Born, Alive, Reads
    <2> QED
      BY <2>1, <2>2, <2>3
  <1>4. /\ issued \in Nat /\ issued' \in Nat /\ issued <= issued' /\ p \in Nat
        /\ issued' \in 0..MaxProcesses /\ me.id <= issued' /\ me.id \in Nat
        /\ \A m \in members : m.id \in Nat
        /\ \A r \in Processes : Born(r) => proc[r].id \in Nat
    <2>1. Processes \subseteq Nat /\ Ids \subseteq Nat /\ issued \in Nat /\ issued <= MaxProcesses
      BY Found DEF Processes, Ids, TypeOK
    <2>2. p <= MaxProcesses
      BY Found DEF Processes
    <2>3. /\ issued' \in Nat /\ issued <= issued' /\ issued' \in 0..MaxProcesses
          /\ me.id <= issued'
      <3>1. CASE me \in members /\ issued' = issued
        BY <2>1, <3>1, Found DEF IdsAreNodes
      <3>2. CASE me.id = issued + 1 /\ issued' = issued + 1 /\ issued' <= p
        BY <2>1, <2>2, <3>2, Found
      <3> QED
        BY <3>1, <3>2 DEF Joins
    <2>4. /\ me.id \in Nat /\ \A m \in members : m.id \in Nat
          /\ \A r \in Processes : Born(r) => proc[r].id \in Nat
      BY <1>1, <2>1, Found DEF TypeOK, Members
    <2> QED
      BY <2>1, <2>3, <2>4
  <1>5. \/ me \in members
        \/ /\ me.id = issued + 1 /\ issued' = issued + 1 /\ (~approval => me.active)
           /\ \A m \in members : m.id # me.id
           /\ \A r \in Processes : Born(r) => proc[r].id # me.id
    <2> SUFFICES ASSUME me \notin members
                 PROVE  /\ me.id = issued + 1 /\ issued' = issued + 1 /\ (~approval => me.active)
                        /\ \A m \in members : m.id # me.id
                        /\ \A r \in Processes : Born(r) => proc[r].id # me.id
      OBVIOUS
    <2>1. /\ me.id = issued + 1 /\ issued' = issued + 1 /\ (~approval => me.active)
      BY DEF Joins
    <2>2. /\ \A m \in members : m.id <= issued
          /\ \A r \in Processes : Born(r) => proc[r].id <= issued
      BY Found DEF IdsAreNodes
    <2>3. \A m \in members : m.id # me.id
      <3> SUFFICES ASSUME NEW m \in members, m.id = me.id PROVE FALSE
        OBVIOUS
      <3>1. m.id \in Nat /\ m.id <= issued /\ m.id = issued + 1 /\ issued \in Nat
        BY <1>4, <2>1, <2>2
      <3> QED
        BY <3>1
    <2>4. \A r \in Processes : Born(r) => proc[r].id # me.id
      <3> SUFFICES ASSUME NEW r \in Processes, Born(r), proc[r].id = me.id PROVE FALSE
        OBVIOUS
      <3>1. proc[r].id \in Nat /\ proc[r].id <= issued /\ proc[r].id = issued + 1 /\ issued \in Nat
        BY <1>4, <2>1, <2>2
      <3> QED
        BY <3>1
    <2> QED
      BY <2>1, <2>3, <2>4
  <1>6. TypeOK'
    <2>1. proc' \in [Processes -> Client \cup {Unborn}]
      BY <1>1, Found DEF TypeOK, Joins
    <2>2. members' \subseteq Members
      BY <1>1, Found DEF TypeOK
    <2> QED
      BY <1>1, <1>4, <2>1, <2>2, Found DEF TypeOK
  <1>7. BornInOrder'
    <2>1. PICK k \in 0..MaxProcesses : issued <= k /\ \A q \in Processes : Born(q) <=> q <= k
      BY Found DEF TypeInv, BornInOrder
    <2>2. p \in 1..MaxProcesses /\ ~(p <= k) /\ MaxProcesses \in Nat
      BY <1>1, <2>1, Found DEF Processes
    <2>3. \A q \in Processes : q < p => q <= k
      BY <2>1 DEF Joins
    <2>4. k = p - 1
      <3>1. CASE p = 1
        BY <2>1, <2>2, <3>1
      <3>2. CASE p # 1
        <4>1. p - 1 \in Processes /\ p - 1 < p
          BY <2>2, <3>2 DEF Processes
        <4>2. p - 1 <= k
          BY <2>3, <4>1
        <4> QED
          BY <2>1, <2>2, <4>2
      <3> QED
        BY <3>1, <3>2
    <2>5. issued' <= p
      <3>1. issued' = issued \/ issued' <= p
        BY DEF Joins
      <3> QED
        BY <1>4, <2>1, <2>2, <3>1
    <2>6. \A q \in Processes : Born(q)' <=> q <= p
      <3>1. \A q \in Processes : q \in Nat
        BY DEF Processes
      <3> QED
        BY <1>3, <2>1, <2>2, <2>4, <3>1
    <2>7. p \in 0..MaxProcesses
      BY <2>2
    <2> QED
      BY <2>5, <2>6, <2>7 DEF BornInOrder
  <1>8. IdsAreNodes'
    <2>1. \A m \in members' : m.id <= issued'
      <3>1. \A m \in members : m.id <= issued
        BY Found DEF IdsAreNodes
      <3> QED
        BY <1>1, <1>4, <3>1
    <2>2. \A r \in Processes : Born(r)' => proc'[r].id <= issued'
      <3>1. \A r \in Processes : Born(r) => proc[r].id <= issued
        BY Found DEF IdsAreNodes
      <3> QED
        BY <1>1, <1>2, <1>3, <1>4, <3>1
    <2>3. \A m, o \in members' : m.id = o.id => m.node = o.node
      BY <1>1, <1>5, Found DEF IdsAreNodes
    <2>4. \A m \in members', r \in Processes :
            Born(r)' /\ m.id = proc'[r].id => m.node = proc'[r].node
      <3> SUFFICES ASSUME NEW m \in members', NEW r \in Processes, Born(r)', m.id = proc'[r].id
                   PROVE  m.node = proc'[r].node
        OBVIOUS
      <3>1. CASE r = p
        BY <1>1, <1>2, <2>3, <3>1
      <3>2. CASE r # p /\ m \in members
        BY <1>2, <1>3, <3>2, Found DEF IdsAreNodes
      <3>3. CASE r # p /\ m = me
        <4>1. Born(r) /\ proc'[r] = proc[r]
          BY <1>2, <1>3, <3>3
        <4>2. me \in members
          BY <1>5, <3>3, <4>1
        <4> QED
          BY <3>3, <4>1, <4>2, Found DEF IdsAreNodes
      <3> QED
        BY <1>1, <3>1, <3>2, <3>3
    <2>5. \A r, t \in Processes :
            Born(r)' /\ Born(t)' /\ proc'[r].id = proc'[t].id => proc'[r].node = proc'[t].node
      <3>1. \A r, t \in Processes :
              Born(r) /\ Born(t) /\ proc[r].id = proc[t].id => proc[r].node = proc[t].node
        BY Found DEF IdsAreNodes
      <3>2. \A r \in Processes : Born(r) /\ proc[r].id = me.id => proc[r].node = n
        BY <1>1, <1>5, Found DEF IdsAreNodes
      <3> QED
        BY <1>1, <1>2, <1>3, <3>1, <3>2
    <2>6. \A r, t \in Processes : Alive(r)' /\ Alive(t)' /\ proc'[r].node = proc'[t].node => r = t
      <3>1. \A r \in Processes \ {p} : Alive(r)' => proc'[r].node # n
        BY <1>2, <1>3 DEF Joins
      <3>2. \A r, t \in Processes \ {p} :
              Alive(r)' /\ Alive(t)' /\ proc'[r].node = proc'[t].node => r = t
        BY <1>2, <1>3, Found DEF IdsAreNodes
      <3> QED
        BY <1>1, <1>2, <3>1, <3>2
    <2> QED
      BY <2>1, <2>2, <2>3, <2>4, <2>5, <2>6 DEF IdsAreNodes
  <1>9. \A r \in Processes \ {p} : /\ First(r)' => First(r)
                                   /\ Born(r) => (Present(r)' <=> Present(r))
                                   /\ Stage(r)' = Stage(r) \/ ~Born(r)
    <2> SUFFICES ASSUME NEW r \in Processes \ {p}
                 PROVE  /\ First(r)' => First(r)
                        /\ Born(r) => (Present(r)' <=> Present(r))
                        /\ Stage(r)' = Stage(r) \/ ~Born(r)
      OBVIOUS
    <2>1. First(r)' => First(r)
      <3>1. \A t \in Processes : Born(t) => Born(t)' /\ proc'[t] = proc[t]
        BY <1>1, <1>2, <1>3
      <3>2. First(r)' => Born(r)
        BY <1>3 DEF First, Born
      <3> QED
        BY <3>1, <3>2 DEF First, Born
    <2>2. Born(r) => (Present(r)' <=> Present(r))
      BY <1>1, <1>2, <1>5 DEF Present
    <2> QED
      BY <1>2, <2>1, <2>2 DEF Stage
  <1>10. First(p)' => me \notin members
    <2>1. ASSUME First(p)', me \in members
          PROVE  FALSE
      <3>1. PICK r \in Processes : Born(r) /\ proc[r].id = me.id
        BY <2>1 DEF KeyInv, MembersWereBorn
      <3>2. r # p /\ Born(r)' /\ proc'[r].id = proc'[p].id
        BY <1>1, <1>2, <1>3, <3>1
      <3> QED
        BY <2>1, <3>2 DEF First, Born
    <2> QED
      BY <2>1
  <1>11. Present(p)'
    BY <1>1, <1>2 DEF Present
  <1>12. ReadersAreAttached' /\ HandlersFit'
    <2>1. \A a \in room' : Born(a.process)' /\ a.id = proc'[a.process].id /\ Inside(a.process)'
      <3>1. \A a \in room : /\ a.process \in Processes /\ Born(a.process)
                             /\ a.id = proc[a.process].id /\ Inside(a.process)
        BY Found DEF TypeOK, Attached, KeyInv, ReadersAreAttached
      <3> QED
        BY <1>1, <1>2, <1>3, <3>1 DEF Inside
    <2>2. \A r \in Processes : Reads(r)' => link'[r].pc = "attach" \/ \E a \in room' : a.process = r
      BY <1>1, <1>3 DEF KeyInv, ReadersAreAttached
    <2>3. HandlersFit'
      BY <1>1, <1>3 DEF KeyInv, HandlersFit
    <2> QED
      BY <2>1, <2>2, <2>3 DEF ReadersAreAttached
  <1>13. LeaveIsLast'
    <2>1. up[p] = <<>> /\ DOMAIN <<>> = {}
      BY <1>1, <1>3 DEF KeyInv, LeaveIsLast
    <2>2. \A r \in Processes \ {p} :
            /\ Reads(r)' \/ (Born(r)' /\ ~Alive(r)') \/ up'[r] = <<>>
            /\ \A i \in DOMAIN up'[r] : up'[r][i] = Leave => i = Len(up'[r]) /\ ~Alive(r)'
      BY <1>1, <1>3 DEF KeyInv, LeaveIsLast
    <2> QED
      BY <1>1, <2>1, <2>2 DEF LeaveIsLast
  <1>14. EverybodyIsIn'
    BY <1>1, <1>5 DEF KeyInv, EverybodyIsIn
  <1>15. GoneIsOver'
    <2> SUFFICES ASSUME NEW q \in Processes, First(q)', ~Present(q)'
                 PROVE  ~Alive(q)' /\ up'[q] = <<>>
      BY DEF GoneIsOver
    <2>1. q # p /\ First(q) /\ Born(q)
      BY <1>9, <1>11, Found
    <2>2. ~Alive(q) /\ up[q] = <<>>
      BY <1>9, <2>1 DEF KeyInv, GoneIsOver
    <2> QED
      BY <1>1, <1>3, <2>1, <2>2
  <1>16. KeysAreFresh'
    BY <1>1, <1>2, <1>3 DEF KeyInv, KeysAreFresh
  <1>17. MembersWereBorn'
    BY <1>1, <1>2, <1>3 DEF KeyInv, MembersWereBorn
  <1>18. EndsAreOld'
    <2> SUFFICES ASSUME NEW q \in Processes, NEW i \in DOMAIN down[q], down[q][i].type = "member_left"
                 PROVE  down[q][i].id <= issued'
      BY <1>1 DEF EndsAreOld
    <2>1. down[q][i].id <= issued
      BY DEF KeyInv, EndsAreOld
    <2>2. down[q][i] \in Messages
      BY Found, ElementOfSeq, LenProperties
    <2>3. down[q][i].id \in Ids
      BY <2>2 DEF Messages
    <2>4. Ids \subseteq Nat
      BY DEF Ids
    <2>5. \A id \in Nat : id <= issued => id <= issued'
      BY <1>4
    <2> QED
      BY <2>1, <2>3, <2>4, <2>5
  <1>19. NewsArrives'
    <2> SUFFICES ASSUME ~approval, NEW r \in Processes, NEW q \in Processes,
                        r # q, Reads(r)', First(q)'
                 PROVE  News(r, q)'
      BY <1>1 DEF NewsArrives
    <2>1. r # p /\ Reads(r) /\ proc'[r] = proc[r] /\ down'[r] = down[r] /\ link' = link
      BY <1>1, <1>2, <1>3
    <2>2. CASE q # p
      <3>1. First(q) /\ Born(q) /\ proc'[q] = proc[q]
        BY <1>2, <1>9, <2>2, Found
      <3>2. StageFor(r, q)' = StageFor(r, q)
        <4>1. Stage(q)' = Stage(q)
          BY <1>9, <2>2, <3>1
        <4> QED
          BY <2>1, <3>1, <4>1 DEF StageFor, ToBeListed
      <3>3. News(r, q)
        BY <2>1, <3>1 DEF KeyInv, NewsArrives
      <3> QED
        BY <2>1, <3>1, <3>2, <3>3 DEF News
    <2>3. CASE q = p
      <3>1. me.id = issued + 1 /\ me.active
        BY <1>5, <1>10, <2>3
      <3>2. StageFor(r, p)' = "new"
        BY <1>1, <1>2, <3>1 DEF Stage, StageFor
      <3>3. HearsNoEnd(down[r], me.id)
        <4> SUFFICES ASSUME NEW i \in DOMAIN down[r], Retracts(down[r][i], me.id)
                     PROVE  FALSE
          BY DEF HearsNoEnd
        <4>1. me.id <= issued
          BY DEF Retracts, KeyInv, EndsAreOld
        <4> QED
          BY <1>4, <3>1, <4>1
      <3>4. Informed(proc[r], down[r], me.id, p, "new")
        BY <3>3 DEF Informed
      <3> QED
        BY <1>1, <1>2, <2>1, <2>3, <3>2, <3>4 DEF News
    <2> QED
      BY <2>2, <2>3
  <1> QED
    BY <1>6, <1>7, <1>8, <1>12, <1>13, <1>14, <1>15, <1>16, <1>17, <1>18, <1>19 DEF KeyInv, TypeInv

-----------------------------------------------------------------------------
\* Theorems.

LEMMA InitKeyInv == Init => KeyInv
  <1> SUFFICES ASSUME Init
               PROVE  KeyInv
    OBVIOUS
  <1>1. MaxProcesses \in Nat /\ \A p \in Processes : ~Born(p) /\ proc[p] = Unborn
    BY KeyExchangeConstants DEF Init, Born
  <1>2. \A p \in Processes : ~Alive(p) /\ ~Reads(p) /\ ~First(p)
    BY <1>1 DEF Unborn, Alive, Reads, First
  <1>3. \A p \in Processes : up[p] = <<>> /\ down[p] = <<>> /\ link[p] = NoHandler
    BY DEF Init
  <1>4. TypeOK
    <2>1. NoHandler \in Handler /\ approval \in BOOLEAN
      BY KeyExchangeConstants DEF NoHandler, Handler, Init
    <2> QED
      BY <1>1, <2>1 DEF Init, TypeOK
  <1>5. BornInOrder
    <2>1. 0 \in 0..MaxProcesses /\ \A p \in Processes : ~(p <= 0)
      BY <1>1 DEF Processes
    <2> QED
      BY <1>1, <2>1 DEF BornInOrder, Init
  <1>6. IdsAreNodes /\ ReadersAreAttached /\ EverybodyIsIn /\ MembersWereBorn
    BY <1>1, <1>2 DEF Init, IdsAreNodes, ReadersAreAttached, EverybodyIsIn, MembersWereBorn
  <1>7. LeaveIsLast /\ EndsAreOld
    <2>1. DOMAIN <<>> = {}
      OBVIOUS
    <2> QED
      BY <1>3, <2>1 DEF LeaveIsLast, EndsAreOld
  <1>8. GoneIsOver /\ NewsArrives /\ KeysAreFresh /\ HandlersFit
    <2>1. NoHandler.pc = "none"
      BY DEF NoHandler
    <2> QED
      BY <1>1, <1>2, <1>3, <2>1 DEF GoneIsOver, NewsArrives, KeysAreFresh, HandlersFit
  <1> QED
    BY <1>4, <1>5, <1>6, <1>7, <1>8 DEF KeyInv, TypeInv

LEMMA NextKeyInv == KeyInv /\ [Next]_vars => KeyInv'
  <1> SUFFICES ASSUME KeyInv, [Next]_vars
               PROVE  KeyInv'
    OBVIOUS
  <1>1. ASSUME NEW p \in Processes, NEW n \in Nodes, Join(p, n)
        PROVE  KeyInv'
    BY <1>1, JoinSteps, JoinKeeps
  <1>2. ASSUME NEW p \in Processes, Announce(p)
        PROVE  KeyInv'
    BY <1>2, AnnounceKeeps
  <1>3. ASSUME NEW p \in Processes, Dial(p)
        PROVE  KeyInv'
    BY <1>3, DialKeeps
  <1>4. ASSUME NEW p \in Processes, Hail(p)
        PROVE  KeyInv'
    BY <1>4, HailSteps, ClientStepKeeps
  <1>5. ASSUME NEW p \in Processes, Read(p)
        PROVE  KeyInv'
    BY <1>5, ReadSteps, ClientStepKeeps
  <1>6. ASSUME NEW p \in Processes, Close(p) \/ Abort(p) \/ Heartbeat(p)
        PROVE  KeyInv'
    <2>1. Close(p) \/ Lost(p)
      BY <1>6 DEF Abort, Heartbeat
    <2> QED
      BY <2>1, Ends, ClientStepKeeps
  <1>7. ASSUME NEW p \in Processes, Serve(p)
        PROVE  KeyInv'
    BY <1>7, ForwardKeeps, GoodbyeKeeps DEF Serve
  <1>8. ASSUME NEW p \in Processes, Detach(p)
        PROVE  KeyInv'
    BY <1>8, DetachKeeps
  <1>9. ASSUME NEW m \in members, Approve(m)
        PROVE  KeyInv'
    BY <1>9, ApproveKeeps
  <1>10. ASSUME NEW p \in Processes, AttachControl(p)
         PROVE  KeyInv'
    BY <1>10, AttachControlKeeps
  <1>11. ASSUME NEW p \in Processes, ReadList(p)
         PROVE  KeyInv'
    BY <1>11, ReadListSteps, HandlerStepKeeps
  <1>12. ASSUME NEW p \in Processes, SendList(p)
         PROVE  KeyInv'
    BY <1>12, SendListSteps, HandlerStepKeeps
  <1>13. CASE UNCHANGED vars
    <2>1. UNCHANGED <<approval, members, issued, room, proc, link, up, down>>
      BY <1>13 DEF vars
    <2>2. TypeInv' /\ IdsAreNodes'
      BY <2>1, Found DEF TypeInv, TypeOK, BornInOrder, IdsAreNodes, Born, Alive
    <2>3. ReadersAreAttached' /\ LeaveIsLast' /\ EverybodyIsIn' /\ KeysAreFresh' /\ HandlersFit'
      BY <2>1 DEF KeyInv, ReadersAreAttached, LeaveIsLast, EverybodyIsIn, KeysAreFresh, HandlersFit,
                  Born, Alive, Reads, Inside
    <2>4. GoneIsOver' /\ NewsArrives' /\ MembersWereBorn' /\ EndsAreOld'
      BY <2>1 DEF KeyInv, GoneIsOver, NewsArrives, MembersWereBorn, EndsAreOld,
                  Born, Alive, Reads, Present, First, News, Stage, StageFor, ToBeListed
    <2> QED
      BY <2>2, <2>3, <2>4 DEF KeyInv
  <1> QED
    BY <1>1, <1>2, <1>3, <1>4, <1>5, <1>6, <1>7, <1>8, <1>9, <1>10, <1>11, <1>12, <1>13 DEF Next

LEMMA KeyInvHolds == Spec => []KeyInv
  BY InitKeyInv, NextKeyInv, PTL DEF Spec

\* The session, its clients and what is on its way between them are always
\* well-formed, for any number of nodes and processes (client.go, loops.go, ws.go).
THEOREM KeysTypeCorrect == Spec => []TypeOK
  <1>1. KeyInv => TypeOK
    BY DEF KeyInv, TypeInv
  <1> QED
    BY <1>1, KeyInvHolds, PTL

\* In a session without approvals, once nothing is on its way, no client holds the
\* key of a process whose member has left, unless it left while the client's list
\* was on its way, for any number of nodes and processes (loops.go:481-503).
THEOREM KeysAreForgotten == Spec => []KeysForgotten
  <1>1. KeyInv => KeysForgotten
    <2> SUFFICES ASSUME KeyInv, ~approval, \A p \in Processes : up[p] = <<>> /\ down[p] = <<>>,
                        NEW p \in Processes, NEW q \in Processes,
                        Reads(p), First(q), HasKeyOf(p, q), ~Present(q),
                        proc[q].id \notin link[p].missed
                 PROVE  FALSE
      BY DEF KeysForgotten, Quiet
    <2>1. ~Alive(q)
      BY DEF KeyInv, GoneIsOver
    <2>2. p # q
      BY <2>1, Found
    <2>3. StageFor(p, q) = "gone"
      BY <2>1 DEF Stage, StageFor, Alive
    <2>4. Informed(proc[p], <<>>, proc[q].id, q, "gone")
      BY <2>2, <2>3 DEF KeyInv, NewsArrives, News
    <2>5. ~WillForget(proc[p], <<>>, proc[q].id, q)
      <3>1. DOMAIN <<>> = {}
        OBVIOUS
      <3> QED
        BY <3>1 DEF WillForget
    <2>6. proc[p].keys[proc[q].id] # q
      BY <2>4, <2>5 DEF Informed, HasForgotten
    <2> QED
      BY <2>6 DEF HasKeyOf
  <1> QED
    BY <1>1, KeyInvHolds, PTL

=============================================================================
