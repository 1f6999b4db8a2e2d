-------------------------- MODULE ConnectionProofs --------------------------
(***************************************************************************)
(* Theorems about Connection, for a queue and a network of any length, any *)
(* limit of drops and any number of frames.                                *)
(***************************************************************************)
EXTENDS Connection, SequenceTheorems, FiniteSetTheorems, TLAPS

-----------------------------------------------------------------------------
\* The inductive invariant.  A frame is at one of four places, and each place has
\* only younger frames behind it.

Elements(s) == {s[i] : i \in DOMAIN s}
OnWire  == Elements(wire) \ {CloseFrame}
InHand  == {pump.frame} \ {Nothing}
Queued  == Elements(out)
Reached == got \cup OnWire

Before(S, T) == \A f \in S, g \in T : f < g
Rising(s) == \A i, j \in DOMAIN s :
    i < j /\ s[i] # CloseFrame /\ s[j] # CloseFrame => s[i] < s[j]

InLine ==
    /\ Before(got, OnWire) /\ Before(Reached, InHand)
    /\ Before(Reached \cup InHand, Queued)
    /\ Rising(wire) /\ Rising(out)
    /\ \A f \in Reached \cup InHand \cup Queued : f <= sent

\* A pump that writes has a frame in its hands, any other has none.
Handling == pump.pc = "write" <=> pump.frame # Nothing

\* A client that is gone has nothing more to read.
GoneReadsNothing == client = "gone" => wire = <<>>

\* What was overtaken by something the client has or will read was dropped; while
\* the pump works for a client everything else was dropped, too.
Skipped == {f \in 1..sent : f \notin Reached /\ \E g \in Reached : f < g}
Unaccounted == (1..sent) \ (Reached \cup InHand \cup Queued)
DropsCounted ==
    /\ Cardinality(Skipped) <= dropped + counting
    /\ pump.pc # "over" /\ client # "gone" => Cardinality(Unaccounted) <= dropped + counting
    /\ dropped >= SlowDropLimit + kicking => closed

ConnInv == TypeOK /\ Handling /\ GoneReadsNothing /\ InLine /\ DropsCounted

-----------------------------------------------------------------------------
\* Sequences.

LEMMA Appended ==
    ASSUME NEW S, NEW s \in Seq(S), NEW f \in S
    PROVE  /\ Append(s, f) \in Seq(S)
           /\ Len(Append(s, f)) = Len(s) + 1
           /\ Elements(Append(s, f)) = Elements(s) \cup {f}
  <1>1. /\ Append(s, f) \in Seq(S) /\ Len(Append(s, f)) = Len(s) + 1
        /\ \A i \in 1..Len(s) : Append(s, f)[i] = s[i]
        /\ Append(s, f)[Len(s) + 1] = f
    BY AppendProperties
  <1>2. /\ DOMAIN s = 1..Len(s) /\ Len(s) \in Nat
        /\ DOMAIN Append(s, f) = 1..(Len(s) + 1)
    BY <1>1, LenProperties
  <1>3. QED
    BY <1>1, <1>2 DEF Elements

LEMMA AppendRises ==
    ASSUME NEW s \in Seq(Nat), NEW f \in Nat, Rising(s),
           f # CloseFrame => Before(Elements(s) \ {CloseFrame}, {f})
    PROVE  Rising(Append(s, f))
  <1>1. /\ Len(Append(s, f)) = Len(s) + 1
        /\ \A i \in 1..Len(s) : Append(s, f)[i] = s[i]
        /\ Append(s, f)[Len(s) + 1] = f
        /\ Append(s, f) \in Seq(Nat)
    BY AppendProperties
  <1>2. /\ DOMAIN s = 1..Len(s) /\ Len(s) \in Nat
        /\ DOMAIN Append(s, f) = 1..(Len(s) + 1)
    BY <1>1, LenProperties
  <1>3. QED
    BY <1>1, <1>2 DEF Rising, Before, Elements

LEMMA Shifted ==
    ASSUME NEW S, NEW s \in Seq(S), s # <<>>
    PROVE  /\ Tail(s) \in Seq(S) /\ Head(s) \in S
           /\ Len(Tail(s)) = Len(s) - 1
           /\ Elements(s) = {Head(s)} \cup Elements(Tail(s))
           /\ Head(s) = s[1] /\ 1 \in DOMAIN s
           /\ DOMAIN Tail(s) = 1..(Len(s) - 1) /\ DOMAIN s = 1..Len(s) /\ Len(s) \in Nat \ {0}
           /\ \A i \in DOMAIN Tail(s) : Tail(s)[i] = s[i + 1]
  <1>1. /\ Tail(s) \in Seq(S) /\ Head(s) \in S /\ Len(Tail(s)) = Len(s) - 1
        /\ Head(s) = s[1]
        /\ \A i \in 1..Len(Tail(s)) : Tail(s)[i] = s[i + 1]
    BY HeadTailProperties
  <1>2. /\ DOMAIN s = 1..Len(s) /\ Len(s) \in Nat \ {0}
        /\ DOMAIN Tail(s) = 1..Len(Tail(s))
    BY <1>1, LenProperties, EmptySeq
  <1>3. \A i \in 1..Len(s) : i = 1 \/ (i - 1 \in 1..Len(Tail(s)) /\ s[i] = Tail(s)[i - 1])
    BY <1>1, <1>2
  <1>4. 1 \in DOMAIN s /\ \A i \in 1..Len(Tail(s)) : i + 1 \in DOMAIN s
    BY <1>1, <1>2
  <1>5. Elements(s) = {Head(s)} \cup Elements(Tail(s))
    <2>1. Elements(s) \subseteq {Head(s)} \cup Elements(Tail(s))
      <3>1. ASSUME NEW i \in 1..Len(s)
            PROVE  s[i] \in {Head(s)} \cup Elements(Tail(s))
        BY <1>1, <1>2, <1>3 DEF Elements
      <3>2. QED
        BY <3>1, <1>2 DEF Elements
    <2>2. {Head(s)} \cup Elements(Tail(s)) \subseteq Elements(s)
      BY <1>1, <1>2, <1>4 DEF Elements
    <2>3. QED
      BY <2>1, <2>2
  <1>6. QED
    BY <1>1, <1>2, <1>4, <1>5

LEMMA TailRises ==
    ASSUME NEW s \in Seq(Nat), s # <<>>, Rising(s)
    PROVE  /\ Rising(Tail(s))
           /\ Head(s) # CloseFrame =>
                Before({Head(s)}, Elements(Tail(s)) \ {CloseFrame})
  <1>1. \A i \in DOMAIN Tail(s) : i + 1 \in DOMAIN s /\ 1 < i + 1 /\ Tail(s)[i] = s[i + 1]
    BY Shifted
  <1>2. Head(s) = s[1] /\ 1 \in DOMAIN s /\ DOMAIN Tail(s) \subseteq Nat
    BY Shifted
  <1>3. QED
    BY <1>1, <1>2 DEF Rising, Before, Elements

-----------------------------------------------------------------------------
\* Counting.

LEMMA FewerAreFewer ==
    ASSUME NEW S, NEW T, IsFiniteSet(T), S \subseteq T
    PROVE  Cardinality(S) <= Cardinality(T)
  BY FS_Subset

LEMMA OneMore ==
    ASSUME NEW S, NEW T, NEW x, IsFiniteSet(T), S \subseteq T \cup {x}
    PROVE  Cardinality(S) <= Cardinality(T) + 1
  <1>1. /\ IsFiniteSet(T \cup {x})
        /\ Cardinality(T \cup {x}) <= Cardinality(T) + 1
    <2>1. /\ IsFiniteSet(T \cup {x})
          /\ Cardinality(T \cup {x}) =
               IF x \in T THEN Cardinality(T) ELSE Cardinality(T) + 1
      BY FS_AddElement
    <2>2. Cardinality(T) \in Nat
      BY FS_CardinalityType
    <2>3. QED
      BY <2>1, <2>2
  <1>2. S \in SUBSET (T \cup {x})
    OBVIOUS
  <1>3. IsFiniteSet(S) /\ Cardinality(S) <= Cardinality(T \cup {x})
    BY <1>1, <1>2, FS_Subset
  <1>4. /\ Cardinality(S) \in Nat /\ Cardinality(T) \in Nat
        /\ Cardinality(T \cup {x}) \in Nat
    BY <1>1, <1>3, FS_CardinalityType
  <1>5. QED
    BY <1>1, <1>3, <1>4

LEMMA CountsAreFinite ==
    ASSUME sent \in Nat
    PROVE  /\ IsFiniteSet(Skipped) /\ Cardinality(Skipped) \in Nat
           /\ IsFiniteSet(Unaccounted) /\ Cardinality(Unaccounted) \in Nat
  <1>1. IsFiniteSet(1..sent)
    BY FS_Interval
  <1>2. Skipped \in SUBSET (1..sent) /\ Unaccounted \in SUBSET (1..sent)
    BY DEF Skipped, Unaccounted
  <1>3. IsFiniteSet(Skipped) /\ IsFiniteSet(Unaccounted)
    BY <1>1, <1>2, FS_Subset
  <1>4. QED
    BY <1>3, FS_CardinalityType

\* Before the step: what is where.
LEMMA Places ==
    ASSUME TypeOK
    PROVE  /\ sent \in Nat /\ dropped \in Nat /\ counting \in Nat /\ kicking \in Nat
           /\ got \subseteq Nat \ {0}
           /\ wire \in Seq(Nat) /\ out \in Seq(Nat)
           /\ Elements(wire) \subseteq Nat /\ Queued \subseteq Nat \ {0}
           /\ OnWire \subseteq Nat \ {0} /\ InHand \subseteq Nat \ {0}
           /\ Reached \subseteq Nat \ {0}
  <1>1. Frames \subseteq Nat \ {0} /\ CloseFrame = 0 /\ Nothing = 0 /\ MaxFrames \in Nat
    BY ConnectionConstants DEF Frames, CloseFrame, Nothing
  <1>2. wire \in Seq(Nat) /\ out \in Seq(Nat)
    <2>1. wire \in Seq(Frames \cup {CloseFrame}) /\ out \in Seq(Frames)
      BY DEF TypeOK
    <2>2. Frames \cup {CloseFrame} \subseteq Nat /\ Frames \subseteq Nat
      BY <1>1
    <2>3. wire \in Seq(Nat)
      BY <2>1, <2>2, SeqMonotonic
    <2>4. out \in Seq(Nat)
      BY <2>1, <2>2, SeqMonotonic
    <2>5. QED
      BY <2>3, <2>4
  <1>3. Elements(out) \subseteq Frames /\ Elements(wire) \subseteq Frames \cup {CloseFrame}
    BY ElementOfSeq, LenProperties DEF TypeOK, Elements
  <1>4. pump.frame \in Frames \cup {Nothing}
    BY DEF TypeOK
  <1>5. sent \in Nat /\ dropped \in Nat /\ counting \in Nat /\ kicking \in Nat
        /\ got \subseteq Frames
    BY <1>1 DEF TypeOK
  <1>6. OnWire \subseteq Nat \ {0} /\ InHand \subseteq Nat \ {0} /\ Queued \subseteq Nat \ {0}
    BY <1>1, <1>3, <1>4 DEF OnWire, InHand, Queued
  <1>7. Reached \subseteq Nat \ {0} /\ got \subseteq Nat \ {0} /\ Elements(wire) \subseteq Nat
    <2>1. got \subseteq Nat \ {0}
      BY <1>1, <1>5
    <2>2. Elements(wire) \subseteq Nat
      <3>1. Frames \cup {CloseFrame} \subseteq Nat
        BY <1>1
      <3>2. QED
        BY <1>3, <3>1
    <2>3. QED
      BY <1>6, <2>1, <2>2 DEF Reached
  <1>8. QED
    BY <1>2, <1>5, <1>6, <1>7

-----------------------------------------------------------------------------
\* The steps.

LEMMA InitEstablishes == Init => ConnInv
  <1> SUFFICES ASSUME Init PROVE ConnInv
    OBVIOUS
  <1>1. TypeOK
    <2>1. out \in Seq(Frames) /\ wire \in Seq(Frames \cup {CloseFrame}) /\ Len(out) = 0
      BY EmptySeq DEF Init
    <2>2. sent = 0 /\ dropped = 0 /\ counting = 0 /\ kicking = 0 /\ stalls = 0 /\ got = {}
      BY DEF Init
    <2>3. pump \in [pc : {"select", "write", "over"}, frame : Frames \cup {Nothing}]
      BY DEF Init
    <2>4. 0 \in 0..MaxFrames /\ 0 \in 0..MaxStalls /\ 0 \in 0..0 /\ 0 <= QueueLen /\ 0 + 0 <= 0
      BY ConnectionConstants
    <2>5. /\ dropped \in Nat /\ counting \in Nat /\ dropped + counting <= sent
          /\ kicking \in 0..dropped
      BY <2>2
    <2>6. sent \in 0..MaxFrames /\ stalls \in 0..MaxStalls /\ Len(out) <= QueueLen /\ got \subseteq Frames
      BY <2>1, <2>2, <2>4
    <2>7. closed \in BOOLEAN /\ reader = "reading" /\ client = "reads"
      BY DEF Init
    <2>8. QED
      BY <2>1, <2>3, <2>5, <2>6, <2>7 DEF TypeOK
  <1>2. /\ got = {} /\ OnWire = {} /\ InHand = {} /\ Queued = {} /\ Reached = {}
        /\ DOMAIN wire = {} /\ DOMAIN out = {} /\ sent = 0
        /\ dropped = 0 /\ counting = 0 /\ kicking = 0
    BY EmptySeq DEF Init, OnWire, InHand, Queued, Reached, Elements
  <1>3. InLine
    BY <1>2 DEF InLine, Before, Rising
  <1>4. DropsCounted
    <2>1. Skipped = {} /\ Unaccounted = {}
      BY <1>2 DEF Skipped, Unaccounted
    <2>2. Cardinality(Skipped) = 0 /\ Cardinality(Unaccounted) = 0
      BY <2>1, FS_EmptySet
    <2>3. QED
      BY <1>2, <2>2, ConnectionConstants DEF DropsCounted
  <1>5. QED
    BY <1>1, <1>3, <1>4 DEF ConnInv, Handling, GoneReadsNothing, Init, Nothing

\* The close frame is none of them.
LEMMA CloseFrameIsApart ==
    ASSUME ConnInv, CloseWritten \/ UNCHANGED wire
    PROVE  /\ wire' \in Seq(Frames \cup {CloseFrame}) /\ OnWire' = OnWire /\ Rising(wire)'
           /\ client = "gone" => wire' = <<>>
  <1>1. /\ wire \in Seq(Frames \cup {CloseFrame}) /\ wire \in Seq(Nat) /\ Rising(wire)
        /\ client = "gone" => wire = <<>>
    BY Places DEF ConnInv, TypeOK, InLine, GoneReadsNothing
  <1>2. CASE UNCHANGED wire
    BY <1>1, <1>2 DEF OnWire, Elements, Rising
  <1>3. CASE wire' = Append(wire, CloseFrame) /\ client # "gone"
    <2>1. /\ wire' \in Seq(Frames \cup {CloseFrame})
          /\ Elements(wire') = Elements(wire) \cup {CloseFrame}
      BY <1>1, <1>3, Appended
    <2>2. Rising(Append(wire, CloseFrame))
      BY <1>1, AppendRises DEF CloseFrame
    <2>3. QED
      BY <1>3, <2>1, <2>2 DEF OnWire, Elements, Rising
  <1>4. QED
    BY <1>2, <1>3 DEF CloseWritten

\* No frame moves, but the pump may end with one in its hands.
LEMMA NothingMoves ==
    ASSUME ConnInv, UNCHANGED <<sent, out, got>>, OnWire' = OnWire, Rising(wire)',
           InHand' \subseteq InHand, UNCHANGED <<dropped, counting, kicking>>, closed => closed',
           pump'.pc # "over" => pump.pc # "over" /\ InHand' = InHand,
           client' # "gone" => client # "gone"
    PROVE  InLine' /\ DropsCounted'
  <1>1. Queued' = Queued /\ Reached' = Reached /\ Skipped' = Skipped
    BY DEF OnWire, Queued, Reached, Skipped, Elements
  <1>2. InLine'
    BY <1>1 DEF ConnInv, InLine, Rising, Before
  <1>3. pump'.pc # "over" => Unaccounted' = Unaccounted
    BY <1>1 DEF Unaccounted
  <1>4. DropsCounted'
    BY <1>1, <1>3 DEF ConnInv, DropsCounted
  <1>5. QED
    BY <1>2, <1>4

\* Conn.Send.
LEMMA EnqueueKeeps ==
    ASSUME ConnInv, Enqueue, OnWire' = OnWire, Rising(wire)',
           UNCHANGED <<pump, got, client, stalls>>
    PROVE  /\ sent' \in 0..MaxFrames /\ out' \in Seq(Frames) /\ Len(out') <= QueueLen
           /\ counting' \in Nat /\ dropped' + counting' <= sent'
           /\ UNCHANGED <<dropped, kicking, closed>>
           /\ InLine' /\ DropsCounted'
  <1> USE ConnectionConstants
  <1>1. /\ TypeOK /\ sent + 1 \in Frames /\ sent' = sent + 1 /\ sent \in Nat
        /\ dropped \in Nat /\ counting \in Nat /\ kicking \in Nat /\ dropped + counting <= sent
        /\ UNCHANGED <<dropped, kicking, closed>>
    BY Places DEF ConnInv, Enqueue, TypeOK, Frames
  <1>2. out \in Seq(Frames) /\ out \in Seq(Nat) /\ Len(out) \in Nat /\ Len(out) <= QueueLen
    BY <1>1, Places, LenProperties DEF TypeOK
  <1>3. /\ OnWire' = OnWire /\ InHand' = InHand /\ Reached' = Reached
        /\ Reached \subseteq Nat /\ InHand \subseteq Nat /\ Queued \subseteq Nat
    BY <1>1, Places DEF OnWire, InHand, Reached, Elements
  <1>4. \A f \in Reached \cup InHand \cup Queued : f <= sent
    BY DEF ConnInv, InLine
  <1>5. Skipped' = Skipped
    BY <1>1, <1>3, <1>4 DEF Skipped
  <1>6. DropsCounted => /\ Cardinality(Skipped) <= dropped + counting
                        /\ pump.pc # "over" /\ client # "gone" =>
                              Cardinality(Unaccounted) <= dropped + counting
                        /\ dropped >= SlowDropLimit + kicking => closed
    BY DEF DropsCounted
  <1>7. CASE Len(out) < QueueLen
    <2>1. out' = Append(out, sent + 1) /\ counting' = counting
      BY <1>1, <1>7 DEF Enqueue, Enqueued
    <2>2. /\ out' \in Seq(Frames) /\ Len(out') = Len(out) + 1
          /\ Queued' = Queued \cup {sent + 1}
      BY <1>1, <1>2, <2>1, Appended DEF Queued
    <2>3. Rising(out)'
      <3>1. Before(Elements(out) \ {CloseFrame}, {sent + 1})
        BY <1>1, <1>3, <1>4 DEF Before, Queued
      <3>2. Rising(out) /\ sent + 1 \in Nat
        BY <1>1 DEF ConnInv, InLine
      <3>3. Rising(Append(out, sent + 1))
        BY <1>2, <3>1, <3>2, AppendRises
      <3>4. QED
        BY <2>1, <3>3 DEF Rising
    <2>4. InLine'
      BY <1>1, <1>3, <1>4, <2>2, <2>3 DEF ConnInv, InLine, Before, Rising
    <2>5. Unaccounted' = Unaccounted
      BY <1>1, <1>3, <1>4, <2>2 DEF Unaccounted
    <2>6. DropsCounted'
      BY <1>1, <1>5, <2>1, <2>5 DEF ConnInv, DropsCounted
    <2>7. QED
      BY <1>1, <1>2, <1>7, <2>1, <2>2, <2>4, <2>6 DEF Frames
  <1>8. CASE ~(Len(out) < QueueLen)
    <2>1. out' = out /\ counting' = counting + 1
      BY <1>1, <1>8 DEF Enqueue, Enqueued
    <2>2. Queued' = Queued
      BY <2>1 DEF Queued, Elements
    <2>3. InLine'
      BY <1>1, <1>3, <1>4, <2>1, <2>2 DEF ConnInv, InLine, Before, Rising
    <2>4. Unaccounted' \subseteq Unaccounted \cup {sent + 1}
      BY <1>1, <1>3, <2>2 DEF Unaccounted
    <2>5. Cardinality(Unaccounted') <= Cardinality(Unaccounted) + 1
      BY <1>1, <2>4, CountsAreFinite, OneMore
    <2>6. DropsCounted'
      <3>1. /\ Cardinality(Skipped) \in Nat /\ Cardinality(Unaccounted) \in Nat
            /\ Cardinality(Unaccounted') \in Nat
        BY <1>1, <2>4, CountsAreFinite, FS_AddElement, FS_Subset, FS_CardinalityType
      <3>2. Cardinality(Skipped') <= dropped' + counting'
        BY <1>1, <1>5, <1>6, <2>1, <3>1 DEF ConnInv
      <3>3. pump'.pc # "over" /\ client' # "gone" =>
              Cardinality(Unaccounted') <= dropped' + counting'
        BY <1>1, <1>6, <2>1, <2>5, <3>1 DEF ConnInv
      <3>4. dropped' >= SlowDropLimit + kicking' => closed'
        BY <1>1, <1>6 DEF ConnInv
      <3>5. QED
        BY <3>2, <3>3, <3>4 DEF DropsCounted
    <2>7. QED
      BY <1>1, <1>2, <2>1, <2>3, <2>6 DEF Frames
  <1>9. QED
    BY <1>7, <1>8

\* Its two other steps: the drop is counted, the connection kicked.
LEMMA RefusalKeeps ==
    ASSUME ConnInv, CountDrop \/ KickSlow
    PROVE  ConnInv'
  <1> USE ConnectionConstants
  <1>1. /\ TypeOK /\ sent \in Nat /\ dropped \in Nat /\ counting \in Nat /\ kicking \in Nat
        /\ dropped + counting <= sent /\ kicking <= dropped /\ closed \in BOOLEAN
        /\ UNCHANGED <<sent, out, pump, reader, wire, client, got, stalls>>
    BY Places DEF ConnInv, TypeOK, CountDrop, KickSlow
  <1>2. /\ Skipped' = Skipped /\ Unaccounted' = Unaccounted /\ InLine'
    BY <1>1 DEF Skipped, Unaccounted, Reached, OnWire, InHand, Queued, Elements, ConnInv, InLine,
                Before, Rising
  <1>3. /\ Cardinality(Skipped) \in Nat /\ Cardinality(Unaccounted) \in Nat
    BY <1>1, CountsAreFinite
  <1>4. /\ Cardinality(Skipped) <= dropped + counting
        /\ pump.pc # "over" /\ client # "gone" => Cardinality(Unaccounted) <= dropped + counting
        /\ dropped >= SlowDropLimit + kicking => closed
    BY DEF ConnInv, DropsCounted
  <1>5. CASE CountDrop
    <2>1. /\ counting' \in Nat /\ dropped' \in Nat /\ dropped' + counting' = dropped + counting
          /\ kicking' \in 0..dropped' /\ closed' = closed
          /\ dropped' = dropped + 1
          /\ kicking' = IF dropped + 1 >= SlowDropLimit THEN kicking + 1 ELSE kicking
      BY <1>1, <1>5 DEF CountDrop, Slow
    <2>2. dropped' >= SlowDropLimit + kicking' => closed'
      BY <1>1, <1>4, <2>1
    <2>3. DropsCounted'
      BY <1>1, <1>2, <1>3, <1>4, <2>1, <2>2 DEF DropsCounted
    <2>4. TypeOK'
      BY <1>1, <2>1 DEF TypeOK
    <2>5. QED
      BY <1>1, <1>2, <2>3, <2>4 DEF ConnInv, Handling, GoneReadsNothing
  <1>6. CASE KickSlow
    <2>1. kicking' \in 0..dropped /\ UNCHANGED <<dropped, counting>> /\ closed' = TRUE
      BY <1>1, <1>6 DEF KickSlow
    <2>2. DropsCounted'
      BY <1>1, <1>2, <1>4, <2>1 DEF DropsCounted
    <2>3. TypeOK'
      BY <1>1, <2>1 DEF TypeOK
    <2>4. QED
      BY <1>1, <1>2, <2>2, <2>3 DEF ConnInv, Handling, GoneReadsNothing
  <1>7. QED
    BY <1>5, <1>6

\* writePump takes a frame out of the queue.
LEMMA PumpTakeKeeps ==
    ASSUME ConnInv, PumpTake
    PROVE  ConnInv'
  <1>1. /\ TypeOK /\ out \in Seq(Frames) /\ out \in Seq(Nat) /\ out # <<>> /\ Rising(out)
        /\ pump.pc = "select" /\ InHand = {} /\ Queued \subseteq Nat \ {0}
        /\ UNCHANGED <<sent, dropped, counting, kicking, closed, reader, wire, client, got, stalls>>
        /\ pump' = [pc |-> "write", frame |-> Head(out)] /\ out' = Tail(out)
    <2>1. TypeOK /\ out \in Seq(Frames)
      BY DEF ConnInv, TypeOK
    <2>2. out \in Seq(Nat) /\ Queued \subseteq Nat \ {0}
      BY <2>1, Places
    <2>3. pump.pc = "select" /\ InHand = {}
      BY DEF ConnInv, PumpTake, Handling, InHand
    <2>4. Rising(out)
      BY DEF ConnInv, InLine
    <2>5. QED
      BY <2>1, <2>2, <2>3, <2>4 DEF PumpTake
  <1>2. /\ out' \in Seq(Frames) /\ Head(out) \in Frames /\ Len(out') = Len(out) - 1
        /\ Len(out) \in Nat
        /\ Queued = {Head(out)} \cup Queued'
    <2>1. /\ Tail(out) \in Seq(Frames) /\ Head(out) \in Frames /\ Len(Tail(out)) = Len(out) - 1
          /\ Len(out) \in Nat
          /\ Elements(out) = {Head(out)} \cup Elements(Tail(out))
      BY <1>1, Shifted
    <2>2. QED
      BY <1>1, <2>1 DEF Queued
  <1>3. /\ Rising(Tail(out))
        /\ Head(out) # CloseFrame => Before({Head(out)}, Elements(Tail(out)) \ {CloseFrame})
    BY <1>1, TailRises
  <1>4. Head(out) # 0 /\ InHand' = {Head(out)}
    BY <1>1, <1>2 DEF InHand, Nothing
  <1>5. Queued' \subseteq Nat \ {0} /\ Queued' = Elements(Tail(out))
    BY <1>1, <1>2 DEF Queued, Elements
  <1>6. Before(InHand', Queued') /\ Rising(out)'
    BY <1>1, <1>3, <1>4, <1>5 DEF CloseFrame, Before, Rising
  <1>7. OnWire' = OnWire /\ Reached' = Reached /\ Skipped' = Skipped
    BY <1>1 DEF OnWire, Reached, Skipped, Elements
  <1>8. Unaccounted' = Unaccounted
    BY <1>1, <1>2, <1>4, <1>7 DEF Unaccounted
  <1>9. InLine'
    <2>1. Before(Reached', InHand') /\ Before(Reached' \cup InHand', Queued')
      BY <1>2, <1>4, <1>6, <1>7 DEF ConnInv, InLine, Before
    <2>2. \A f \in (Reached \cup InHand \cup Queued)' : f <= sent'
      BY <1>1, <1>2, <1>4, <1>7 DEF ConnInv, InLine
    <2>3. Before(got, OnWire)' /\ Rising(wire)'
      BY <1>1, <1>7 DEF ConnInv, InLine, Before, Rising
    <2>4. QED
      BY <1>6, <2>1, <2>2, <2>3 DEF InLine, Before
  <1>10. DropsCounted'
    BY <1>1, <1>7, <1>8 DEF ConnInv, DropsCounted
  <1>11. TypeOK'
    BY <1>1, <1>2, ConnectionConstants DEF TypeOK
  <1>12. QED
    BY <1>1, <1>4, <1>9, <1>10, <1>11 DEF ConnInv, Handling, GoneReadsNothing, Nothing

\* Its WriteMessage returns.
LEMMA PumpWritesKeeps ==
    ASSUME ConnInv, PumpWrites
    PROVE  ConnInv'
  <1>1. /\ TypeOK /\ wire \in Seq(Frames \cup {CloseFrame}) /\ wire \in Seq(Nat)
        /\ pump.frame \in Frames /\ pump.frame # 0 /\ InHand = {pump.frame}
        /\ pump.pc = "write" /\ client # "gone"
        /\ UNCHANGED <<sent, out, dropped, counting, kicking, closed, reader, client, got, stalls>>
        /\ wire' = Append(wire, pump.frame)
        /\ pump' = [pc |-> "select", frame |-> Nothing]
    BY Places DEF ConnInv, PumpWrites, TypeOK, Handling, InHand, Nothing
  <1>2. /\ wire' \in Seq(Frames \cup {CloseFrame})
        /\ Elements(wire') = Elements(wire) \cup {pump.frame}
    BY <1>1, Appended
  <1>3. /\ OnWire' = OnWire \cup {pump.frame} /\ InHand' = {}
        /\ Reached' = Reached \cup {pump.frame} /\ Queued' = Queued
    <2>1. OnWire' = OnWire \cup {pump.frame}
      BY <1>1, <1>2 DEF OnWire, CloseFrame
    <2>2. InHand' = {}
      BY <1>1 DEF InHand
    <2>3. Queued' = Queued /\ got' = got
      BY <1>1 DEF Queued, Elements
    <2>4. QED
      BY <2>1, <2>2, <2>3 DEF Reached
  <1>4. /\ Reached \subseteq Nat /\ Queued \subseteq Nat /\ pump.frame \in Nat /\ sent \in Nat
        /\ got \subseteq Reached /\ OnWire \subseteq Reached
    <2>1. /\ Reached \subseteq Nat \ {0} /\ Queued \subseteq Nat \ {0} /\ InHand \subseteq Nat \ {0}
          /\ sent \in Nat
      BY <1>1, Places
    <2>2. QED
      BY <1>1, <2>1 DEF Reached
  <1>5. /\ \A f \in Reached : f < pump.frame
        /\ \A f \in Queued : pump.frame < f
        /\ \A f \in Reached, g \in Queued : f < g
        /\ pump.frame <= sent
    BY <1>1 DEF ConnInv, InLine, Before
  <1>6. Rising(wire)'
    <2>1. Before(Elements(wire) \ {CloseFrame}, {pump.frame})
      BY <1>4, <1>5 DEF Before, OnWire
    <2>2. Rising(Append(wire, pump.frame))
      BY <1>1, <1>4, <2>1, AppendRises DEF ConnInv, InLine
    <2>3. QED
      BY <1>1, <2>2 DEF Rising
  <1>7. InLine'
    <2>1. Before(got', OnWire')
      BY <1>1, <1>3, <1>4, <1>5 DEF ConnInv, InLine, Before
    <2>2. Before(Reached', InHand') /\ Before(Reached' \cup InHand', Queued')
      BY <1>3, <1>5 DEF Before
    <2>3. \A f \in (Reached \cup InHand \cup Queued)' : f <= sent'
      BY <1>1, <1>3, <1>5 DEF ConnInv, InLine
    <2>4. Rising(out)'
      BY <1>1 DEF ConnInv, InLine, Rising
    <2>5. QED
      BY <1>6, <2>1, <2>2, <2>3, <2>4 DEF InLine, Before
  <1>8. DropsCounted'
    <2>1. Unaccounted' = Unaccounted
      BY <1>1, <1>3 DEF Unaccounted
    <2>2. Skipped' \subseteq Unaccounted
      BY <1>1, <1>3, <1>4, <1>5 DEF Skipped, Unaccounted
    <2>3. /\ Cardinality(Skipped') \in Nat /\ Cardinality(Unaccounted) \in Nat
          /\ Cardinality(Skipped') <= Cardinality(Unaccounted)
      BY <1>4, <2>2, CountsAreFinite, FS_Subset, FS_CardinalityType
    <2>4. /\ Cardinality(Unaccounted) <= dropped + counting
          /\ dropped \in Nat /\ counting \in Nat
      BY <1>1, Places DEF ConnInv, DropsCounted
    <2>5. Cardinality(Skipped') <= dropped' + counting'
      BY <1>1, <2>3, <2>4
    <2>6. QED
      BY <1>1, <2>1, <2>4, <2>5 DEF ConnInv, DropsCounted
  <1>9. TypeOK'
    BY <1>1, <1>2 DEF TypeOK
  <1>10. QED
    BY <1>1, <1>7, <1>8, <1>9 DEF ConnInv, Handling, GoneReadsNothing, Nothing

\* It returns with an error, or the pump ends.
LEMMA PumpEndKeeps ==
    ASSUME ConnInv, PumpFails \/ PumpKicked \/ PumpDone
    PROVE  ConnInv'
  <1>1. /\ UNCHANGED <<sent, out, dropped, counting, kicking, closed, reader, client, got, stalls>>
        /\ pump' = [pc |-> "over", frame |-> Nothing]
        /\ CloseWritten \/ UNCHANGED wire
    BY DEF PumpFails, PumpKicked, PumpDone, PumpOver
  <1>2. /\ wire' \in Seq(Frames \cup {CloseFrame}) /\ OnWire' = OnWire /\ Rising(wire)'
        /\ client = "gone" => wire' = <<>>
    BY <1>1, CloseFrameIsApart
  <1>3. InHand' \subseteq InHand /\ pump'.pc = "over"
    BY <1>1 DEF InHand
  <1>4. InLine' /\ DropsCounted'
    BY <1>1, <1>2, <1>3, NothingMoves
  <1>5. TypeOK'
    BY <1>1, <1>2 DEF ConnInv, TypeOK
  <1>6. QED
    BY <1>1, <1>2, <1>4, <1>5 DEF ConnInv, Handling, GoneReadsNothing

LEMMA SendKeeps ==
    ASSUME ConnInv, Send \/ Fail
    PROVE  ConnInv'
  <1>1. /\ Enqueue /\ UNCHANGED <<pump, client, got, stalls>>
        /\ reader' \in {reader, "ended"}
        /\ CloseWritten \/ UNCHANGED wire
    BY DEF Send, Fail
  <1>2. /\ wire' \in Seq(Frames \cup {CloseFrame}) /\ OnWire' = OnWire /\ Rising(wire)'
        /\ client = "gone" => wire' = <<>>
    BY <1>1, CloseFrameIsApart
  <1>3. /\ sent' \in 0..MaxFrames /\ out' \in Seq(Frames) /\ Len(out') <= QueueLen
        /\ counting' \in Nat /\ dropped' + counting' <= sent'
        /\ UNCHANGED <<dropped, kicking, closed>>
        /\ InLine' /\ DropsCounted'
    BY <1>1, <1>2, EnqueueKeeps
  <1>4. TypeOK'
    BY <1>1, <1>2, <1>3 DEF ConnInv, TypeOK
  <1>5. QED
    BY <1>1, <1>2, <1>3, <1>4 DEF ConnInv, Handling, GoneReadsNothing

\* The client reads a frame, or the close frame.
LEMMA ClientReadsKeeps ==
    ASSUME ConnInv, ClientReads, Head(wire) # CloseFrame
    PROVE  ConnInv'
  <1>1. /\ TypeOK /\ wire \in Seq(Frames \cup {CloseFrame}) /\ wire \in Seq(Nat) /\ wire # <<>>
        /\ UNCHANGED <<sent, out, dropped, counting, kicking, closed, pump, reader, client, stalls>>
        /\ client = "reads"
        /\ got' = got \cup {Head(wire)} /\ wire' = Tail(wire)
        /\ Rising(wire)
    <2>1. TypeOK /\ wire \in Seq(Frames \cup {CloseFrame})
      BY DEF ConnInv, TypeOK
    <2>2. wire \in Seq(Nat)
      BY <2>1, Places
    <2>3. QED
      BY <2>1, <2>2 DEF ConnInv, ClientReads, InLine
  <1>2. /\ wire' \in Seq(Frames \cup {CloseFrame}) /\ Head(wire) \in Frames
        /\ Elements(wire) = {Head(wire)} \cup Elements(wire')
    <2>1. /\ Tail(wire) \in Seq(Frames \cup {CloseFrame})
          /\ Head(wire) \in Frames \cup {CloseFrame}
          /\ Elements(wire) = {Head(wire)} \cup Elements(Tail(wire))
      BY <1>1, Shifted
    <2>2. QED
      BY <1>1, <2>1
  <1>3. Rising(Tail(wire)) /\ Before({Head(wire)}, Elements(Tail(wire)) \ {CloseFrame})
    BY <1>1, TailRises
  <1>4. /\ OnWire = {Head(wire)} \cup OnWire' /\ Reached' = Reached
        /\ InHand' = InHand /\ Queued' = Queued
    <2>1. OnWire = {Head(wire)} \cup OnWire'
      BY <1>2 DEF OnWire
    <2>2. InHand' = InHand /\ Queued' = Queued
      BY <1>1 DEF InHand, Queued, Elements
    <2>3. QED
      BY <1>1, <2>1, <2>2 DEF Reached
  <1>5. Skipped' = Skipped /\ Unaccounted' = Unaccounted
    BY <1>1, <1>4 DEF Skipped, Unaccounted
  <1>6. InLine'
    <2>1. Before(got', OnWire')
      <3>1. Before(got, OnWire) /\ Before({Head(wire)}, OnWire')
        BY <1>1, <1>3 DEF ConnInv, InLine, OnWire, Elements
      <3>2. QED
        BY <1>1, <1>4, <3>1 DEF Before
    <2>2. Rising(wire)' /\ Rising(out)'
      BY <1>1, <1>3 DEF ConnInv, InLine, Rising
    <2>3. QED
      BY <1>1, <1>4, <2>1, <2>2 DEF ConnInv, InLine, Before
  <1>7. DropsCounted'
    BY <1>1, <1>5 DEF ConnInv, DropsCounted
  <1>8. TypeOK'
    BY <1>1, <1>2 DEF TypeOK
  <1>9. QED
    BY <1>1, <1>6, <1>7, <1>8 DEF ConnInv, Handling, GoneReadsNothing

\* A client that goes leaves what it has not read.
LEMMA ClientGoesKeeps ==
    ASSUME ConnInv, client' = "gone", wire' = <<>>,
           UNCHANGED <<sent, out, dropped, counting, kicking, closed, pump, reader, got, stalls>>
    PROVE  ConnInv'
  <1>1. OnWire' = {} /\ DOMAIN wire' = {} /\ wire' \in Seq(Frames \cup {CloseFrame})
    BY EmptySeq DEF OnWire, Elements
  <1>2. /\ Reached' = got /\ got \subseteq Reached /\ InHand' = InHand /\ Queued' = Queued
        /\ Before(got, OnWire) /\ Reached = got \cup OnWire
    BY <1>1 DEF Reached, InHand, Queued, Elements, ConnInv, InLine
  <1>3. /\ TypeOK /\ sent \in Nat /\ dropped \in Nat /\ counting \in Nat /\ kicking \in Nat
        /\ Reached \subseteq Nat
    BY Places DEF ConnInv
  <1>4. InLine'
    BY <1>1, <1>2 DEF ConnInv, InLine, Before, Rising
  <1>5. DropsCounted'
    <2>1. Skipped' \subseteq Skipped
      <3>1. ASSUME NEW f \in 1..sent, f \notin got, NEW g \in got, f < g
            PROVE  f \in Skipped
        <4>1. f \notin OnWire
          BY <1>2, <1>3, <3>1 DEF Before
        <4>2. QED
          BY <1>2, <3>1, <4>1 DEF Skipped
      <3>2. QED
        BY <1>2, <3>1 DEF Skipped
    <2>2. /\ Cardinality(Skipped') <= Cardinality(Skipped) /\ Cardinality(Skipped') \in Nat
          /\ Cardinality(Skipped) \in Nat
      BY <1>3, <2>1, CountsAreFinite, FS_Subset, FS_CardinalityType
    <2>3. QED
      BY <1>3, <2>2 DEF ConnInv, DropsCounted
  <1>6. TypeOK'
    BY <1>1, <1>3 DEF TypeOK
  <1>7. QED
    BY <1>4, <1>5, <1>6 DEF ConnInv, Handling, GoneReadsNothing

\* Everything else.
LEMMA RestKeeps ==
    ASSUME ConnInv,
           \/ Kick \/ ReadFails \/ Detach \/ CloseConn
           \/ Silence \/ Stall \/ Resume \/ UNCHANGED vars
    PROVE  ConnInv'
  <1>1. /\ UNCHANGED <<sent, out, dropped, counting, kicking, pump, wire, got>>
        /\ closed => closed'
        /\ client' # client => client # "gone" /\ client' # "gone"
    BY DEF Kick, ReadFails, Detach, CloseConn, Silence, Stall, Resume, vars
  <1>2. TypeOK'
    <2>1. TypeOK
      BY DEF ConnInv
    <2>2. CASE Kick
      BY <2>1, <2>2 DEF TypeOK, Kick
    <2>3. CASE ReadFails \/ Detach \/ CloseConn
      BY <2>1, <2>3 DEF TypeOK, ReadFails, Detach, CloseConn
    <2>4. CASE Silence \/ Resume \/ UNCHANGED vars
      BY <2>1, <2>4 DEF TypeOK, Silence, Resume, vars
    <2>5. CASE Stall
      <3>1. stalls + 1 \in 0..MaxStalls
        BY <2>1, <2>5, ConnectionConstants DEF TypeOK, Stall
      <3>2. QED
        BY <2>1, <2>5, <3>1 DEF TypeOK, Stall
    <2>6. QED
      BY <2>2, <2>3, <2>4, <2>5
  <1>3. OnWire' = OnWire /\ Rising(wire)' /\ InHand' = InHand
    BY <1>1 DEF OnWire, InHand, Elements, ConnInv, InLine, Rising
  <1>4. InLine' /\ DropsCounted'
    BY <1>1, <1>3, NothingMoves
  <1>5. QED
    BY <1>1, <1>2, <1>4 DEF ConnInv, Handling, GoneReadsNothing

LEMMA NextKeeps == ConnInv /\ [Next]_vars => ConnInv'
  <1> SUFFICES ASSUME ConnInv, [Next]_vars PROVE ConnInv'
    OBVIOUS
  <1>1. CASE Send \/ Fail
    BY <1>1, SendKeeps
  <1>2. CASE CountDrop \/ KickSlow
    BY <1>2, RefusalKeeps
  <1>3. CASE PumpTake
    BY <1>3, PumpTakeKeeps
  <1>4. CASE PumpWrites
    BY <1>4, PumpWritesKeeps
  <1>5. CASE PumpFails \/ PumpKicked \/ PumpDone
    BY <1>5, PumpEndKeeps
  <1>6. CASE ClientReads
    <2>1. CASE Head(wire) = CloseFrame
      BY <1>6, <2>1, ClientGoesKeeps DEF ClientReads
    <2>2. CASE Head(wire) # CloseFrame
      BY <1>6, <2>2, ClientReadsKeeps
    <2>3. QED
      BY <2>1, <2>2
  <1>7. CASE ClientCloses
    BY <1>7, ClientGoesKeeps DEF ClientCloses
  <1>8. CASE \/ Kick \/ ReadFails \/ Detach \/ CloseConn
             \/ Silence \/ Stall \/ Resume \/ UNCHANGED vars
    BY <1>8, RestKeeps
  <1>9. QED
    BY <1>1, <1>2, <1>3, <1>4, <1>5, <1>6, <1>7, <1>8 DEF Next

-----------------------------------------------------------------------------
\* What follows.

LEMMA ConnInvHolds == Spec => []ConnInv
  <1>1. QED
    BY InitEstablishes, NextKeeps, PTL DEF Spec

\* Every reachable state is well typed: the queue never holds more frames than
\* Conn.out has room for, and every drop counted is one of a frame that was sent
\* (hub.go:101-112).
THEOREM ConnectionTypeCorrect == Spec => []TypeOK
  <1>1. ConnInv => TypeOK
    BY DEF ConnInv
  <1>2. QED
    BY ConnInvHolds, <1>1, PTL

\* A client that misses SlowDropLimit of the frames sent before one it has was
\* kicked (hub.go:107-109), but for those whose senders are still at it: nothing
\* else than a full queue makes it miss one.
THEOREM WhoIsBehindIsKicked == Spec => []KickedWhenBehind
  <1>1. ASSUME ConnInv
        PROVE  KickedWhenBehind
    <2>1. /\ TypeOK /\ sent \in Nat /\ dropped \in Nat /\ counting \in Nat /\ kicking \in Nat
          /\ Reached \subseteq Nat
      BY <1>1, Places DEF ConnInv
    <2>2. Missed \subseteq Skipped
      <3>1. ASSUME NEW f \in Frames, f \notin got, NEW g \in got, f < g
            PROVE  f \in Skipped
        <4>1. g \in Reached /\ g <= sent /\ g \in Nat /\ f \in Nat \ {0}
          BY <1>1, <2>1, <3>1, ConnectionConstants
             DEF Reached, ConnInv, InLine, Frames
        <4>2. f \in 1..sent
          BY <2>1, <3>1, <4>1
        <4>3. f \notin OnWire
          BY <1>1, <2>1, <3>1, <4>1 DEF ConnInv, InLine, Before, Reached
        <4>4. QED
          BY <3>1, <4>1, <4>2, <4>3 DEF Skipped, Reached
      <3>2. QED
        BY <3>1 DEF Missed
    <2>3. /\ Cardinality(Missed) <= Cardinality(Skipped) /\ Cardinality(Missed) \in Nat
          /\ Cardinality(Skipped) \in Nat
      BY <2>1, <2>2, CountsAreFinite, FS_Subset, FS_CardinalityType
    <2>4. Cardinality(Missed) >= SlowDropLimit + counting + kicking =>
            dropped >= SlowDropLimit + kicking
      BY <1>1, <2>1, <2>3, ConnectionConstants DEF ConnInv, DropsCounted
    <2>5. QED
      BY <1>1, <2>4 DEF ConnInv, DropsCounted, KickedWhenBehind
  <1>2. QED
    BY ConnInvHolds, <1>1, PTL

=============================================================================
